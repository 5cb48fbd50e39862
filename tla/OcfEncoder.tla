----------------------------- MODULE OcfEncoder ------------------------------
(***************************************************************************)
(* ocf.Encoder: one encoder writing container files to a series of         *)
(* outputs that may fail, fall short, or die in the middle of a Write.     *)
(*                                                                         *)
(* Encode and Write collect records in buf; a full block goes to the       *)
(* avro.Writer's own buffer (wbuf) and from there, in one call, to the     *)
(* output.  Reset moves the encoder to the next output; NewEncoder on a    *)
(* non-empty file appends to it.  Every exported method is one action: an  *)
(* Encoder is not safe for concurrent use.                                 *)
(***************************************************************************)
EXTENDS OcfFormat

CONSTANTS
  MaxOutputs,   \* bound: outputs, attached in the order 1, 2, ...
  Formats,      \* the (schema, codec) pairs a caller may configure
  BlockLength,  \* WithBlockLength: records per block, 0 for no limit
  BlockSize,    \* WithBlockSize: bytes per block, 0 for no limit
  RecordSizes,  \* encoded sizes a record may have
  MaxRecords    \* bound: number of calls that hand over a record

ASSUME OutputsAssumption == MaxOutputs \in Nat \ {0}
ASSUME FormatsAssumption == Formats # {}
ASSUME LimitsAssumption  == BlockLength \in Nat /\ BlockSize \in Nat /\ MaxRecords \in Nat
ASSUME SizesAssumption   == RecordSizes \subseteq Nat

VARIABLES
  files,     \* what each output has received
  cur,       \* the output the encoder writes to
  up,        \* the process holds an encoder (it crashes in between)
  header,    \* Encoder.header: format and sync marker of the next header
  fmt,       \* format of Encoder.encoder and Encoder.codec
  sync,      \* Encoder.sync
  count, buf, bufLen,        \* Encoder.count, Encoder.buf and its Len()
  innerErr,  \* the sticky error of the avro.Encoder that fills buf
  wbuf, werr,                \* Writer.buf, Writer.Error # nil
  failed, closed,            \* Encoder.failed, Encoder.closed
  ret,       \* the call that returned last and what it returned
  nextRec,   \* history: records handed over so far, plus one
  taken,     \* history: records of this session and those it found, per output
  landed,    \* history: records of the blocks that reached each output
  lossy      \* history: an error was returned for the output, or it crashed

encVars == << header, fmt, sync, count, buf, bufLen, innerErr, wbuf, werr, failed, closed >>
vars    == << files, cur, up, encVars, ret, nextRec, taken, landed, lossy >>

Outputs   == 1 .. MaxOutputs
Records   == 1 .. MaxRecords
Outcomes  == {"ok", "err", "crash"}   \* of the one Write a flush makes
Results   == {"nil", "ioerr", "sticky", "closedpipe", "rejected", "corrupt", "none"}
Ops       == {"NewEncoder", "Encode", "EncodeInvalid", "Write", "Flush", "Close", "Reset", "none"}

Init ==
  /\ files = [o \in Outputs |-> << >>]
  /\ cur = 1 /\ up = FALSE
  /\ fmt \in Formats /\ header = [fmt |-> fmt, sync |-> 1] /\ sync = 1
  /\ count = 0 /\ buf = << >> /\ bufLen = 0 /\ innerErr = FALSE
  /\ wbuf = << >> /\ werr = FALSE
  /\ failed = FALSE /\ closed = FALSE
  /\ ret = [op |-> "none", res |-> "none"]
  /\ nextRec = 1
  /\ taken = [o \in Outputs |-> << >>]
  /\ landed = [o \in Outputs |-> << >>]
  /\ lossy = [o \in Outputs |-> FALSE]
------------------------------------------------------------------------------
Return(op, res) == ret' = [op |-> op, res |-> res]

\* What one Writer.Flush of these cells sends to the output: nothing under a
\* sticky error, everything on success, some landing otherwise.
Sent(cells, sticky, outcome) ==
  IF sticky THEN {<< >>} ELSE IF outcome = "ok" THEN {cells} ELSE Landings(cells)

\* What stays in the writer's buffer.
Unsent(cells, outcome) == IF outcome = "ok" THEN << >> ELSE cells

\* Writer.Flush to output o; records are those of the block in cells, if any.
\* The buffer is emptied only on success, the error sticks.
WriterFlush(o, cells, records, sticky, outcome) ==
  /\ sticky => outcome # "ok"
  /\ \E part \in Sent(cells, sticky, outcome) :
       /\ files' = [files EXCEPT ![o] = @ \o part]
       /\ landed' = [landed EXCEPT ![o] = IF part = cells THEN @ \o records ELSE @]
  /\ wbuf' = Unsent(cells, outcome)
  /\ werr' = (outcome # "ok")
  /\ lossy' = [lossy EXCEPT ![o] = @ \/ outcome # "ok"]
  /\ up' = (outcome # "crash")

\* Mutants of WriterBlock: the records stay in buf; the count stays on failure.
WriterBlockKeepsBuf(n, records, size, outcome) ==
  /\ WriterFlush(cur, wbuf \o Block(fmt, n, records, size, sync), records, werr, outcome)
  /\ count' = 0 /\ buf' = records /\ bufLen' = 0

WriterBlockKeepsOnFailure(n, records, size, outcome) ==
  /\ WriterFlush(cur, wbuf \o Block(fmt, n, records, size, sync), records, werr, outcome)
  /\ IF outcome = "ok" THEN count' = 0 /\ buf' = << >> /\ bufLen' = 0
     ELSE count' = n /\ buf' = records /\ bufLen' = size

\* writerBlock with n buffered records: the count is reset and buf emptied
\* whatever becomes of the flush.
WriterBlock(n, records, size, outcome) ==
  /\ WriterFlush(cur, wbuf \o Block(fmt, n, records, size, sync), records, werr, outcome)
  /\ count' = 0 /\ buf' = << >> /\ bufLen' = 0

ShouldWriteDataBlock(n, size) ==
  \/ BlockLength # 0 /\ n >= BlockLength
  \/ BlockSize # 0 /\ size >= BlockSize

\* What Encode and Write do once the record's bytes are in buf.
AddRecord(op, size, outcome) ==
  LET n       == count + 1
      records == Append(buf, nextRec)
      length  == bufLen + size
  IN  /\ nextRec' = nextRec + 1
      /\ taken' = [taken EXCEPT ![cur] = Append(@, nextRec)]
      /\ \/ /\ ShouldWriteDataBlock(n, length)
            /\ WriterBlock(n, records, length, outcome)
            /\ failed' = (outcome # "ok")
            /\ Return(op, IF outcome = "ok" THEN "nil" ELSE "ioerr")
         \/ /\ ~ShouldWriteDataBlock(n, length)
            /\ outcome = "ok"
            /\ count' = n /\ buf' = records /\ bufLen' = length
            /\ failed' = werr
            /\ Return(op, IF werr THEN "ioerr" ELSE "nil")
            /\ UNCHANGED << files, up, wbuf, werr, landed, lossy >>
      /\ UNCHANGED << cur, header, fmt, sync, innerErr, closed >>

Refused(op) ==
  /\ up /\ (closed \/ failed)
  /\ Return(op, IF closed THEN "closedpipe" ELSE "sticky")
  /\ UNCHANGED << files, cur, up, encVars, nextRec, taken, landed, lossy >>
------------------------------------------------------------------------------
\* Encoder.Write: bytes of one already encoded record.
Write(outcome) ==
  \/ Refused("Write")
  \/ /\ up /\ ~closed /\ ~failed /\ nextRec \in Records
     /\ \E size \in RecordSizes : AddRecord("Write", size, outcome)

\* Encoder.Encode of a value the schema accepts.
Encode(outcome) ==
  \/ Refused("Encode")
  \/ /\ up /\ ~closed /\ ~failed /\ ~innerErr /\ nextRec \in Records
     /\ \E size \in RecordSizes : AddRecord("Encode", size, outcome)

\* Mutant of EncodeRejected: the inner encoder keeps its error.
EncodeRejectedSticky(op) ==
  /\ up /\ ~closed /\ ~failed
  /\ op = "EncodeInvalid" \/ innerErr
  /\ innerErr' = TRUE
  /\ Return(op, "rejected")
  /\ UNCHANGED << files, cur, up, header, fmt, sync, count, buf, bufLen, wbuf, werr,
                  failed, closed, nextRec, taken, landed, lossy >>

\* Encoder.Encode whose inner encoder fails: the value does not fit the schema
\* (op = "EncodeInvalid"), or an earlier error was left behind.  Buf is
\* truncated to where it was and the inner encoder reset.
EncodeRejected(op) ==
  /\ up /\ ~closed /\ ~failed
  /\ op = "EncodeInvalid" \/ innerErr
  /\ innerErr' = FALSE
  /\ Return(op, "rejected")
  /\ UNCHANGED << files, cur, up, header, fmt, sync, count, buf, bufLen, wbuf, werr,
                  failed, closed, nextRec, taken, landed, lossy >>

\* Mutants: Flush repeats the writer's error; takes an empty buffer for no
\* records, though a record may be encoded in no bytes.
RepeatFailure == IF werr THEN "ioerr" ELSE "nil"
BufEmpty      == bufLen = 0

\* What Flush returns once the encoder has failed, and when it has nothing to do.
AfterFailure   == "nil"
NothingPending == count = 0

\* Encoder.Flush, also called by Close; it says what op returns.
DoFlush(op, outcome) ==
  \/ /\ failed
     /\ Return(op, AfterFailure)
     /\ UNCHANGED << files, up, count, buf, bufLen, wbuf, werr, failed, landed, lossy >>
  \/ /\ ~failed /\ NothingPending
     /\ failed' = werr
     /\ Return(op, IF werr THEN "ioerr" ELSE "nil")
     /\ UNCHANGED << files, up, count, buf, bufLen, wbuf, werr, landed, lossy >>
  \/ /\ ~failed /\ ~NothingPending
     /\ WriterBlock(count, buf, bufLen, outcome)
     /\ failed' = (outcome # "ok")
     /\ Return(op, IF outcome = "ok" THEN "nil" ELSE "ioerr")

Flush(outcome) ==
  /\ up
  /\ DoFlush("Flush", outcome)
  /\ UNCHANGED << cur, header, fmt, sync, innerErr, closed, nextRec, taken >>

Close(outcome) ==
  /\ up
  /\ \/ /\ closed
        /\ Return("Close", "nil")
        /\ UNCHANGED << files, up, count, buf, bufLen, wbuf, werr, failed, closed, landed, lossy >>
     \/ /\ ~closed
        /\ closed' = TRUE
        /\ DoFlush("Close", outcome)
  /\ UNCHANGED << cur, header, fmt, sync, innerErr, nextRec, taken >>

\* Mutants: Reset drops the pending records; takes an empty buffer for none.
ResetDrops   == FALSE
ResetIfBytes == bufLen > 0 /\ ~failed

\* Reset flushes when records are pending; Flush does nothing after a failure.
ResetFlushes == count > 0 /\ ~failed

\* Encoder.Reset whose flush of pending records fails: the encoder stays on
\* its output.
ResetFlushFails(outcome) ==
  /\ up /\ cur + 1 \in Outputs
  /\ ResetFlushes
  /\ outcome # "ok"
  /\ WriterBlock(count, buf, bufLen, outcome)
  /\ failed' = TRUE
  /\ Return("Reset", "ioerr")
  /\ UNCHANGED << cur, header, fmt, sync, innerErr, closed, nextRec, taken >>

\* Encoder.Reset that reaches the next output: pending records (if the encoder
\* has not failed) are flushed to the old one, then the header, with a fresh
\* sync marker, is written to the new one.
ResetAttach(outcome) ==
  LET flushes == ResetFlushes
      new     == cur + 1
      head    == << HeaderCell(header.fmt, new) >>
      pending == wbuf \o Block(fmt, count, buf, bufLen, sync)
  IN  /\ up /\ new \in Outputs
      /\ \E part \in Sent(head, FALSE, outcome) :
           files' = [files EXCEPT ![cur] = IF flushes THEN @ \o pending ELSE @,
                                  ![new] = @ \o part]
      /\ landed' = [landed EXCEPT ![cur] = IF flushes THEN @ \o buf ELSE @]
      /\ lossy' = [lossy EXCEPT ![new] = outcome # "ok"]
      /\ up' = (outcome # "crash")
      /\ cur' = new
      /\ header' = [header EXCEPT !.sync = new] /\ sync' = new
      /\ wbuf' = Unsent(head, outcome)
      /\ werr' = (outcome # "ok")
      /\ \/ /\ outcome = "ok" \/ flushes
            /\ count' = 0 /\ buf' = << >> /\ bufLen' = 0
         \/ /\ outcome # "ok" /\ ~flushes
            /\ UNCHANGED << count, buf, bufLen >>
      /\ innerErr' = (outcome # "ok" /\ innerErr)
      /\ failed' = (outcome # "ok")
      /\ closed' = (outcome # "ok" /\ closed)
      /\ Return("Reset", IF outcome = "ok" THEN "nil" ELSE "ioerr")
      /\ UNCHANGED << fmt, nextRec, taken >>
------------------------------------------------------------------------------
\* A constructor may run when there is no encoder, or the last one was closed.
MayConstruct == ~up \/ closed
Target == {cur, cur + 1} \cap Outputs

\* A complete new Encoder on output o.
Constructed(o, format, marker) ==
  /\ cur' = o /\ up' = TRUE
  /\ header' = [fmt |-> format, sync |-> marker] /\ fmt' = format /\ sync' = marker
  /\ count' = 0 /\ buf' = << >> /\ bufLen' = 0 /\ innerErr' = FALSE
  /\ wbuf' = << >> /\ werr' = FALSE /\ failed' = FALSE /\ closed' = FALSE

\* newEncoderFrom on an empty output: the header goes out first, and an encoder
\* exists only if it went out whole.
NewEncoder(o, format, outcome) ==
  LET head == << HeaderCell(format, o) >> IN
  /\ MayConstruct /\ o \in Target /\ files[o] = << >>
  /\ \E part \in Sent(head, FALSE, outcome) : files' = [files EXCEPT ![o] = part]
  /\ lossy' = [lossy EXCEPT ![o] = outcome # "ok"]
  /\ taken' = [taken EXCEPT ![o] = << >>]
  /\ Return("NewEncoder", IF outcome = "ok" THEN "nil" ELSE "ioerr")
  /\ IF outcome = "ok" THEN Constructed(o, format, o)
     ELSE cur' = o /\ up' = FALSE /\ UNCHANGED encVars
  /\ UNCHANGED << nextRec, landed >>

\* newEncoderFrom on a non-empty file: the file's own schema, codec and sync
\* marker win over the configured ones, and the file must be whole.
NewEncoderAppend(o) ==
  /\ MayConstruct /\ o \in Target /\ files[o] # << >>
  /\ \/ /\ ReadsHeader(files[o]) /\ SkipToEnd(files[o], files[o][1].sync)
        /\ Constructed(o, files[o][1].fmt, files[o][1].sync)
        /\ lossy' = [lossy EXCEPT ![o] = FALSE]
        /\ taken' = [taken EXCEPT ![o] = landed[o]]
        /\ Return("NewEncoder", "nil")
     \/ /\ ~(ReadsHeader(files[o]) /\ SkipToEnd(files[o], files[o][1].sync))
        /\ cur' = o /\ up' = FALSE
        /\ Return("NewEncoder", "corrupt")
        /\ UNCHANGED << encVars, lossy, taken >>
  /\ UNCHANGED << files, nextRec, landed >>

\* The process dies between two calls; buffered records die with it.
Crash ==
  /\ up
  /\ up' = FALSE
  /\ lossy' = [lossy EXCEPT ![cur] = TRUE]
  /\ UNCHANGED << files, cur, encVars, ret, nextRec, taken, landed >>

Next ==
  \/ \E outcome \in Outcomes :
       \/ Write(outcome) \/ Encode(outcome) \/ Flush(outcome) \/ Close(outcome)
       \/ ResetFlushFails(outcome) \/ ResetAttach(outcome)
       \/ \E o \in Target, format \in Formats : NewEncoder(o, format, outcome)
  \/ \E op \in {"Encode", "EncodeInvalid"} : EncodeRejected(op)
  \/ \E o \in Target : NewEncoderAppend(o)
  \/ Crash

Spec == Init /\ [][Next]_vars
------------------------------------------------------------------------------
Cells ==
  [kind : {"header"}, fmt : Formats, sync : Outputs]
    \cup [kind : {"count", "size"}, n : Nat]
    \cup [kind : {"data"}, fmt : Formats, recs : Seq(Records)]
    \cup [kind : {"sync"}, sync : Outputs]
    \cup [kind : {"torn"}]

\* Every variable keeps its type; the counters of the encoder stay naturals.
TypeOK ==
  /\ files \in [Outputs -> Seq(Cells)]
  /\ cur \in Outputs /\ up \in BOOLEAN
  /\ header \in [fmt : Formats, sync : Outputs]
  /\ fmt \in Formats /\ sync \in Outputs
  /\ count \in Nat /\ buf \in Seq(Records) /\ bufLen \in Nat /\ innerErr \in BOOLEAN
  /\ wbuf \in Seq(Cells) /\ werr \in BOOLEAN
  /\ failed \in BOOLEAN /\ closed \in BOOLEAN
  /\ ret \in [op : Ops, res : Results]
  /\ nextRec \in 1 .. MaxRecords + 1
  /\ taken \in [Outputs -> Seq(Records)]
  /\ landed \in [Outputs -> Seq(Records)]
  /\ lossy \in [Outputs -> BOOLEAN]

\* No accepted record is lost in silence: unless an error was returned for the
\* output (or the process died), the blocks that reached it and the buffered
\* records are together exactly what Encode and Write accepted, in order.
NothingLostSilently ==
  \A o \in Outputs : ~lossy[o] =>
     taken[o] = landed[o] \o (IF up /\ o = cur THEN buf ELSE << >>)

\* Flush, Close and Reset of an encoder that has not failed, when they return
\* nil, have delivered every record accepted for the output they were called
\* on; after Reset that is the output left behind, not the current one.
SuccessMeansDelivered ==
  [][(up /\ up' /\ ~failed /\ ret'.op \in {"Flush", "Close", "Reset"} /\ ret'.res = "nil")
       => landed'[cur] = taken[cur]]_vars

\* A record reaches at most one output, at most once and in the order it was
\* accepted, over errors, resets, crashes and appends.
DeliveredOnceInOrder ==
  LET recs(o) == RecordsOf(files[o]) IN
  \A o, p \in Outputs : \A i \in 1 .. Len(recs(o)), j \in 1 .. Len(recs(p)) :
    o < p \/ (o = p /\ i < j) => recs(o)[i] < recs(p)[j]

\* What an output received is a container file whose records are the landed
\* ones, save a torn tail when a write to it failed: block counts, formats and
\* markers agree with the header, also over Reset and append.
OutputsAreContainers ==
  \A o \in Outputs :
    \/ files[o] = << >> /\ landed[o] = << >>
    \/ IsContainer(files[o]) /\ RecordsOf(files[o]) = landed[o]
    \/ /\ lossy[o]
       /\ \E k \in 1 .. 4 : LET whole == SubSeq(files[o], 1, Len(files[o]) - k) IN
            /\ k <= Len(files[o])
            /\ IsContainer(whole) \/ whole = << >>
            /\ RecordsOf(whole) = landed[o]

\* The flag the methods test and the writer's sticky error agree, a failed
\* encoder holds no records, and a healthy one has nothing left in the writer.
FailedMatchesWriter ==
  up => /\ failed = werr
        /\ count = Len(buf)
        /\ (failed \/ closed) => count = 0
        /\ ~failed => wbuf = << >>

\* An output failure is returned by the call that met it, and not again by
\* Flush or Close.
FailureReturnedOnce ==
  [][/\ (up /\ up' /\ ~failed /\ failed') => ret'.res = "ioerr"
     /\ (up /\ up' /\ failed /\ ret'.op \in {"Flush", "Close"}) => ret'.res = "nil"]_vars

\* A rejected record leaves no trace: it changes no buffer, and no later valid
\* record is rejected because of it.
RejectionLeavesNoTrace ==
  [][ret'.res = "rejected" =>
       /\ ret'.op = "EncodeInvalid"
       /\ UNCHANGED << files, count, buf, bufLen, taken >>]_vars

Mode == IF ~up THEN "down" ELSE IF failed THEN "failed" ELSE IF closed THEN "closed" ELSE "open"

Stream == INSTANCE RecordStream WITH
  out <- cur, durable <- landed, pending <- IF up THEN buf ELSE << >>,
  mode <- Mode, next <- nextRec

\* The encoder, with its blocks, buffers and partial writes, does what the
\* abstract record stream allows and nothing else; a closed one, for example,
\* accepts and writes nothing until Reset reopens it.
ImplementsRecordStream == Stream!Spec
==============================================================================
