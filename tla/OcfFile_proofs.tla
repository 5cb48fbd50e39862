---------------------------- MODULE OcfFile_proofs ----------------------------
(***************************************************************************)
(* Proofs about the encoder and the files between it and OcfDecoder, for   *)
(* any number of outputs and records, any formats, limits and record       *)
(* sizes: first the encoder by itself, against its promise and its stream  *)
(* of records; then what its outputs hold, and what a reader that opens    *)
(* one of them, or a file from elsewhere, gets of it.                      *)
(***************************************************************************)
EXTENDS OcfFile, SequenceTheorems, TLAPS, Induction
------------------------------------------------------------------------------
(* The encoder. *)


\* What can be cut off a sequence of cells is a sequence of cells.
LEMMA PrefixOfSeq ==
  ASSUME NEW S, NEW s \in Seq(S), NEW k \in 0 .. Len(s)
  PROVE  SubSeq(s, 1, k) \in Seq(S)
OBVIOUS

\* What reaches an output is of the cells sent, or torn.
LEMMA SentFrom ==
  ASSUME NEW S, TornCell \in S, NEW cells \in Seq(S), NEW sticky \in BOOLEAN, NEW outcome \in Outcomes,
         NEW part \in Sent(cells, sticky, outcome)
  PROVE  part \in Seq(S)
<1>1. << >> \in Seq(S)
  OBVIOUS
<1>2. ASSUME part \in Landings(cells) PROVE part \in Seq(S)
  <2>1. \A k \in 0 .. Len(cells) : SubSeq(cells, 1, k) \in Seq(S)
    BY PrefixOfSeq
  <2>2. \A k \in 1 .. Len(cells) : k - 1 \in 0 .. Len(cells)
    OBVIOUS
  <2>3. \A k \in 1 .. Len(cells) : Append(SubSeq(cells, 1, k - 1), TornCell) \in Seq(S)
    BY <2>1, <2>2, AppendProperties
  <2>. QED  BY <1>2, <2>1, <2>3 DEF Landings
<1>. QED  BY <1>1, <1>2 DEF Sent

LEMMA SentCells ==
  ASSUME NEW cells \in Seq(Cells), NEW sticky \in BOOLEAN, NEW outcome \in Outcomes,
         NEW part \in Sent(cells, sticky, outcome)
  PROVE  part \in Seq(Cells)
<1>1. TornCell \in Cells
  BY DEF TornCell, Cells
<1>. QED  BY <1>1, SentFrom

\* A block and a header are cells, and not nothing.
LEMMA BlockCells ==
  ASSUME NEW f \in Formats, NEW n \in Nat, NEW records \in Seq(Records), NEW size \in Nat,
         NEW mark \in Outputs
  PROVE  Block(f, n, records, size, mark) \in Seq(Cells) /\ Len(Block(f, n, records, size, mark)) = 4
<1>1. CountCell(n) \in Cells
  BY DEF CountCell, Cells
<1>2. SizeCell(size) \in Cells
  BY DEF SizeCell, Cells
<1>3. DataCell(f, records) \in Cells
  BY DEF DataCell, Cells
<1>4. SyncCell(mark) \in Cells
  BY DEF SyncCell, Cells
<1>. QED  BY <1>1, <1>2, <1>3, <1>4 DEF Block

LEMMA HeaderCells ==
  ASSUME NEW f \in Formats, NEW mark \in Outputs
  PROVE  << HeaderCell(f, mark) >> \in Seq(Cells) /\ << HeaderCell(f, mark) >> # << >>
<1>1. HeaderCell(f, mark) \in Cells
  BY DEF HeaderCell, Cells
<1>. QED  BY <1>1

\* The header an append reads names a format and a sync mark.
LEMMA HeaderRead ==
  ASSUME NEW cells \in Seq(Cells), ReadsHeader(cells)
  PROVE  cells[1].fmt \in Formats /\ cells[1].sync \in Outputs
<1>1. cells[1] \in Cells
  BY EmptySeq, ElementOfSeq DEF ReadsHeader
<1>. QED  BY <1>1 DEF ReadsHeader, Cells
------------------------------------------------------------------------------
\* One flush of the writer's buffer keeps the types of what it touches.
LEMMA WriterFlushTypes ==
  ASSUME TypeOK, NEW o \in Outputs, NEW cells \in Seq(Cells), NEW records \in Seq(Records),
         NEW outcome \in Outcomes, WriterFlush(o, cells, records, werr, outcome)
  PROVE  /\ files' \in [Outputs -> Seq(Cells)] /\ landed' \in [Outputs -> Seq(Records)]
         /\ wbuf' \in Seq(Cells) /\ werr' \in BOOLEAN /\ up' \in BOOLEAN
         /\ lossy' \in [Outputs -> BOOLEAN]
<1>1. PICK part \in Sent(cells, werr, outcome) :
        /\ files' = [files EXCEPT ![o] = @ \o part]
        /\ landed' = [landed EXCEPT ![o] = IF part = cells THEN @ \o records ELSE @]
  BY DEF WriterFlush
<1>2. part \in Seq(Cells) /\ files[o] \in Seq(Cells) /\ landed[o] \in Seq(Records)
  BY SentCells DEF TypeOK
<1>3. files[o] \o part \in Seq(Cells) /\ landed[o] \o records \in Seq(Records)
  BY <1>2, ConcatProperties
<1>4. files' \in [Outputs -> Seq(Cells)] /\ landed' \in [Outputs -> Seq(Records)]
  BY <1>1, <1>2, <1>3 DEF TypeOK
<1>5. wbuf' \in Seq(Cells)
  BY DEF WriterFlush, Unsent
<1>6. werr' \in BOOLEAN /\ up' \in BOOLEAN /\ lossy' \in [Outputs -> BOOLEAN]
  BY DEF WriterFlush, TypeOK
<1>. QED  BY <1>4, <1>5, <1>6

LEMMA WriterBlockTypes ==
  ASSUME TypeOK, NEW n \in Nat, NEW records \in Seq(Records), NEW size \in Nat,
         NEW outcome \in Outcomes, WriterBlock(n, records, size, outcome)
  PROVE  /\ files' \in [Outputs -> Seq(Cells)] /\ landed' \in [Outputs -> Seq(Records)]
         /\ wbuf' \in Seq(Cells) /\ werr' \in BOOLEAN /\ up' \in BOOLEAN
         /\ lossy' \in [Outputs -> BOOLEAN]
         /\ count' \in Nat /\ buf' \in Seq(Records) /\ bufLen' \in Nat
<1>1. wbuf \o Block(fmt, n, records, size, sync) \in Seq(Cells) /\ cur \in Outputs
  BY BlockCells, ConcatProperties DEF TypeOK
<1>2. WriterFlush(cur, wbuf \o Block(fmt, n, records, size, sync), records, werr, outcome)
  BY DEF WriterBlock
<1>3. count' \in Nat /\ buf' \in Seq(Records) /\ bufLen' \in Nat
  BY DEF WriterBlock
<1>. QED  BY <1>1, <1>2, <1>3, WriterFlushTypes

LEMMA AddRecordTypes ==
  ASSUME TypeOK, NEW op \in Ops, NEW size \in RecordSizes, NEW outcome \in Outcomes,
         nextRec \in Records, AddRecord(op, size, outcome)
  PROVE  TypeOK'
<1>1. nextRec \in Nat /\ nextRec + 1 \in 1 .. MaxRecords + 1
  BY LimitsAssumption DEF Records, TypeOK
<1>2. /\ count + 1 \in Nat /\ bufLen + size \in Nat
      /\ Append(buf, nextRec) \in Seq(Records) /\ Append(taken[cur], nextRec) \in Seq(Records)
  BY SizesAssumption, AppendProperties DEF TypeOK
<1>3. nextRec' \in 1 .. MaxRecords + 1 /\ taken' \in [Outputs -> Seq(Records)]
  BY <1>1, <1>2 DEF AddRecord, TypeOK
<1>4. UNCHANGED << cur, header, fmt, sync, innerErr, closed >>
  BY DEF AddRecord
<1>5. CASE WriterBlock(count + 1, Append(buf, nextRec), bufLen + size, outcome) /\ failed' = (outcome # "ok")
           /\ Return(op, IF outcome = "ok" THEN "nil" ELSE "ioerr")
  <2>1. ret' \in [op : Ops, res : Results]
    BY <1>5 DEF Return, Results
  <2>. QED  BY <1>2, <1>3, <1>4, <1>5, <2>1, WriterBlockTypes DEF TypeOK
<1>6. CASE /\ count' = count + 1 /\ buf' = Append(buf, nextRec) /\ bufLen' = bufLen + size
           /\ failed' = werr /\ Return(op, IF werr THEN "ioerr" ELSE "nil")
           /\ UNCHANGED << files, up, wbuf, werr, landed, lossy >>
  <2>1. ret' \in [op : Ops, res : Results]
    BY <1>6 DEF Return, Results
  <2>. QED  BY <1>2, <1>3, <1>4, <1>6, <2>1 DEF TypeOK
<1>. QED  BY <1>5, <1>6 DEF AddRecord

LEMMA DoFlushTypes ==
  ASSUME TypeOK, NEW op \in Ops, NEW outcome \in Outcomes, DoFlush(op, outcome),
         closed' \in BOOLEAN, UNCHANGED << cur, header, fmt, sync, innerErr, nextRec, taken >>
  PROVE  TypeOK'
<1>1. ret' \in [op : Ops, res : Results]
  BY DEF DoFlush, Return, Results, AfterFailure
<1>2. CASE UNCHANGED << files, up, count, buf, bufLen, wbuf, werr, landed, lossy >>
           /\ failed' \in {failed, werr}
  BY <1>1, <1>2 DEF TypeOK
<1>3. CASE WriterBlock(count, buf, bufLen, outcome) /\ failed' = (outcome # "ok")
  <2>1. count \in Nat /\ buf \in Seq(Records) /\ bufLen \in Nat
    BY DEF TypeOK
  <2>. QED  BY <1>1, <1>3, <2>1, WriterBlockTypes DEF TypeOK
<1>. QED  BY <1>2, <1>3 DEF DoFlush

LEMMA ResetAttachTypes ==
  ASSUME TypeOK, NEW outcome \in Outcomes, ResetAttach(outcome)
  PROVE  TypeOK'
<1> DEFINE head    == << HeaderCell(header.fmt, cur + 1) >>
           pending == wbuf \o Block(fmt, count, buf, bufLen, sync)
<1>1. cur + 1 \in Outputs /\ cur \in Outputs /\ header.fmt \in Formats
  BY DEF ResetAttach, TypeOK
<1>2. head \in Seq(Cells)
  BY <1>1, HeaderCells
<1>3. pending \in Seq(Cells)
  BY BlockCells, ConcatProperties DEF TypeOK
<1>4. PICK part \in Sent(head, FALSE, outcome) :
        files' = [files EXCEPT ![cur] = IF ResetFlushes THEN @ \o pending ELSE @,
                               ![cur + 1] = @ \o part]
  BY DEF ResetAttach
<1>5. part \in Seq(Cells)
  BY <1>2, SentCells
<1>. HIDE DEF head, pending
<1>6. /\ files[cur] \o pending \in Seq(Cells) /\ files[cur + 1] \o part \in Seq(Cells)
      /\ landed[cur] \o buf \in Seq(Records)
  BY <1>1, <1>3, <1>5, ConcatProperties DEF TypeOK
<1>7. files' \in [Outputs -> Seq(Cells)]
  BY <1>1, <1>4, <1>6 DEF TypeOK
<1>8. landed' \in [Outputs -> Seq(Records)]
  BY <1>1, <1>6 DEF TypeOK, ResetAttach
<1>9. lossy' \in [Outputs -> BOOLEAN] /\ up' \in BOOLEAN /\ cur' \in Outputs /\ sync' \in Outputs
  BY <1>1 DEF TypeOK, ResetAttach
<1>10. header' \in [fmt : Formats, sync : Outputs]
  BY <1>1 DEF TypeOK, ResetAttach
<1>11. wbuf' \in Seq(Cells) /\ werr' \in BOOLEAN
  <2>1. wbuf' = << >> \/ wbuf' = head
    BY DEF ResetAttach, Unsent, head
  <2>2. werr' \in BOOLEAN
    BY DEF ResetAttach
  <2>. QED  BY <1>2, <2>1, <2>2, EmptySeq
<1>12. count' \in Nat /\ buf' \in Seq(Records) /\ bufLen' \in Nat
  <2>1. \/ count' = 0 /\ buf' = << >> /\ bufLen' = 0
        \/ count' = count /\ buf' = buf /\ bufLen' = bufLen
    BY DEF ResetAttach
  <2>2. << >> \in Seq(Records) /\ count \in Nat /\ buf \in Seq(Records) /\ bufLen \in Nat
    BY EmptySeq DEF TypeOK
  <2>3. CASE count' = 0 /\ buf' = << >> /\ bufLen' = 0
    <3>1. count' \in Nat /\ bufLen' \in Nat
      BY <2>3
    <3>2. buf' \in Seq(Records)
      BY <2>2, <2>3
    <3>. QED  BY <3>1, <3>2
  <2>4. CASE count' = count /\ buf' = buf /\ bufLen' = bufLen
    BY <2>2, <2>4
  <2>. QED  BY <2>1, <2>3, <2>4
<1>13. innerErr' \in BOOLEAN /\ failed' \in BOOLEAN /\ closed' \in BOOLEAN
  BY DEF TypeOK, ResetAttach
<1>14. ret' \in [op : Ops, res : Results]
  BY DEF ResetAttach, Return, Ops, Results
<1>15. UNCHANGED << fmt, nextRec, taken >>
  BY DEF ResetAttach
<1>. QED  BY <1>7, <1>8, <1>9, <1>10, <1>11, <1>12, <1>13, <1>14, <1>15 DEF TypeOK

LEMMA ConstructedTypes ==
  ASSUME TypeOK, NEW o \in Outputs, NEW format \in Formats, NEW mark \in Outputs,
         Constructed(o, format, mark)
  PROVE  /\ cur' \in Outputs /\ up' \in BOOLEAN
         /\ header' \in [fmt : Formats, sync : Outputs] /\ fmt' \in Formats /\ sync' \in Outputs
         /\ count' \in Nat /\ buf' \in Seq(Records) /\ bufLen' \in Nat /\ innerErr' \in BOOLEAN
         /\ wbuf' \in Seq(Cells) /\ werr' \in BOOLEAN /\ failed' \in BOOLEAN /\ closed' \in BOOLEAN
<1>1. << >> \in Seq(Cells) /\ << >> \in Seq(Records)
  BY EmptySeq
<1>2. header' \in [fmt : Formats, sync : Outputs]
  BY DEF Constructed
<1>. QED  BY <1>1, <1>2 DEF Constructed

LEMMA NewEncoderTypes ==
  ASSUME TypeOK, NEW o \in Target, NEW format \in Formats, NEW outcome \in Outcomes,
         NewEncoder(o, format, outcome)
  PROVE  TypeOK'
<1>1. o \in Outputs
  BY DEF Target
<1>2. PICK part \in Sent(<< HeaderCell(format, o) >>, FALSE, outcome) : files' = [files EXCEPT ![o] = part]
  BY DEF NewEncoder
<1>3. part \in Seq(Cells)
  BY <1>1, HeaderCells, SentCells
<1>4. files' \in [Outputs -> Seq(Cells)]
  BY <1>1, <1>2, <1>3 DEF TypeOK
<1>5. lossy' \in [Outputs -> BOOLEAN] /\ taken' \in [Outputs -> Seq(Records)]
  BY <1>1 DEF NewEncoder, TypeOK
<1>6. ret' \in [op : Ops, res : Results] /\ UNCHANGED << nextRec, landed >>
  BY DEF NewEncoder, Return, Ops, Results
<1>7. CASE Constructed(o, format, o)
  BY <1>1, <1>4, <1>5, <1>6, <1>7, ConstructedTypes DEF TypeOK
<1>8. CASE cur' = o /\ up' = FALSE /\ UNCHANGED encVars
  BY <1>1, <1>4, <1>5, <1>6, <1>8 DEF TypeOK, encVars
<1>. QED  BY <1>7, <1>8 DEF NewEncoder

LEMMA NewEncoderAppendTypes ==
  ASSUME TypeOK, NEW o \in Target, NewEncoderAppend(o)
  PROVE  TypeOK'
<1>1. o \in Outputs /\ files[o] \in Seq(Cells)
  BY DEF Target, TypeOK
<1>2. ret' \in [op : Ops, res : Results] /\ UNCHANGED << files, nextRec, landed >>
  BY DEF NewEncoderAppend, Return, Ops, Results
<1>3. CASE /\ ReadsHeader(files[o])
           /\ Constructed(o, files[o][1].fmt, files[o][1].sync)
           /\ lossy' = [lossy EXCEPT ![o] = FALSE] /\ taken' = [taken EXCEPT ![o] = landed[o]]
  <2>1. files[o][1].fmt \in Formats /\ files[o][1].sync \in Outputs
    BY <1>1, <1>3, HeaderRead
  <2>2. lossy' \in [Outputs -> BOOLEAN] /\ taken' \in [Outputs -> Seq(Records)]
    BY <1>1, <1>3 DEF TypeOK
  <2>. QED  BY <1>1, <1>2, <1>3, <2>1, <2>2, ConstructedTypes DEF TypeOK
<1>4. CASE cur' = o /\ up' = FALSE /\ UNCHANGED << encVars, lossy, taken >>
  BY <1>1, <1>2, <1>4 DEF TypeOK, encVars
<1>. QED  BY <1>3, <1>4 DEF NewEncoderAppend

\* Every variable keeps its type whatever the outputs do: in particular the
\* counters stay naturals and an output only ever holds cells.
THEOREM TypeCorrect == Spec => []TypeOK
<1>1. Init => TypeOK
  <2>. SUFFICES ASSUME Init PROVE TypeOK
    OBVIOUS
  <2>1. 1 \in Outputs /\ 1 \in 1 .. MaxRecords + 1
    BY OutputsAssumption, LimitsAssumption DEF Outputs
  <2>2. header \in [fmt : Formats, sync : Outputs]
    BY <2>1 DEF Init
  <2>. QED  BY <2>1, <2>2, EmptySeq DEF Init, TypeOK, Ops, Results
<1>2. TypeOK /\ [Next]_vars => TypeOK'
  <2>. SUFFICES ASSUME TypeOK, [Next]_vars PROVE TypeOK'
    OBVIOUS
  <2>1. ASSUME NEW op \in Ops, Refused(op) PROVE TypeOK'
    <3>1. ret' \in [op : Ops, res : Results]
      BY <2>1 DEF Refused, Return, Results
    <3>. QED  BY <2>1, <3>1 DEF Refused, TypeOK, encVars
  <2>2. ASSUME NEW outcome \in Outcomes, Write(outcome) \/ Encode(outcome) PROVE TypeOK'
    BY <2>1, <2>2, AddRecordTypes DEF Write, Encode, Ops
  <2>3. ASSUME NEW op \in {"Encode", "EncodeInvalid"}, EncodeRejected(op) PROVE TypeOK'
    <3>1. ret' \in [op : Ops, res : Results]
      BY <2>3 DEF EncodeRejected, Return, Ops, Results
    <3>. QED  BY <2>3, <3>1 DEF EncodeRejected, TypeOK
  <2>4. ASSUME NEW outcome \in Outcomes, Flush(outcome) PROVE TypeOK'
    <3>1. closed' \in BOOLEAN /\ "Flush" \in Ops
      BY <2>4 DEF Flush, TypeOK, Ops
    <3>. QED  BY <2>4, <3>1, DoFlushTypes DEF Flush
  <2>5. ASSUME NEW outcome \in Outcomes, Close(outcome) PROVE TypeOK'
    <3>1. CASE closed' = TRUE /\ DoFlush("Close", outcome)
      BY <2>5, <3>1, DoFlushTypes DEF Close, Ops
    <3>2. CASE /\ Return("Close", "nil")
               /\ UNCHANGED << files, up, count, buf, bufLen, wbuf, werr, failed, closed, landed, lossy >>
      <4>1. ret' \in [op : Ops, res : Results]
        BY <3>2 DEF Return, Ops, Results
      <4>. QED  BY <2>5, <3>2, <4>1 DEF Close, TypeOK
    <3>. QED  BY <2>5, <3>1, <3>2 DEF Close
  <2>6. ASSUME NEW outcome \in Outcomes, ResetFlushFails(outcome) PROVE TypeOK'
    <3>1. count \in Nat /\ buf \in Seq(Records) /\ bufLen \in Nat
      BY DEF TypeOK
    <3>2. ret' \in [op : Ops, res : Results]
      BY <2>6 DEF ResetFlushFails, Return, Ops, Results
    <3>. QED  BY <2>6, <3>1, <3>2, WriterBlockTypes DEF ResetFlushFails, TypeOK
  <2>7. ASSUME Crash PROVE TypeOK'
    BY <2>7 DEF Crash, TypeOK, encVars
  <2>8. CASE UNCHANGED vars
    BY <2>8 DEF vars, encVars, TypeOK
  <2>. QED  BY <2>2, <2>3, <2>4, <2>5, <2>6, <2>7, <2>8, ResetAttachTypes, NewEncoderTypes,
              NewEncoderAppendTypes DEF Next
<1>. QED  BY <1>1, <1>2, PTL DEF Spec
------------------------------------------------------------------------------
\* Outputs not reached yet are untouched, and no record landed without a byte.
OutputsInOrder ==
  \A o \in Outputs :
    /\ o > cur => files[o] = << >> /\ taken[o] = << >> /\ landed[o] = << >> /\ ~lossy[o]
    /\ files[o] = << >> => landed[o] = << >>

\* The inductive invariant.
EncoderInv == TypeOK /\ FailedMatchesWriter /\ OutputsInOrder /\ NothingLostSilently

\* An encoder without pending records has an empty buffer.
LEMMA NothingBuffered ==
  ASSUME TypeOK, FailedMatchesWriter, up, count = 0
  PROVE  buf = << >>
<1>1. buf \in Seq(Records) /\ Len(buf) = 0
  BY DEF TypeOK, FailedMatchesWriter
<1>. QED  BY <1>1, EmptySeq

LEMMA ConcatAppend ==
  \A s, t \in Seq(Records), e \in Records : s \o Append(t, e) = Append(s \o t, e)
<1>. TAKE s, t \in Seq(Records), e \in Records
<1>1. << e >> \in Seq(Records) /\ s \o t \in Seq(Records)
  BY ConcatProperties
<1>2. s \o (t \o << e >>) = (s \o t) \o << e >>
  BY <1>1, ConcatAssociative
<1>. QED  BY <1>1, <1>2, AppendIsConcat

\* Appending something to a sequence leaves something.
LEMMA LongerSeq ==
  ASSUME NEW S, NEW s \in Seq(S), NEW t \in Seq(S), Len(t) # 0
  PROVE  s \o t \in Seq(S) /\ Len(s \o t) # 0 /\ s \o t # << >>
<1>1. s \o t \in Seq(S) /\ Len(s \o t) = Len(s) + Len(t)
  BY ConcatProperties
<1>2. Len(s) \in Nat /\ Len(t) \in Nat
  OBVIOUS
<1>. QED  BY <1>1, <1>2, EmptySeq

LEMMA LongerSeq3 ==
  ASSUME NEW S, NEW s \in Seq(S), NEW t \in Seq(S), NEW u \in Seq(S), Len(u) = 4
  PROVE  s \o (t \o u) # << >>
<1>1. Len(u) # 0
  OBVIOUS
<1>2. t \o u \in Seq(S) /\ Len(t \o u) # 0
  BY <1>1, LongerSeq
<1>. QED  BY <1>2, LongerSeq

\* What a healthy encoder's writerBlock does: everything lands, or an error
\* comes back and then everything or nothing counts as landed.
LEMMA WriterBlockEffect ==
  ASSUME TypeOK, ~werr, NEW n \in Nat, NEW records \in Seq(Records), NEW size \in Nat,
         NEW outcome \in Outcomes, WriterBlock(n, records, size, outcome)
  PROVE  /\ count' = 0 /\ buf' = << >> /\ bufLen' = 0
         /\ werr' = (outcome # "ok") /\ up' = (outcome # "crash")
         /\ outcome = "ok" => wbuf' = << >>
         /\ lossy' = [lossy EXCEPT ![cur] = @ \/ outcome # "ok"]
         /\ \A o \in Outputs : o # cur => files'[o] = files[o]
         /\ \/ landed' = [landed EXCEPT ![cur] = @ \o records] /\ files'[cur] # << >>
            \/ outcome # "ok" /\ landed' = landed /\ (files'[cur] = << >> => files[cur] = << >>)
<1> DEFINE cells == wbuf \o Block(fmt, n, records, size, sync)
<1>1. cells \in Seq(Cells) /\ Len(cells) # 0
  <2>1. wbuf \in Seq(Cells) /\ fmt \in Formats /\ sync \in Outputs
    BY DEF TypeOK
  <2>2. Block(fmt, n, records, size, sync) \in Seq(Cells) /\ Len(Block(fmt, n, records, size, sync)) = 4
    BY <2>1, BlockCells
  <2>3. cells \in Seq(Cells)
    BY <2>1, <2>2, ConcatProperties
  <2>4. Len(Block(fmt, n, records, size, sync)) # 0
    BY <2>2
  <2>5. Len(cells) # 0
    BY <2>1, <2>2, <2>4, LongerSeq
  <2>. QED  BY <2>3, <2>5
<1>2. WriterFlush(cur, cells, records, werr, outcome) /\ count' = 0 /\ buf' = << >> /\ bufLen' = 0
  BY DEF WriterBlock
<1>. HIDE DEF cells
<1>3. PICK part \in Sent(cells, werr, outcome) :
        /\ files' = [files EXCEPT ![cur] = @ \o part]
        /\ landed' = [landed EXCEPT ![cur] = IF part = cells THEN @ \o records ELSE @]
  BY <1>2 DEF WriterFlush
<1>4. /\ files[cur] \in Seq(Cells) /\ part \in Seq(Cells) /\ cur \in Outputs
      /\ DOMAIN files = Outputs /\ DOMAIN landed = Outputs
  BY <1>1, SentCells DEF TypeOK
<1>5. files'[cur] = files[cur] \o part /\ \A o \in Outputs : o # cur => files'[o] = files[o]
  BY <1>3, <1>4
<1>6. CASE part = cells
  <2>1. landed' = [landed EXCEPT ![cur] = @ \o records]
    BY <1>3, <1>6
  <2>2. Len(files'[cur]) # 0
    <3>1. Len(files[cur] \o part) = Len(files[cur]) + Len(part)
      BY <1>4, ConcatProperties
    <3>2. Len(files[cur]) \in Nat /\ Len(part) \in Nat /\ Len(part) # 0
      BY <1>1, <1>4, <1>6
    <3>. QED  BY <1>5, <3>1, <3>2
  <2>3. files'[cur] # << >>
    BY <2>2, EmptySeq
  <2>. QED  BY <1>2, <1>5, <2>1, <2>3 DEF WriterFlush, Unsent
<1>7. CASE part # cells
  <2>1. landed' = landed
    BY <1>3, <1>7 DEF TypeOK
  <2>2. outcome # "ok"
    BY <1>7 DEF Sent
  <2>3. files'[cur] = << >> => files[cur] = << >>
    <3>1. Len(files[cur] \o part) = Len(files[cur]) + Len(part) /\ Len(files[cur]) \in Nat /\ Len(part) \in Nat
      BY <1>4, ConcatProperties
    <3>2. Len(<< >>) = 0
      BY EmptySeq
    <3>3. files'[cur] = << >> => Len(files[cur]) = 0
      BY <1>5, <3>1, <3>2
    <3>. QED  BY <1>4, <3>3, EmptySeq
  <2>. QED  BY <1>2, <1>5, <2>1, <2>2, <2>3 DEF WriterFlush, Unsent
<1>. QED  BY <1>6, <1>7

\* A call that writes a block on a healthy encoder keeps the invariant.
LEMMA BlockKeepsInv ==
  ASSUME EncoderInv, TypeOK', up, ~failed,
         NEW n \in Nat, NEW records \in Seq(Records), NEW size \in Nat, NEW outcome \in Outcomes,
         WriterBlock(n, records, size, outcome),
         cur' = cur, failed' = (outcome # "ok"),
         \A o \in Outputs : o # cur => taken'[o] = taken[o],
         ~lossy[cur] => taken'[cur] = landed[cur] \o records
  PROVE  EncoderInv'
<1>. USE DEF EncoderInv
<1>1. /\ ~werr /\ cur \in Outputs
      /\ DOMAIN landed = Outputs /\ DOMAIN lossy = Outputs
      /\ DOMAIN landed' = Outputs
  BY DEF FailedMatchesWriter, TypeOK
<1>2. /\ count' = 0 /\ buf' = << >> /\ werr' = (outcome # "ok") /\ (outcome = "ok" => wbuf' = << >>)
      /\ lossy' = [lossy EXCEPT ![cur] = @ \/ outcome # "ok"]
      /\ \A o \in Outputs : o # cur => files'[o] = files[o]
      /\ \/ landed' = [landed EXCEPT ![cur] = @ \o records] /\ files'[cur] # << >>
         \/ outcome # "ok" /\ landed' = landed /\ (files'[cur] = << >> => files[cur] = << >>)
  BY <1>1, WriterBlockEffect
<1>3. \A o \in Outputs : o # cur => landed'[o] = landed[o] /\ lossy'[o] = lossy[o]
  BY <1>1, <1>2
<1>4. FailedMatchesWriter'
  BY <1>2, EmptySeq DEF FailedMatchesWriter
<1>5. OutputsInOrder'
  <2>1. cur \in Int /\ \A o \in Outputs : o \in Int
    BY <1>1 DEF Outputs
  <2>2. files'[cur] = << >> => landed'[cur] = << >>
    BY <1>1, <1>2 DEF OutputsInOrder
  <2>. QED  BY <1>2, <1>3, <2>1, <2>2 DEF OutputsInOrder
<1>6. NothingLostSilently'
  <2>1. \A o \in Outputs : o # cur => (~lossy'[o] => taken'[o] = landed'[o] \o << >>)
    BY <1>3 DEF NothingLostSilently
  <2>2. ~lossy'[cur] => outcome = "ok" /\ ~lossy[cur]
    BY <1>1, <1>2
  <2>3. ~lossy'[cur] => taken'[cur] = landed'[cur]
    BY <1>1, <1>2, <2>2
  <2>4. landed'[cur] \in Seq(Records)
    BY <1>1 DEF TypeOK
  <2>5. landed'[cur] \o << >> = landed'[cur]
    BY <2>4, ConcatEmptySeq
  <2>. QED  BY <1>2, <2>1, <2>3, <2>5 DEF NothingLostSilently
<1>. QED  BY <1>4, <1>5, <1>6

\* So does a call that leaves the encoder, its output and its records alone.
LEMMA IdleKeepsInv ==
  ASSUME EncoderInv, TypeOK',
         UNCHANGED << files, cur, up, count, buf, wbuf, werr, taken, landed, lossy >>,
         failed' = failed, closed' = closed \/ failed \/ count = 0
  PROVE  EncoderInv'
<1>1. FailedMatchesWriter'
  BY DEF EncoderInv, FailedMatchesWriter
<1>2. OutputsInOrder'
  BY DEF EncoderInv, OutputsInOrder
<1>3. NothingLostSilently'
  BY DEF EncoderInv, NothingLostSilently
<1>. QED  BY <1>1, <1>2, <1>3 DEF EncoderInv

LEMMA AddRecordKeepsInv ==
  ASSUME EncoderInv, TypeOK', up, ~failed, ~closed, NEW op \in Ops, NEW size \in RecordSizes,
         NEW outcome \in Outcomes, nextRec \in Records, AddRecord(op, size, outcome)
  PROVE  EncoderInv'
<1>. USE DEF EncoderInv
<1>1. /\ cur \in Outputs /\ cur' = cur /\ DOMAIN taken = Outputs
      /\ landed[cur] \in Seq(Records) /\ buf \in Seq(Records)
      /\ taken' = [taken EXCEPT ![cur] = Append(@, nextRec)]
  BY DEF TypeOK, AddRecord
<1>2. ~lossy[cur] => taken'[cur] = landed[cur] \o Append(buf, nextRec)
  <2>1. ~lossy[cur] => taken[cur] = landed[cur] \o buf
    BY <1>1 DEF NothingLostSilently
  <2>2. landed[cur] \o Append(buf, nextRec) = Append(landed[cur] \o buf, nextRec)
    BY <1>1, ConcatAppend, Zenon
  <2>3. taken'[cur] = Append(taken[cur], nextRec)
    BY <1>1
  <2>. QED  BY <2>1, <2>2, <2>3
<1>3. \A o \in Outputs : o # cur => taken'[o] = taken[o]
  BY <1>1
<1>4. CASE WriterBlock(count + 1, Append(buf, nextRec), bufLen + size, outcome) /\ failed' = (outcome # "ok")
  <2>1. count + 1 \in Nat /\ bufLen + size \in Nat /\ Append(buf, nextRec) \in Seq(Records)
    BY SizesAssumption, AppendProperties DEF TypeOK
  <2>. QED  BY <1>1, <1>2, <1>3, <1>4, <2>1, BlockKeepsInv
<1>5. CASE /\ count' = count + 1 /\ buf' = Append(buf, nextRec) /\ failed' = werr
           /\ UNCHANGED << files, up, wbuf, werr, landed, lossy, closed >>
  <2>1. Len(Append(buf, nextRec)) = Len(buf) + 1
    BY <1>1, AppendProperties
  <2>2. FailedMatchesWriter'
    BY <1>5, <2>1 DEF FailedMatchesWriter
  <2>3. OutputsInOrder'
    <3>1. cur \in Int /\ \A o \in Outputs : o \in Int
      BY <1>1 DEF Outputs
    <3>2. OutputsInOrder
      OBVIOUS
    <3>3. \A o \in Outputs : o > cur => o # cur
      BY <3>1
    <3>. QED  BY <1>1, <1>3, <1>5, <3>2, <3>3 DEF OutputsInOrder
  <2>4. NothingLostSilently'
    BY <1>1, <1>2, <1>3, <1>5 DEF NothingLostSilently
  <2>. QED  BY <2>2, <2>3, <2>4
<1>. QED  BY <1>4, <1>5 DEF AddRecord

LEMMA DoFlushKeepsInv ==
  ASSUME EncoderInv, TypeOK', up, NEW op \in Ops, NEW outcome \in Outcomes, DoFlush(op, outcome),
         UNCHANGED << cur, taken >>, closed' = TRUE \/ closed' = closed
  PROVE  EncoderInv'
<1>. USE DEF EncoderInv
<1>1. failed = werr /\ (failed => count = 0)
  BY DEF FailedMatchesWriter
<1>2. CASE failed /\ UNCHANGED << files, up, count, buf, bufLen, wbuf, werr, failed, landed, lossy >>
  BY <1>1, <1>2 DEF FailedMatchesWriter, OutputsInOrder, NothingLostSilently
<1>3. CASE /\ ~failed /\ count = 0 /\ failed' = werr
           /\ UNCHANGED << files, up, count, buf, bufLen, wbuf, werr, landed, lossy >>
  BY <1>1, <1>3 DEF FailedMatchesWriter, OutputsInOrder, NothingLostSilently
<1>4. CASE ~failed /\ WriterBlock(count, buf, bufLen, outcome) /\ failed' = (outcome # "ok")
  <2>1. /\ count \in Nat /\ buf \in Seq(Records) /\ bufLen \in Nat
        /\ (~lossy[cur] => taken'[cur] = landed[cur] \o buf)
    BY DEF TypeOK, NothingLostSilently
  <2>. QED  BY <1>4, <2>1, BlockKeepsInv
<1>. QED  BY <1>2, <1>3, <1>4 DEF DoFlush, NothingPending

\* A header or nothing reaches a fresh output; nothing counts as landed there.
LEMMA ResetAttachKeepsInv ==
  ASSUME EncoderInv, TypeOK', NEW outcome \in Outcomes, ResetAttach(outcome)
  PROVE  EncoderInv'
<1>. USE DEF EncoderInv
<1>1. /\ up /\ cur \in Outputs /\ cur + 1 \in Outputs /\ cur' = cur + 1
      /\ cur \in Int /\ \A o \in Outputs : o \in Int
      /\ DOMAIN files = Outputs /\ DOMAIN landed = Outputs /\ DOMAIN lossy = Outputs
  BY DEF ResetAttach, TypeOK, Outputs
<1>2. /\ werr' = (outcome # "ok") /\ failed' = (outcome # "ok")
      /\ outcome = "ok" => wbuf' = << >> /\ ~closed'
      /\ lossy' = [lossy EXCEPT ![cur + 1] = outcome # "ok"]
      /\ taken' = taken
      /\ landed' = [landed EXCEPT ![cur] = IF ResetFlushes THEN @ \o buf ELSE @]
  BY DEF ResetAttach, Unsent
<1>3. count' = 0 /\ buf' = << >>
  <2>1. CASE outcome = "ok" \/ ResetFlushes
    BY <2>1 DEF ResetAttach
  <2>2. CASE outcome # "ok" /\ ~ResetFlushes
    <3>1. count = 0
      BY <1>1, <2>2 DEF ResetFlushes, FailedMatchesWriter, TypeOK
    <3>2. buf = << >>
      BY <1>1, <3>1, NothingBuffered
    <3>. QED  BY <2>2, <3>1, <3>2 DEF ResetAttach
  <2>. QED  BY <2>1, <2>2
<1>4. FailedMatchesWriter'
  BY <1>2, <1>3, EmptySeq DEF FailedMatchesWriter
<1>5. ASSUME NEW o \in Outputs, o # cur, o # cur + 1
      PROVE  files'[o] = files[o] /\ landed'[o] = landed[o] /\ lossy'[o] = lossy[o]
  <2>1. files'[o] = files[o]
    BY <1>1, <1>5 DEF ResetAttach
  <2>. QED  BY <1>1, <1>2, <1>5, <2>1
<1>6. /\ landed'[cur] = (IF ResetFlushes THEN landed[cur] \o buf ELSE landed[cur])
      /\ landed'[cur + 1] = landed[cur + 1] /\ lossy'[cur] = lossy[cur]
  BY <1>1, <1>2
<1>7. landed[cur + 1] = << >> /\ taken[cur + 1] = << >>
  BY <1>1 DEF OutputsInOrder
<1>8. files'[cur] = << >> => landed'[cur] = << >>
  <2>1. CASE ~ResetFlushes
    <3>1. files'[cur] = files[cur]
      BY <1>1, <2>1 DEF ResetAttach
    <3>. QED  BY <1>1, <1>6, <2>1, <3>1 DEF OutputsInOrder
  <2>2. CASE ResetFlushes
    <3>1. files'[cur] = files[cur] \o (wbuf \o Block(fmt, count, buf, bufLen, sync))
      BY <1>1, <2>2 DEF ResetAttach
    <3>2. /\ Block(fmt, count, buf, bufLen, sync) \in Seq(Cells)
          /\ Len(Block(fmt, count, buf, bufLen, sync)) = 4
      BY BlockCells DEF TypeOK
    <3>3. wbuf \in Seq(Cells) /\ files[cur] \in Seq(Cells)
      BY <1>1 DEF TypeOK
    <3>4. files'[cur] # << >>
      BY <3>1, <3>2, <3>3, LongerSeq3
    <3>. QED  BY <3>4
  <2>. QED  BY <2>1, <2>2
<1>9. OutputsInOrder'
  <2>1. ASSUME NEW o \in Outputs, o > cur + 1
        PROVE  files'[o] = << >> /\ taken'[o] = << >> /\ landed'[o] = << >> /\ ~lossy'[o]
    BY <1>1, <1>2, <1>5, <2>1 DEF OutputsInOrder
  <2>2. ASSUME NEW o \in Outputs PROVE files'[o] = << >> => landed'[o] = << >>
    BY <1>5, <1>6, <1>7, <1>8 DEF OutputsInOrder
  <2>. QED  BY <1>1, <2>1, <2>2 DEF OutputsInOrder
<1>10. NothingLostSilently'
  <2>1. ~lossy[cur] => taken[cur] = landed'[cur]
    <3>1. landed[cur] \in Seq(Records) /\ buf \in Seq(Records)
      BY <1>1 DEF TypeOK
    <3>2. ~lossy[cur] => taken[cur] = landed[cur] \o buf
      BY <1>1 DEF NothingLostSilently
    <3>3. ~ResetFlushes => count = 0
      BY <1>1 DEF ResetFlushes, FailedMatchesWriter, TypeOK
    <3>4. ~ResetFlushes => buf = << >>
      BY <1>1, <3>3, NothingBuffered
    <3>. QED  BY <1>6, <3>1, <3>2, <3>4, ConcatEmptySeq
  <2>2. ASSUME NEW o \in Outputs, ~lossy'[o] PROVE taken'[o] = landed'[o]
    <3>1. CASE o = cur
      BY <1>2, <1>6, <2>1, <2>2, <3>1
    <3>2. CASE o = cur + 1
      BY <1>2, <1>6, <1>7, <3>2
    <3>3. CASE o # cur /\ o # cur + 1
      <4>1. taken[o] = landed[o] \o << >> /\ landed[o] \in Seq(Records)
        BY <1>5, <2>2, <3>3 DEF NothingLostSilently, TypeOK
      <4>. QED  BY <1>2, <1>5, <3>3, <4>1, ConcatEmptySeq
    <3>. QED  BY <3>1, <3>2, <3>3
  <2>3. \A o \in Outputs : landed'[o] \in Seq(Records) /\ landed'[o] \o << >> = landed'[o]
    BY ConcatEmptySeq DEF TypeOK
  <2>. QED  BY <1>3, <2>2, <2>3 DEF NothingLostSilently
<1>. QED  BY <1>4, <1>9, <1>10

\* When a constructor may run, no records are pending.
LEMMA NothingPendingAtConstruct ==
  ASSUME EncoderInv, MayConstruct
  PROVE  (IF up THEN buf ELSE << >>) = << >>
<1>1. CASE up
  <2>1. count = 0
    BY <1>1 DEF MayConstruct, EncoderInv, FailedMatchesWriter
  <2>. QED  BY <1>1, <2>1, NothingBuffered DEF EncoderInv
<1>. QED  BY <1>1

LEMMA NewEncoderKeepsInv ==
  ASSUME EncoderInv, TypeOK', NEW o \in Target, NEW format \in Formats, NEW outcome \in Outcomes,
         NewEncoder(o, format, outcome)
  PROVE  EncoderInv'
<1>. USE DEF EncoderInv
<1>1. /\ o \in Outputs /\ o \in {cur, cur + 1} /\ cur \in Int /\ \A p \in Outputs : p \in Int
      /\ DOMAIN files = Outputs /\ DOMAIN lossy = Outputs /\ DOMAIN taken = Outputs
  BY DEF Target, TypeOK, Outputs
<1>2. /\ MayConstruct /\ files[o] = << >> /\ landed' = landed /\ cur' = o
      /\ lossy' = [lossy EXCEPT ![o] = outcome # "ok"] /\ taken' = [taken EXCEPT ![o] = << >>]
      /\ \/ /\ up' = TRUE /\ count' = 0 /\ buf' = << >> /\ wbuf' = << >>
            /\ failed' = FALSE /\ werr' = FALSE
         \/ up' = FALSE
  BY DEF NewEncoder, Constructed
<1>3. \A p \in Outputs : p # o => files'[p] = files[p] /\ lossy'[p] = lossy[p] /\ taken'[p] = taken[p]
  BY <1>1, <1>2 DEF NewEncoder
<1>4. landed[o] = << >> /\ taken'[o] = << >>
  BY <1>1, <1>2 DEF OutputsInOrder
<1>5. FailedMatchesWriter'
  BY <1>2, EmptySeq DEF FailedMatchesWriter
<1>6. OutputsInOrder'
  BY <1>1, <1>2, <1>3, <1>4 DEF OutputsInOrder
<1>7. NothingLostSilently'
  <2>1. ASSUME NEW p \in Outputs, p # o, ~lossy'[p] PROVE taken'[p] = landed'[p] \o << >>
    BY <1>2, <1>3, <2>1, NothingPendingAtConstruct DEF NothingLostSilently
  <2>2. taken'[o] = landed'[o] \o << >>
    <3>1. << >> \in Seq(Records)
      BY EmptySeq
    <3>2. << >> \o << >> = << >>
      BY <3>1, ConcatEmptySeq
    <3>. QED  BY <1>2, <1>4, <3>2
  <2>3. (IF up' /\ TRUE THEN buf' ELSE << >>) = << >>
    BY <1>2
  <2>. QED  BY <2>1, <2>2, <2>3 DEF NothingLostSilently
<1>. QED  BY <1>5, <1>6, <1>7

LEMMA NewEncoderAppendKeepsInv ==
  ASSUME EncoderInv, TypeOK', NEW o \in Target, NewEncoderAppend(o)
  PROVE  EncoderInv'
<1>. USE DEF EncoderInv
<1>1. /\ o \in Outputs /\ o \in {cur, cur + 1} /\ cur \in Int /\ \A p \in Outputs : p \in Int
      /\ DOMAIN lossy = Outputs /\ DOMAIN taken = Outputs
  BY DEF Target, TypeOK, Outputs
<1>2. /\ MayConstruct /\ files[o] # << >> /\ landed' = landed /\ files' = files /\ cur' = o
      /\ \/ /\ up' = TRUE /\ count' = 0 /\ buf' = << >> /\ wbuf' = << >>
            /\ failed' = FALSE /\ werr' = FALSE
            /\ lossy' = [lossy EXCEPT ![o] = FALSE] /\ taken' = [taken EXCEPT ![o] = landed[o]]
         \/ up' = FALSE /\ lossy' = lossy /\ taken' = taken
  BY DEF NewEncoderAppend, Constructed
<1>3. /\ \A p \in Outputs : p # o => lossy'[p] = lossy[p] /\ taken'[p] = taken[p]
      /\ ~lossy'[o] => (~lossy[o] /\ taken'[o] = taken[o]) \/ taken'[o] = landed[o]
  BY <1>1, <1>2
<1>4. o = cur
  BY <1>1, <1>2 DEF OutputsInOrder
<1>5. FailedMatchesWriter'
  BY <1>2, EmptySeq DEF FailedMatchesWriter
<1>6. OutputsInOrder'
  BY <1>1, <1>2, <1>3, <1>4 DEF OutputsInOrder
<1>7. NothingLostSilently'
  <2>1. \A p \in Outputs : landed[p] \in Seq(Records) /\ landed[p] \o << >> = landed[p]
    BY ConcatEmptySeq DEF TypeOK
  <2>2. \A p \in Outputs : ~lossy[p] => taken[p] = landed[p]
    BY <1>2, <2>1, NothingPendingAtConstruct DEF NothingLostSilently
  <2>3. \A p \in Outputs : ~lossy'[p] => taken'[p] = landed'[p] \o << >>
    BY <1>2, <1>3, <2>1, <2>2
  <2>4. (IF up' THEN buf' ELSE << >>) = << >>
    BY <1>2
  <2>. QED  BY <2>3, <2>4 DEF NothingLostSilently
<1>. QED  BY <1>5, <1>6, <1>7

LEMMA CrashKeepsInv ==
  ASSUME EncoderInv, TypeOK', Crash
  PROVE  EncoderInv'
<1>. USE DEF EncoderInv
<1>1. /\ cur \in Outputs /\ cur \in Int /\ \A o \in Outputs : o \in Int
      /\ up' = FALSE /\ lossy' = [lossy EXCEPT ![cur] = TRUE] /\ DOMAIN lossy = Outputs
      /\ UNCHANGED << files, cur, taken, landed >>
  BY DEF Crash, TypeOK, Outputs
<1>2. \A o \in Outputs : o # cur => lossy'[o] = lossy[o]
  BY <1>1
<1>3. lossy'[cur]
  BY <1>1
<1>4. FailedMatchesWriter'
  BY <1>1 DEF FailedMatchesWriter
<1>5. OutputsInOrder'
  <2>1. \A o \in Outputs : o > cur => o # cur
    BY <1>1
  <2>. QED  BY <1>1, <1>2, <2>1 DEF OutputsInOrder
<1>6. NothingLostSilently'
  <2>1. \A o \in Outputs : ~lossy'[o] => o # cur /\ ~lossy[o]
    BY <1>2, <1>3
  <2>. QED  BY <1>1, <2>1 DEF NothingLostSilently
<1>. QED  BY <1>4, <1>5, <1>6

LEMMA Inductive == Spec => []EncoderInv
<1>1. Init => FailedMatchesWriter /\ OutputsInOrder /\ NothingLostSilently
  <2>. SUFFICES ASSUME Init PROVE FailedMatchesWriter /\ OutputsInOrder /\ NothingLostSilently
    OBVIOUS
  <2>1. << >> \in Seq(Records)
    BY EmptySeq
  <2>2. << >> \o << >> = << >>
    BY <2>1, ConcatEmptySeq
  <2>. QED  BY <2>2 DEF Init, FailedMatchesWriter, OutputsInOrder, NothingLostSilently
<1>2. EncoderInv /\ [Next]_vars /\ TypeOK' => EncoderInv'
  <2>. SUFFICES ASSUME EncoderInv, [Next]_vars, TypeOK' PROVE EncoderInv'
    OBVIOUS
  <2>1. ASSUME NEW op \in Ops, Refused(op) PROVE EncoderInv'
    BY <2>1, IdleKeepsInv DEF Refused, encVars
  <2>2. ASSUME NEW outcome \in Outcomes, Write(outcome) \/ Encode(outcome) PROVE EncoderInv'
    BY <2>1, <2>2, AddRecordKeepsInv DEF Write, Encode, Ops
  <2>3. ASSUME NEW op \in {"Encode", "EncodeInvalid"}, EncodeRejected(op) PROVE EncoderInv'
    BY <2>3, IdleKeepsInv DEF EncodeRejected
  <2>4. ASSUME NEW outcome \in Outcomes, Flush(outcome) PROVE EncoderInv'
    <3>1. "Flush" \in Ops
      BY DEF Ops
    <3>. QED  BY <2>4, <3>1, DoFlushKeepsInv DEF Flush
  <2>5. ASSUME NEW outcome \in Outcomes, Close(outcome) PROVE EncoderInv'
    <3>1. CASE closed' = TRUE /\ DoFlush("Close", outcome)
      <4>1. "Close" \in Ops
        BY DEF Ops
      <4>. QED  BY <2>5, <3>1, <4>1, DoFlushKeepsInv DEF Close
    <3>2. CASE UNCHANGED << files, up, count, buf, bufLen, wbuf, werr, failed, closed, landed, lossy >>
      BY <2>5, <3>2, IdleKeepsInv DEF Close
    <3>. QED  BY <2>5, <3>1, <3>2 DEF Close
  <2>6. ASSUME NEW outcome \in Outcomes, ResetFlushFails(outcome) PROVE EncoderInv'
    <3>1. /\ up /\ ~failed /\ cur' = cur /\ taken' = taken /\ failed' = (outcome # "ok")
          /\ WriterBlock(count, buf, bufLen, outcome)
      BY <2>6 DEF ResetFlushFails, ResetFlushes
    <3>2. /\ count \in Nat /\ buf \in Seq(Records) /\ bufLen \in Nat
          /\ (~lossy[cur] => taken'[cur] = landed[cur] \o buf)
      BY <3>1 DEF EncoderInv, TypeOK, NothingLostSilently
    <3>. QED  BY <3>1, <3>2, BlockKeepsInv
  <2>7. CASE UNCHANGED vars
    BY <2>7, IdleKeepsInv DEF vars, encVars
  <2>. QED  BY <2>2, <2>3, <2>4, <2>5, <2>6, <2>7, ResetAttachKeepsInv, NewEncoderKeepsInv,
              NewEncoderAppendKeepsInv, CrashKeepsInv DEF Next
<1>. QED  BY <1>1, <1>2, TypeCorrect, PTL DEF Spec, EncoderInv

\* Whatever the output does and in whatever order the methods are called: as
\* long as no error was returned for an output and the process lives, every
\* record Encode or Write accepted is in its blocks or still buffered.
THEOREM NoRecordIsLostSilently == Spec => []NothingLostSilently
BY Inductive, PTL DEF EncoderInv

\* The failed flag, the writer's sticky error and the buffers agree.
THEOREM FailureIsConsistent == Spec => []FailedMatchesWriter
BY Inductive, PTL DEF EncoderInv
------------------------------------------------------------------------------
\* Which calls may return what after a failure.
LEMMA StepReturnsFailure ==
  ASSUME EncoderInv, Next
  PROVE  /\ up /\ up' /\ ~failed /\ failed' => ret'.res = "ioerr"
         /\ up /\ up' /\ failed /\ ret'.op \in {"Flush", "Close"} => ret'.res = "nil"
<1> DEFINE Told == /\ up /\ up' /\ ~failed /\ failed' => ret'.res = "ioerr"
                   /\ up /\ up' /\ failed /\ ret'.op \in {"Flush", "Close"} => ret'.res = "nil"
<1>1. up => failed = werr
  BY DEF EncoderInv, FailedMatchesWriter
<1>2. ASSUME NEW op \in {"Write", "Encode"}, Refused(op) PROVE Told
  BY <1>2 DEF Refused, encVars, Return
<1>3. ASSUME NEW op, NEW size, NEW outcome, up, ~failed, AddRecord(op, size, outcome) PROVE Told
  <2>1. ~werr
    BY <1>1, <1>3
  <2>2. CASE failed' = (outcome # "ok") /\ Return(op, IF outcome = "ok" THEN "nil" ELSE "ioerr")
    <3>1. failed' => ret'.res = "ioerr"
      BY <2>2 DEF Return
    <3>. QED  BY <1>3, <3>1
  <2>3. CASE failed' = werr
    BY <1>3, <2>1, <2>3
  <2>. QED  BY <1>3, <2>2, <2>3 DEF AddRecord
<1>4. ASSUME NEW op, NEW outcome, up, DoFlush(op, outcome) PROVE Told
  <2>1. failed = werr
    BY <1>1, <1>4
  <2>2. CASE failed /\ Return(op, AfterFailure)
    BY <2>2 DEF Return, AfterFailure
  <2>3. CASE ~failed /\ failed' = werr
    BY <2>1, <2>3
  <2>4. CASE ~failed /\ failed' = (outcome # "ok") /\ Return(op, IF outcome = "ok" THEN "nil" ELSE "ioerr")
    <3>1. failed' => ret'.res = "ioerr"
      BY <2>4 DEF Return
    <3>. QED  BY <2>4, <3>1
  <2>. QED  BY <1>4, <2>2, <2>3, <2>4 DEF DoFlush
<1>5. ASSUME NEW outcome, Write(outcome) \/ Encode(outcome) PROVE Told
  BY <1>2, <1>3, <1>5 DEF Write, Encode
<1>6. ASSUME NEW outcome, Flush(outcome) \/ Close(outcome) PROVE Told
  <2>1. CASE Return("Close", "nil") /\ UNCHANGED failed
    BY <2>1 DEF Return
  <2>. QED  BY <1>4, <1>6, <2>1 DEF Flush, Close
<1>7. ASSUME NEW outcome, ResetFlushFails(outcome) \/ ResetAttach(outcome) PROVE Told
  <2>1. CASE ResetFlushFails(outcome)
    BY <2>1 DEF ResetFlushFails, Return
  <2>2. CASE ResetAttach(outcome)
    <3>1. failed' = (outcome # "ok") /\ Return("Reset", IF outcome = "ok" THEN "nil" ELSE "ioerr")
      BY <2>2 DEF ResetAttach
    <3>. QED  BY <3>1 DEF Return
  <2>. QED  BY <1>7, <2>1, <2>2
<1>8. ASSUME NEW o, NEW format, NEW outcome, NewEncoder(o, format, outcome) PROVE Told
  BY <1>8 DEF NewEncoder, Constructed, Return
<1>9. ASSUME NEW o, NewEncoderAppend(o) PROVE Told
  BY <1>9 DEF NewEncoderAppend, Constructed, Return
<1>10. ASSUME NEW op \in {"Encode", "EncodeInvalid"}, EncodeRejected(op) PROVE Told
  BY <1>10 DEF EncodeRejected, Return
<1>11. ASSUME Crash PROVE Told
  BY <1>11 DEF Crash
<1>. QED  BY <1>5, <1>6, <1>7, <1>8, <1>9, <1>10, <1>11 DEF Next

\* The call whose write to the output failed returns the error, and Flush and
\* Close do not return it a second time.
THEOREM FailuresReturnedOnce == Spec => FailureReturnedOnce
<1>1. EncoderInv /\ [Next]_vars
        => [/\ (up /\ up' /\ ~failed /\ failed') => ret'.res = "ioerr"
            /\ (up /\ up' /\ failed /\ ret'.op \in {"Flush", "Close"}) => ret'.res = "nil"]_vars
  BY StepReturnsFailure
<1>. QED  BY <1>1, Inductive, PTL DEF Spec, FailureReturnedOnce
------------------------------------------------------------------------------
\* No error has been returned for the output of a healthy encoder.
HealthyOutput == up /\ ~failed => ~lossy[cur]

LEMMA BlockOutcome ==
  ASSUME TypeOK, NEW n, NEW records, NEW size, NEW outcome,
         WriterBlock(n, records, size, outcome), failed' = (outcome # "ok"), cur' = cur,
         ~lossy[cur]
  PROVE  HealthyOutput'
<1>1. cur \in Outputs /\ DOMAIN lossy = Outputs
  BY DEF TypeOK
<1>2. lossy' = [lossy EXCEPT ![cur] = @ \/ outcome # "ok"]
  BY DEF WriterBlock, WriterFlush
<1>3. lossy'[cur] = (lossy[cur] \/ outcome # "ok")
  BY <1>1, <1>2
<1>. QED  BY <1>3 DEF HealthyOutput

LEMMA DoFlushHealthy ==
  ASSUME EncoderInv, HealthyOutput, up, NEW op, NEW outcome, DoFlush(op, outcome), cur' = cur
  PROVE  HealthyOutput'
<1>1. CASE ~failed /\ WriterBlock(count, buf, bufLen, outcome) /\ failed' = (outcome # "ok")
  BY <1>1, BlockOutcome DEF EncoderInv, HealthyOutput
<1>2. CASE failed /\ failed' = failed
  BY <1>2 DEF HealthyOutput
<1>3. CASE ~failed /\ UNCHANGED lossy
  BY <1>3 DEF HealthyOutput
<1>. QED  BY <1>1, <1>2, <1>3 DEF DoFlush

LEMMA AddRecordHealthy ==
  ASSUME EncoderInv, HealthyOutput, up, ~failed, NEW op, NEW size,
         NEW outcome, AddRecord(op, size, outcome)
  PROVE  HealthyOutput'
<1>1. cur' = cur /\ ~lossy[cur]
  BY DEF AddRecord, HealthyOutput
<1>2. CASE WriterBlock(count + 1, Append(buf, nextRec), bufLen + size, outcome) /\ failed' = (outcome # "ok")
  BY <1>1, <1>2, BlockOutcome DEF EncoderInv
<1>3. CASE UNCHANGED lossy
  BY <1>1, <1>3 DEF HealthyOutput
<1>. QED  BY <1>2, <1>3 DEF AddRecord

LEMMA StepHealthy ==
  ASSUME EncoderInv, HealthyOutput, [Next]_vars
  PROVE  HealthyOutput'
<1>1. ASSUME NEW op, Refused(op) PROVE HealthyOutput'
  BY <1>1 DEF Refused, encVars, HealthyOutput
<1>2. ASSUME NEW outcome, Write(outcome) \/ Encode(outcome) PROVE HealthyOutput'
  BY <1>1, <1>2, AddRecordHealthy DEF Write, Encode
<1>3. ASSUME NEW outcome, Flush(outcome) PROVE HealthyOutput'
  BY <1>3, DoFlushHealthy DEF Flush
<1>4. ASSUME NEW outcome, Close(outcome) PROVE HealthyOutput'
  <2>1. CASE UNCHANGED << up, failed, lossy, cur >>
    BY <2>1 DEF HealthyOutput
  <2>. QED  BY <1>4, <2>1, DoFlushHealthy DEF Close
<1>5. ASSUME NEW outcome, ResetFlushFails(outcome) PROVE HealthyOutput'
  BY <1>5 DEF ResetFlushFails, HealthyOutput
<1>6. ASSUME NEW outcome, ResetAttach(outcome) PROVE HealthyOutput'
  <2>1. /\ cur' = cur + 1 /\ cur + 1 \in DOMAIN lossy /\ failed' = (outcome # "ok")
        /\ lossy' = [lossy EXCEPT ![cur + 1] = outcome # "ok"]
    BY <1>6 DEF ResetAttach, EncoderInv, TypeOK
  <2>. QED  BY <2>1 DEF HealthyOutput
<1>7. ASSUME NEW o \in Target, NEW format, NEW outcome, NewEncoder(o, format, outcome)
      PROVE  HealthyOutput'
  <2>1. o \in DOMAIN lossy
    BY DEF Target, EncoderInv, TypeOK
  <2>2. /\ lossy' = [lossy EXCEPT ![o] = outcome # "ok"]
        /\ (outcome = "ok" /\ cur' = o) \/ ~up'
    BY <1>7 DEF NewEncoder, Constructed
  <2>. QED  BY <2>1, <2>2 DEF HealthyOutput
<1>8. ASSUME NEW o \in Target, NewEncoderAppend(o) PROVE HealthyOutput'
  <2>1. o \in DOMAIN lossy
    BY DEF Target, EncoderInv, TypeOK
  <2>2. (lossy' = [lossy EXCEPT ![o] = FALSE] /\ cur' = o) \/ ~up'
    BY <1>8 DEF NewEncoderAppend, Constructed
  <2>. QED  BY <2>1, <2>2 DEF HealthyOutput
<1>9. ASSUME NEW op \in {"Encode", "EncodeInvalid"}, EncodeRejected(op) PROVE HealthyOutput'
  BY <1>9 DEF EncodeRejected, HealthyOutput
<1>10. CASE Crash
  BY <1>10 DEF Crash, HealthyOutput
<1>11. CASE UNCHANGED vars
  BY <1>11 DEF vars, encVars, HealthyOutput
<1>. QED  BY <1>2, <1>3, <1>4, <1>5, <1>6, <1>7, <1>8, <1>9, <1>10, <1>11 DEF Next

\* What a healthy encoder took for its output has landed there or is in buf.
LEMMA HealthyHolds ==
  ASSUME EncoderInv, HealthyOutput, up, ~failed
  PROVE  landed[cur] \in Seq(Records) /\ taken[cur] = landed[cur] \o buf
BY DEF EncoderInv, TypeOK, NothingLostSilently, HealthyOutput

\* The Flush or Close that succeeds: either there was nothing to write, or the
\* block it wrote holds all that was buffered.
LEMMA FlushDelivers ==
  ASSUME EncoderInv, HealthyOutput, up, ~failed, NEW outcome,
         Flush(outcome) \/ Close(outcome), ret'.res = "nil"
  PROVE  landed'[cur] = taken[cur]
<1>1. cur \in Outputs /\ DOMAIN landed = Outputs /\ buf \in Seq(Records)
  BY DEF EncoderInv, TypeOK
<1>2. landed[cur] \in Seq(Records) /\ taken[cur] = landed[cur] \o buf
  BY HealthyHolds
<1>3. CASE count = 0 /\ UNCHANGED landed
  <2>1. buf = << >>
    BY <1>3, NothingBuffered DEF EncoderInv
  <2>. QED  BY <1>2, <1>3, <2>1, ConcatEmptySeq
<1>4. CASE WriterBlock(count, buf, bufLen, outcome) /\ outcome = "ok"
  <2>1. landed' = [landed EXCEPT ![cur] = @ \o buf]
    BY <1>4 DEF WriterBlock, WriterFlush, Sent
  <2>. QED  BY <1>1, <1>2, <2>1
<1>5. closed => count = 0
  BY DEF EncoderInv, FailedMatchesWriter
<1>6. ASSUME NEW op, DoFlush(op, outcome)
      PROVE  \/ count = 0 /\ UNCHANGED landed
             \/ WriterBlock(count, buf, bufLen, outcome) /\ outcome = "ok"
  <2>1. Return(op, IF outcome = "ok" THEN "nil" ELSE "ioerr") => outcome = "ok"
    BY DEF Return
  <2>. QED  BY <1>6, <2>1 DEF DoFlush, NothingPending
<1>. QED  BY <1>3, <1>4, <1>5, <1>6 DEF Flush, Close

\* The Reset that succeeds has left on the old output, too, all it was given.
LEMMA ResetDelivers ==
  ASSUME EncoderInv, HealthyOutput, up, ~failed, NEW outcome, ResetAttach(outcome)
  PROVE  landed'[cur] = taken[cur]
<1>1. cur \in Outputs /\ DOMAIN landed = Outputs /\ buf \in Seq(Records) /\ count \in Nat
  BY DEF EncoderInv, TypeOK
<1>2. landed[cur] \in Seq(Records) /\ taken[cur] = landed[cur] \o buf
  BY HealthyHolds
<1>3. landed' = [landed EXCEPT ![cur] = IF ResetFlushes THEN @ \o buf ELSE @]
  BY DEF ResetAttach
<1>4. CASE ResetFlushes
  BY <1>1, <1>2, <1>3, <1>4
<1>5. CASE ~ResetFlushes
  <2>1. count = 0
    BY <1>1, <1>5 DEF ResetFlushes
  <2>2. buf = << >>
    BY <2>1, NothingBuffered DEF EncoderInv
  <2>. QED  BY <1>1, <1>2, <1>3, <1>5, <2>2, ConcatEmptySeq
<1>. QED  BY <1>4, <1>5

\* No other call returns as Flush, Close or Reset.
LEMMA StepDelivers ==
  ASSUME EncoderInv, HealthyOutput, Next, up, up', ~failed,
         ret'.op \in {"Flush", "Close", "Reset"}, ret'.res = "nil"
  PROVE  landed'[cur] = taken[cur]
<1>1. ASSUME NEW op \in {"Write", "Encode"}, NEW size, NEW outcome,
             Refused(op) \/ AddRecord(op, size, outcome)
      PROVE  FALSE
  BY <1>1 DEF Refused, AddRecord, Return
<1>2. ASSUME NEW outcome, Write(outcome) \/ Encode(outcome) PROVE FALSE
  BY <1>1, <1>2 DEF Write, Encode
<1>3. ASSUME NEW outcome, Flush(outcome) \/ Close(outcome) PROVE landed'[cur] = taken[cur]
  BY <1>3, FlushDelivers
<1>4. ASSUME NEW outcome, ResetFlushFails(outcome) PROVE FALSE
  BY <1>4 DEF ResetFlushFails, Return
<1>5. ASSUME NEW outcome, ResetAttach(outcome) PROVE landed'[cur] = taken[cur]
  BY <1>5, ResetDelivers
<1>6. ASSUME NEW o, NEW format, NEW outcome, NewEncoder(o, format, outcome) PROVE FALSE
  BY <1>6 DEF NewEncoder, Return
<1>7. ASSUME NEW o, NewEncoderAppend(o) PROVE FALSE
  BY <1>7 DEF NewEncoderAppend, Return
<1>8. ASSUME NEW op, EncodeRejected(op) PROVE FALSE
  BY <1>8 DEF EncodeRejected, Return
<1>9. ~Crash
  BY DEF Crash
<1>. QED  BY <1>2, <1>3, <1>4, <1>5, <1>6, <1>7, <1>8, <1>9 DEF Next

\* A Flush, Close or Reset of an encoder that has not failed, when it returns
\* nil, has delivered every record accepted for the output it was called on,
\* the one that Reset leaves included: for any output, limits and order of calls.
THEOREM SuccessDelivers == Spec => SuccessMeansDelivered
<1>1. Init => HealthyOutput
  BY DEF Init, HealthyOutput
<1>2. EncoderInv /\ HealthyOutput /\ [Next]_vars => HealthyOutput'
  BY StepHealthy
<1>3. EncoderInv /\ HealthyOutput /\ [Next]_vars
        => [(up /\ up' /\ ~failed /\ ret'.op \in {"Flush", "Close", "Reset"} /\ ret'.res = "nil")
             => landed'[cur] = taken[cur]]_vars
  BY StepDelivers
<1>. QED  BY <1>1, <1>2, <1>3, Inductive, PTL DEF Spec, SuccessMeansDelivered
------------------------------------------------------------------------------
\* The inner encoder never keeps an error between two calls, so only an
\* invalid value is rejected.
RejectionInv == ~innerErr /\ (ret.res = "rejected" => ret.op = "EncodeInvalid")

LEMMA AddRecordReturns ==
  ASSUME RejectionInv, NEW op, NEW size, NEW outcome, AddRecord(op, size, outcome)
  PROVE  RejectionInv' /\ ret'.res # "rejected"
BY DEF AddRecord, Return, RejectionInv

LEMMA DoFlushReturns ==
  ASSUME NEW op, NEW outcome, DoFlush(op, outcome)
  PROVE  ret'.res # "rejected"
BY DEF DoFlush, Return, AfterFailure

LEMMA StepRejects ==
  ASSUME RejectionInv, [Next]_vars
  PROVE  /\ RejectionInv'
         /\ ret'.res = "rejected" /\ ~UNCHANGED vars
              => /\ ret'.op = "EncodeInvalid"
                 /\ UNCHANGED << files, count, buf, bufLen, taken >>
<1> DEFINE Traceless == /\ ret'.op = "EncodeInvalid"
                        /\ UNCHANGED << files, count, buf, bufLen, taken >>
           Goal == RejectionInv' /\ (ret'.res = "rejected" => Traceless)
<1>1. ASSUME NEW op, Refused(op) PROVE Goal
  BY <1>1 DEF Refused, encVars, Return, RejectionInv
<1>2. ASSUME NEW outcome, Write(outcome) \/ Encode(outcome) PROVE Goal
  BY <1>1, <1>2, AddRecordReturns DEF Write, Encode
<1>3. ASSUME NEW outcome, Flush(outcome) PROVE Goal
  BY <1>3, DoFlushReturns DEF Flush, RejectionInv
<1>4. ASSUME NEW outcome, Close(outcome) PROVE Goal
  <2>1. innerErr' = innerErr
    BY <1>4 DEF Close
  <2>2. ret'.res # "rejected"
    <3>1. CASE Return("Close", "nil")
      BY <3>1 DEF Return
    <3>2. CASE DoFlush("Close", outcome)
      BY <3>2, DoFlushReturns
    <3>. QED  BY <1>4, <3>1, <3>2 DEF Close
  <2>. QED  BY <2>1, <2>2 DEF RejectionInv
<1>5. ASSUME NEW outcome, ResetFlushFails(outcome) \/ ResetAttach(outcome) PROVE Goal
  <2>1. CASE ResetFlushFails(outcome)
    BY <2>1 DEF ResetFlushFails, Return, RejectionInv
  <2>2. CASE ResetAttach(outcome)
    <3>1. /\ innerErr' = (outcome # "ok" /\ innerErr)
          /\ Return("Reset", IF outcome = "ok" THEN "nil" ELSE "ioerr")
      BY <2>2 DEF ResetAttach
    <3>. QED  BY <3>1 DEF Return, RejectionInv
  <2>. QED  BY <1>5, <2>1, <2>2
<1>6. ASSUME NEW o, NEW format, NEW outcome, NewEncoder(o, format, outcome) PROVE Goal
  BY <1>6 DEF NewEncoder, Constructed, encVars, Return, RejectionInv
<1>7. ASSUME NEW o, NewEncoderAppend(o) PROVE Goal
  BY <1>7 DEF NewEncoderAppend, Constructed, encVars, Return, RejectionInv
<1>8. ASSUME NEW op \in {"Encode", "EncodeInvalid"}, EncodeRejected(op) PROVE Goal
  <2>1. op = "EncodeInvalid"
    BY <1>8 DEF EncodeRejected, RejectionInv
  <2>. QED  BY <1>8, <2>1 DEF EncodeRejected, Return, RejectionInv
<1>9. ASSUME Crash PROVE Goal
  BY <1>9 DEF Crash, encVars, RejectionInv
<1>10. CASE UNCHANGED vars
  BY <1>10 DEF vars, encVars, RejectionInv
<1>. QED  BY <1>2, <1>3, <1>4, <1>5, <1>6, <1>7, <1>8, <1>9, <1>10 DEF Next

\* A value that does not fit the schema is refused without a trace in the
\* buffers, and no later valid record is refused because of it.
THEOREM RejectionsLeaveNoTrace == Spec => RejectionLeavesNoTrace
<1>1. Init => RejectionInv
  BY DEF Init, RejectionInv
<1>2. RejectionInv /\ [Next]_vars => RejectionInv'
  BY StepRejects
<1>3. RejectionInv /\ [Next]_vars
        => [ret'.res = "rejected" =>
              /\ ret'.op = "EncodeInvalid"
              /\ UNCHANGED << files, count, buf, bufLen, taken >>]_vars
  BY StepRejects
<1>. QED  BY <1>1, <1>2, <1>3, PTL DEF Spec, RejectionLeavesNoTrace
------------------------------------------------------------------------------
(* OcfEncoder implements RecordStream: the initial state maps to the initial
   state, every call maps to a step of the stream or to none. *)

\* What the stream sees of an encoder state.
Pending == IF up THEN buf ELSE << >>

LEMMA OpenMode ==
  ASSUME EncoderInv
  PROVE  /\ (up /\ ~failed /\ ~closed) <=> Mode = "open"
         /\ Mode \in {"down", "failed", "closed", "open"}
         /\ Mode # "open" => Pending = << >>
<1>1. (up /\ ~failed /\ ~closed) <=> Mode = "open"
  BY DEF Mode
<1>2. Mode # "open" => Pending = << >>
  <2>1. CASE up /\ (failed \/ closed)
    <3>1. count = 0
      BY <2>1 DEF EncoderInv, FailedMatchesWriter
    <3>. QED  BY <2>1, <3>1, NothingBuffered DEF EncoderInv, Pending
  <2>2. CASE ~up
    BY <2>2 DEF Pending
  <2>. QED  BY <1>1, <2>1, <2>2
<1>. QED  BY <1>1, <1>2 DEF Mode

LEMMA InitialStream == Init => Stream!Init
BY DEF Init, Stream!Init, Mode, Outputs, Stream!Outputs

\* A block written by a healthy encoder delivers its batch or loses it.
LEMMA BlockIsDelivery ==
  ASSUME EncoderInv, up, ~failed, ~closed, NEW k \in 0 .. 1,
         NEW n \in Nat, NEW records \in Seq(Records), NEW size \in Nat, NEW outcome \in Outcomes,
         WriterBlock(n, records, size, outcome),
         records = Stream!Batch(k), nextRec' = nextRec + k, nextRec + k <= MaxRecords + 1,
         cur' = cur, failed' = (outcome # "ok")
  PROVE  Stream!Deliver(k) \/ Stream!Lose(k)
<1>1. ~werr /\ TypeOK
  BY DEF EncoderInv, FailedMatchesWriter
<1>2. /\ buf' = << >> /\ up' = (outcome # "crash")
      /\ \/ landed' = [landed EXCEPT ![cur] = @ \o records]
         \/ outcome # "ok" /\ landed' = landed
  BY <1>1, WriterBlockEffect
<1>3. /\ Mode = "open" /\ Mode' \in {"open", "closed", "failed", "down"}
      /\ outcome # "ok" => Mode' \in {"failed", "down"}
  BY <1>2 DEF Mode, Outcomes
<1>4. (IF up' THEN buf' ELSE << >>) = << >>
  BY <1>2
<1>5. CASE landed' = [landed EXCEPT ![cur] = @ \o records]
  BY <1>3, <1>4, <1>5 DEF Stream!Deliver
<1>6. CASE outcome # "ok" /\ landed' = landed
  BY <1>3, <1>4, <1>6 DEF Stream!Lose
<1>. QED  BY <1>2, <1>5, <1>6

\* A call that leaves the output, the records and the mode alone is no step.
LEMMA Stutter ==
  ASSUME UNCHANGED << cur, landed, up, buf, nextRec, failed, closed >>
  PROVE  UNCHANGED Stream!vars
BY DEF Stream!vars, Mode

\* A healthy encoder without pending records delivers nothing by closing.
LEMMA CloseIsDelivery ==
  ASSUME EncoderInv, up, ~failed, ~closed, count = 0,
         failed' = FALSE, UNCHANGED << cur, landed, up, buf, nextRec >>, closed' \in BOOLEAN
  PROVE  Stream!Deliver(0)
<1>1. buf = << >> /\ landed \in [Outputs -> Seq(Records)] /\ cur \in Outputs
  BY NothingBuffered DEF EncoderInv, TypeOK
<1>2. landed[cur] \o << >> = landed[cur]
  BY <1>1, ConcatEmptySeq
<1>3. landed' = [landed EXCEPT ![cur] = @ \o Stream!Batch(0)]
  BY <1>1, <1>2 DEF Stream!Batch
<1>4. Mode = "open" /\ Mode' \in {"open", "closed"}
  BY DEF Mode
<1>5. nextRec' = nextRec + 0 /\ nextRec + 0 <= MaxRecords + 1
  BY LimitsAssumption DEF EncoderInv, TypeOK
<1>6. (IF up' THEN buf' ELSE << >>) = << >>
  BY <1>1
<1>. QED  BY <1>3, <1>4, <1>5, <1>6 DEF Stream!Deliver

LEMMA DoFlushRefines ==
  ASSUME EncoderInv, up, NEW op \in Ops, NEW outcome \in Outcomes, DoFlush(op, outcome),
         UNCHANGED << cur, nextRec >>, closed' \in BOOLEAN, closed => closed'
  PROVE  Stream!Deliver(0) \/ Stream!Lose(0) \/ UNCHANGED Stream!vars
<1>1. /\ failed = werr /\ (failed \/ closed => count = 0)
      /\ closed \in BOOLEAN /\ failed \in BOOLEAN
      /\ count \in Nat /\ buf \in Seq(Records) /\ bufLen \in Nat
  BY DEF EncoderInv, FailedMatchesWriter, TypeOK
<1>2. CASE failed /\ UNCHANGED << up, buf, failed, landed >>
  BY <1>2 DEF Stream!vars, Mode
<1>3. CASE ~failed /\ count = 0 /\ failed' = werr /\ UNCHANGED << up, buf, landed >>
  <2>1. CASE closed
    BY <1>1, <1>3, <2>1, Stutter
  <2>2. CASE ~closed
    BY <1>1, <1>3, <2>2, CloseIsDelivery
  <2>. QED  BY <2>1, <2>2
<1>4. CASE ~failed /\ count # 0 /\ WriterBlock(count, buf, bufLen, outcome) /\ failed' = (outcome # "ok")
  <2>1. ~closed /\ buf = Stream!Batch(0)
    BY <1>1, <1>4 DEF Stream!Batch
  <2>2. nextRec' = nextRec + 0 /\ nextRec + 0 <= MaxRecords + 1
    BY LimitsAssumption DEF EncoderInv, TypeOK
  <2>. QED  BY <1>1, <1>4, <2>1, <2>2, BlockIsDelivery
<1>. QED  BY <1>2, <1>3, <1>4 DEF DoFlush, NothingPending

LEMMA AddRecordRefines ==
  ASSUME EncoderInv, up, ~failed, ~closed, NEW op \in Ops, NEW size \in RecordSizes,
         NEW outcome \in Outcomes, nextRec \in Records, AddRecord(op, size, outcome)
  PROVE  Stream!Accept \/ Stream!Deliver(1) \/ Stream!Lose(1)
<1>1. /\ nextRec \in Nat /\ nextRec <= MaxRecords /\ nextRec + 1 <= MaxRecords + 1
      /\ nextRec' = nextRec + 1 /\ cur' = cur
      /\ count + 1 \in Nat /\ bufLen + size \in Nat /\ ~werr
  BY LimitsAssumption, SizesAssumption DEF EncoderInv, TypeOK, FailedMatchesWriter, Records, AddRecord
<1>2. Append(buf, nextRec) \in Seq(Records) /\ Append(buf, nextRec) = Stream!Batch(1)
  BY AppendProperties DEF EncoderInv, TypeOK, Stream!Batch
<1>3. CASE WriterBlock(count + 1, Append(buf, nextRec), bufLen + size, outcome) /\ failed' = (outcome # "ok")
  BY <1>1, <1>2, <1>3, BlockIsDelivery
<1>4. CASE buf' = Append(buf, nextRec) /\ failed' = werr /\ UNCHANGED << up, landed, closed >>
  BY <1>1, <1>4 DEF Stream!Accept, Mode
<1>. QED  BY <1>3, <1>4 DEF AddRecord

LEMMA ResetAttachRefines ==
  ASSUME EncoderInv, NEW outcome \in Outcomes, ResetAttach(outcome)
  PROVE  Stream!Move \/ Stream!Attach
<1>1. /\ up /\ cur' = cur + 1 /\ cur + 1 \in Outputs /\ nextRec' = nextRec
      /\ failed' = (outcome # "ok") /\ up' = (outcome # "crash")
      /\ outcome = "ok" => closed' = FALSE
      /\ landed' = [landed EXCEPT ![cur] = IF ResetFlushes THEN @ \o buf ELSE @]
      /\ (outcome = "ok" \/ ResetFlushes) => buf' = << >>
      /\ ~(outcome = "ok" \/ ResetFlushes) => buf' = buf
  BY DEF ResetAttach
<1>2. /\ failed = werr /\ (failed \/ closed => count = 0) /\ count \in Nat
      /\ landed \in [Outputs -> Seq(Records)] /\ cur \in Outputs /\ buf \in Seq(Records)
  BY <1>1 DEF EncoderInv, FailedMatchesWriter, TypeOK
<1>3. ~ResetFlushes => buf = << >>
  <2>1. ~ResetFlushes => count = 0
    BY <1>2 DEF ResetFlushes
  <2>. QED  BY <1>1, <2>1, NothingBuffered DEF EncoderInv
<1>4. (IF up' THEN buf' ELSE << >>) = << >>
  BY <1>1, <1>3
<1>5. Mode' \in {"open", "failed", "down"}
  BY <1>1 DEF Mode, Outcomes
<1>6. CASE Mode = "open"
  <2>1. landed' = [landed EXCEPT ![cur] = @ \o buf]
    <3>1. landed[cur] \o << >> = landed[cur]
      BY <1>2, ConcatEmptySeq
    <3>. QED  BY <1>1, <1>3, <3>1
  <2>. QED  BY <1>1, <1>4, <1>5, <1>6, <2>1 DEF Stream!Move, Outputs, Stream!Outputs
<1>7. CASE Mode # "open"
  <2>1. ~ResetFlushes
    BY <1>1, <1>2, <1>7 DEF ResetFlushes, Mode
  <2>2. landed' = landed
    BY <1>1, <1>2, <2>1
  <2>. QED  BY <1>1, <1>4, <1>5, <1>7, <2>2 DEF Stream!Attach, Outputs, Stream!Outputs
<1>. QED  BY <1>6, <1>7

LEMMA ConstructorRefines ==
  ASSUME EncoderInv, NEW o \in Target, MayConstruct,
         cur' = o, UNCHANGED << landed, nextRec >>,
         up' = FALSE \/ (up' = TRUE /\ buf' = << >>)
  PROVE  Stream!Attach
<1>1. Mode # "open"
  BY DEF Mode, MayConstruct
<1>2. cur' \in {cur, cur + 1} \cap Stream!Outputs
  BY DEF Target, Outputs, Stream!Outputs
<1>3. Mode' \in {"open", "closed", "failed", "down"}
  BY DEF Mode
<1>4. (IF up' THEN buf' ELSE << >>) = << >>
  OBVIOUS
<1>. QED  BY <1>1, <1>2, <1>3, <1>4 DEF Stream!Attach

\* The encoder promises no more and no less than the record stream: all that
\* blocks, buffers, partial writes and sticky errors do is one of its steps.
THEOREM EncoderImplementsRecordStream == Spec => ImplementsRecordStream
<1>1. EncoderInv /\ [Next]_vars => [Stream!Next]_(Stream!vars)
  <2>. SUFFICES ASSUME EncoderInv, [Next]_vars PROVE Stream!Next \/ UNCHANGED Stream!vars
    OBVIOUS
  <2>1. ASSUME NEW op \in Ops, Refused(op) PROVE UNCHANGED Stream!vars
    BY <2>1, Stutter DEF Refused, encVars
  <2>2. ASSUME NEW outcome \in Outcomes, Write(outcome) \/ Encode(outcome)
        PROVE  Stream!Next \/ UNCHANGED Stream!vars
    BY <2>1, <2>2, AddRecordRefines DEF Write, Encode, Ops, Stream!Next
  <2>3. ASSUME NEW op \in {"Encode", "EncodeInvalid"}, EncodeRejected(op) PROVE UNCHANGED Stream!vars
    BY <2>3, Stutter DEF EncodeRejected
  <2>4. ASSUME NEW outcome \in Outcomes, Flush(outcome) PROVE Stream!Next \/ UNCHANGED Stream!vars
    <3>1. /\ up /\ DoFlush("Flush", outcome) /\ UNCHANGED << cur, nextRec, closed >>
          /\ closed \in BOOLEAN /\ "Flush" \in Ops
      BY <2>4 DEF Flush, EncoderInv, TypeOK, Ops
    <3>. QED  BY <3>1, DoFlushRefines DEF Stream!Next
  <2>5. ASSUME NEW outcome \in Outcomes, Close(outcome) PROVE Stream!Next \/ UNCHANGED Stream!vars
    <3>1. CASE ~closed /\ closed' = TRUE /\ DoFlush("Close", outcome)
      <4>1. up /\ UNCHANGED << cur, nextRec >> /\ "Close" \in Ops
        BY <2>5 DEF Close, Ops
      <4>. QED  BY <3>1, <4>1, DoFlushRefines DEF Stream!Next
    <3>2. CASE UNCHANGED << files, up, count, buf, bufLen, wbuf, werr, failed, closed, landed, lossy >>
      BY <2>5, <3>2, Stutter DEF Close
    <3>. QED  BY <2>5, <3>1, <3>2 DEF Close
  <2>6. ASSUME NEW outcome \in Outcomes, ResetFlushFails(outcome) PROVE Stream!Next
    <3>1. /\ up /\ count > 0 /\ ~failed /\ cur' = cur /\ nextRec' = nextRec /\ failed' = (outcome # "ok")
          /\ WriterBlock(count, buf, bufLen, outcome)
      BY <2>6 DEF ResetFlushFails, ResetFlushes
    <3>2. /\ ~closed /\ count \in Nat /\ buf \in Seq(Records) /\ bufLen \in Nat /\ buf = Stream!Batch(0)
      BY <3>1 DEF EncoderInv, TypeOK, FailedMatchesWriter, Stream!Batch
    <3>3. nextRec' = nextRec + 0 /\ nextRec + 0 <= MaxRecords + 1
      BY <3>1, LimitsAssumption DEF EncoderInv, TypeOK
    <3>. QED  BY <3>1, <3>2, <3>3, BlockIsDelivery DEF Stream!Next
  <2>7. ASSUME NEW outcome \in Outcomes, ResetAttach(outcome) PROVE Stream!Next
    BY <2>7, ResetAttachRefines DEF Stream!Next
  <2>8. ASSUME NEW o \in Target, NEW format \in Formats, NEW outcome \in Outcomes,
               NewEncoder(o, format, outcome)
        PROVE  Stream!Next
    BY <2>8, ConstructorRefines DEF NewEncoder, Constructed, Stream!Next
  <2>9. ASSUME NEW o \in Target, NewEncoderAppend(o) PROVE Stream!Next
    BY <2>9, ConstructorRefines DEF NewEncoderAppend, Constructed, Stream!Next
  <2>10. ASSUME Crash PROVE Stream!Next
    BY <2>10 DEF Crash, encVars, Mode, Stream!Stop, Stream!Next
  <2>11. CASE UNCHANGED vars
    BY <2>11, Stutter DEF vars, encVars
  <2>. QED  BY <2>2, <2>3, <2>4, <2>5, <2>6, <2>7, <2>8, <2>9, <2>10, <2>11 DEF Next
<1>. QED  BY <1>1, InitialStream, Inductive, PTL DEF Spec, ImplementsRecordStream, Stream!Spec
------------------------------------------------------------------------------
(* Files: what RecordsOf, IsContainer and SkipToEnd say of them. *)

Prefix(cells, n) == SubSeq(cells, 1, n)

\* A sequence of cells whose data are sequences of these records.
IsFile(cells, R) ==
  /\ \E S : cells \in Seq(S)
  /\ \A i \in DOMAIN cells : cells[i].kind = "data" => cells[i].recs \in Seq(R)

\* The sync mark at i follows data.
EndsData(cells, i) ==
  i % 4 = 1 /\ i > 1 /\ cells[i].kind = "sync" /\ cells[i - 1].kind = "data"

\* One more cell adds the records of the block it ends, if it ends one.
AddsRecords(f, cells, i) ==
  f[i] = IF EndsData(cells, i) THEN f[i - 1] \o cells[i - 1].recs ELSE f[i - 1]

\* f counts up the records of cells.
CountsUp(f, cells, R) ==
  /\ f \in [0 .. Len(cells) -> Seq(R)]
  /\ f[0] = << >>
  /\ \A i \in 1 .. Len(cells) : AddsRecords(f, cells, i)

LEMMA FileLength ==
  ASSUME NEW R, NEW cells, IsFile(cells, R)
  PROVE  Len(cells) \in Nat /\ DOMAIN cells = 1 .. Len(cells)
<1>1. PICK S : cells \in Seq(S)
  BY DEF IsFile
<1> QED  BY <1>1

\* A prefix of a file is a file.
LEMMA PrefixIs ==
  ASSUME NEW R, NEW cells, IsFile(cells, R), NEW n \in 0 .. Len(cells)
  PROVE  /\ IsFile(Prefix(cells, n), R) /\ Len(Prefix(cells, n)) = n
         /\ \A i \in 1 .. n : Prefix(cells, n)[i] = cells[i]
<1>1. PICK S : cells \in Seq(S)
  BY DEF IsFile
<1>2. /\ Prefix(cells, n) \in Seq(S) /\ Len(Prefix(cells, n)) = n
      /\ \A i \in 1 .. n : Prefix(cells, n)[i] = cells[i]
  BY <1>1 DEF Prefix
<1>3. DOMAIN Prefix(cells, n) = 1 .. n /\ 1 .. n \subseteq DOMAIN cells
  BY <1>1, <1>2
<1> QED  BY <1>2, <1>3 DEF IsFile

\* Such a count exists, and its last value is what RecordsOf returns.
LEMMA RecordsCounted ==
  ASSUME NEW R, NEW cells, IsFile(cells, R)
  PROVE  \E f : CountsUp(f, cells, R) /\ RecordsOf(cells) = f[Len(cells)]
<1> DEFINE n == Len(cells)
           more(s, i) == IF EndsData(cells, i) THEN s \o cells[i - 1].recs ELSE s
           body(g, i) == IF i = 0 THEN << >>
                         ELSE IF i % 4 = 1 /\ i > 1 /\ cells[i].kind = "sync" /\ cells[i - 1].kind = "data"
                              THEN g[i - 1] \o cells[i - 1].recs
                              ELSE g[i - 1]
           upTo == CHOOSE g : g = [i \in 0 .. n |-> body(g, i)]
           step == [i \in 1 .. n |-> [s \in Seq(R) |-> more(s, i)]]
<1>1. RecordsOf(cells) = upTo[n]
  BY DEF RecordsOf
<1>2. n \in Nat /\ DOMAIN cells = 1 .. n
  BY FileLength
<1>3. \A i \in 1 .. n : \A s \in Seq(R) : more(s, i) \in Seq(R)
  <2>1. ASSUME NEW i \in 1 .. n, NEW s \in Seq(R), EndsData(cells, i) PROVE s \o cells[i - 1].recs \in Seq(R)
    <3>1. i - 1 \in DOMAIN cells
      BY <1>2, <2>1 DEF EndsData
    <3>2. cells[i - 1].recs \in Seq(R)
      BY <2>1, <3>1 DEF EndsData, IsFile
    <3> QED  BY <3>2, ConcatProperties
  <2> QED  BY <2>1
<1>4. \A g : \A i \in 0 .. n : body(g, i) = IF i = 0 THEN << >> ELSE more(g[i - 1], i)
  BY DEF EndsData
<1> HIDE DEF more, body
<1>5. step \in [1 .. n -> [Seq(R) -> Seq(R)]]
  BY <1>3
<1>6. \A i \in 1 .. n : \A s \in Seq(R) : step[i][s] = more(s, i)
  OBVIOUS
<1> HIDE DEF step, n
<1>7. PICK f : IsRecursive(f, n, Seq(R), << >>, step)
  <2>1. << >> \in Seq(R) /\ IsStep(step, n, Seq(R))
    BY <1>5, EmptySeq DEF IsStep
  <2> QED  BY <1>2, <2>1, Recursion
<1>8. \A i \in 1 .. n : f[i] = more(f[i - 1], i)
  <2>1. ASSUME NEW i \in 1 .. n PROVE f[i] = more(f[i - 1], i)
    <3>1. i - 1 \in 0 .. n
      BY <1>2
    <3>2. f[i - 1] \in Seq(R) /\ f[i] = step[i][f[i - 1]]
      BY <1>7, <3>1 DEF IsRecursive
    <3> QED  BY <1>6, <3>2
  <2> QED  BY <2>1
<1>9. f = [i \in 0 .. n |-> body(f, i)]
  <2>1. ASSUME NEW i \in 0 .. n PROVE f[i] = body(f, i)
    <3>1. i = 0 \/ i \in 1 .. n
      BY <1>2
    <3> QED  BY <1>4, <1>7, <1>8, <3>1 DEF IsRecursive
  <2> QED  BY <1>7, <2>1 DEF IsRecursive
<1>10. upTo = [i \in 0 .. n |-> body(upTo, i)]
  BY <1>9
<1> HIDE DEF upTo
<1>11. upTo[0] = << >> /\ \A i \in 1 .. n : upTo[i] = more(upTo[i - 1], i)
  <2>1. \A i \in 0 .. n : upTo[i] = body(upTo, i)
    BY <1>10
  <2>2. 0 \in 0 .. n /\ \A i \in 1 .. n : i \in 0 .. n /\ i # 0
    BY <1>2
  <2> QED  BY <1>4, <2>1, <2>2
<1>12. \A i \in 0 .. n : upTo[i] \in Seq(R)
  <2> DEFINE T == {i \in 0 .. n : upTo[i] \in Seq(R)}
  <2>1. 0 \in T
    <3>1. << >> \in Seq(R) /\ 0 \in 0 .. n
      BY <1>2, EmptySeq
    <3> QED  BY <1>11, <3>1
  <2>2. \A i \in 1 .. n : i - 1 \in T => i \in T
    BY <1>2, <1>3, <1>11
  <2> HIDE DEF T
  <2>3. 0 .. n \subseteq T
    BY <1>2, <2>1, <2>2, BoundedInduction
  <2> QED  BY <2>3 DEF T
<1>13. upTo \in [0 .. n -> Seq(R)]
  BY <1>10, <1>12
<1>14. \A i \in 1 .. n : AddsRecords(upTo, cells, i)
  BY <1>11 DEF more, AddsRecords
<1>15. CountsUp(upTo, cells, R)
  BY <1>11, <1>13, <1>14 DEF CountsUp, n
<1> QED  BY <1>1, <1>15 DEF n

\* The records of a prefix are what was counted until then.
LEMMA PrefixCounted ==
  ASSUME NEW R, NEW cells, IsFile(cells, R), NEW f, CountsUp(f, cells, R), NEW n \in 0 .. Len(cells)
  PROVE  RecordsOf(Prefix(cells, n)) = f[n]
<1> DEFINE p == Prefix(cells, n)
<1>1. IsFile(p, R) /\ Len(p) = n /\ n \in Nat /\ \A i \in 1 .. n : p[i] = cells[i]
  BY PrefixIs, FileLength
<1> HIDE DEF p
<1>2. PICK g : CountsUp(g, p, R) /\ RecordsOf(p) = g[n]
  BY <1>1, RecordsCounted
<1> DEFINE T == {i \in 0 .. n : g[i] = f[i]}
<1>3. 0 \in T
  BY <1>1, <1>2 DEF CountsUp
<1>4. ASSUME NEW i \in 1 .. n, i - 1 \in T PROVE i \in T
  <2>1. i \in 1 .. Len(cells) /\ i \in 0 .. n
    BY <1>1, FileLength
  <2>2. EndsData(p, i) <=> EndsData(cells, i)
    BY <1>1, <2>1 DEF EndsData
  <2>3. EndsData(cells, i) => p[i - 1] = cells[i - 1]
    BY <1>1 DEF EndsData
  <2>4. AddsRecords(g, p, i) /\ AddsRecords(f, cells, i)
    BY <1>1, <1>2, <2>1 DEF CountsUp
  <2>5. g[i] = f[i]
    BY <1>4, <2>2, <2>3, <2>4 DEF AddsRecords
  <2> QED  BY <2>1, <2>5
<1>5. n \in T
  <2> HIDE DEF T
  <2>1. 0 .. n \subseteq T
    BY <1>1, <1>3, <1>4, BoundedInduction
  <2> QED  BY <1>1, <2>1
<1> QED  BY <1>2, <1>5 DEF p

\* A whole file is its own prefix.
LEMMA WholePrefix ==
  ASSUME NEW R, NEW cells, IsFile(cells, R)
  PROVE  Prefix(cells, Len(cells)) = cells
<1>1. PICK S : cells \in Seq(S)
  BY DEF IsFile
<1> QED  BY <1>1 DEF Prefix

\* The cells k and j before it end a block: a sync mark follows data.
BlockEnds(cells, j, k) ==
  k % 4 = 1 /\ j > 0 /\ cells[k].kind = "sync" /\ cells[j].kind = "data"

\* Cell by cell: what RecordsOf returns for a prefix of a file and for the next
\* longer one.
RecordsStep(cells, j, k) ==
  /\ BlockEnds(cells, j, k) => RecordsOf(Prefix(cells, k)) = RecordsOf(Prefix(cells, j)) \o cells[j].recs
  /\ ~BlockEnds(cells, j, k) => RecordsOf(Prefix(cells, k)) = RecordsOf(Prefix(cells, j))

LEMMA RecordsByCell ==
  ASSUME NEW R, NEW cells, IsFile(cells, R)
  PROVE  /\ RecordsOf(Prefix(cells, 0)) = << >>
         /\ \A i \in 0 .. Len(cells) : RecordsOf(Prefix(cells, i)) \in Seq(R)
         /\ \A j, k \in 0 .. Len(cells) : k = j + 1 => RecordsStep(cells, j, k)
         /\ RecordsOf(cells) = RecordsOf(Prefix(cells, Len(cells)))
<1>1. PICK f : CountsUp(f, cells, R)
  BY RecordsCounted
<1>2. Len(cells) \in Nat
  BY FileLength
<1>3. \A i \in 0 .. Len(cells) : RecordsOf(Prefix(cells, i)) = f[i]
  BY <1>1, PrefixCounted
<1>4. \A i \in 0 .. Len(cells) : f[i] \in Seq(R)
  BY <1>1 DEF CountsUp
<1>5. ASSUME NEW j \in 0 .. Len(cells), NEW k \in 0 .. Len(cells), k = j + 1
      PROVE  RecordsStep(cells, j, k)
  <2>1. k \in 1 .. Len(cells) /\ j = k - 1 /\ (k > 1 <=> j > 0)
    BY <1>2, <1>5
  <2>2. AddsRecords(f, cells, k)
    BY <1>1, <2>1 DEF CountsUp
  <2>3. f[k] = IF BlockEnds(cells, j, k) THEN f[j] \o cells[j].recs ELSE f[j]
    BY <2>1, <2>2 DEF AddsRecords, EndsData, BlockEnds
  <2> QED  BY <1>3, <2>3 DEF RecordsStep
<1>6. RecordsOf(Prefix(cells, 0)) = << >>
  BY <1>1, <1>2, <1>3 DEF CountsUp
<1> QED  BY <1>3, <1>4, <1>5, <1>6, WholePrefix

------------------------------------------------------------------------------
\* skipToEnd's loop, as a set of the places it reaches the end from.
SkipBody(cells, mark, g, i) ==
  \/ i = Len(cells) + 1
  \/ BlockAt(cells, i, mark) /\ g[i + 4]

LEMMA SkipLoop ==
  ASSUME NEW cells, NEW mark, Len(cells) \in Nat
  PROVE  \E g : /\ g = [i \in 2 .. Len(cells) + 1 |-> SkipBody(cells, mark, g, i)]
                /\ SkipToEnd(cells, mark) = g[2]
<1> DEFINE n == Len(cells)
           aligned(i) == (n + 1 - i) % 4 = 0
           reaches(i) == aligned(i) /\ \A k \in i .. n : aligned(k) => BlockAt(cells, k, mark)
           h == [i \in 2 .. n + 1 |-> reaches(i)]
           body(g, i) == i = n + 1 \/ (BlockAt(cells, i, mark) /\ g[i + 4])
           skip == CHOOSE g : g = [i \in 2 .. n + 1 |-> body(g, i)]
<1>1. SkipToEnd(cells, mark) = skip[2]
  BY DEF SkipToEnd
<1>2. \A g : \A i \in 2 .. n + 1 : body(g, i) = SkipBody(cells, mark, g, i)
  BY DEF SkipBody
<1>3. \A i \in 2 .. n + 1 : BlockAt(cells, i, mark) => i + 4 \in 2 .. n + 1
  BY DEF BlockAt
<1>4. ASSUME NEW i \in 2 .. n + 1 PROVE h[i] <=> body(h, i)
  <2>1. h[i] <=> reaches(i)
    BY <1>4
  <2>2. CASE i = n + 1
    <3>1. aligned(i) /\ \A k \in i .. n : FALSE
      BY <2>2
    <3> QED  BY <2>1, <2>2, <3>1
  <2>3. CASE i # n + 1 /\ ~BlockAt(cells, i, mark)
    <3>1. i \in i .. n
      BY <1>4, <2>3
    <3>2. reaches(i) => BlockAt(cells, i, mark)
      BY <3>1
    <3> QED  BY <2>1, <2>3, <3>2
  <2>4. CASE i # n + 1 /\ BlockAt(cells, i, mark)
    <3>1. i + 4 \in 2 .. n + 1 /\ (h[i + 4] <=> reaches(i + 4))
      BY <1>3, <2>4
    <3>2. aligned(i) <=> aligned(i + 4)
      OBVIOUS
    <3>3. \A k \in i + 4 .. n : k \in i .. n
      OBVIOUS
    <3>4. aligned(i) => \A k \in i .. n : aligned(k) => k = i \/ k \in i + 4 .. n
      OBVIOUS
    <3> HIDE DEF aligned
    <3>5. reaches(i) <=> reaches(i + 4)
      BY <2>4, <3>2, <3>3, <3>4
    <3> HIDE DEF reaches, h
    <3> QED  BY <2>1, <2>4, <3>1, <3>5
  <2> QED  BY <2>2, <2>3, <2>4
<1>5. h = [i \in 2 .. n + 1 |-> body(h, i)]
  <2>1. \A i \in 2 .. n + 1 : reaches(i) \in BOOLEAN /\ body(h, i) \in BOOLEAN
    OBVIOUS
  <2>2. \A i \in 2 .. n + 1 : h[i] \in BOOLEAN
    BY <2>1
  <2>3. \A i \in 2 .. n + 1 : h[i] = body(h, i)
    <3> HIDE DEF h, body
    <3> QED  BY <1>4, <2>1, <2>2
  <2>4. h = [i \in 2 .. n + 1 |-> h[i]]
    OBVIOUS
  <2> HIDE DEF h, body
  <2> QED  BY <2>3, <2>4
<1> HIDE DEF h
<1>6. skip = [i \in 2 .. n + 1 |-> body(skip, i)]
  <2> HIDE DEF body
  <2> QED  BY <1>5
<1> HIDE DEF skip
<1>7. skip = [i \in 2 .. n + 1 |-> SkipBody(cells, mark, skip, i)]
  <2> HIDE DEF body
  <2> QED  BY <1>2, <1>6
<1> QED  BY <1>1, <1>7

\* An append is accepted only by a file of whole blocks.
LEMMA SkipFindsBlocks ==
  ASSUME NEW cells, NEW mark, Len(cells) \in Nat \ {0}, SkipToEnd(cells, mark)
  PROVE  Len(cells) % 4 = 1 /\ \A i \in 2 .. Len(cells) : i % 4 = 2 => BlockAt(cells, i, mark)
<1> DEFINE n == Len(cells)
<1>1. PICK g : /\ g = [i \in 2 .. n + 1 |-> SkipBody(cells, mark, g, i)]
               /\ g[2]
  BY SkipLoop
<1>2. ASSUME NEW i \in 2 .. n + 1, g[i]
      PROVE  i = n + 1 \/ (i <= n /\ BlockAt(cells, i, mark) /\ i + 4 <= n + 1 /\ g[i + 4])
  <2>1. SkipBody(cells, mark, g, i)
    BY <1>1, <1>2
  <2> QED  BY <1>2, <2>1 DEF SkipBody, BlockAt
<1> DEFINE T == {m \in Nat : 4 * m + 2 <= n + 1 => g[4 * m + 2]}
<1>3. 0 \in T
  BY <1>1
<1>4. ASSUME NEW m \in Nat, m \in T PROVE m + 1 \in T
  <2>1. ASSUME 4 * (m + 1) + 2 <= n + 1 PROVE g[4 * (m + 1) + 2]
    <3>1. 4 * m + 2 \in 2 .. n + 1 /\ 4 * m + 2 # n + 1 /\ 4 * (m + 1) + 2 = 4 * m + 2 + 4
      BY <2>1
    <3>2. g[4 * m + 2]
      BY <1>4, <3>1
    <3> QED  BY <1>2, <3>1, <3>2
  <2> QED  BY <2>1
<1>5. Nat \subseteq T
  <2> HIDE DEF T
  <2> QED  BY <1>3, <1>4, NaturalInduction
<1>6. ASSUME NEW i \in 2 .. n + 1, i % 4 = 2 PROVE g[i]
  <2>1. i = 4 * ((i - 2) \div 4) + 2 /\ (i - 2) \div 4 \in Nat
    BY <1>6
  <2> QED  BY <1>5, <2>1
<1>7. n % 4 = 1
  <2> DEFINE i == n + 1 - ((n - 1) % 4)
  <2>1. i \in 2 .. n + 1 /\ i % 4 = 2 /\ n + 1 - i \in 0 .. 3 /\ (i = n + 1 => n % 4 = 1)
    OBVIOUS
  <2> HIDE DEF i
  <2>2. g[i]
    BY <1>6, <2>1
  <2>3. i + 4 <= n + 1 => FALSE
    BY <2>1
  <2>4. i = n + 1
    BY <1>2, <2>1, <2>2, <2>3
  <2> QED  BY <2>1, <2>4
<1>8. \A i \in 2 .. n : i % 4 = 2 => BlockAt(cells, i, mark)
  BY <1>2, <1>6
<1> QED  BY <1>7, <1>8

------------------------------------------------------------------------------
\* What follows cells in w is b.
Follows(w, cells, b) ==
  /\ Len(w) = Len(cells) + Len(b)
  /\ \A i \in 1 .. Len(cells) : w[i] = cells[i]
  /\ \A i \in 1 .. Len(b) : w[Len(cells) + i] = b[i]
  /\ Prefix(w, Len(cells)) = cells

LEMMA ConcatFollows ==
  ASSUME NEW S, NEW s \in Seq(S), NEW t \in Seq(S)
  PROVE  Follows(s \o t, s, t)
<1> DEFINE w == s \o t
<1>1. /\ w \in Seq(S) /\ Len(w) = Len(s) + Len(t)
      /\ \A i \in 1 .. Len(s) : w[i] = s[i]
      /\ \A i \in 1 .. Len(t) : w[Len(s) + i] = t[i]
  OBVIOUS
<1> HIDE DEF w
<1>2. Len(s) \in 0 .. Len(w)
  BY <1>1
<1>3. Prefix(w, Len(s)) \in Seq(S) /\ Len(Prefix(w, Len(s))) = Len(s)
  BY <1>1, <1>2 DEF Prefix
<1>4. \A i \in 1 .. Len(s) : Prefix(w, Len(s))[i] = s[i]
  BY <1>1, <1>2 DEF Prefix
<1>5. Prefix(w, Len(s)) = s
  BY <1>3, <1>4
<1> QED  BY <1>1, <1>5 DEF Follows, w

LEMMA CellsAreFile ==
  ASSUME NEW cells \in Seq(Cells)
  PROVE  IsFile(cells, Records)
BY DEF IsFile, Cells

\* What follows whole blocks or nothing does not end a block.
NoBlock(cells, b) ==
  \/ cells = << >> /\ Len(b) <= 1
  \/ Len(cells) % 4 = 1 /\ Len(b) < 4
  \/ Len(cells) % 4 = 1 /\ Len(b) = 4 /\ b[4].kind # "sync"

\* Where cells have whole blocks and what follows is no block, no record is
\* added.
LEMMA NoBlockNoRecords ==
  ASSUME NEW cells \in Seq(Cells), NEW b \in Seq(Cells), NEW w \in Seq(Cells), Follows(w, cells, b),
         NoBlock(cells, b)
  PROVE  RecordsOf(w) = RecordsOf(cells)
<1> DEFINE n == Len(cells)
<1>1. /\ n \in Nat /\ Len(b) \in Nat /\ Len(w) = n + Len(b)
      /\ \A i \in 1 .. Len(b) : w[n + i] = b[i]
      /\ Prefix(w, n) = cells
  BY DEF Follows
<1>2. /\ \A j, k \in 0 .. Len(w) : k = j + 1 => RecordsStep(w, j, k)
      /\ RecordsOf(w) = RecordsOf(Prefix(w, Len(w)))
  BY CellsAreFile, RecordsByCell
<1>3. Len(b) <= 4 /\ (n = 0 \/ n % 4 = 1) /\ (n = 0 => Len(b) <= 1) /\ (Len(b) = 4 => b[4].kind # "sync")
  <2>1. Len(<< >>) = 0
    BY EmptySeq
  <2>2. Len(cells) % 4 = 1 \/ Len(cells) = 0
    BY <2>1 DEF NoBlock
  <2>3. Len(b) = 4 => b[4].kind # "sync"
    BY <1>1 DEF NoBlock
  <2>4. Len(b) <= 4 /\ (Len(cells) = 0 => Len(b) <= 1)
    <3>1. \A x \in Nat : (x <= 1 \/ x < 4 \/ x = 4 => x <= 4) /\ (0 % 4 # 1)
      OBVIOUS
    <3>2. Len(b) <= 1 \/ Len(b) < 4 \/ Len(b) = 4
      BY DEF NoBlock
    <3>3. Len(cells) = 0 => Len(b) <= 1
      BY <2>1, <3>1 DEF NoBlock
    <3> QED  BY <1>1, <3>1, <3>2, <3>3
  <2> QED  BY <2>2, <2>3, <2>4
<1> HIDE DEF n
<1>4. ASSUME NEW i \in 1 .. Len(b) PROVE ~BlockEnds(w, n + (i - 1), n + i)
  <2>1. (n + i) % 4 = 1 => n = 0 \/ i = 4
    <3>1. \A x \in Nat, k \in 1 .. 4 : x % 4 = 1 /\ (x + k) % 4 = 1 => k = 4
      OBVIOUS
    <3>2. i \in 1 .. 4 /\ n \in Nat
      BY <1>1, <1>3
    <3> QED  BY <1>3, <3>1, <3>2
  <2>2. n = 0 => ~(n + (i - 1) > 0)
    BY <1>1, <1>3
  <2>3. i = 4 => w[n + i].kind # "sync"
    <3>1. i = 4 => Len(b) = 4
      <4>1. \A x \in Nat : x <= 4 /\ 4 \in 1 .. x => x = 4
        OBVIOUS
      <4> QED  BY <1>1, <1>3, <4>1
    <3> QED  BY <1>1, <1>3, <3>1
  <2> QED  BY <2>1, <2>2, <2>3 DEF BlockEnds
<1> DEFINE T == {i \in 0 .. Len(b) : RecordsOf(Prefix(w, n + i)) = RecordsOf(cells)}
<1>5. 0 \in T
  BY <1>1
<1>6. ASSUME NEW i \in 1 .. Len(b), i - 1 \in T PROVE i \in T
  <2>1. n + i \in 0 .. Len(w) /\ n + (i - 1) \in 0 .. Len(w) /\ n + i = n + (i - 1) + 1 /\ i \in 0 .. Len(b)
    BY <1>1
  <2>2. RecordsStep(w, n + (i - 1), n + i)
    BY <1>2, <2>1
  <2>3. RecordsOf(Prefix(w, n + i)) = RecordsOf(Prefix(w, n + (i - 1)))
    BY <1>4, <2>2 DEF RecordsStep
  <2> QED  BY <1>6, <2>1, <2>3
<1>7. Len(b) \in T
  <2> HIDE DEF T
  <2>1. 0 .. Len(b) \subseteq T
    BY <1>1, <1>5, <1>6, BoundedInduction
  <2> QED  BY <1>1, <2>1
<1> QED  BY <1>1, <1>2, <1>7

\* A block with these records follows cells in w.
BlockFollows(w, cells, f, records, size, mark) ==
  Follows(w, cells, Block(f, Len(records), records, size, mark))

\* A block that lands whole behind a container makes a container with its
\* records.
LEMMA BlockLands ==
  ASSUME NEW cells \in Seq(Cells), IsContainer(cells), NEW f \in Formats, NEW mark \in Outputs,
         cells[1] = HeaderCell(f, mark),
         NEW records \in Seq(Records), NEW size \in Nat, NEW w \in Seq(Cells),
         BlockFollows(w, cells, f, records, size, mark)
  PROVE  IsContainer(w) /\ RecordsOf(w) = RecordsOf(cells) \o records /\ w[1] = cells[1]
<1> DEFINE n == Len(cells)
           b == Block(f, Len(records), records, size, mark)
           m == Len(records)
<1>1. /\ b \in Seq(Cells) /\ Len(b) = 4
      /\ b[1] = CountCell(m) /\ b[2] = SizeCell(size)
      /\ b[3] = DataCell(f, records) /\ b[4] = SyncCell(mark)
  <2>1. m \in Nat
    OBVIOUS
  <2> HIDE DEF m
  <2>2. b \in Seq(Cells) /\ Len(b) = 4
    BY <2>1, BlockCells
  <2>3. b = << CountCell(m), SizeCell(size), DataCell(f, records), SyncCell(mark) >>
    BY DEF Block, m
  <2> QED  BY <2>2, <2>3
<1>2. n \in Nat /\ n % 4 = 1
  <2>1. n \in Nat
    OBVIOUS
  <2>2. n % 4 = 1
    BY DEF IsContainer
  <2> QED  BY <2>1, <2>2
<1>h. cells # << >> /\ cells[1].kind = "header" /\ cells[1].sync = mark /\ cells[1].fmt = f
  BY DEF IsContainer, ReadsHeader, HeaderCell
<1>b. \A i \in 2 .. n : i % 4 = 2 =>
        /\ BlockAt(cells, i, mark)
        /\ cells[i].n = Len(cells[i + 2].recs)
        /\ cells[i + 2].fmt = f
  BY <1>h, Zenon DEF IsContainer
<1> HIDE DEF b
<1>3. /\ Len(w) = n + 4 /\ Prefix(w, n) = cells
      /\ \A i \in 1 .. n : w[i] = cells[i]
      /\ w[n + 1] = CountCell(m) /\ w[n + 2] = SizeCell(size)
      /\ w[n + 3] = DataCell(f, records) /\ w[n + 4] = SyncCell(mark)
  <2>1. Follows(w, cells, b)
    BY DEF b, BlockFollows
  <2> QED  BY <1>1, <2>1 DEF Follows
<1>4. m \in Nat
  OBVIOUS
<1> HIDE DEF n, m
<1>g. 1 \in 1 .. n /\ n + 4 # 0 /\ n + 4 \in Nat /\ (n + 4) % 4 = 1
  BY <1>2
<1>5. w[1] = cells[1] /\ w # << >>
  <2>1. Len(w) # 0
    BY <1>3, <1>g
  <2> QED  BY <1>3, <1>g, <2>1, EmptySeq
<1>6. ASSUME NEW i \in 2 .. Len(w), i % 4 = 2
      PROVE  /\ BlockAt(w, i, mark)
             /\ w[i].n = Len(w[i + 2].recs)
             /\ w[i + 2].fmt = f
  <2>1. CASE i <= n
    <3>1. /\ BlockAt(cells, i, mark)
          /\ cells[i].n = Len(cells[i + 2].recs)
          /\ cells[i + 2].fmt = f
      <4>1. i \in 2 .. n
        BY <1>2, <1>6, <2>1
      <4> QED  BY <1>b, <1>6, <4>1
    <3>2. i + 3 <= n
      BY <3>1 DEF BlockAt, n
    <3>3. i \in 1 .. n /\ i + 1 \in 1 .. n /\ i + 2 \in 1 .. n /\ i + 3 \in 1 .. n
      BY <1>2, <1>6, <3>2
    <3>4. w[i] = cells[i] /\ w[i + 1] = cells[i + 1] /\ w[i + 2] = cells[i + 2] /\ w[i + 3] = cells[i + 3]
      BY <1>3, <3>3
    <3>5. i + 3 <= Len(w)
      <4>1. Len(w) = n + 4
        BY <1>3
      <4> QED  BY <1>2, <3>2, <3>3, <4>1
    <3> QED  BY <3>1, <3>4, <3>5 DEF BlockAt
  <2>2. CASE i > n
    <3>1. i = n + 1
      <4>1. Len(w) = n + 4
        BY <1>3
      <4> QED  BY <1>2, <1>6, <2>2, <4>1
    <3>2. i + 1 = n + 2 /\ i + 2 = n + 3 /\ i + 3 = n + 4
      BY <1>2, <3>1
    <3>3. i + 3 <= Len(w)
      <4>1. Len(w) = n + 4
        BY <1>3
      <4> QED  BY <1>2, <3>1, <4>1
    <3>4. /\ w[i].kind = "count" /\ w[i].n = m /\ w[i + 1].kind = "size" /\ w[i + 1].n = size
          /\ w[i + 2].kind = "data" /\ w[i + 2].recs = records /\ w[i + 2].fmt = f
          /\ w[i + 3] = SyncCell(mark)
      BY <1>3, <3>1, <3>2 DEF CountCell, SizeCell, DataCell
    <3>5. w[i].n >= 0 /\ w[i + 1].n >= 0
      BY <1>4, <3>4
    <3>6. w[i].n = Len(w[i + 2].recs)
      BY <3>4 DEF m
    <3> QED  BY <3>3, <3>4, <3>5, <3>6 DEF BlockAt
  <2> QED  BY <1>2, <1>6, <2>1, <2>2
<1>7. Len(w) % 4 = 1
  BY <1>3, <1>g
<1>8. IsContainer(w)
  <2>1. w[1].kind = "header" /\ w[1].sync = mark /\ w[1].fmt = f
    BY <1>5, <1>h
  <2> QED  BY <1>5, <1>6, <1>7, <2>1 DEF IsContainer, ReadsHeader
<1>9. /\ \A j, k \in 0 .. Len(w) : k = j + 1 => RecordsStep(w, j, k)
      /\ RecordsOf(w) = RecordsOf(Prefix(w, Len(w)))
  BY CellsAreFile, RecordsByCell
<1>10. RecordsStep(w, n, n + 1) /\ RecordsStep(w, n + 1, n + 2) /\ RecordsStep(w, n + 2, n + 3) /\ RecordsStep(w, n + 3, n + 4)
  <2>1. Len(w) = n + 4
    BY <1>3
  <2>2. /\ n \in 0 .. Len(w) /\ n + 1 \in 0 .. Len(w) /\ n + 2 \in 0 .. Len(w)
        /\ n + 3 \in 0 .. Len(w) /\ n + 4 \in 0 .. Len(w)
        /\ n + 2 = n + 1 + 1 /\ n + 3 = n + 2 + 1 /\ n + 4 = n + 3 + 1
    BY <1>2, <2>1
  <2> QED  BY <1>9, <2>2
<1>11. ~BlockEnds(w, n, n + 1) /\ ~BlockEnds(w, n + 1, n + 2) /\ ~BlockEnds(w, n + 2, n + 3)
  <2>1. (n + 1) % 4 # 1 /\ (n + 2) % 4 # 1 /\ (n + 3) % 4 # 1
    BY <1>2
  <2> QED  BY <2>1 DEF BlockEnds
<1>12. BlockEnds(w, n + 3, n + 4) /\ w[n + 3].recs = records
  <2>1. (n + 4) % 4 = 1 /\ n + 3 > 0
    BY <1>2
  <2>2. w[n + 4].kind = "sync" /\ w[n + 3].kind = "data" /\ w[n + 3].recs = records
    BY <1>3 DEF SyncCell, DataCell
  <2> QED  BY <2>1, <2>2 DEF BlockEnds
<1>13. RecordsOf(Prefix(w, n + 3)) = RecordsOf(cells)
  BY <1>3, <1>10, <1>11 DEF RecordsStep
<1>14. RecordsOf(Prefix(w, n + 4)) = RecordsOf(Prefix(w, n + 3)) \o records
  BY <1>10, <1>12 DEF RecordsStep
<1>15. RecordsOf(w) = RecordsOf(Prefix(w, n + 4))
  BY <1>3, <1>9
<1> QED  BY <1>5, <1>8, <1>13, <1>14, <1>15

\* A header alone is a container without records.
LEMMA HeaderLands ==
  ASSUME NEW f \in Formats, NEW mark \in Outputs
  PROVE  /\ IsContainer(<< HeaderCell(f, mark) >>)
         /\ RecordsOf(<< HeaderCell(f, mark) >>) = << >>
         /\ << HeaderCell(f, mark) >>[1] = HeaderCell(f, mark)
<1> DEFINE w == << HeaderCell(f, mark) >>
<1>1. w \in Seq(Cells) /\ w # << >>
  BY HeaderCells
<1>2. Len(w) = 1 /\ w[1] = HeaderCell(f, mark)
  OBVIOUS
<1> HIDE DEF w
<1>3. IsContainer(w)
  BY <1>1, <1>2 DEF IsContainer, ReadsHeader, HeaderCell
<1>4. IsFile(w, Records)
  BY <1>1, CellsAreFile
<1>5. /\ \A j, k \in 0 .. Len(w) : k = j + 1 => RecordsStep(w, j, k)
      /\ RecordsOf(Prefix(w, 0)) = << >>
      /\ RecordsOf(w) = RecordsOf(Prefix(w, Len(w)))
  BY <1>4, RecordsByCell
<1>6. RecordsStep(w, 0, 1)
  BY <1>2, <1>5
<1>7. RecordsOf(w) = << >>
  BY <1>2, <1>5, <1>6 DEF RecordsStep, BlockEnds
<1> QED  BY <1>2, <1>3, <1>7 DEF w

------------------------------------------------------------------------------
(* Every output is a container, or one whose last write was cut. *)

\* A container with these records.
WholeFile(cells, recs) == IsContainer(cells) /\ RecordsOf(cells) = recs

\* One to four cells follow a container with these records, or nothing, and
\* they are not a whole block.
CutFile(cells, recs) ==
  \E k \in 1 .. 4 :
    /\ k <= Len(cells)
    /\ IsContainer(Prefix(cells, Len(cells) - k)) \/ Prefix(cells, Len(cells) - k) = << >>
    /\ RecordsOf(Prefix(cells, Len(cells) - k)) = recs
    /\ RecordsOf(cells) = recs
    /\ Len(cells) % 4 # 1 \/ cells[Len(cells)] = TornCell

LEMMA LandingShape ==
  ASSUME NEW b \in Seq(Cells), NEW part \in Landings(b), part # b
  PROVE  /\ part \in Seq(Cells)
         /\ \/ Len(part) < Len(b)
            \/ Len(part) = Len(b) /\ Len(b) # 0 /\ part[Len(b)] = TornCell
<1>1. part \in Seq(Cells)
  <2>1. part \in Sent(b, FALSE, "err") /\ "err" \in Outcomes
    BY DEF Sent, Outcomes
  <2> QED  BY <2>1, SentCells
<1>2. ASSUME NEW k \in 0 .. Len(b), part = SubSeq(b, 1, k)
      PROVE  Len(part) < Len(b)
  <2>1. k = Len(b) => SubSeq(b, 1, k) = b
    OBVIOUS
  <2>2. Len(part) = k
    BY <1>2
  <2> QED  BY <1>2, <2>1, <2>2
<1>3. ASSUME NEW k \in 1 .. Len(b), part = Append(SubSeq(b, 1, k - 1), TornCell)
      PROVE  Len(part) < Len(b) \/ (Len(part) = Len(b) /\ Len(b) # 0 /\ part[Len(b)] = TornCell)
  <2> DEFINE s == SubSeq(b, 1, k - 1)
  <2>1. s \in Seq(Cells) /\ Len(s) = k - 1
    OBVIOUS
  <2> HIDE DEF s
  <2>2. TornCell \in Cells
    BY DEF TornCell, Cells
  <2>3. Len(Append(s, TornCell)) = k /\ Append(s, TornCell)[k] = TornCell
    BY <2>1, <2>2
  <2>4. part = Append(s, TornCell)
    BY <1>3 DEF s
  <2> QED  BY <2>3, <2>4
<1> QED  BY <1>1, <1>2, <1>3 DEF Landings

\* A write of the block with these records: what lands of it, and all of it.
LandsOf(part, f, records, size, mark) ==
  part \in Landings(Block(f, Len(records), records, size, mark))
LandsWhole(part, f, records, size, mark) ==
  part = Block(f, Len(records), records, size, mark)

\* What a write of a block to a container leaves.
LEMMA BlockOrCut ==
  ASSUME NEW cells \in Seq(Cells), NEW recs, WholeFile(cells, recs),
         NEW f \in Formats, NEW mark \in Outputs, cells[1] = HeaderCell(f, mark),
         NEW records \in Seq(Records), NEW size \in Nat,
         NEW part, LandsOf(part, f, records, size, mark)
  PROVE  /\ LandsWhole(part, f, records, size, mark)
              => WholeFile(cells \o part, recs \o records) /\ (cells \o part)[1] = cells[1]
         /\ ~LandsWhole(part, f, records, size, mark)
              => WholeFile(cells \o part, recs) \/ CutFile(cells \o part, recs)
<1> DEFINE b == Block(f, Len(records), records, size, mark)
           w == cells \o part
<1>0. part \in Landings(b) /\ (LandsWhole(part, f, records, size, mark) <=> part = b)
  BY DEF LandsOf, LandsWhole
<1>1. b \in Seq(Cells) /\ Len(b) = 4
  <2>1. Len(records) \in Nat
    OBVIOUS
  <2> QED  BY <2>1, BlockCells
<1>2. part \in Seq(Cells)
  <2>1. part \in Sent(b, FALSE, "err") /\ "err" \in Outcomes
    BY <1>0 DEF Sent, Outcomes
  <2> HIDE DEF b
  <2> QED  BY <1>1, <2>1, SentCells
<1>3. w \in Seq(Cells) /\ Follows(w, cells, part)
  BY <1>2, ConcatFollows
<1>4. ASSUME part = b PROVE WholeFile(w, recs \o records) /\ w[1] = cells[1]
  <2>1. BlockFollows(w, cells, f, records, size, mark)
    BY <1>3, <1>4 DEF BlockFollows
  <2>2. w \in Seq(Cells) /\ IsContainer(cells) /\ RecordsOf(cells) = recs
    BY <1>3 DEF WholeFile
  <2> HIDE DEF w
  <2>3. IsContainer(w) /\ RecordsOf(w) = RecordsOf(cells) \o records /\ w[1] = cells[1]
    BY <2>1, <2>2, BlockLands, ZenonT(30)
  <2> QED  BY <2>2, <2>3 DEF WholeFile
<1>5. ASSUME part # b PROVE WholeFile(w, recs) \/ CutFile(w, recs)
  <2>1. Len(part) < 4 \/ (Len(part) = 4 /\ part[4] = TornCell)
    <3> HIDE DEF b
    <3>1. Len(part) < Len(b) \/ (Len(part) = Len(b) /\ Len(b) # 0 /\ part[Len(b)] = TornCell)
      BY <1>1, <1>5, <1>0, LandingShape
    <3> QED  BY <1>1, <3>1
  <2> HIDE DEF b
  <2>2. Len(part) \in 0 .. 4 /\ Len(cells) \in Nat /\ Len(cells) % 4 = 1
    <3>1. Len(part) \in Nat /\ Len(cells) \in Nat
      BY <1>2
    <3>2. Len(cells) % 4 = 1
      BY DEF WholeFile, IsContainer
    <3>3. Len(part) \in 0 .. 4
      <4>1. Len(part) < 4 \/ Len(part) = 4
        BY <2>1
      <4>2. \A x \in Nat : x < 4 \/ x = 4 => x \in 0 .. 4
        OBVIOUS
      <4> QED  BY <3>1, <4>1, <4>2
    <3> QED  BY <3>1, <3>2, <3>3
  <2>3. Len(part) = 4 => part[4].kind # "sync"
    BY <2>1 DEF TornCell
  <2> HIDE DEF w
  <2>4. RecordsOf(w) = recs
    <3>1. NoBlock(cells, part)
      BY <2>1, <2>2, <2>3 DEF NoBlock
    <3> QED  BY <1>2, <1>3, <3>1, NoBlockNoRecords DEF WholeFile
  <2>5. /\ Len(w) = Len(cells) + Len(part) /\ Prefix(w, Len(cells)) = cells
        /\ \A i \in 1 .. Len(part) : w[Len(cells) + i] = part[i]
    BY <1>3 DEF Follows
  <2>6. CASE Len(part) = 0
    <3>1. part = << >>
      BY <1>2, <2>6, EmptySeq
    <3>2. w = cells
      BY <3>1, ConcatEmptySeq DEF w
    <3> QED  BY <3>2
  <2>7. CASE Len(part) # 0
    <3>1. Len(part) \in 1 .. 4 /\ Len(part) <= Len(w) /\ Len(w) - Len(part) = Len(cells)
      BY <2>2, <2>5, <2>7
    <3>2. Len(w) % 4 # 1 \/ w[Len(w)] = TornCell
      <4>1. \A x \in Nat, k \in 1 .. 4 : x % 4 = 1 /\ (x + k) % 4 = 1 => k = 4
        OBVIOUS
      <4>2. Len(w) % 4 = 1 => Len(part) = 4
        BY <2>2, <2>5, <3>1, <4>1
      <4>3. Len(part) = 4 => w[Len(w)] = part[4]
        BY <2>5
      <4> QED  BY <2>1, <4>2, <4>3
    <3>3. IsContainer(Prefix(w, Len(w) - Len(part))) /\ RecordsOf(Prefix(w, Len(w) - Len(part))) = recs
      BY <2>5, <3>1 DEF WholeFile
    <3> QED  BY <2>4, <3>1, <3>2, <3>3 DEF CutFile
  <2> QED  BY <2>6, <2>7
<1> QED  BY <1>0, <1>4, <1>5

\* What a write of a header to an empty output leaves.
LEMMA HeaderOrCut ==
  ASSUME NEW f \in Formats, NEW mark \in Outputs, NEW part \in Landings(<< HeaderCell(f, mark) >>)
  PROVE  part = << >> \/ WholeFile(part, << >>) \/ CutFile(part, << >>)
<1> DEFINE h == << HeaderCell(f, mark) >>
<1>1. h \in Seq(Cells)
  BY HeaderCells
<1>2. Len(h) = 1
  OBVIOUS
<1>3. part = h => WholeFile(part, << >>)
  BY HeaderLands DEF WholeFile
<1> HIDE DEF h
<1>4. CASE part # h
  <2>1. part \in Landings(h)
    BY DEF h
  <2>2. part \in Seq(Cells) /\ (Len(part) < 1 \/ (Len(part) = 1 /\ part[1] = TornCell))
    BY <1>1, <1>2, <1>4, <2>1, LandingShape
  <2>3. Len(part) < 1 => part = << >>
    BY <2>2, EmptySeq
  <2>4. ASSUME Len(part) = 1, part[1] = TornCell PROVE CutFile(part, << >>)
    <3>1. IsFile(part, Records)
      BY <2>2, CellsAreFile
    <3>2. /\ \A j, k \in 0 .. Len(part) : k = j + 1 => RecordsStep(part, j, k)
          /\ RecordsOf(Prefix(part, 0)) = << >>
          /\ RecordsOf(part) = RecordsOf(Prefix(part, Len(part)))
      BY <3>1, RecordsByCell
    <3>3. RecordsStep(part, 0, 1)
      BY <2>4, <3>2
    <3>4. RecordsOf(part) = << >>
      BY <2>4, <3>2, <3>3 DEF RecordsStep, BlockEnds
    <3>5. Prefix(part, 0) = << >>
      BY <2>2 DEF Prefix
    <3>6. Len(part) - 1 = 0
      BY <2>4
    <3> QED  BY <2>4, <3>2, <3>4, <3>5, <3>6 DEF CutFile
  <2> QED  BY <2>2, <2>3, <2>4
<1> QED  BY <1>3, <1>4

\* An append is refused on a cut file.
LEMMA CutIsRefused ==
  ASSUME NEW cells \in Seq(Cells), NEW recs, CutFile(cells, recs), ReadsHeader(cells), NEW mark
  PROVE  ~SkipToEnd(cells, mark)
<1> SUFFICES ASSUME SkipToEnd(cells, mark) PROVE FALSE
  OBVIOUS
<1> DEFINE n == Len(cells)
<1>1. n \in Nat \ {0} /\ cells[1].kind = "header"
  <2>1. n \in Nat /\ (n = 0 => cells = << >>)
    BY EmptySeq
  <2> QED  BY <2>1 DEF ReadsHeader
<1>2. n % 4 = 1 /\ \A i \in 2 .. n : i % 4 = 2 => BlockAt(cells, i, mark)
  BY <1>1, SkipFindsBlocks
<1>3. n % 4 # 1 \/ cells[n] = TornCell
  BY DEF CutFile
<1> HIDE DEF n
<1>4. cells[n].kind = "torn" /\ n # 1
  BY <1>1, <1>2, <1>3 DEF TornCell
<1>5. n - 3 \in 2 .. n /\ (n - 3) % 4 = 2 /\ n - 3 + 3 = n
  BY <1>1, <1>2, <1>4
<1>6. cells[n] = SyncCell(mark)
  <2>1. BlockAt(cells, n - 3, mark)
    BY <1>2, <1>5
  <2>2. cells[n - 3 + 3] = SyncCell(mark)
    BY <2>1 DEF BlockAt
  <2> QED  BY <1>5, <2>2
<1> QED  BY <1>4, <1>6 DEF SyncCell

------------------------------------------------------------------------------
FilesInv ==
  \A o \in Outputs :
    \/ files[o] = << >>
    \/ WholeFile(files[o], landed[o])
    \/ lossy[o] /\ CutFile(files[o], landed[o])

\* A healthy encoder writes to a whole file, of its own format and mark.
OpenFileInv ==
  up => /\ header.fmt = fmt
        /\ ~failed => WholeFile(files[cur], landed[cur]) /\ files[cur][1] = HeaderCell(fmt, sync)

ContainerInv == FilesInv /\ OpenFileInv

\* Calls that write nothing.
LEMMA IdleKeepsFiles ==
  ASSUME ContainerInv, UNCHANGED << files, cur, header, fmt, sync, landed >>,
         \A o \in Outputs : lossy[o] => lossy'[o],
         up' => up, up' /\ failed => failed'
  PROVE  ContainerInv'
BY DEF ContainerInv, FilesInv, OpenFileInv

\* Calls that write a block.
LEMMA BlockKeepsFiles ==
  ASSUME EncoderInv, ContainerInv, up, ~failed,
         NEW n \in Nat, NEW records \in Seq(Records), NEW size \in Nat, NEW outcome \in Outcomes,
         n = Len(records), WriterBlock(n, records, size, outcome),
         UNCHANGED << cur, header, fmt, sync >>, failed' = (outcome # "ok")
  PROVE  ContainerInv'
<1> DEFINE b == Block(fmt, Len(records), records, size, sync)
<1>1. /\ ~werr /\ wbuf = << >> /\ cur \in Outputs
      /\ files \in [Outputs -> Seq(Cells)] /\ landed \in [Outputs -> Seq(Records)]
      /\ lossy \in [Outputs -> BOOLEAN] /\ fmt \in Formats /\ sync \in Outputs
  BY DEF EncoderInv, TypeOK, FailedMatchesWriter
<1>2. b \in Seq(Cells) /\ wbuf \o b = b
  <2>1. b \in Seq(Cells)
    <3>1. Len(records) \in Nat
      OBVIOUS
    <3> QED  BY <1>1, <3>1, BlockCells
  <2> HIDE DEF b
  <2> QED  BY <1>1, <2>1, ConcatEmptySeq
<1>3. WriterFlush(cur, wbuf \o b, records, werr, outcome)
  BY DEF WriterBlock
<1>4. PICK part \in Sent(b, werr, outcome) :
        /\ files' = [files EXCEPT ![cur] = @ \o part]
        /\ landed' = [landed EXCEPT ![cur] = IF part = b THEN @ \o records ELSE @]
  <2> HIDE DEF b
  <2> QED  BY <1>2, <1>3 DEF WriterFlush
<1>5. /\ lossy' = [lossy EXCEPT ![cur] = @ \/ outcome # "ok"]
      /\ up' = (outcome # "crash")
  BY DEF WriterBlock, WriterFlush
<1>6. part \in Landings(b) /\ (outcome = "ok" => part = b)
  <2>1. b \in Landings(b)
    <3>1. SubSeq(b, 1, Len(b)) = b /\ Len(b) \in 0 .. Len(b)
      <4> HIDE DEF b
      <4> QED  BY <1>2
    <3> HIDE DEF b
    <3> QED  BY <3>1 DEF Landings
  <2> HIDE DEF b
  <2> QED  BY <1>1, <2>1 DEF Sent
<1>7. WholeFile(files[cur], landed[cur]) /\ files[cur][1] = HeaderCell(fmt, sync) /\ header.fmt = fmt
  BY DEF ContainerInv, OpenFileInv
<1>8. /\ part = b => WholeFile(files[cur] \o part, landed[cur] \o records)
                       /\ (files[cur] \o part)[1] = files[cur][1]
      /\ part # b => WholeFile(files[cur] \o part, landed[cur]) \/ CutFile(files[cur] \o part, landed[cur])
  <2>1. files[cur] \in Seq(Cells)
    BY <1>1
  <2>2. LandsOf(part, fmt, records, size, sync) /\ (LandsWhole(part, fmt, records, size, sync) <=> part = b)
    BY <1>6 DEF LandsOf, LandsWhole
  <2> HIDE DEF b
  <2> DEFINE F == files[cur]  R == landed[cur]
  <2>3. /\ F \in Seq(Cells) /\ WholeFile(F, R) /\ F[1] = HeaderCell(fmt, sync)
        /\ fmt \in Formats /\ sync \in Outputs
        /\ LandsOf(part, fmt, records, size, sync)
    BY <1>1, <1>7, <2>1, <2>2
  <2> HIDE DEF F, R
  <2>4. /\ LandsWhole(part, fmt, records, size, sync) => WholeFile(F \o part, R \o records) /\ (F \o part)[1] = F[1]
        /\ ~LandsWhole(part, fmt, records, size, sync) => WholeFile(F \o part, R) \/ CutFile(F \o part, R)
    BY <2>3, BlockOrCut
  <2> QED  BY <2>2, <2>4 DEF F, R
<1> HIDE DEF b
<1>9. /\ files'[cur] = files[cur] \o part
      /\ landed'[cur] = IF part = b THEN landed[cur] \o records ELSE landed[cur]
      /\ lossy'[cur] = (lossy[cur] \/ outcome # "ok")
      /\ \A o \in Outputs \ {cur} : files'[o] = files[o] /\ landed'[o] = landed[o] /\ lossy'[o] = lossy[o]
  BY <1>1, <1>4, <1>5
<1>10. FilesInv'
  <2>1. ASSUME NEW o \in Outputs, o # cur
        PROVE  \/ files'[o] = << >>
               \/ WholeFile(files'[o], landed'[o])
               \/ lossy'[o] /\ CutFile(files'[o], landed'[o])
    BY <1>9, <2>1 DEF ContainerInv, FilesInv
  <2>2. WholeFile(files'[cur], landed'[cur]) \/ (lossy'[cur] /\ CutFile(files'[cur], landed'[cur]))
    <3>1. CASE part = b
      BY <1>8, <1>9, <3>1
    <3>2. CASE part # b
      BY <1>6, <1>8, <1>9, <3>2
    <3> QED  BY <3>1, <3>2
  <2> QED  BY <2>1, <2>2 DEF FilesInv
<1>11. OpenFileInv'
  <2>1. ASSUME outcome = "ok" PROVE WholeFile(files'[cur], landed'[cur]) /\ files'[cur][1] = HeaderCell(fmt, sync)
    BY <1>6, <1>7, <1>8, <1>9, <2>1
  <2> QED  BY <1>7, <2>1 DEF OpenFileInv
<1> QED  BY <1>10, <1>11 DEF ContainerInv

LEMMA AddRecordKeepsFiles ==
  ASSUME EncoderInv, ContainerInv, up, ~failed, NEW op, NEW size \in RecordSizes,
         NEW outcome \in Outcomes, nextRec \in Records, AddRecord(op, size, outcome)
  PROVE  ContainerInv'
<1>1. UNCHANGED << cur, header, fmt, sync >> /\ ~werr
  BY DEF AddRecord, EncoderInv, FailedMatchesWriter
<1>2. CASE WriterBlock(count + 1, Append(buf, nextRec), bufLen + size, outcome) /\ failed' = (outcome # "ok")
  <2>1. buf \in Seq(Records) /\ count = Len(buf) /\ bufLen \in Nat /\ size \in Nat
    BY SizesAssumption DEF EncoderInv, TypeOK, FailedMatchesWriter
  <2>2. /\ count + 1 \in Nat /\ Append(buf, nextRec) \in Seq(Records) /\ bufLen + size \in Nat
        /\ count + 1 = Len(Append(buf, nextRec))
    BY <2>1
  <2> QED  BY <1>1, <1>2, <2>2, BlockKeepsFiles
<1>3. CASE failed' = werr /\ UNCHANGED << files, up, landed, lossy >>
  BY <1>1, <1>3, IdleKeepsFiles
<1> QED  BY <1>2, <1>3 DEF AddRecord

LEMMA DoFlushKeepsFiles ==
  ASSUME EncoderInv, ContainerInv, up, NEW op, NEW outcome \in Outcomes, DoFlush(op, outcome),
         UNCHANGED << cur, header, fmt, sync >>
  PROVE  ContainerInv'
<1>1. failed = werr /\ count = Len(buf) /\ count \in Nat /\ buf \in Seq(Records) /\ bufLen \in Nat
  BY DEF EncoderInv, TypeOK, FailedMatchesWriter
<1>2. CASE failed' \in {failed, werr} /\ UNCHANGED << files, up, landed, lossy >>
  BY <1>1, <1>2, IdleKeepsFiles
<1>3. CASE ~failed /\ WriterBlock(count, buf, bufLen, outcome) /\ failed' = (outcome # "ok")
  BY <1>1, <1>3, BlockKeepsFiles
<1> QED  BY <1>2, <1>3 DEF DoFlush

\* One output's part of FilesInv.
FileInv(o) ==
  \/ files[o] = << >>
  \/ WholeFile(files[o], landed[o])
  \/ lossy[o] /\ CutFile(files[o], landed[o])

\* A whole header is a container without records, with its own first cell.
LEMMA HeaderWritten ==
  ASSUME NEW f \in Formats, NEW mark \in Outputs, NEW outcome \in Outcomes,
         NEW part \in Sent(<< HeaderCell(f, mark) >>, FALSE, outcome)
  PROVE  /\ part = << >> \/ WholeFile(part, << >>) \/ CutFile(part, << >>)
         /\ outcome = "ok" => WholeFile(part, << >>) /\ part[1] = HeaderCell(f, mark)
         /\ part \in Seq(Cells)
<1> DEFINE h == << HeaderCell(f, mark) >>
<1>1. outcome = "ok" => part = h
  BY DEF Sent
<1>2. WholeFile(h, << >>) /\ h[1] = HeaderCell(f, mark)
  BY HeaderLands DEF WholeFile
<1>3. outcome # "ok" => part \in Landings(h)
  BY DEF Sent
<1>4. part \in Seq(Cells)
  BY HeaderCells, SentCells
<1>5. outcome # "ok" => part = << >> \/ WholeFile(part, << >>) \/ CutFile(part, << >>)
  BY <1>3, HeaderOrCut
<1> HIDE DEF h
<1> QED  BY <1>1, <1>2, <1>4, <1>5

LEMMA NewEncoderKeepsFiles ==
  ASSUME EncoderInv, ContainerInv, NEW o \in Target, NEW format \in Formats,
         NEW outcome \in Outcomes, NewEncoder(o, format, outcome)
  PROVE  ContainerInv'
<1>1. /\ o \in Outputs /\ files[o] = << >> /\ landed[o] = << >> /\ landed' = landed
      /\ files \in [Outputs -> Seq(Cells)] /\ lossy \in [Outputs -> BOOLEAN]
  BY DEF Target, NewEncoder, EncoderInv, OutputsInOrder, TypeOK
<1>2. PICK part \in Sent(<< HeaderCell(format, o) >>, FALSE, outcome) : files' = [files EXCEPT ![o] = part]
  BY DEF NewEncoder
<1>3. /\ part = << >> \/ WholeFile(part, << >>) \/ CutFile(part, << >>)
      /\ outcome = "ok" => WholeFile(part, << >>) /\ part[1] = HeaderCell(format, o)
  BY <1>1, <1>2, HeaderWritten
<1>4. /\ files'[o] = part /\ landed'[o] = << >> /\ lossy'[o] = (outcome # "ok")
      /\ \A p \in Outputs \ {o} : files'[p] = files[p] /\ landed'[p] = landed[p] /\ lossy'[p] = lossy[p]
  BY <1>1, <1>2 DEF NewEncoder
<1>5. FilesInv'
  BY <1>3, <1>4 DEF FilesInv, ContainerInv
<1>6. OpenFileInv'
  <2>1. CASE outcome = "ok"
    <3>1. cur' = o /\ header' = [fmt |-> format, sync |-> o] /\ fmt' = format /\ sync' = o
      BY <2>1 DEF NewEncoder, Constructed
    <3>2. header'.fmt = fmt'
      BY <3>1
    <3> QED  BY <1>3, <1>4, <2>1, <3>1, <3>2 DEF OpenFileInv
  <2>2. CASE outcome # "ok"
    BY <2>2 DEF NewEncoder, OpenFileInv
  <2> QED  BY <2>1, <2>2
<1> QED  BY <1>5, <1>6 DEF ContainerInv

LEMMA NewEncoderAppendKeepsFiles ==
  ASSUME EncoderInv, ContainerInv, NEW o \in Target, NewEncoderAppend(o)
  PROVE  ContainerInv'
<1>1. /\ o \in Outputs /\ files[o] # << >> /\ files[o] \in Seq(Cells)
      /\ files' = files /\ landed' = landed /\ lossy \in [Outputs -> BOOLEAN]
  BY DEF Target, NewEncoderAppend, EncoderInv, TypeOK
<1>2. CASE /\ ReadsHeader(files[o]) /\ SkipToEnd(files[o], files[o][1].sync)
           /\ Constructed(o, files[o][1].fmt, files[o][1].sync)
           /\ lossy' = [lossy EXCEPT ![o] = FALSE]
  <2> DEFINE F == files[o]
  <2>1. F \in Seq(Cells) /\ ReadsHeader(F) /\ SkipToEnd(F, F[1].sync) /\ F # << >>
    BY <1>1, <1>2
  <2>2. F[1] = HeaderCell(F[1].fmt, F[1].sync)
    <3> HIDE DEF F
    <3>1. F[1] \in Cells /\ F[1].kind = "header"
      BY <2>1, EmptySeq, ElementOfSeq DEF ReadsHeader
    <3> QED  BY <3>1 DEF Cells, HeaderCell
  <2>3. ~CutFile(F, landed[o])
    <3> HIDE DEF F
    <3> QED  BY <2>1, CutIsRefused
  <2>4. WholeFile(files[o], landed[o])
    BY <1>1, <2>3 DEF ContainerInv, FilesInv
  <2>5. FilesInv'
    <3>1. \A p \in Outputs \ {o} : lossy'[p] = lossy[p]
      BY <1>1, <1>2
    <3> QED  BY <1>1, <2>4, <3>1 DEF FilesInv, ContainerInv
  <2>6. OpenFileInv'
    <3>1. /\ cur' = o /\ header' = [fmt |-> F[1].fmt, sync |-> F[1].sync]
          /\ fmt' = F[1].fmt /\ sync' = F[1].sync
      BY <1>2 DEF Constructed
    <3>2. header'.fmt = fmt'
      BY <3>1
    <3>3. WholeFile(files'[cur'], landed'[cur']) /\ files'[cur'][1] = HeaderCell(fmt', sync')
      BY <1>1, <2>2, <2>4, <3>1
    <3> QED  BY <3>2, <3>3 DEF OpenFileInv
  <2> QED  BY <2>5, <2>6 DEF ContainerInv
<1>3. CASE up' = FALSE /\ UNCHANGED lossy
  BY <1>1, <1>3 DEF ContainerInv, FilesInv, OpenFileInv
<1> QED  BY <1>2, <1>3 DEF NewEncoderAppend, encVars

LEMMA ResetAttachKeepsFiles ==
  ASSUME EncoderInv, ContainerInv, NEW outcome \in Outcomes, ResetAttach(outcome)
  PROVE  ContainerInv'
<1> DEFINE new     == cur + 1
           pending == wbuf \o Block(fmt, count, buf, bufLen, sync)
<1>1. /\ up /\ new \in Outputs /\ cur \in Outputs /\ new # cur /\ new > cur
      /\ cur' = new /\ fmt' = fmt /\ sync' = new /\ header.fmt = fmt /\ fmt \in Formats /\ sync \in Outputs
      /\ header \in [fmt : Formats, sync : Outputs] /\ header' = [header EXCEPT !.sync = new]
      /\ files \in [Outputs -> Seq(Cells)] /\ landed \in [Outputs -> Seq(Records)]
      /\ lossy \in [Outputs -> BOOLEAN]
      /\ buf \in Seq(Records) /\ bufLen \in Nat /\ count = Len(buf)
      /\ failed' = (outcome # "ok")
  <2>1. /\ cur \in Outputs /\ fmt \in Formats /\ sync \in Outputs
        /\ header \in [fmt : Formats, sync : Outputs]
        /\ files \in [Outputs -> Seq(Cells)] /\ landed \in [Outputs -> Seq(Records)]
        /\ lossy \in [Outputs -> BOOLEAN]
        /\ buf \in Seq(Records) /\ bufLen \in Nat
    BY DEF EncoderInv, TypeOK
  <2>2. /\ up /\ new \in Outputs /\ cur' = new /\ fmt' = fmt /\ sync' = new
        /\ header' = [header EXCEPT !.sync = new] /\ failed' = (outcome # "ok")
    BY DEF ResetAttach
  <2>3. header.fmt = fmt /\ count = Len(buf)
    BY <2>2 DEF EncoderInv, FailedMatchesWriter, ContainerInv, OpenFileInv
  <2>4. new # cur /\ new > cur
    BY <2>1 DEF Outputs
  <2> QED  BY <2>1, <2>2, <2>3, <2>4
<1>2. files[new] = << >> /\ landed[new] = << >>
  BY <1>1 DEF EncoderInv, OutputsInOrder
<1>3. PICK part \in Sent(<< HeaderCell(fmt, new) >>, FALSE, outcome) :
        files' = [files EXCEPT ![cur] = IF ResetFlushes THEN @ \o pending ELSE @, ![new] = @ \o part]
  BY <1>1 DEF ResetAttach
<1>4. /\ part = << >> \/ WholeFile(part, << >>) \/ CutFile(part, << >>)
      /\ outcome = "ok" => WholeFile(part, << >>) /\ part[1] = HeaderCell(fmt, new)
      /\ part \in Seq(Cells)
  BY <1>1, <1>3, HeaderWritten
<1>5. << >> \o part = part
  BY <1>4, ConcatEmptySeq
<1> HIDE DEF new, pending
<1>6. /\ files'[new] = part /\ landed'[new] = << >> /\ lossy'[new] = (outcome # "ok")
      /\ files'[cur] = IF ResetFlushes THEN files[cur] \o pending ELSE files[cur]
      /\ landed'[cur] = IF ResetFlushes THEN landed[cur] \o buf ELSE landed[cur]
      /\ lossy'[cur] = lossy[cur]
      /\ \A o \in Outputs \ {cur, new} : files'[o] = files[o] /\ landed'[o] = landed[o] /\ lossy'[o] = lossy[o]
  <2>1. /\ landed' = [landed EXCEPT ![cur] = IF ResetFlushes THEN @ \o buf ELSE @]
        /\ lossy' = [lossy EXCEPT ![new] = outcome # "ok"]
    BY DEF ResetAttach, new
  <2> QED  BY <1>1, <1>2, <1>3, <1>5, <2>1
<1>7. ResetFlushes => WholeFile(files'[cur], landed'[cur])
  <2> SUFFICES ASSUME ResetFlushes PROVE WholeFile(files'[cur], landed'[cur])
    OBVIOUS
  <2>1. wbuf = << >> /\ WholeFile(files[cur], landed[cur]) /\ files[cur][1] = HeaderCell(fmt, sync)
    BY <1>1 DEF ResetFlushes, EncoderInv, FailedMatchesWriter, ContainerInv, OpenFileInv
  <2>2. pending = Block(fmt, Len(buf), buf, bufLen, sync)
    <3>1. Block(fmt, Len(buf), buf, bufLen, sync) \in Seq(Cells)
      <4>1. Len(buf) \in Nat
        BY <1>1
      <4> QED  BY <1>1, <4>1, BlockCells
    <3>2. << >> \o Block(fmt, Len(buf), buf, bufLen, sync) = Block(fmt, Len(buf), buf, bufLen, sync)
      BY <3>1, ConcatEmptySeq
    <3> QED  BY <1>1, <2>1, <3>2 DEF pending
  <2>3. LandsOf(pending, fmt, buf, bufLen, sync) /\ LandsWhole(pending, fmt, buf, bufLen, sync)
    <3>1. pending \in Seq(Cells)
      <4>1. Len(buf) \in Nat
        BY <1>1
      <4> QED  BY <1>1, <2>2, <4>1, BlockCells
    <3>2. SubSeq(pending, 1, Len(pending)) = pending /\ Len(pending) \in 0 .. Len(pending)
      BY <3>1
    <3>3. pending \in Landings(pending)
      BY <3>2 DEF Landings
    <3> QED  BY <2>2, <3>3 DEF LandsOf, LandsWhole
  <2> DEFINE F == files[cur]  R == landed[cur]
  <2>4. F \in Seq(Cells) /\ WholeFile(F, R) /\ F[1] = HeaderCell(fmt, sync)
    BY <1>1, <2>1
  <2> HIDE DEF F, R
  <2>5. WholeFile(F \o pending, R \o buf)
    BY <1>1, <2>3, <2>4, BlockOrCut
  <2> QED  BY <1>6, <2>5 DEF F, R
<1>8. FilesInv'
  <2>1. ASSUME NEW o \in Outputs PROVE FileInv(o)'
    <3>1. CASE o = new
      BY <1>4, <1>6, <3>1 DEF FileInv
    <3>2. CASE o = cur
      BY <1>6, <1>7, <3>2 DEF FileInv, ContainerInv, FilesInv
    <3>3. CASE o \notin {cur, new}
      BY <1>6, <3>3 DEF FileInv, ContainerInv, FilesInv
    <3> QED  BY <3>1, <3>2, <3>3
  <2> QED  BY <2>1 DEF FileInv, FilesInv
<1>9. OpenFileInv'
  <2>1. header'.fmt = fmt'
    BY <1>1
  <2>2. outcome = "ok" => WholeFile(files'[new], landed'[new]) /\ files'[new][1] = HeaderCell(fmt, new)
    BY <1>4, <1>6
  <2> QED  BY <1>1, <2>1, <2>2 DEF OpenFileInv
<1> QED  BY <1>8, <1>9 DEF ContainerInv

------------------------------------------------------------------------------
LEMMA StepKeepsFiles ==
  ASSUME EncoderInv, ContainerInv, [Next]_vars
  PROVE  ContainerInv'
<1>1. \A op : Refused(op) => ContainerInv'
  BY IdleKeepsFiles DEF Refused, encVars
<1>2. ASSUME NEW outcome \in Outcomes, Write(outcome) \/ Encode(outcome) PROVE ContainerInv'
  BY <1>1, <1>2, AddRecordKeepsFiles DEF Write, Encode
<1>3. ASSUME NEW op, EncodeRejected(op) PROVE ContainerInv'
  BY <1>3, IdleKeepsFiles DEF EncodeRejected
<1>4. ASSUME NEW outcome \in Outcomes, Flush(outcome) PROVE ContainerInv'
  BY <1>4, DoFlushKeepsFiles DEF Flush
<1>5. ASSUME NEW outcome \in Outcomes, Close(outcome) PROVE ContainerInv'
  <2>1. CASE DoFlush("Close", outcome)
    BY <1>5, <2>1, DoFlushKeepsFiles DEF Close
  <2>2. CASE UNCHANGED << files, up, count, buf, bufLen, wbuf, werr, failed, closed, landed, lossy >>
    BY <1>5, <2>2, IdleKeepsFiles DEF Close
  <2>. QED  BY <1>5, <2>1, <2>2 DEF Close
<1>6. ASSUME NEW outcome \in Outcomes, ResetFlushFails(outcome) PROVE ContainerInv'
  <2>1. /\ up /\ ~failed /\ failed' = (outcome # "ok") /\ UNCHANGED << cur, header, fmt, sync >>
        /\ WriterBlock(count, buf, bufLen, outcome)
    BY <1>6 DEF ResetFlushFails, ResetFlushes
  <2>2. count \in Nat /\ buf \in Seq(Records) /\ bufLen \in Nat /\ count = Len(buf)
    BY <2>1 DEF EncoderInv, TypeOK, FailedMatchesWriter
  <2>. QED  BY <2>1, <2>2, BlockKeepsFiles
<1>7. CASE Crash
  <2>1. lossy \in [Outputs -> BOOLEAN] /\ cur \in Outputs
    BY DEF EncoderInv, TypeOK
  <2>2. \A o \in Outputs : lossy[o] => lossy'[o]
    BY <1>7, <2>1 DEF Crash
  <2>. QED  BY <1>7, <2>2, IdleKeepsFiles DEF Crash, encVars
<1>8. CASE UNCHANGED vars
  BY <1>8, IdleKeepsFiles DEF vars, encVars
<1>. QED  BY <1>2, <1>3, <1>4, <1>5, <1>6, <1>7, <1>8, ResetAttachKeepsFiles,
            NewEncoderKeepsFiles, NewEncoderAppendKeepsFiles DEF Next

LEMMA FilesInductive == Spec => []ContainerInv
<1>1. Init => ContainerInv
  BY DEF Init, ContainerInv, FilesInv, OpenFileInv
<1>2. EncoderInv /\ ContainerInv /\ [Next]_vars => ContainerInv'
  BY StepKeepsFiles
<1>. QED  BY <1>1, <1>2, Inductive, PTL DEF Spec

\* Every output is a container file of exactly the records that landed, save
\* a torn tail on an output for which an error was returned: whatever the
\* outputs do, over Reset, crashes and appends to what a crash left.
THEOREM OutputsAlwaysContainers == Spec => []OutputsAreContainers
<1>1. EncoderInv /\ ContainerInv => OutputsAreContainers
  <2>. SUFFICES ASSUME EncoderInv, ContainerInv, NEW o \in Outputs
                PROVE  \/ files[o] = << >> /\ landed[o] = << >>
                       \/ IsContainer(files[o]) /\ RecordsOf(files[o]) = landed[o]
                       \/ /\ lossy[o]
                          /\ \E k \in 1 .. 4 : LET whole == SubSeq(files[o], 1, Len(files[o]) - k) IN
                               /\ k <= Len(files[o])
                               /\ IsContainer(whole) \/ whole = << >>
                               /\ RecordsOf(whole) = landed[o]
    BY DEF OutputsAreContainers
  <2>1. CASE files[o] = << >>
    BY <2>1 DEF EncoderInv, OutputsInOrder
  <2>2. CASE WholeFile(files[o], landed[o])
    BY <2>2 DEF WholeFile
  <2>3. CASE lossy[o] /\ CutFile(files[o], landed[o])
    BY <2>3 DEF CutFile, Prefix
  <2>. QED  BY <2>1, <2>2, <2>3 DEF ContainerInv, FilesInv
<1>. QED  BY <1>1, Inductive, FilesInductive, PTL
------------------------------------------------------------------------------
(* Records land once, on one output, in the order they were accepted. *)

Rising(s)        == \A i, j \in DOMAIN s : i < j => s[i] < s[j]
Before(s, t)     == \A i \in DOMAIN s, j \in DOMAIN t : s[i] < t[j]
Below(s, n)      == \A i \in DOMAIN s : s[i] < n

LandedInv ==
  /\ \A o \in Outputs : Rising(landed[o]) /\ Below(landed[o], nextRec)
  /\ \A o, p \in Outputs : o < p => Before(landed[o], landed[p])

PendingInv ==
  up => /\ Rising(buf) /\ Below(buf, nextRec)
        /\ \A o \in Outputs : Before(landed[o], buf)

OrderInv == LandedInv /\ PendingInv

\* Sequences of records put after one another.
LEMMA ConcatRising ==
  ASSUME NEW s \in Seq(Records), NEW t \in Seq(Records), Rising(s), Rising(t), Before(s, t)
  PROVE  Rising(s \o t)
<1> DEFINE w == s \o t  n == Len(s)
<1>1. /\ w \in Seq(Records) /\ DOMAIN w = 1 .. n + Len(t) /\ n \in Nat /\ Len(t) \in Nat
      /\ DOMAIN s = 1 .. n /\ DOMAIN t = 1 .. Len(t)
      /\ \A i \in 1 .. n : w[i] = s[i]
      /\ \A i \in n + 1 .. n + Len(t) : w[i] = t[i - n]
  OBVIOUS
<1> HIDE DEF w, n
<1>2. ASSUME NEW i \in DOMAIN w, NEW j \in DOMAIN w, i < j PROVE w[i] < w[j]
  <2>1. CASE j <= n
    <3>1. i \in DOMAIN s /\ j \in DOMAIN s /\ w[i] = s[i] /\ w[j] = s[j]
      BY <1>1, <1>2, <2>1
    <3>. QED  BY <1>2, <3>1 DEF Rising
  <2>2. CASE i <= n /\ j > n
    <3>1. i \in DOMAIN s /\ j - n \in DOMAIN t /\ w[i] = s[i] /\ w[j] = t[j - n]
      BY <1>1, <1>2, <2>2
    <3>. QED  BY <3>1 DEF Before
  <2>3. CASE i > n
    <3>1. i - n \in DOMAIN t /\ j - n \in DOMAIN t /\ w[i] = t[i - n] /\ w[j] = t[j - n] /\ i - n < j - n
      BY <1>1, <1>2, <2>3
    <3>. QED  BY <3>1 DEF Rising
  <2>. QED  BY <1>1, <1>2, <2>1, <2>2, <2>3
<1>. QED  BY <1>2 DEF Rising, w

LEMMA ConcatMembers ==
  ASSUME NEW s \in Seq(Records), NEW t \in Seq(Records), NEW i \in DOMAIN (s \o t)
  PROVE  (\E j \in DOMAIN s : (s \o t)[i] = s[j]) \/ (\E j \in DOMAIN t : (s \o t)[i] = t[j])
<1>1. CASE i <= Len(s)
  <2>1. i \in DOMAIN s /\ (s \o t)[i] = s[i]
    BY <1>1
  <2>. QED  BY <2>1
<1>2. CASE i > Len(s)
  <2>1. i - Len(s) \in DOMAIN t /\ (s \o t)[i] = t[i - Len(s)]
    BY <1>2
  <2>. QED  BY <2>1
<1>. QED  BY <1>1, <1>2

\* What calls append to an output, if they append: records later than all others.
LEMMA LandKeepsOrder ==
  ASSUME EncoderInv, LandedInv, NEW records \in Seq(Records), Rising(records),
         nextRec' \in Nat, nextRec <= nextRec', Below(records, nextRec'),
         \A o \in Outputs : Before(landed[o], records),
         landed' = landed \/ landed' = [landed EXCEPT ![cur] = @ \o records],
         up' => buf' = << >>
  PROVE  OrderInv'
<1>1. /\ landed \in [Outputs -> Seq(Records)] /\ cur \in Outputs /\ nextRec \in Nat
      /\ \A p \in Outputs : p > cur => landed[p] = << >>
  BY LimitsAssumption DEF EncoderInv, TypeOK, OutputsInOrder
<1>2. \A o \in Outputs : Below(landed[o], nextRec')
  <2>. SUFFICES ASSUME NEW o \in Outputs, NEW i \in DOMAIN landed[o] PROVE landed[o][i] < nextRec'
    BY DEF Below
  <2>1. landed[o][i] < nextRec
    BY DEF LandedInv, Below
  <2>2. landed[o][i] \in Records
    BY <1>1, ElementOfSeq
  <2>. QED  BY <1>1, <2>1, <2>2 DEF Records
<1>3. PendingInv'
  BY DEF PendingInv, Rising, Below, Before
<1>4. CASE landed' = landed
  BY <1>2, <1>3, <1>4 DEF LandedInv, OrderInv
<1>5. CASE landed' = [landed EXCEPT ![cur] = @ \o records]
  <2> DEFINE w == landed[cur] \o records
  <2>1. landed'[cur] = w /\ \A o \in Outputs \ {cur} : landed'[o] = landed[o]
    BY <1>1, <1>5
  <2>2. landed[cur] \in Seq(Records)
    BY <1>1
  <2>3. Rising(w)
    BY <1>1, <2>2, ConcatRising DEF LandedInv
  <2>4. \A i \in DOMAIN w : (\E j \in DOMAIN landed[cur] : w[i] = landed[cur][j]) \/ (\E j \in DOMAIN records : w[i] = records[j])
    BY <2>2, ConcatMembers
  <2> HIDE DEF w
  <2>5. Below(w, nextRec')
    BY <1>1, <1>2, <2>4 DEF Below
  <2>6. \A o \in Outputs : o < cur => Before(landed[o], w)
    <3>. SUFFICES ASSUME NEW o \in Outputs, o < cur, NEW i \in DOMAIN landed[o], NEW j \in DOMAIN w
                  PROVE  landed[o][i] < w[j]
      BY DEF Before
    <3>1. Before(landed[o], landed[cur]) /\ Before(landed[o], records)
      BY <1>1 DEF LandedInv
    <3>. QED  BY <2>4, <3>1 DEF Before
  <2>7. \A p \in Outputs : p > cur => landed'[p] = << >>
    BY <1>1, <2>1 DEF Outputs
  <2>8. \A o \in Outputs : Rising(landed'[o]) /\ Below(landed'[o], nextRec')
    BY <1>2, <2>1, <2>3, <2>5 DEF LandedInv
  <2>9. ASSUME NEW o \in Outputs, NEW p \in Outputs, o < p PROVE Before(landed'[o], landed'[p])
    <3>1. CASE o = cur
      <4>1. landed'[p] = << >>
        BY <1>1, <2>7, <2>9, <3>1 DEF Outputs
      <4>. QED  BY <4>1 DEF Before
    <3>2. CASE p = cur
      <4>1. o # cur
        BY <2>9, <3>2 DEF Outputs
      <4>2. Before(landed[o], w)
        BY <2>6, <2>9, <3>2
      <4>3. landed'[o] = landed[o] /\ landed'[p] = w
        BY <2>1, <3>2, <4>1
      <4>. QED  BY <4>2, <4>3
    <3>3. CASE o # cur /\ p # cur
      <4>1. landed'[o] = landed[o] /\ landed'[p] = landed[p]
        BY <2>1, <3>3
      <4>2. Before(landed[o], landed[p])
        BY <2>9 DEF LandedInv
      <4>. QED  BY <4>1, <4>2
    <3>. QED  BY <3>1, <3>2, <3>3
  <2>10. LandedInv'
    BY <2>8, <2>9 DEF LandedInv
  <2>. QED  BY <1>3, <2>10 DEF OrderInv
<1>. QED  BY <1>4, <1>5

\* Calls that land nothing and buffer nothing.
LEMMA IdleKeepsOrder ==
  ASSUME OrderInv, UNCHANGED << landed, nextRec >>, up' => buf' = << >> \/ (up /\ buf' = buf)
  PROVE  OrderInv'
<1>1. LandedInv'
  BY DEF OrderInv, LandedInv
<1>2. up' => Rising(buf') /\ Below(buf', nextRec') /\ \A o \in Outputs : Before(landed'[o], buf')
  <2>1. CASE buf' = << >>
    BY <2>1 DEF Rising, Below, Before
  <2>2. CASE up /\ buf' = buf
    BY <2>2 DEF OrderInv, PendingInv
  <2>. QED  BY <2>1, <2>2
<1>. QED  BY <1>1, <1>2 DEF OrderInv, PendingInv

\* Calls that write a block of the pending records.
LEMMA BlockKeepsOrder ==
  ASSUME EncoderInv, LandedInv, up, ~failed,
         NEW n \in Nat, NEW records \in Seq(Records), NEW size \in Nat, NEW outcome \in Outcomes,
         WriterBlock(n, records, size, outcome),
         Rising(records), nextRec' \in Nat, nextRec <= nextRec', Below(records, nextRec'),
         \A o \in Outputs : Before(landed[o], records)
  PROVE  OrderInv'
<1>1. TypeOK /\ ~werr
  BY DEF EncoderInv, FailedMatchesWriter
<1>2. buf' = << >> /\ (landed' = [landed EXCEPT ![cur] = @ \o records] \/ landed' = landed)
  BY <1>1, WriterBlockEffect
<1>. QED  BY <1>2, LandKeepsOrder

LEMMA PendingKeepsOrder ==
  ASSUME EncoderInv, OrderInv, up, ~failed, NEW outcome \in Outcomes, nextRec' = nextRec,
         WriterBlock(count, buf, bufLen, outcome)
  PROVE  OrderInv'
<1>1. buf \in Seq(Records) /\ count \in Nat /\ bufLen \in Nat /\ nextRec \in Nat
  BY LimitsAssumption DEF EncoderInv, TypeOK
<1>2. /\ LandedInv /\ Rising(buf) /\ Below(buf, nextRec')
      /\ \A o \in Outputs : Before(landed[o], buf)
  BY DEF OrderInv, PendingInv
<1>. QED  BY <1>1, <1>2, BlockKeepsOrder

\* The next record is later than all others.
LEMMA NextIsLater ==
  ASSUME EncoderInv, OrderInv, up, nextRec \in Records
  PROVE  LET records == Append(buf, nextRec) IN
           /\ records \in Seq(Records) /\ Rising(records) /\ Below(records, nextRec + 1)
           /\ \A o \in Outputs : Before(landed[o], records)
<1> DEFINE records == Append(buf, nextRec)  n == Len(buf)
<1>1. buf \in Seq(Records) /\ nextRec \in Nat /\ landed \in [Outputs -> Seq(Records)]
  BY LimitsAssumption DEF EncoderInv, TypeOK
<1>2. /\ records \in Seq(Records) /\ n \in Nat /\ DOMAIN records = 1 .. n + 1 /\ DOMAIN buf = 1 .. n
      /\ records[n + 1] = nextRec /\ \A i \in 1 .. n : records[i] = buf[i]
  BY <1>1
<1>3. Rising(buf) /\ Below(buf, nextRec) /\ \A o \in Outputs : Before(landed[o], buf) /\ Below(landed[o], nextRec)
  BY DEF OrderInv, PendingInv, LandedInv
<1> HIDE DEF records, n
<1>4. \A i \in 1 .. n : buf[i] \in Nat /\ buf[i] < nextRec
  <2>1. \A i \in 1 .. n : buf[i] \in Records
    BY <1>1, <1>2, ElementOfSeq
  <2>. QED  BY <1>2, <1>3, <2>1 DEF Records, Below
<1>5. Rising(records)
  <2>. SUFFICES ASSUME NEW i \in 1 .. n + 1, NEW j \in 1 .. n + 1, i < j PROVE records[i] < records[j]
    BY <1>2 DEF Rising
  <2>1. i \in 1 .. n
    BY <1>2
  <2>2. CASE j = n + 1
    BY <1>2, <1>4, <2>1, <2>2
  <2>3. CASE j # n + 1
    <3>1. j \in 1 .. n
      BY <1>2, <2>3
    <3>. QED  BY <1>2, <1>3, <2>1, <3>1 DEF Rising
  <2>. QED  BY <2>2, <2>3
<1>6. Below(records, nextRec + 1)
  <2>. SUFFICES ASSUME NEW i \in 1 .. n + 1 PROVE records[i] < nextRec + 1
    BY <1>2 DEF Below
  <2>1. CASE i = n + 1
    BY <1>1, <1>2, <2>1
  <2>2. CASE i # n + 1
    <3>1. i \in 1 .. n
      BY <1>2, <2>2
    <3>. QED  BY <1>1, <1>2, <1>4, <3>1
  <2>. QED  BY <2>1, <2>2
<1>7. ASSUME NEW o \in Outputs PROVE Before(landed[o], records)
  <2>. SUFFICES ASSUME NEW i \in DOMAIN landed[o], NEW j \in 1 .. n + 1 PROVE landed[o][i] < records[j]
    BY <1>2 DEF Before
  <2>1. CASE j = n + 1
    BY <1>2, <1>3, <2>1 DEF Below
  <2>2. CASE j # n + 1
    <3>1. j \in 1 .. n
      BY <1>2, <2>2
    <3>. QED  BY <1>2, <1>3, <3>1 DEF Before
  <2>. QED  BY <2>1, <2>2
<1>. QED  BY <1>2, <1>5, <1>6, <1>7 DEF records

LEMMA AddRecordKeepsOrder ==
  ASSUME EncoderInv, OrderInv, up, ~failed, NEW op, NEW size \in RecordSizes,
         NEW outcome \in Outcomes, nextRec \in Records, AddRecord(op, size, outcome)
  PROVE  OrderInv'
<1> DEFINE records == Append(buf, nextRec)
<1>1. /\ nextRec' = nextRec + 1 /\ nextRec \in Nat /\ nextRec' \in Nat /\ nextRec <= nextRec'
      /\ count + 1 \in Nat /\ bufLen + size \in Nat
  BY LimitsAssumption, SizesAssumption DEF AddRecord, EncoderInv, TypeOK
<1>2. /\ records \in Seq(Records) /\ Rising(records) /\ Below(records, nextRec')
      /\ \A o \in Outputs : Before(landed[o], records)
  BY <1>1, NextIsLater
<1>3. LandedInv
  BY DEF OrderInv
<1>4. CASE WriterBlock(count + 1, Append(buf, nextRec), bufLen + size, outcome)
  <2> HIDE DEF records
  <2>1. WriterBlock(count + 1, records, bufLen + size, outcome)
    BY <1>4 DEF records
  <2>. QED  BY <1>1, <1>2, <1>3, <2>1, BlockKeepsOrder
<1>5. CASE buf' = Append(buf, nextRec) /\ UNCHANGED landed
  <2> HIDE DEF records
  <2>1. buf' = records
    BY <1>5 DEF records
  <2>2. PendingInv'
    BY <1>2, <1>5, <2>1 DEF PendingInv
  <2>3. \A o \in Outputs : Below(landed[o], nextRec')
    <3>. SUFFICES ASSUME NEW o \in Outputs, NEW i \in DOMAIN landed[o] PROVE landed[o][i] < nextRec'
      BY DEF Below
    <3>1. landed[o] \in Seq(Records) /\ landed[o][i] < nextRec
      BY <1>3 DEF LandedInv, Below, EncoderInv, TypeOK
    <3>2. landed[o][i] \in Records
      BY <3>1, ElementOfSeq
    <3>. QED  BY <1>1, <3>1, <3>2 DEF Records
  <2>4. LandedInv'
    BY <1>3, <1>5, <2>3 DEF LandedInv
  <2>. QED  BY <2>2, <2>4 DEF OrderInv
<1>. QED  BY <1>4, <1>5 DEF AddRecord

LEMMA DoFlushKeepsOrder ==
  ASSUME EncoderInv, OrderInv, up, NEW op, NEW outcome \in Outcomes, DoFlush(op, outcome),
         nextRec' = nextRec
  PROVE  OrderInv'
<1>1. CASE ~failed /\ WriterBlock(count, buf, bufLen, outcome)
  BY <1>1, PendingKeepsOrder
<1>2. CASE UNCHANGED << up, buf, landed >>
  BY <1>2, IdleKeepsOrder
<1>. QED  BY <1>1, <1>2 DEF DoFlush

LEMMA ResetAttachKeepsOrder ==
  ASSUME EncoderInv, OrderInv, NEW outcome \in Outcomes, ResetAttach(outcome)
  PROVE  OrderInv'
<1>1. /\ up /\ nextRec' = nextRec
      /\ landed' = [landed EXCEPT ![cur] = IF ResetFlushes THEN @ \o buf ELSE @]
      /\ \/ (outcome = "ok" \/ ResetFlushes) /\ buf' = << >>
         \/ ~ResetFlushes /\ buf' = buf
  BY DEF ResetAttach
<1>0. nextRec \in Nat /\ buf \in Seq(Records) /\ landed \in [Outputs -> Seq(Records)]
  BY LimitsAssumption DEF EncoderInv, TypeOK
<1>2. CASE ResetFlushes
  <2>1. /\ LandedInv /\ Rising(buf) /\ Below(buf, nextRec')
        /\ \A o \in Outputs : Before(landed[o], buf)
    BY <1>1 DEF OrderInv, PendingInv
  <2>2. landed' = [landed EXCEPT ![cur] = @ \o buf] /\ buf' = << >> /\ nextRec' \in Nat /\ nextRec <= nextRec'
    BY <1>0, <1>1, <1>2
  <2>. QED  BY <1>0, <2>1, <2>2, LandKeepsOrder
<1>3. CASE ~ResetFlushes
  <2>1. landed' = landed
    BY <1>0, <1>1, <1>3
  <2>. QED  BY <1>1, <2>1, IdleKeepsOrder
<1>. QED  BY <1>2, <1>3

LEMMA StepKeepsOrder ==
  ASSUME EncoderInv, OrderInv, [Next]_vars
  PROVE  OrderInv'
<1>1. \A op : Refused(op) => OrderInv'
  BY IdleKeepsOrder DEF Refused, encVars
<1>2. ASSUME NEW outcome \in Outcomes, Write(outcome) \/ Encode(outcome) PROVE OrderInv'
  BY <1>1, <1>2, AddRecordKeepsOrder DEF Write, Encode
<1>3. ASSUME NEW op, EncodeRejected(op) PROVE OrderInv'
  BY <1>3, IdleKeepsOrder DEF EncodeRejected
<1>4. ASSUME NEW outcome \in Outcomes, Flush(outcome) PROVE OrderInv'
  BY <1>4, DoFlushKeepsOrder DEF Flush
<1>5. ASSUME NEW outcome \in Outcomes, Close(outcome) PROVE OrderInv'
  <2>1. CASE DoFlush("Close", outcome)
    BY <1>5, <2>1, DoFlushKeepsOrder DEF Close
  <2>2. CASE UNCHANGED << files, up, count, buf, bufLen, wbuf, werr, failed, closed, landed, lossy >>
    BY <1>5, <2>2, IdleKeepsOrder DEF Close
  <2>. QED  BY <1>5, <2>1, <2>2 DEF Close
<1>6. ASSUME NEW outcome \in Outcomes, ResetFlushFails(outcome) PROVE OrderInv'
  BY <1>6, PendingKeepsOrder DEF ResetFlushFails, ResetFlushes
<1>7. ASSUME NEW o, NEW format, NEW outcome, NewEncoder(o, format, outcome) PROVE OrderInv'
  BY <1>7, IdleKeepsOrder DEF NewEncoder, Constructed
<1>8. ASSUME NEW o, NewEncoderAppend(o) PROVE OrderInv'
  BY <1>8, IdleKeepsOrder DEF NewEncoderAppend, Constructed
<1>9. CASE Crash
  BY <1>9, IdleKeepsOrder DEF Crash
<1>10. CASE UNCHANGED vars
  BY <1>10, IdleKeepsOrder DEF vars, encVars
<1>. QED  BY <1>2, <1>3, <1>4, <1>5, <1>6, <1>7, <1>8, <1>9, <1>10, ResetAttachKeepsOrder DEF Next

\* No output holds anything but the landed records.
LEMMA FilesHoldLanded ==
  ASSUME EncoderInv, ContainerInv, NEW o \in Outputs
  PROVE  RecordsOf(files[o]) = landed[o]
<1>1. CASE files[o] = << >>
  <2> DEFINE e == << >>
  <2>1. e \in Seq(Cells) /\ Len(e) = 0 /\ Prefix(e, 0) = e
    BY DEF Prefix
  <2> HIDE DEF e
  <2>2. IsFile(e, Records)
    BY <2>1, CellsAreFile
  <2>3. RecordsOf(e) = << >>
    BY <2>1, <2>2, RecordsByCell
  <2>4. landed[o] = << >>
    BY <1>1 DEF EncoderInv, OutputsInOrder
  <2>. QED  BY <1>1, <2>3, <2>4 DEF e
<1>2. CASE WholeFile(files[o], landed[o])
  BY <1>2 DEF WholeFile
<1>3. CASE CutFile(files[o], landed[o])
  BY <1>3 DEF CutFile
<1>. QED  BY <1>1, <1>2, <1>3 DEF ContainerInv, FilesInv

\* A record reaches at most one output, at most once, after all records
\* accepted before it that arrived: over errors, resets, crashes, appends.
THEOREM DeliveredOnceAndInOrder == Spec => []DeliveredOnceInOrder
<1>1. Init => OrderInv
  BY DEF Init, OrderInv, LandedInv, PendingInv, Rising, Before, Below
<1>2. EncoderInv /\ OrderInv /\ [Next]_vars => OrderInv'
  BY StepKeepsOrder
<1>3. EncoderInv /\ ContainerInv /\ OrderInv => DeliveredOnceInOrder
  <2>. SUFFICES ASSUME EncoderInv, ContainerInv, OrderInv, NEW o \in Outputs, NEW p \in Outputs,
                       NEW i \in 1 .. Len(RecordsOf(files[o])), NEW j \in 1 .. Len(RecordsOf(files[p])),
                       o < p \/ (o = p /\ i < j)
                PROVE  RecordsOf(files[o])[i] < RecordsOf(files[p])[j]
    BY DEF DeliveredOnceInOrder
  <2>1. /\ RecordsOf(files[o]) = landed[o] /\ RecordsOf(files[p]) = landed[p]
        /\ landed[o] \in Seq(Records) /\ landed[p] \in Seq(Records)
    BY FilesHoldLanded DEF EncoderInv, TypeOK
  <2>2. i \in DOMAIN landed[o] /\ j \in DOMAIN landed[p]
    BY <2>1
  <2>3. o < p => Before(landed[o], landed[p])
    BY DEF OrderInv, LandedInv
  <2>4. Rising(landed[o])
    BY DEF OrderInv, LandedInv
  <2>. QED  BY <2>1, <2>2, <2>3, <2>4 DEF Rising, Before
<1>. QED  BY <1>1, <1>2, <1>3, Inductive, FilesInductive, PTL DEF Spec
------------------------------------------------------------------------------
(* What a reader may find in a file, and beginnings of what it holds. *)

AnyRecord == Nat \cup {Bad}

\* A file from anywhere: its data are records, its counts and sizes
\* numbers, its markers markers.
WellFormed(cells) ==
  /\ IsFile(cells, AnyRecord)
  /\ \A i \in DOMAIN cells :
       /\ cells[i].kind \in {"count", "size"} => cells[i].n \in Int
       /\ cells[i].kind = "sync" => cells[i] = SyncCell(cells[i].sync)

LEMMA CellsWellFormed ==
  ASSUME NEW cells \in Seq(Cells)
  PROVE  WellFormed(cells)
<1>1. ASSUME NEW i \in DOMAIN cells
      PROVE  /\ cells[i].kind = "data" => cells[i].recs \in Seq(AnyRecord)
             /\ cells[i].kind \in {"count", "size"} => cells[i].n \in Int
             /\ cells[i].kind = "sync" => cells[i] = SyncCell(cells[i].sync)
  <2>1. cells[i] \in Cells
    OBVIOUS
  <2>2. Seq(Records) \subseteq Seq(AnyRecord)
    <3>1. Records \subseteq AnyRecord
      BY LimitsAssumption DEF Records, AnyRecord
    <3>2. \A s \in Seq(Records) : s \in Seq(AnyRecord)
      BY <3>1, SeqMonotonic
    <3>. QED  BY <3>2
  <2>3. cells[i].kind = "data" => cells[i].recs \in Seq(Records)
    BY <2>1 DEF Cells
  <2>4. cells[i].kind \in {"count", "size"} => cells[i].n \in Nat
    BY <2>1 DEF Cells
  <2>5. cells[i].kind = "sync" => cells[i] = SyncCell(cells[i].sync)
    BY <2>1 DEF Cells, SyncCell
  <2>. QED  BY <2>2, <2>3, <2>4, <2>5
<1>. QED  BY <1>1 DEF WellFormed, IsFile

LEMMA ForeignWellFormed ==
  ASSUME NEW cells \in ForeignFiles
  PROVE  WellFormed(cells)
BY ForeignAssumption DEF WellFormed, IsFile, AnyRecord

\* t begins with s.
StartsWith(t, s) == Len(s) <= Len(t) /\ s = SubSeq(t, 1, Len(s))

LEMMA StartsWithItself ==
  ASSUME NEW S, NEW s \in Seq(S)
  PROVE  StartsWith(s, s)
BY DEF StartsWith

LEMMA StartsWithConcat ==
  ASSUME NEW S, NEW s \in Seq(S), NEW t \in Seq(S)
  PROVE  StartsWith(s \o t, s)
<1> DEFINE w == s \o t
<1>1. /\ w \in Seq(S) /\ Len(w) = Len(s) + Len(t) /\ Len(s) \in Nat /\ Len(t) \in Nat
      /\ \A i \in 1 .. Len(s) : w[i] = s[i]
  OBVIOUS
<1> HIDE DEF w
<1> DEFINE p == SubSeq(w, 1, Len(s))
<1>2. p \in Seq(S) /\ Len(p) = Len(s) /\ \A i \in 1 .. Len(s) : p[i] = w[i]
  BY <1>1
<1> HIDE DEF p
<1>3. p = s
  BY <1>1, <1>2, SeqEqual
<1>. QED  BY <1>1, <1>3 DEF StartsWith, p, w

LEMMA StartsWithTransitive ==
  ASSUME NEW S, NEW s \in Seq(S), NEW t \in Seq(S), NEW u \in Seq(S),
         StartsWith(t, s), StartsWith(u, t)
  PROVE  StartsWith(u, s)
<1>1. Len(s) <= Len(t) /\ Len(t) <= Len(u) /\ Len(s) \in Nat /\ Len(t) \in Nat /\ Len(u) \in Nat
  BY DEF StartsWith
<1>2. Len(s) <= Len(u)
  BY <1>1
<1> DEFINE p == SubSeq(u, 1, Len(s))
<1>3. p \in Seq(S) /\ Len(p) = Len(s) /\ \A i \in 1 .. Len(s) : p[i] = u[i]
  BY <1>1, <1>2
<1> HIDE DEF p
<1>4. \A i \in 1 .. Len(s) : s[i] = t[i]
  BY <1>1 DEF StartsWith
<1>5. \A i \in 1 .. Len(t) : t[i] = u[i]
  BY <1>1 DEF StartsWith
<1>6. \A i \in 1 .. Len(s) : i \in 1 .. Len(t)
  BY <1>1
<1>7. p = s
  BY <1>3, <1>4, <1>5, <1>6, SeqEqual
<1>. QED  BY <1>2, <1>7 DEF StartsWith, p

LEMMA StartsWithMembers ==
  ASSUME NEW S, NEW s \in Seq(S), NEW t \in Seq(S), StartsWith(t, s)
  PROVE  Len(s) <= Len(t) /\ \A i \in 1 .. Len(s) : s[i] = t[i]
<1>1. Len(s) <= Len(t) /\ Len(s) \in Nat /\ Len(t) \in Nat /\ s = SubSeq(t, 1, Len(s))
  BY DEF StartsWith
<1>. QED  BY <1>1

\* The records before a cell are the first of those before any later cell.
LEMMA RecordsGrow ==
  ASSUME NEW R, NEW cells, IsFile(cells, R), NEW p \in 0 .. Len(cells), NEW q \in p .. Len(cells)
  PROVE  StartsWith(RecordsOf(Prefix(cells, q)), RecordsOf(Prefix(cells, p)))
<1> DEFINE T(i) == RecordsOf(Prefix(cells, i))
           n == q - p
           I == {i \in 0 .. n : StartsWith(T(p + i), T(p))}
<1>1. Len(cells) \in Nat /\ n \in Nat /\ p + n = q
  BY FileLength
<1>2. /\ \A i \in 0 .. Len(cells) : T(i) \in Seq(R)
      /\ \A j, k \in 0 .. Len(cells) : k = j + 1 => RecordsStep(cells, j, k)
  BY RecordsByCell
<1>3. 0 \in I
  <2>1. T(p) \in Seq(R) /\ p + 0 = p /\ 0 \in 0 .. n
    BY <1>1, <1>2
  <2> HIDE DEF T
  <2>. QED  BY <2>1, StartsWithItself
<1>4. ASSUME NEW i \in 1 .. n, i - 1 \in I PROVE i \in I
  <2>1. /\ p + i \in 0 .. Len(cells) /\ p + (i - 1) \in 0 .. Len(cells) /\ p + i = (p + (i - 1)) + 1
        /\ i \in 0 .. n
    BY <1>1
  <2>2. RecordsStep(cells, p + (i - 1), p + i)
    BY <1>2, <2>1
  <2>3. StartsWith(T(p + i), T(p + (i - 1)))
    <3>1. CASE BlockEnds(cells, p + (i - 1), p + i)
      <4>1. T(p + i) = T(p + (i - 1)) \o cells[p + (i - 1)].recs
        BY <2>2, <3>1 DEF RecordsStep
      <4>2. p + (i - 1) \in DOMAIN cells /\ cells[p + (i - 1)].kind = "data"
        BY <2>1, <3>1, FileLength DEF BlockEnds
      <4>3. cells[p + (i - 1)].recs \in Seq(R)
        BY <4>2 DEF IsFile
      <4>4. T(p + (i - 1)) \in Seq(R)
        BY <1>2, <2>1
      <4> HIDE DEF T
      <4>. QED  BY <4>1, <4>3, <4>4, StartsWithConcat
    <3>2. CASE ~BlockEnds(cells, p + (i - 1), p + i)
      <4>1. T(p + i) = T(p + (i - 1))
        BY <2>2, <3>2 DEF RecordsStep
      <4>2. T(p + (i - 1)) \in Seq(R)
        BY <1>2, <2>1
      <4> HIDE DEF T
      <4>. QED  BY <4>1, <4>2, StartsWithItself
    <3>. QED  BY <3>1, <3>2
  <2>4. T(p) \in Seq(R) /\ T(p + (i - 1)) \in Seq(R) /\ T(p + i) \in Seq(R)
    BY <1>2, <2>1
  <2>5. StartsWith(T(p + (i - 1)), T(p))
    BY <1>4
  <2> HIDE DEF T
  <2>6. StartsWith(T(p + i), T(p))
    BY <2>3, <2>4, <2>5, StartsWithTransitive
  <2>. QED  BY <2>1, <2>6
<1>5. n \in I
  <2> HIDE DEF I, n
  <2>1. 0 .. n \subseteq I
    BY <1>1, <1>3, <1>4, BoundedInduction
  <2>. QED  BY <1>1, <2>1
<1>. QED  BY <1>1, <1>5

\* The records of a block a reader comes to are the next of the file.
LEMMA BlockRecords ==
  ASSUME NEW R, NEW cells, IsFile(cells, R), NEW p \in Nat, p % 4 = 1, p + 4 <= Len(cells),
         cells[p + 3].kind = "data", cells[p + 4].kind = "sync"
  PROVE  RecordsOf(Prefix(cells, p + 4)) = RecordsOf(Prefix(cells, p)) \o cells[p + 3].recs
<1>1. /\ Len(cells) \in Nat
      /\ \A j, k \in 0 .. Len(cells) : k = j + 1 => RecordsStep(cells, j, k)
  BY FileLength, RecordsByCell
<1>2. /\ p \in 0 .. Len(cells) /\ p + 1 \in 0 .. Len(cells) /\ p + 2 \in 0 .. Len(cells)
      /\ p + 3 \in 0 .. Len(cells) /\ p + 4 \in 0 .. Len(cells)
      /\ p + 2 = (p + 1) + 1 /\ p + 3 = (p + 2) + 1 /\ p + 4 = (p + 3) + 1
  BY <1>1
<1>3. (p + 1) % 4 = 2 /\ (p + 2) % 4 = 3 /\ (p + 3) % 4 = 0 /\ (p + 4) % 4 = 1
  OBVIOUS
<1>4. /\ RecordsStep(cells, p, p + 1) /\ RecordsStep(cells, p + 1, p + 2)
      /\ RecordsStep(cells, p + 2, p + 3) /\ RecordsStep(cells, p + 3, p + 4)
  BY <1>1, <1>2
<1>5. /\ ~BlockEnds(cells, p, p + 1) /\ ~BlockEnds(cells, p + 1, p + 2)
      /\ ~BlockEnds(cells, p + 2, p + 3)
  <2>1. \A j, k : k % 4 # 1 => ~BlockEnds(cells, j, k)
    BY DEF BlockEnds
  <2>2. (p + 1) % 4 # 1 /\ (p + 2) % 4 # 1 /\ (p + 3) % 4 # 1
    BY <1>3
  <2>. QED  BY <2>1, <2>2
<1>6. BlockEnds(cells, p + 3, p + 4)
  <2>1. p + 3 > 0
    OBVIOUS
  <2>2. cells[p + 4].kind = "sync" /\ cells[p + 3].kind = "data"
    OBVIOUS
  <2>3. (p + 4) % 4 = 1
    BY <1>3
  <2>. QED  BY <2>1, <2>2, <2>3 DEF BlockEnds
<1>7. p + 4 = (p + 3) + 1 /\ RecordsStep(cells, p + 3, p + 4)
  BY <1>2, <1>4
<1>8. RecordsOf(Prefix(cells, p + 4)) = RecordsOf(Prefix(cells, p + 3)) \o cells[p + 3].recs
  BY <1>6, <1>7 DEF RecordsStep
<1>9. RecordsOf(Prefix(cells, p + 3)) = RecordsOf(Prefix(cells, p))
  BY <1>4, <1>5 DEF RecordsStep
<1>. QED  BY <1>8, <1>9
------------------------------------------------------------------------------
(* Outputs only grow, and only where they are empty or whole. *)

Grows(o) ==
  \E part \in Seq(Cells), more \in Seq(Records) :
    /\ files'[o] = files[o] \o part /\ landed'[o] = landed[o] \o more
    /\ part = << >> \/ files[o] = << >> \/ IsContainer(files[o])

LEMMA StillGrows ==
  ASSUME EncoderInv, NEW o \in Outputs, files'[o] = files[o], landed'[o] = landed[o]
  PROVE  Grows(o)
<1> DEFINE e == << >>
<1>1. /\ e \in Seq(Cells) /\ e \in Seq(Records)
      /\ files[o] \o e = files[o] /\ landed[o] \o e = landed[o]
  <2>1. files[o] \in Seq(Cells) /\ landed[o] \in Seq(Records)
    BY DEF EncoderInv, TypeOK
  <2>. QED  BY <2>1, ConcatEmptySeq
<1>. QED  BY <1>1 DEF Grows

LEMMA BlockGrows ==
  ASSUME EncoderInv, ContainerInv, up, ~failed, NEW o \in Outputs,
         NEW n \in Nat, NEW records \in Seq(Records), NEW size \in Nat, NEW outcome \in Outcomes,
         WriterBlock(n, records, size, outcome)
  PROVE  Grows(o)
<1> DEFINE b == wbuf \o Block(fmt, n, records, size, sync)
<1>1. /\ files \in [Outputs -> Seq(Cells)] /\ landed \in [Outputs -> Seq(Records)]
      /\ cur \in Outputs /\ IsContainer(files[cur]) /\ werr \in BOOLEAN
  BY DEF EncoderInv, TypeOK, ContainerInv, OpenFileInv, WholeFile
<1>2. b \in Seq(Cells)
  BY BlockCells, ConcatProperties DEF EncoderInv, TypeOK
<1> HIDE DEF b
<1>3. PICK part \in Sent(b, werr, outcome) :
        /\ files' = [files EXCEPT ![cur] = @ \o part]
        /\ landed' = [landed EXCEPT ![cur] = IF part = b THEN @ \o records ELSE @]
  BY DEF WriterBlock, WriterFlush, b
<1>4. part \in Seq(Cells)
  BY <1>1, <1>2, <1>3, SentCells
<1>5. CASE o # cur
  <2>1. files'[o] = files[o] /\ landed'[o] = landed[o]
    BY <1>1, <1>3, <1>5
  <2>. QED  BY <2>1, StillGrows
<1>6. CASE o = cur
  <2>1. files'[o] = files[o] \o part /\ landed'[o] = IF part = b THEN landed[o] \o records ELSE landed[o]
    BY <1>1, <1>3, <1>6
  <2>2. PICK more \in Seq(Records) : landed'[o] = landed[o] \o more
    <3>1. << >> \in Seq(Records) /\ landed[o] \o << >> = landed[o]
      BY <1>1, ConcatEmptySeq
    <3>. QED  BY <2>1, <3>1
  <2>. QED  BY <1>1, <1>4, <1>6, <2>1, <2>2 DEF Grows
<1>. QED  BY <1>5, <1>6

\* An output that was empty has grown from nothing.
LEMMA NewGrows ==
  ASSUME EncoderInv, NEW o \in Outputs, files[o] = << >>, files'[o] \in Seq(Cells), landed'[o] = landed[o]
  PROVE  Grows(o)
<1>1. << >> \in Seq(Records) /\ landed[o] \o << >> = landed[o]
  BY ConcatEmptySeq DEF EncoderInv, TypeOK
<1>2. files[o] \o files'[o] = files'[o]
  BY ConcatEmptySeq
<1>. QED  BY <1>1, <1>2 DEF Grows

LEMMA ResetAttachGrows ==
  ASSUME EncoderInv, ContainerInv, NEW o \in Outputs, NEW outcome \in Outcomes, ResetAttach(outcome)
  PROVE  Grows(o)
<1> DEFINE new     == cur + 1
           pending == wbuf \o Block(fmt, count, buf, bufLen, sync)
<1>1. /\ up /\ new \in Outputs
      /\ landed' = [landed EXCEPT ![cur] = IF ResetFlushes THEN @ \o buf ELSE @]
      /\ \E part \in Sent(<< HeaderCell(header.fmt, new) >>, FALSE, outcome) :
           files' = [files EXCEPT ![cur] = IF ResetFlushes THEN @ \o pending ELSE @, ![new] = @ \o part]
  BY DEF ResetAttach
<1>2. /\ cur \in Outputs /\ header.fmt \in Formats /\ buf \in Seq(Records)
      /\ files \in [Outputs -> Seq(Cells)] /\ landed \in [Outputs -> Seq(Records)]
  BY DEF EncoderInv, TypeOK
<1>3. pending \in Seq(Cells)
  BY BlockCells, ConcatProperties DEF EncoderInv, TypeOK
<1>4. new # cur /\ new > cur
  BY <1>2 DEF Outputs
<1>5. files[new] = << >>
  BY <1>1, <1>4 DEF EncoderInv, OutputsInOrder
<1> HIDE DEF new, pending
<1>6. PICK part \in Sent(<< HeaderCell(header.fmt, new) >>, FALSE, outcome) :
        files' = [files EXCEPT ![cur] = IF ResetFlushes THEN @ \o pending ELSE @, ![new] = @ \o part]
  BY <1>1
<1>7. part \in Seq(Cells)
  BY <1>1, <1>2, <1>6, HeaderWritten
<1>8. CASE o = cur
  <2>1. /\ files'[o] = IF ResetFlushes THEN files[o] \o pending ELSE files[o]
        /\ landed'[o] = IF ResetFlushes THEN landed[o] \o buf ELSE landed[o]
    BY <1>1, <1>2, <1>4, <1>6, <1>8
  <2>2. CASE ResetFlushes
    <3>1. IsContainer(files[o])
      BY <1>1, <1>8, <2>2 DEF ResetFlushes, ContainerInv, OpenFileInv, WholeFile
    <3>. QED  BY <1>2, <1>3, <2>1, <2>2, <3>1 DEF Grows
  <2>3. CASE ~ResetFlushes
    BY <2>1, <2>3, StillGrows
  <2>. QED  BY <2>2, <2>3
<1>9. CASE o = new
  <2>1. files'[o] = files[o] \o part /\ landed'[o] = landed[o]
    BY <1>1, <1>2, <1>4, <1>6, <1>9
  <2>2. files[o] \o part \in Seq(Cells) /\ files[o] = << >>
    BY <1>2, <1>5, <1>7, <1>9, ConcatProperties
  <2>. QED  BY <2>1, <2>2, NewGrows
<1>10. CASE o \notin {cur, new}
  <2>1. files'[o] = files[o] /\ landed'[o] = landed[o]
    BY <1>1, <1>2, <1>6, <1>10
  <2>. QED  BY <2>1, StillGrows
<1>. QED  BY <1>8, <1>9, <1>10

LEMMA NewEncoderGrows ==
  ASSUME EncoderInv, NEW o \in Outputs, NEW q \in Target, NEW format \in Formats,
         NEW outcome \in Outcomes, NewEncoder(q, format, outcome)
  PROVE  Grows(o)
<1>1. /\ q \in Outputs /\ files[q] = << >> /\ landed' = landed /\ files \in [Outputs -> Seq(Cells)]
      /\ \E part \in Sent(<< HeaderCell(format, q) >>, FALSE, outcome) : files' = [files EXCEPT ![q] = part]
  BY DEF NewEncoder, Target, EncoderInv, TypeOK
<1>2. PICK part \in Sent(<< HeaderCell(format, q) >>, FALSE, outcome) : files' = [files EXCEPT ![q] = part]
  BY <1>1
<1>3. part \in Seq(Cells)
  BY <1>1, <1>2, HeaderWritten
<1>4. CASE o = q
  BY <1>1, <1>2, <1>3, <1>4, NewGrows
<1>5. CASE o # q
  <2>1. files'[o] = files[o]
    BY <1>1, <1>2, <1>5
  <2>. QED  BY <1>1, <2>1, StillGrows
<1>. QED  BY <1>4, <1>5

LEMMA OutputsGrow ==
  ASSUME EncoderInv, ContainerInv, [Next]_vars, NEW o \in Outputs
  PROVE  Grows(o)
<1>0. UNCHANGED << files, landed >> => Grows(o)
  BY StillGrows
<1>1. \A op : Refused(op) => Grows(o)
  BY <1>0 DEF Refused
<1>2. ASSUME NEW outcome \in Outcomes, NEW op, NEW size \in RecordSizes, up, ~failed,
             nextRec \in Records, AddRecord(op, size, outcome)
      PROVE  Grows(o)
  <2>1. CASE WriterBlock(count + 1, Append(buf, nextRec), bufLen + size, outcome)
    <3>1. Append(buf, nextRec) \in Seq(Records) /\ count + 1 \in Nat /\ bufLen + size \in Nat
      BY <1>2, SizesAssumption DEF EncoderInv, TypeOK
    <3>. QED  BY <1>2, <2>1, <3>1, BlockGrows
  <2>2. CASE UNCHANGED << files, landed >>
    BY <1>0, <2>2
  <2>. QED  BY <1>2, <2>1, <2>2 DEF AddRecord
<1>3. ASSUME NEW outcome \in Outcomes, Write(outcome) \/ Encode(outcome) PROVE Grows(o)
  BY <1>1, <1>2, <1>3 DEF Write, Encode
<1>4. ASSUME NEW outcome \in Outcomes, up, ~failed, WriterBlock(count, buf, bufLen, outcome)
      PROVE  Grows(o)
  <2>1. count \in Nat /\ buf \in Seq(Records) /\ bufLen \in Nat
    BY DEF EncoderInv, TypeOK
  <2>. QED  BY <1>4, <2>1, BlockGrows
<1>5. ASSUME NEW outcome \in Outcomes, NEW op, up, DoFlush(op, outcome) PROVE Grows(o)
  BY <1>0, <1>4, <1>5 DEF DoFlush
<1>6. ASSUME NEW outcome \in Outcomes, Flush(outcome) \/ Close(outcome) PROVE Grows(o)
  BY <1>0, <1>5, <1>6 DEF Flush, Close
<1>7. ASSUME NEW outcome \in Outcomes, ResetFlushFails(outcome) PROVE Grows(o)
  BY <1>4, <1>7 DEF ResetFlushFails, ResetFlushes
<1>8. ASSUME NEW op, EncodeRejected(op) PROVE Grows(o)
  BY <1>0, <1>8 DEF EncodeRejected
<1>9. ASSUME NEW q, NewEncoderAppend(q) PROVE Grows(o)
  BY <1>0, <1>9 DEF NewEncoderAppend
<1>10. CASE Crash
  BY <1>0, <1>10 DEF Crash
<1>11. CASE UNCHANGED vars
  BY <1>0, <1>11 DEF vars
<1>. QED  BY <1>3, <1>6, <1>7, <1>8, <1>9, <1>10, <1>11, ResetAttachGrows, NewEncoderGrows DEF Next
------------------------------------------------------------------------------
(* The reader's invariant: what it holds of the file it reads. *)

\* The file as it is now, and the records before the reader's position.
Current == IF Ours THEN files[target] ELSE foreign
Passed  == RecordsOf(Prefix(Current, pos))

TargetInv == target \in Outputs /\ (Ours \/ foreign \in ForeignFiles)

Opened == phase \in {"idle", "hasnext"}

\* An open reader stands between two blocks and knows the header.
PlaceInv ==
  /\ pos \in Nat /\ left \in Nat /\ pos <= Len(Current)
  /\ pos <= 1 => left = 0
  /\ ~Opened => /\ phase \in {"none", "refused"}
                /\ pos = 0 /\ rerr = "nil" /\ left = 0 /\ block = << >> /\ got = << >>
  /\ Opened => /\ pos % 4 = 1 /\ Current[1].kind = "header"
               /\ fileFmt = Current[1].fmt /\ marker = Current[1].sync

\* Got and the rest of the block are the records it passed.
HandedInv ==
  /\ got \in Seq(AnyRecord) /\ block \in Seq(AnyRecord) /\ rerr \in {"nil", "eof", "err"}
  /\ rerr = "nil" => Passed = got \o block /\ (left = 0 => block = << >>)
  /\ StartsWith(Passed, got)

\* The block at i is as declared, but for a shortage of records.
BlockRead(cells, i, shortage) ==
  /\ BlockAt(cells, i, cells[1].sync)
  /\ cells[i + 2].fmt = cells[1].fmt
  /\ cells[i].n = Len(cells[i + 2].recs) + shortage

\* The blocks it passed are as declared; of the last one this shows when its
\* records have been decoded.
BlocksInv ==
  rerr = "nil" =>
    \A i \in 2 .. pos : i % 4 = 2 =>
      i + 3 <= pos /\ BlockRead(Current, i, IF i + 3 = pos THEN left - Len(block) ELSE 0)

\* At the end it has everything.
EndInv ==
  /\ rerr = "eof" /\ Ours => StartsWith(got, promised)
  /\ rerr = "eof" /\ ~Ours => IsContainer(foreign) /\ got = RecordsOf(foreign)

\* What was complete when the file was opened is in it.
PromiseInv ==
  /\ promised \in Seq(Records)
  /\ Ours => StartsWith(landed[target], promised)
  /\ phase \in {"none", "refused"} \/ ~Ours => promised = << >>

FitsLimits(cells) ==
  \A i \in 1 .. Len(cells) :
    /\ cells[i].kind = "count" /\ MaxBlockRecords > 0 => cells[i].n <= MaxBlockRecords
    /\ cells[i].kind = "size" /\ MaxBlockBytes > 0 => cells[i].n <= MaxBlockBytes

NoneBad(recs) == \A i \in 1 .. Len(recs) : recs[i] # Bad

\* A file without a reason for an error.
Readable(cells) == IsContainer(cells) /\ NoneBad(RecordsOf(cells)) /\ FitsLimits(cells)

ErrorInv ==
  /\ rerr = "err" => ~Readable(Current)
  /\ phase = "refused" /\ ~Ours => ~Readable(foreign)

ReaderInv ==
  TargetInv /\ PlaceInv /\ HandedInv /\ BlocksInv /\ EndInv /\ PromiseInv /\ ErrorInv

OutputInv == EncoderInv /\ ContainerInv
------------------------------------------------------------------------------
LEMMA CurrentWellFormed ==
  ASSUME EncoderInv, TargetInv
  PROVE  WellFormed(Current) /\ Len(Current) \in Nat /\ DOMAIN Current = 1 .. Len(Current)
<1>1. CASE Ours
  <2>1. files[target] \in Seq(Cells)
    BY DEF EncoderInv, TypeOK, TargetInv
  <2>2. WellFormed(files[target])
    BY <2>1, CellsWellFormed
  <2>3. WellFormed(Current)
    BY <1>1, <2>2 DEF Current
  <2>. QED  BY <2>3, FileLength DEF WellFormed
<1>2. CASE ~Ours
  <2>1. WellFormed(foreign)
    BY <1>2, ForeignWellFormed DEF TargetInv
  <2>2. WellFormed(Current)
    BY <1>2, <2>1 DEF Current
  <2>. QED  BY <2>2, FileLength DEF WellFormed
<1>. QED  BY <1>1, <1>2

\* What the reader passed is there when the file has grown.
LEMMA GrownPrefix ==
  ASSUME NEW cells \in Seq(Cells), NEW part \in Seq(Cells), NEW n \in 0 .. Len(cells)
  PROVE  /\ Len(cells) <= Len(cells \o part) /\ cells \o part \in Seq(Cells)
         /\ \A i \in 1 .. Len(cells) : (cells \o part)[i] = cells[i]
         /\ Prefix(cells \o part, n) = Prefix(cells, n)
<1> DEFINE w == cells \o part
<1>1. /\ w \in Seq(Cells) /\ Len(w) = Len(cells) + Len(part) /\ Len(cells) \in Nat /\ Len(part) \in Nat
      /\ \A i \in 1 .. Len(cells) : w[i] = cells[i]
  OBVIOUS
<1> HIDE DEF w
<1>2. IsFile(w, Records) /\ IsFile(cells, Records) /\ n \in 0 .. Len(w) /\ Len(cells) <= Len(w)
  BY <1>1, CellsAreFile
<1> DEFINE p == Prefix(w, n)  q == Prefix(cells, n)
<1>3. p \in Seq(Cells) /\ Len(p) = n /\ \A i \in 1 .. n : p[i] = w[i]
  BY <1>1, <1>2 DEF Prefix
<1>4. q \in Seq(Cells) /\ Len(q) = n /\ \A i \in 1 .. n : q[i] = cells[i]
  BY DEF Prefix
<1>5. \A i \in 1 .. n : i \in 1 .. Len(cells)
  BY <1>1
<1> HIDE DEF p, q
<1>6. p = q
  BY <1>1, <1>3, <1>4, <1>5, SeqEqual
<1>. QED  BY <1>1, <1>2, <1>6 DEF w, p, q

\* What is readable with more at its end was readable.
LEMMA ReadableBefore ==
  ASSUME NEW cells \in Seq(Cells), NEW part \in Seq(Cells), IsContainer(cells),
         Readable(cells \o part)
  PROVE  Readable(cells)
<1> DEFINE w == cells \o part
<1>1. Len(cells) \in 0 .. Len(cells) /\ Len(cells) \in Nat
  OBVIOUS
<1>2. /\ Len(cells) <= Len(w) /\ w \in Seq(Cells) /\ \A i \in 1 .. Len(cells) : w[i] = cells[i]
      /\ Prefix(w, Len(cells)) = Prefix(cells, Len(cells))
  BY <1>1, GrownPrefix
<1> HIDE DEF w
<1>3. Readable(w)
  BY DEF w
<1>4. IsFile(w, Records) /\ IsFile(cells, Records)
  BY <1>2, CellsAreFile
<1>5. Len(w) \in Nat /\ Len(cells) \in 0 .. Len(w) /\ Len(w) \in Len(cells) .. Len(w)
  BY <1>1, <1>2
<1>6. Prefix(w, Len(cells)) = cells /\ Prefix(w, Len(w)) = w
  BY <1>2, <1>4, WholePrefix
<1>7. StartsWith(RecordsOf(w), RecordsOf(cells))
  <2>1. StartsWith(RecordsOf(Prefix(w, Len(w))), RecordsOf(Prefix(w, Len(cells))))
    BY <1>4, <1>5, RecordsGrow
  <2>. QED  BY <1>6, <2>1
<1>8. RecordsOf(w) \in Seq(Records) /\ RecordsOf(cells) \in Seq(Records)
  <2>1. \A i \in 0 .. Len(w) : RecordsOf(Prefix(w, i)) \in Seq(Records)
    BY <1>4, RecordsByCell
  <2>2. Len(w) \in 0 .. Len(w)
    BY <1>5
  <2>. QED  BY <1>5, <1>6, <2>1, <2>2
<1>9. NoneBad(RecordsOf(cells))
  <2> DEFINE s == RecordsOf(cells)  t == RecordsOf(w)
  <2>1. s \in Seq(Records) /\ t \in Seq(Records) /\ StartsWith(t, s) /\ NoneBad(t)
    BY <1>3, <1>7, <1>8 DEF Readable
  <2> HIDE DEF s, t
  <2>2. Len(s) <= Len(t) /\ \A i \in 1 .. Len(s) : s[i] = t[i]
    BY <2>1, StartsWithMembers
  <2>3. Len(s) \in Nat /\ Len(t) \in Nat
    BY <2>1
  <2>4. NoneBad(s)
    BY <2>1, <2>2, <2>3 DEF NoneBad
  <2>. QED  BY <2>4 DEF s
<1>10. FitsLimits(cells)
  BY <1>1, <1>2, <1>3, <1>5 DEF Readable, FitsLimits
<1>. QED  BY <1>9, <1>10 DEF Readable
------------------------------------------------------------------------------
\* The encoder works on while the reader holds still.
LEMMA WorkKeepsReader ==
  ASSUME OutputInv, ReaderInv, Work
  PROVE  ReaderInv'
<1>1. /\ Ours /\ [Next]_vars
      /\ UNCHANGED << target, foreign, phase, pos, rerr, left, block, fileFmt, marker, got, promised >>
      /\ target \in Outputs
  BY DEF Work, readerVars, ReaderInv, TargetInv
<1>2. Ours' /\ Current = files[target] /\ Current' = files'[target] /\ (Opened' <=> Opened)
  BY <1>1 DEF Ours, Current, Opened
<1>3. PICK part \in Seq(Cells), more \in Seq(Records) :
        /\ files'[target] = files[target] \o part /\ landed'[target] = landed[target] \o more
        /\ part = << >> \/ files[target] = << >> \/ IsContainer(files[target])
  BY <1>1, OutputsGrow DEF OutputInv, Grows
<1> DEFINE c == Current  w == Current \o part
<1>4. /\ c \in Seq(Cells) /\ Current' = w /\ Len(c) \in Nat /\ pos \in 0 .. Len(c)
      /\ part = << >> \/ c = << >> \/ IsContainer(c)
  <2>1. c \in Seq(Cells)
    BY <1>1, <1>2 DEF OutputInv, EncoderInv, TypeOK
  <2>2. pos \in Nat /\ pos <= Len(c)
    BY DEF ReaderInv, PlaceInv
  <2>. QED  BY <1>2, <1>3, <2>1, <2>2
<1>5. /\ Len(c) <= Len(w) /\ w \in Seq(Cells) /\ Prefix(w, pos) = Prefix(c, pos) /\ Len(w) \in Nat
      /\ \A i \in 1 .. Len(c) : w[i] = c[i]
  <2> HIDE DEF c
  <2>1. part \in Seq(Cells)
    OBVIOUS
  <2>2. Len(c) <= Len(c \o part) /\ c \o part \in Seq(Cells) /\ Prefix(c \o part, pos) = Prefix(c, pos)
        /\ \A i \in 1 .. Len(c) : (c \o part)[i] = c[i]
    BY <1>4, <2>1, GrownPrefix
  <2>3. w = c \o part
    BY DEF c
  <2> HIDE DEF w
  <2>. QED  BY <2>2, <2>3
<1> HIDE DEF w
<1>6. TargetInv'
  BY <1>1, <1>2 DEF ReaderInv, TargetInv
<1>7. PlaceInv'
  <2>1. pos <= Len(w)
    BY <1>4, <1>5
  <2>2. Opened => 1 \in 1 .. Len(c)
    <3>1. Opened => pos # 0
      BY DEF ReaderInv, PlaceInv
    <3>. QED  BY <1>4, <3>1
  <2>3. Opened => w[1] = c[1]
    BY <1>5, <2>2
  <2>4. PlaceInv
    BY DEF ReaderInv
  <2>. QED  BY <1>1, <1>2, <1>4, <2>1, <2>3, <2>4 DEF PlaceInv
<1>8. HandedInv'
  <2>1. Passed' = Passed
    BY <1>1, <1>4, <1>5 DEF Passed
  <2>. QED  BY <1>1, <2>1 DEF ReaderInv, HandedInv
<1>9. BlocksInv'
  <2> SUFFICES ASSUME rerr = "nil", NEW i \in 2 .. pos, i % 4 = 2
               PROVE  i + 3 <= pos /\ BlockRead(w, i, IF i + 3 = pos THEN left - Len(block) ELSE 0)
    BY <1>1, <1>4 DEF BlocksInv
  <2>1. i + 3 <= pos /\ BlockRead(c, i, IF i + 3 = pos THEN left - Len(block) ELSE 0)
    BY DEF ReaderInv, BlocksInv
  <2>2. /\ 1 \in 1 .. Len(c) /\ i \in 1 .. Len(c) /\ i + 1 \in 1 .. Len(c)
        /\ i + 2 \in 1 .. Len(c) /\ i + 3 \in 1 .. Len(c) /\ i + 3 <= Len(w)
    BY <1>4, <1>5, <2>1
  <2>3. w[1] = c[1] /\ w[i] = c[i] /\ w[i + 1] = c[i + 1] /\ w[i + 2] = c[i + 2] /\ w[i + 3] = c[i + 3]
    BY <1>5, <2>2
  <2> HIDE DEF c
  <2>. QED  BY <2>1, <2>2, <2>3 DEF BlockRead, BlockAt
<1>10. EndInv'
  BY <1>1, <1>2 DEF ReaderInv, EndInv
<1>11. PromiseInv'
  <2>1. /\ promised \in Seq(Records) /\ StartsWith(landed[target], promised)
        /\ landed[target] \in Seq(Records)
    BY <1>1 DEF ReaderInv, PromiseInv, OutputInv, EncoderInv, TypeOK
  <2>2. StartsWith(landed[target] \o more, landed[target]) /\ landed[target] \o more \in Seq(Records)
    BY <2>1, StartsWithConcat, ConcatProperties
  <2>3. StartsWith(landed'[target], promised)
    BY <1>3, <2>1, <2>2, StartsWithTransitive
  <2>4. phase \in {"none", "refused"} \/ ~Ours => promised = << >>
    BY DEF ReaderInv, PromiseInv
  <2>. QED  BY <1>1, <1>2, <2>1, <2>3, <2>4 DEF PromiseInv
<1>12. ErrorInv'
  <2>1. ASSUME rerr = "err", Readable(w) PROVE FALSE
    <3>1. c # << >>
      <4>1. Opened /\ Len(c) # 0
        BY <1>4, <2>1, SMTT(30) DEF ReaderInv, PlaceInv
      <4>. QED  BY <4>1
    <3>2. ~Readable(c)
      BY <2>1 DEF ReaderInv, ErrorInv
    <3>3. CASE part = << >>
      <4>1. c \o part = c
        BY <1>4, <3>3, ConcatEmptySeq
      <4>. QED  BY <2>1, <3>2, <4>1 DEF w
    <3>4. CASE IsContainer(c)
      <4> HIDE DEF c
      <4>1. Readable(c \o part)
        BY <2>1 DEF w, c
      <4>. QED  BY <1>4, <3>2, <3>4, <4>1, ReadableBefore
    <3>. QED  BY <1>4, <3>1, <3>3, <3>4
  <2>. QED  BY <1>1, <1>2, <1>4, <2>1 DEF ErrorInv
<1>. QED  BY <1>6, <1>7, <1>8, <1>9, <1>10, <1>11, <1>12 DEF ReaderInv
------------------------------------------------------------------------------
(* The steps of the reader. *)

\* The encoder's files and what is promised stay.
LEMMA ReaderAlone ==
  ASSUME UNCHANGED << vars, target, foreign >>
  PROVE  UNCHANGED << Current, files, landed, target, foreign >> /\ (Ours' <=> Ours)
BY DEF vars, Current, Ours

\* The records before the first block are none.
LEMMA NothingBeforeBlocks ==
  ASSUME NEW R, NEW cells, IsFile(cells, R), NEW p \in {0, 1}, p <= Len(cells)
  PROVE  RecordsOf(Prefix(cells, p)) = << >>
<1>1. Len(cells) \in Nat /\ \A j, k \in 0 .. Len(cells) : k = j + 1 => RecordsStep(cells, j, k)
  BY FileLength, RecordsByCell
<1>2. RecordsOf(Prefix(cells, 0)) = << >>
  BY RecordsByCell
<1>3. CASE p = 1
  <2>1. 0 \in 0 .. Len(cells) /\ 1 \in 0 .. Len(cells) /\ 1 = 0 + 1
    BY <1>1, <1>3
  <2>2. RecordsStep(cells, 0, 1)
    BY <1>1, <2>1
  <2>3. ~BlockEnds(cells, 0, 1)
    BY DEF BlockEnds
  <2>. QED  BY <1>2, <1>3, <2>2, <2>3 DEF RecordsStep
<1>. QED  BY <1>2, <1>3

\* An output that is complete holds what was accepted for it.
LEMMA CompleteHoldsAll ==
  ASSUME OutputInv, NEW o \in Outputs, Complete(o)
  PROVE  taken[o] = landed[o] /\ IsContainer(files[o])
<1>1. ~lossy[o] /\ files[o] # << >> /\ (o < cur \/ (up /\ closed)) /\ landed[o] \in Seq(Records)
  BY DEF Complete, OutputInv, EncoderInv, TypeOK
<1>2. taken[o] = landed[o] \o (IF up /\ o = cur THEN buf ELSE << >>)
  BY <1>1 DEF OutputInv, EncoderInv, NothingLostSilently
<1>3. (IF up /\ o = cur THEN buf ELSE << >>) = << >>
  <2>1. CASE up /\ o = cur
    <3>1. closed
      BY <1>1, <2>1 DEF OutputInv, EncoderInv, TypeOK, Outputs
    <3>2. count = 0
      BY <2>1, <3>1 DEF OutputInv, EncoderInv, FailedMatchesWriter
    <3>. QED  BY <2>1, <3>2, NothingBuffered DEF OutputInv, EncoderInv
  <2>. QED  BY <2>1
<1>4. landed[o] \o << >> = landed[o]
  BY <1>1, ConcatEmptySeq
<1>5. IsContainer(files[o])
  BY <1>1 DEF OutputInv, ContainerInv, FilesInv, WholeFile
<1>. QED  BY <1>2, <1>3, <1>4, <1>5

LEMMA OpenKeepsReader ==
  ASSUME OutputInv, ReaderInv, Open
  PROVE  ReaderInv'
<1>1. /\ UNCHANGED << Current, files, landed, target, foreign >> /\ (Ours' <=> Ours)
      /\ UNCHANGED << rerr, left, block, got >> /\ phase = "none"
      /\ promised' = IF Ours /\ Complete(target) THEN taken[target] ELSE << >>
  BY ReaderAlone DEF Open, Reader!NewDecoder
<1>2. \/ ReadsHeader(Current) /\ phase' = "idle" /\ pos' = 1 /\ fileFmt' = Current[1].fmt /\ marker' = Current[1].sync
      \/ ~ReadsHeader(Current) /\ phase' = "refused" /\ UNCHANGED << pos, fileFmt, marker >>
  BY DEF Open, Reader!NewDecoder, Reader!ReadsHeader, ReadsHeader, Current
<1>3. /\ pos = 0 /\ rerr = "nil" /\ left = 0 /\ block = << >> /\ got = << >> /\ target \in Outputs
      /\ got \in Seq(AnyRecord) /\ block \in Seq(AnyRecord)
  BY <1>1 DEF ReaderInv, PlaceInv, Opened, TargetInv, HandedInv
<1>4. WellFormed(Current) /\ Len(Current) \in Nat
  BY CurrentWellFormed DEF OutputInv, ReaderInv
<1>5. ReadsHeader(Current) => 1 <= Len(Current)
  <2>1. Len(Current) = 0 => Current = << >>
    <3>1. PICK S : Current \in Seq(S)
      BY <1>4 DEF WellFormed, IsFile
    <3>. QED  BY <3>1, EmptySeq
  <2>. QED  BY <1>4, <2>1 DEF ReadsHeader
<1>6. pos' \in {0, 1} /\ pos' <= Len(Current)
  BY <1>2, <1>3, <1>4, <1>5
<1>7. TargetInv'
  BY <1>1 DEF ReaderInv, TargetInv
<1>8. PlaceInv'
  <2>1. CASE ReadsHeader(Current)
    <3>1. phase' = "idle" /\ pos' = 1 /\ fileFmt' = Current[1].fmt /\ marker' = Current[1].sync
      BY <1>2, <2>1
    <3>2. Opened' /\ Current[1].kind = "header" /\ 1 <= Len(Current) /\ Current' = Current /\ left' = 0
      BY <1>1, <1>3, <1>6, <2>1, <3>1 DEF Opened, ReadsHeader
    <3>. QED  BY <3>1, <3>2 DEF PlaceInv
  <2>2. CASE ~ReadsHeader(Current)
    <3>1. phase' = "refused" /\ pos' = 0
      BY <1>2, <1>3, <2>2
    <3>2. ~Opened' /\ Current' = Current /\ 0 <= Len(Current)
      BY <1>1, <1>4, <3>1 DEF Opened
    <3>. QED  BY <1>1, <1>3, <3>1, <3>2 DEF PlaceInv
  <2>. QED  BY <2>1, <2>2
<1>9. HandedInv'
  <2>1. RecordsOf(Prefix(Current, pos')) = << >>
    BY <1>4, <1>6, NothingBeforeBlocks DEF WellFormed
  <2>2. Passed' = << >>
    BY <1>1, <2>1 DEF Passed
  <2>3. got \o block = << >> /\ StartsWith(<< >>, got)
    <3>1. << >> \in Seq(AnyRecord)
      OBVIOUS
    <3>. QED  BY <1>3, <3>1, ConcatEmptySeq, StartsWithItself
  <2>. QED  BY <1>1, <1>3, <2>2, <2>3 DEF HandedInv
<1>10. BlocksInv'
  BY <1>6 DEF BlocksInv
<1>11. EndInv'
  BY <1>1, <1>3 DEF EndInv
<1>12. PromiseInv'
  <2>1. landed[target] \in Seq(Records) /\ << >> \in Seq(Records)
    BY <1>3 DEF OutputInv, EncoderInv, TypeOK
  <2>2. CASE Ours /\ Complete(target)
    <3>1. promised' = landed[target] /\ IsContainer(Current)
      BY <1>1, <1>3, <2>2, CompleteHoldsAll DEF Current
    <3>2. phase' = "idle"
      BY <1>2, <3>1 DEF IsContainer
    <3>. QED  BY <1>1, <2>1, <2>2, <3>1, <3>2, StartsWithItself DEF PromiseInv
  <2>3. CASE ~(Ours /\ Complete(target))
    <3>1. promised' = << >> /\ StartsWith(landed[target], << >>)
      <4>1. << >> \o landed[target] = landed[target]
        BY <2>1, ConcatEmptySeq
      <4>2. StartsWith(<< >> \o landed[target], << >>)
        BY <2>1, StartsWithConcat
      <4>. QED  BY <1>1, <2>3, <4>1, <4>2
    <3>. QED  BY <1>1, <2>1, <3>1 DEF PromiseInv
  <2>. QED  BY <2>2, <2>3
<1>13. ErrorInv'
  <2>1. rerr' = "nil"
    BY <1>1, <1>3
  <2>2. ASSUME phase' = "refused", ~Ours PROVE ~Readable(foreign)
    BY <1>2, <2>2 DEF Current, Readable, IsContainer
  <2>. QED  BY <1>1, <2>1, <2>2 DEF ErrorInv
<1>. QED  BY <1>7, <1>8, <1>9, <1>10, <1>11, <1>12, <1>13 DEF ReaderInv
------------------------------------------------------------------------------
\* Entering and leaving HasNext.
LEMMA HasNextKeepsReader ==
  ASSUME ReaderInv, Reading(Reader!HasNextCall) \/ Reading(Reader!HasNextReturn)
  PROVE  ReaderInv'
<1>1. /\ UNCHANGED << Current, files, landed, target, foreign >> /\ (Ours' <=> Ours)
  BY ReaderAlone DEF Reading
<1>2. /\ UNCHANGED << pos, rerr, left, block, fileFmt, marker, got, promised >>
      /\ phase \in {"idle", "hasnext"} /\ phase' \in {"idle", "hasnext"}
  BY DEF Reading, Reader!HasNextCall, Reader!HasNextReturn
<1>3. Opened /\ Opened' /\ Passed' = Passed
  BY <1>1, <1>2 DEF Opened, Passed
<1>4. TargetInv' /\ PlaceInv' /\ HandedInv' /\ BlocksInv'
  BY <1>1, <1>2, <1>3 DEF ReaderInv, TargetInv, PlaceInv, HandedInv, BlocksInv
<1>5. EndInv' /\ ErrorInv'
  BY <1>1, <1>2 DEF ReaderInv, EndInv, ErrorInv
<1>6. PromiseInv'
  BY <1>1, <1>2 DEF ReaderInv, PromiseInv
<1>. QED  BY <1>4, <1>5, <1>6 DEF ReaderInv

\* The block that readBlock accepts at p.
Accepted(cells, p) ==
  /\ p + 4 <= Len(cells)
  /\ cells[p + 1].kind = "count" /\ cells[p + 1].n >= 0
  /\ cells[p + 2].kind = "size" /\ cells[p + 2].n >= 0
  /\ cells[p + 3].kind = "data" /\ cells[p + 3].fmt = cells[1].fmt
  /\ cells[p + 4].kind = "sync" /\ cells[p + 4].sync = cells[1].sync
  /\ cells[p + 1].n = 0 => cells[p + 3].recs = << >>

\* Every block of a readable file is accepted.
LEMMA ReadableIsAccepted ==
  ASSUME NEW cells, WellFormed(cells), Readable(cells), NEW p \in Nat, p % 4 = 1, p < Len(cells)
  PROVE  /\ Accepted(cells, p)
         /\ MaxBlockRecords > 0 => cells[p + 1].n <= MaxBlockRecords
         /\ MaxBlockBytes > 0 => cells[p + 2].n <= MaxBlockBytes
<1>1. Len(cells) \in Nat /\ DOMAIN cells = 1 .. Len(cells) /\ IsContainer(cells) /\ FitsLimits(cells)
  BY FileLength DEF WellFormed, Readable
<1>2. p + 1 \in 2 .. Len(cells) /\ (p + 1) % 4 = 2
  <2>1. p + 1 <= Len(cells) /\ p >= 1
    BY <1>1
  <2>2. (p + 1) % 4 = 2
    OBVIOUS
  <2>. QED  BY <1>1, <2>1, <2>2
<1>3. /\ BlockAt(cells, p + 1, cells[1].sync) /\ cells[p + 1].n = Len(cells[p + 1 + 2].recs)
      /\ cells[p + 1 + 2].fmt = cells[1].fmt
  BY <1>1, <1>2 DEF IsContainer
<1>4. p + 1 + 1 = p + 2 /\ p + 1 + 2 = p + 3 /\ p + 1 + 3 = p + 4
  OBVIOUS
<1>5. /\ p + 4 <= Len(cells)
      /\ cells[p + 1].kind = "count" /\ cells[p + 1].n >= 0
      /\ cells[p + 2].kind = "size" /\ cells[p + 2].n >= 0
      /\ cells[p + 3].kind = "data" /\ cells[p + 3].fmt = cells[1].fmt
      /\ cells[p + 4] = SyncCell(cells[1].sync) /\ cells[p + 1].n = Len(cells[p + 3].recs)
  BY <1>3, <1>4 DEF BlockAt
<1>6. cells[p + 4].kind = "sync" /\ cells[p + 4].sync = cells[1].sync
  BY <1>5 DEF SyncCell
<1>7. p + 1 \in 1 .. Len(cells) /\ p + 2 \in 1 .. Len(cells) /\ p + 3 \in 1 .. Len(cells)
  BY <1>1, <1>5
<1>8. cells[p + 1].n = 0 => cells[p + 3].recs = << >>
  <2>1. cells[p + 3].recs \in Seq(AnyRecord)
    BY <1>1, <1>5, <1>7 DEF WellFormed, IsFile
  <2>. QED  BY <1>5, <2>1, EmptySeq
<1>. QED  BY <1>1, <1>5, <1>6, <1>7, <1>8 DEF Accepted, FitsLimits

\* The branches of readBlock.
AtTheEnd == pos = Len(Current) /\ rerr' = "eof" /\ left' = 0 /\ UNCHANGED << pos, block >>
TakesBlock ==
  /\ Accepted(Current, pos)
  /\ pos' = pos + 4 /\ left' = Current[pos + 1].n /\ block' = Current[pos + 3].recs /\ rerr' = rerr
RefusesBlock ==
  /\ pos < Len(Current)
  /\ ~(/\ Accepted(Current, pos)
       /\ MaxBlockRecords > 0 => Current[pos + 1].n <= MaxBlockRecords
       /\ MaxBlockBytes > 0 => Current[pos + 2].n <= MaxBlockBytes)
  /\ rerr' = "err" /\ left' = 0 /\ UNCHANGED << pos, block >>

LEMMA ReadBlockBranches ==
  ASSUME OutputInv, ReaderInv, Reading(Reader!ReadBlock)
  PROVE  AtTheEnd \/ TakesBlock \/ RefusesBlock
<1> DEFINE c == Current
<1>1. /\ phase = "hasnext" /\ fileFmt = c[1].fmt /\ marker = c[1].sync /\ pos \in Nat /\ Len(c) \in Nat
  BY CurrentWellFormed DEF Reading, Reader!ReadBlock, ReaderInv, PlaceInv, Opened, OutputInv
<1>2. Reader!BlockOK <=>
        /\ pos + 1 <= Len(c) /\ c[pos + 1].kind = "count"
        /\ c[pos + 1].n >= 0 /\ (MaxBlockRecords > 0 => c[pos + 1].n <= MaxBlockRecords)
        /\ pos + 2 <= Len(c) /\ c[pos + 2].kind = "size"
        /\ c[pos + 2].n >= 0 /\ (MaxBlockBytes > 0 => c[pos + 2].n <= MaxBlockBytes)
        /\ pos + 3 <= Len(c) /\ c[pos + 3].kind = "data"
        /\ pos + 4 <= Len(c) /\ c[pos + 4].kind = "sync" /\ c[pos + 4].sync = marker
        /\ c[pos + 3].fmt = fileFmt
        /\ (c[pos + 1].n = 0 => c[pos + 3].recs = << >>)
  BY DEF Reader!BlockOK, Reader!Has, Reader!CountOK, Reader!SizeOK, Reader!MarkerOK, Reader!DataOK,
         Reader!EmptyOK, Current
<1>3. Reader!BlockOK <=>
        /\ Accepted(c, pos)
        /\ MaxBlockRecords > 0 => c[pos + 1].n <= MaxBlockRecords
        /\ MaxBlockBytes > 0 => c[pos + 2].n <= MaxBlockBytes
  <2> HIDE DEF c
  <2>1. pos + 4 <= Len(c) => pos + 1 <= Len(c) /\ pos + 2 <= Len(c) /\ pos + 3 <= Len(c)
    BY <1>1
  <2>. QED  BY <1>1, <1>2, <2>1 DEF Accepted
<1>4. \/ pos = Len(c) /\ rerr' = "eof" /\ left' = 0 /\ UNCHANGED << pos, block >>
      \/ Reader!BlockOK /\ pos' = pos + 4 /\ left' = c[pos + 1].n /\ block' = c[pos + 3].recs /\ rerr' = rerr
      \/ pos < Len(c) /\ ~Reader!BlockOK /\ rerr' = "err" /\ left' = 0 /\ UNCHANGED << pos, block >>
  BY DEF Reading, Reader!ReadBlock, Reader!AtEOF, Current
<1>. QED  BY <1>3, <1>4 DEF AtTheEnd, TakesBlock, RefusesBlock

LEMMA ReadBlockKeepsReader ==
  ASSUME OutputInv, ReaderInv, Reading(Reader!ReadBlock)
  PROVE  ReaderInv'
<1> DEFINE c == Current
<1>1. /\ UNCHANGED << Current, files, landed, target, foreign >> /\ (Ours' <=> Ours)
  BY ReaderAlone DEF Reading
<1>2. /\ phase = "hasnext" /\ left <= 0 /\ rerr = "nil"
      /\ UNCHANGED << phase, fileFmt, marker, got, promised >>
  BY DEF Reading, Reader!ReadBlock
<1>3. Opened /\ Opened' /\ left = 0 /\ block = << >> /\ left - Len(block) = 0
  <2>1. Opened /\ Opened' /\ left = 0 /\ block = << >>
    BY <1>2 DEF Opened, ReaderInv, PlaceInv, HandedInv
  <2>2. block = << >> => Len(block) = 0
    BY EmptySeq
  <2>3. Len(block) = 0 /\ left = 0 => left - Len(block) = 0
    OBVIOUS
  <2>. QED  BY <2>1, <2>2, <2>3
<1>4. /\ WellFormed(c) /\ Len(c) \in Nat /\ DOMAIN c = 1 .. Len(c) /\ IsFile(c, AnyRecord)
  BY CurrentWellFormed DEF OutputInv, ReaderInv, WellFormed
<1>5. /\ pos \in Nat /\ pos <= Len(c) /\ pos % 4 = 1 /\ pos >= 1 /\ c[1].kind = "header"
      /\ fileFmt = c[1].fmt /\ marker = c[1].sync
  BY <1>3 DEF ReaderInv, PlaceInv
<1>6. /\ got \in Seq(AnyRecord) /\ Passed = got
  <2>1. got \in Seq(AnyRecord) /\ Passed = got \o block
    BY <1>2 DEF ReaderInv, HandedInv
  <2>. QED  BY <1>3, <2>1, ConcatEmptySeq
<1>7. TargetInv' /\ PromiseInv'
  BY <1>1, <1>2 DEF ReaderInv, TargetInv, PromiseInv
<1>8. ErrorInv /\ phase' # "refused"
  BY <1>2 DEF ReaderInv
<1>9. CASE AtTheEnd
  <2>1. /\ pos = Len(c) /\ rerr' = "eof" /\ left' = 0 /\ pos' = pos /\ block' = block
    BY <1>9 DEF AtTheEnd
  <2>2. PlaceInv'
    BY <1>1, <1>2, <1>3, <1>4, <1>5, <2>1 DEF PlaceInv
  <2>3. Passed' = Passed
    BY <1>1, <2>1 DEF Passed
  <2>4. HandedInv'
    <3>1. block \in Seq(AnyRecord)
      BY DEF ReaderInv, HandedInv
    <3>. QED  BY <1>2, <1>6, <2>1, <2>3, <3>1, StartsWithItself DEF HandedInv
  <2>5. BlocksInv'
    BY <2>1 DEF BlocksInv
  <2>6. RecordsOf(c) = got
    <3>1. Prefix(c, pos) = c
      BY <1>4, <2>1, WholePrefix
    <3>. QED  BY <1>6, <3>1 DEF Passed
  <2>7. ASSUME Ours PROVE EndInv'
    <3>1. RecordsOf(files[target]) = landed[target]
      BY FilesHoldLanded DEF OutputInv, ReaderInv, TargetInv
    <3>2. StartsWith(got, promised)
      BY <2>6, <2>7, <3>1 DEF Current, ReaderInv, PromiseInv
    <3>3. got' = got /\ promised' = promised /\ Ours'
      BY <1>1, <1>2, <2>7
    <3>4. StartsWith(got', promised')
      BY <3>2, <3>3
    <3>. QED  BY <3>3, <3>4 DEF EndInv
  <2>8. ASSUME ~Ours PROVE EndInv'
    <3>1. c = foreign
      BY <2>8 DEF Current
    <3>2. IsContainer(c)
      <4>1. c # << >>
        <5>1. Len(<< >>) = 0
          BY EmptySeq
        <5>. QED  BY <1>5, <2>1, <5>1
      <4>2. ASSUME NEW i \in 2 .. Len(c), i % 4 = 2
            PROVE  /\ BlockAt(c, i, c[1].sync) /\ c[i].n = Len(c[i + 2].recs) /\ c[i + 2].fmt = c[1].fmt
        <5>1. BlockRead(c, i, IF i + 3 = pos THEN left - Len(block) ELSE 0)
          BY <1>2, <2>1, <4>2 DEF ReaderInv, BlocksInv
        <5>2. left - Len(block) = 0
          BY <1>3
        <5>3. BlockRead(c, i, 0)
          BY <5>1, <5>2
        <5>4. i + 2 \in DOMAIN c /\ c[i + 2].kind = "data"
          BY <1>4, <5>3 DEF BlockRead, BlockAt
        <5>5. Len(c[i + 2].recs) \in Nat
          <6>1. c[i + 2].recs \in Seq(AnyRecord)
            BY <1>4, <5>4 DEF IsFile
          <6>. QED  BY <6>1
        <5>. QED  BY <5>3, <5>5 DEF BlockRead
      <4>. QED  BY <1>5, <2>1, <4>1, <4>2 DEF IsContainer, ReadsHeader
    <3>3. got' = got /\ foreign' = foreign /\ ~Ours'
      BY <1>1, <1>2, <2>8
    <3>4. IsContainer(foreign') /\ got' = RecordsOf(foreign')
      BY <2>6, <3>1, <3>2, <3>3
    <3>. QED  BY <3>3, <3>4 DEF EndInv
  <2>9. ErrorInv'
    BY <1>8, <2>1 DEF ErrorInv
  <2>. QED  BY <1>7, <2>2, <2>4, <2>5, <2>7, <2>8, <2>9 DEF ReaderInv
<1>10. CASE RefusesBlock
  <2>1. rerr' = "err" /\ left' = 0 /\ pos' = pos /\ block' = block
    BY <1>10 DEF RefusesBlock
  <2>2. PlaceInv'
    BY <1>1, <1>2, <1>3, <1>4, <1>5, <2>1 DEF PlaceInv
  <2>3. Passed' = Passed
    BY <1>1, <2>1 DEF Passed
  <2>4. HandedInv'
    <3>1. block \in Seq(AnyRecord)
      BY DEF ReaderInv, HandedInv
    <3>. QED  BY <1>2, <1>6, <2>1, <2>3, <3>1, StartsWithItself DEF HandedInv
  <2>5. BlocksInv' /\ EndInv'
    BY <2>1 DEF BlocksInv, EndInv
  <2>6. ~Readable(c)
    BY <1>4, <1>5, <1>10, ReadableIsAccepted DEF RefusesBlock
  <2>7. ErrorInv'
    BY <1>1, <1>8, <2>6 DEF ErrorInv
  <2>. QED  BY <1>7, <2>2, <2>4, <2>5, <2>7 DEF ReaderInv
<1>11. CASE TakesBlock
  <2>1. /\ Accepted(c, pos) /\ pos' = pos + 4 /\ rerr' = "nil"
        /\ left' = c[pos + 1].n /\ block' = c[pos + 3].recs
    BY <1>2, <1>11 DEF TakesBlock
  <2> HIDE DEF c
  <2>2. /\ pos + 4 <= Len(c) /\ pos + 1 \in DOMAIN c /\ pos + 3 \in DOMAIN c /\ pos + 4 \in DOMAIN c
        /\ pos + 4 \in Nat
    BY <1>4, <1>5, <2>1 DEF Accepted
  <2>3. block' \in Seq(AnyRecord) /\ left' \in Nat /\ (left' = 0 => block' = << >>)
    BY <1>4, <2>1, <2>2 DEF Accepted, WellFormed, IsFile
  <2>4. PlaceInv'
    <3>1. (pos + 4) % 4 = 1 /\ ~(pos + 4 <= 1)
      BY <1>5
    <3>2. Current' = c
      BY <1>1 DEF c
    <3>. QED  BY <1>2, <1>3, <1>5, <2>1, <2>2, <2>3, <3>1, <3>2 DEF PlaceInv
  <2>5. Passed' = got \o block'
    <3>1. RecordsOf(Prefix(c, pos + 4)) = RecordsOf(Prefix(c, pos)) \o c[pos + 3].recs
      BY <1>4, <1>5, <2>1, <2>2, BlockRecords DEF Accepted
    <3>. QED  BY <1>1, <1>6, <2>1, <3>1 DEF Passed, c
  <2>6. HandedInv'
    <3>1. StartsWith(got \o block', got)
      <4> DEFINE b == block'
      <4>1. b \in Seq(AnyRecord)
        BY <2>3
      <4> HIDE DEF b
      <4>2. StartsWith(got \o b, got)
        BY <1>6, <4>1, StartsWithConcat
      <4>. QED  BY <4>2 DEF b
    <3>. QED  BY <1>2, <1>6, <2>1, <2>3, <2>5, <3>1 DEF HandedInv
  <2>7. BlocksInv'
    <3> DEFINE b == block'  l == left'
    <3>1. Len(b) \in Nat /\ l \in Nat /\ b = c[pos + 3].recs /\ l = c[pos + 1].n
      BY <2>1, <2>3
    <3> HIDE DEF b, l
    <3>2. ASSUME NEW i \in 2 .. pos + 4, i % 4 = 2
          PROVE  i + 3 <= pos + 4 /\ BlockRead(c, i, IF i + 3 = pos + 4 THEN l - Len(b) ELSE 0)
      <4>1. CASE i <= pos
        <5>1. i + 3 <= pos /\ BlockRead(c, i, IF i + 3 = pos THEN left - Len(block) ELSE 0)
          BY <1>2, <1>5, <3>2, <4>1 DEF ReaderInv, BlocksInv, c
        <5>2. left - Len(block) = 0
          BY <1>3
        <5>3. i + 3 # pos + 4 /\ i + 3 <= pos + 4
          BY <1>5, <5>1
        <5>. QED  BY <5>1, <5>2, <5>3
      <4>2. CASE i > pos
        <5>1. i = pos + 1
          <6>1. i \in {pos + 1, pos + 2, pos + 3, pos + 4}
            BY <1>5, <4>2
          <6>2. (pos + 2) % 4 = 3 /\ (pos + 3) % 4 = 0 /\ (pos + 4) % 4 = 1
            BY <1>5
          <6>. QED  BY <3>2, <6>1, <6>2
        <5>2. pos + 1 + 1 = pos + 2 /\ pos + 1 + 2 = pos + 3 /\ pos + 1 + 3 = pos + 4
          BY <1>5
        <5>3. c[pos + 4] = SyncCell(c[1].sync)
          <6>1. c[pos + 4].kind = "sync" /\ c[pos + 4].sync = c[1].sync
            BY <2>1 DEF Accepted
          <6>2. c[pos + 4] = SyncCell(c[pos + 4].sync)
            BY <1>4, <2>2, <6>1 DEF WellFormed
          <6>. QED  BY <6>1, <6>2
        <5>4. BlockAt(c, pos + 1, c[1].sync)
          BY <2>1, <5>2, <5>3 DEF Accepted, BlockAt
        <5>5. c[pos + 1].n = Len(c[pos + 3].recs) + (l - Len(b))
          BY <3>1
        <5>6. BlockRead(c, pos + 1, l - Len(b))
          BY <2>1, <5>2, <5>4, <5>5 DEF Accepted, BlockRead
        <5>. QED  BY <5>1, <5>2, <5>6
      <4>. QED  BY <1>5, <4>1, <4>2
    <3>3. Current' = c
      BY <1>1 DEF c
    <3>. QED  BY <2>1, <3>2, <3>3 DEF BlocksInv, b, l
  <2>8. EndInv' /\ ErrorInv'
    BY <1>8, <2>1 DEF EndInv, ErrorInv
  <2>. QED  BY <1>7, <2>4, <2>6, <2>7, <2>8 DEF ReaderInv
<1>. QED  BY <1>9, <1>10, <1>11, ReadBlockBranches
------------------------------------------------------------------------------
\* The branches of Decode: a record handed out, one that does not decode or
\* leaves bytes behind, and the call refused.
HandsOut ==
  /\ rerr = "nil" /\ left > 0 /\ block # << >> /\ rerr' = "nil"
  /\ left' = left - 1 /\ block' = Tail(block) /\ got' = Append(got, block[1])
  /\ left' = 0 => block' = << >>
FailsDecode ==
  /\ rerr = "nil" /\ left > 0 /\ rerr' = "err"
  /\ left' = left - 1 /\ got' = got
  /\ block' = IF block = << >> THEN << >> ELSE Tail(block)
  /\ \/ block = << >> \/ block[1] = Bad
     \/ left - 1 = 0 /\ Tail(block) # << >>
RefusesDecode == UNCHANGED << rerr, left, block, got >>

LEMMA DecodeBranches ==
  ASSUME Reading(Reader!Decode)
  PROVE  HandsOut \/ FailsDecode \/ RefusesDecode
BY DEF Reading, Reader!Decode, Reader!FirstDecodes, Reader!Exhausted, HandsOut, FailsDecode, RefusesDecode

\* The first of a sequence, and the rest.
LEMMA FirstAndRest ==
  ASSUME NEW S, NEW s \in Seq(S), NEW t \in Seq(S), t # << >>
  PROVE  /\ Tail(t) \in Seq(S) /\ Len(Tail(t)) = Len(t) - 1 /\ t[1] \in S /\ Append(s, t[1]) \in Seq(S)
         /\ Append(s, t[1]) \o Tail(t) = s \o t
<1> DEFINE r == Tail(t)  a == Append(s, t[1])  w == a \o r  v == s \o t
<1>1. Len(t) \in Nat \ {0} /\ Len(s) \in Nat /\ t[1] \in S /\ DOMAIN t = 1 .. Len(t)
  BY EmptySeq, ElementOfSeq
<1>2. r \in Seq(S) /\ Len(r) = Len(t) - 1 /\ \A i \in 1 .. Len(t) - 1 : r[i] = t[i + 1]
  BY <1>1, HeadTailProperties
<1>3. a \in Seq(S) /\ Len(a) = Len(s) + 1 /\ (\A i \in 1 .. Len(s) : a[i] = s[i]) /\ a[Len(s) + 1] = t[1]
  BY <1>1, AppendProperties
<1> HIDE DEF r, a
<1>4. /\ w \in Seq(S) /\ Len(w) = Len(a) + Len(r)
      /\ \A i \in 1 .. Len(a) + Len(r) : w[i] = IF i <= Len(a) THEN a[i] ELSE r[i - Len(a)]
  BY <1>2, <1>3, ConcatProperties
<1>5. /\ v \in Seq(S) /\ Len(v) = Len(s) + Len(t)
      /\ \A i \in 1 .. Len(s) + Len(t) : v[i] = IF i <= Len(s) THEN s[i] ELSE t[i - Len(s)]
  BY ConcatProperties
<1> HIDE DEF w, v
<1>6. Len(w) = Len(v)
  BY <1>1, <1>2, <1>3, <1>4, <1>5
<1>7. ASSUME NEW i \in 1 .. Len(w) PROVE w[i] = v[i]
  <2>1. i \in 1 .. Len(s) + Len(t)
    BY <1>5, <1>6
  <2>2. CASE i <= Len(s)
    <3>1. i \in 1 .. Len(s) /\ i <= Len(a) /\ i \in 1 .. Len(a) + Len(r)
      BY <1>1, <1>2, <1>3, <2>1, <2>2
    <3>. QED  BY <1>3, <1>4, <1>5, <2>1, <2>2, <3>1
  <2>3. CASE i = Len(s) + 1
    <3>1. i <= Len(a) /\ i \in 1 .. Len(a) + Len(r) /\ i - Len(s) = 1 /\ ~(i <= Len(s))
      BY <1>1, <1>2, <1>3, <2>1, <2>3
    <3>. QED  BY <1>3, <1>4, <1>5, <2>1, <2>3, <3>1
  <2>4. CASE i > Len(s) + 1
    <3>1. /\ ~(i <= Len(a)) /\ i \in 1 .. Len(a) + Len(r) /\ ~(i <= Len(s))
          /\ i - Len(a) \in 1 .. Len(t) - 1 /\ (i - Len(a)) + 1 = i - Len(s)
      BY <1>1, <1>2, <1>3, <2>1, <2>4
    <3>. QED  BY <1>2, <1>4, <1>5, <2>1, <3>1
  <2>. QED  BY <1>1, <2>1, <2>2, <2>3, <2>4
<1>8. w = v
  BY <1>4, <1>5, <1>6, <1>7, SeqEqual
<1>. QED  BY <1>1, <1>2, <1>3, <1>8 DEF r, a, w, v

\* A block lies before a place between two blocks.
LEMMA BlockBefore ==
  ASSUME NEW p \in Nat, p % 4 = 1, p > 1
  PROVE  p - 3 \in 2 .. p /\ (p - 3) % 4 = 2
<1>1. 2 % 4 # 1 /\ 3 % 4 # 1 /\ 4 % 4 # 1
  OBVIOUS
<1>2. p >= 5
  BY <1>1
<1>3. (p - 3) % 4 = 2
  BY <1>2
<1>. QED  BY <1>2, <1>3

\* Of a readable file every record decodes, and the last one of a block uses
\* up its bytes.
LEMMA ReadableDecodes ==
  ASSUME OutputInv, ReaderInv, rerr = "nil", left > 0, Readable(Current)
  PROVE  left = Len(block) /\ block # << >> /\ block[1] # Bad
<1> DEFINE c == Current
<1>1. WellFormed(c) /\ IsFile(c, AnyRecord) /\ Len(c) \in Nat /\ DOMAIN c = 1 .. Len(c) /\ IsContainer(c)
  BY CurrentWellFormed DEF OutputInv, ReaderInv, WellFormed, Readable
<1>2. /\ pos \in Nat /\ left \in Nat /\ pos <= Len(c) /\ pos > 1 /\ pos % 4 = 1
      /\ got \in Seq(AnyRecord) /\ block \in Seq(AnyRecord) /\ Passed = got \o block
  BY DEF ReaderInv, PlaceInv, HandedInv, Opened
<1>3. pos - 3 \in 2 .. pos /\ (pos - 3) % 4 = 2 /\ (pos - 3) + 3 = pos /\ (pos - 3) + 2 = pos - 1
      /\ pos - 3 \in 2 .. Len(c) /\ pos - 1 \in 1 .. Len(c)
  <2>1. pos - 3 \in 2 .. pos /\ (pos - 3) % 4 = 2
    BY <1>2, BlockBefore
  <2> HIDE DEF c
  <2>. QED  BY <1>1, <1>2, <2>1
<1>4. left = Len(block)
  <2>1. c[pos - 3].n = Len(c[pos - 1].recs) + (left - Len(block))
    BY <1>3 DEF ReaderInv, BlocksInv, BlockRead
  <2>2. c[pos - 3].n = Len(c[pos - 1].recs)
    BY <1>1, <1>3 DEF IsContainer
  <2>3. Len(c[pos - 1].recs) \in Nat
    <3>1. c[pos - 1].kind = "data"
      BY <1>1, <1>3 DEF IsContainer, BlockAt
    <3>2. c[pos - 1].recs \in Seq(AnyRecord)
      BY <1>1, <1>3, <3>1 DEF IsFile
    <3>. QED  BY <3>2
  <2>4. Len(block) \in Nat
    BY <1>2
  <2>. QED  BY <1>2, <2>1, <2>2, <2>3, <2>4
<1>5. block # << >>
  <2>1. block = << >> => Len(block) = 0
    BY EmptySeq
  <2>. QED  BY <1>2, <1>4, <2>1
<1>6. block[1] # Bad
  <2> DEFINE all == RecordsOf(c)  w == got \o block  k == Len(got) + 1
  <2>1. StartsWith(all, w) /\ all \in Seq(AnyRecord)
    <3>1. pos \in 0 .. Len(c) /\ Len(c) \in pos .. Len(c) /\ Len(c) \in 0 .. Len(c)
      BY <1>1, <1>2
    <3>2. StartsWith(RecordsOf(Prefix(c, Len(c))), RecordsOf(Prefix(c, pos)))
      BY <1>1, <3>1, RecordsGrow
    <3>3. RecordsOf(Prefix(c, Len(c))) = all /\ RecordsOf(Prefix(c, Len(c))) \in Seq(AnyRecord)
      BY <1>1, <3>1, RecordsByCell
    <3>. QED  BY <1>2, <3>2, <3>3 DEF Passed
  <2>2. /\ w \in Seq(AnyRecord) /\ Len(w) = Len(got) + Len(block) /\ k \in 1 .. Len(w) /\ w[k] = block[1]
        /\ Len(got) \in Nat
    <3>1. w \in Seq(AnyRecord) /\ Len(w) = Len(got) + Len(block) /\ Len(got) \in Nat /\ Len(block) \in Nat
      BY <1>2
    <3>2. Len(block) >= 1 /\ 1 \in 1 .. Len(block)
      BY <1>2, <1>4, <3>1
    <3>3. \A i \in 1 .. Len(got) + Len(block) : w[i] = IF i <= Len(got) THEN got[i] ELSE block[i - Len(got)]
      BY <1>2, ConcatProperties
    <3> HIDE DEF w
    <3>4. k \in 1 .. Len(w) /\ ~(k <= Len(got)) /\ k - Len(got) = 1
      BY <3>1, <3>2
    <3>5. w[k] = block[k - Len(got)]
      BY <3>1, <3>3, <3>4
    <3>. QED  BY <3>1, <3>4, <3>5
  <2>3. NoneBad(all)
    BY DEF Readable
  <2> HIDE DEF all, w, k
  <2>4. Len(w) <= Len(all) /\ w[k] = all[k]
    BY <2>1, <2>2, StartsWithMembers
  <2>5. k \in 1 .. Len(all)
    <3>1. Len(all) \in Nat
      BY <2>1
    <3>. QED  BY <2>2, <2>4, <3>1
  <2>. QED  BY <2>2, <2>3, <2>4, <2>5 DEF NoneBad
<1>. QED  BY <1>4, <1>5, <1>6

LEMMA DecodeKeepsReader ==
  ASSUME OutputInv, ReaderInv, Reading(Reader!Decode)
  PROVE  ReaderInv'
<1>1. /\ UNCHANGED << Current, files, landed, target, foreign >> /\ (Ours' <=> Ours)
  BY ReaderAlone DEF Reading
<1>2. /\ phase = "idle" /\ UNCHANGED << phase, pos, fileFmt, marker, promised >>
  BY DEF Reading, Reader!Decode
<1>3. Opened /\ Opened' /\ Passed' = Passed /\ left \in Nat
  BY <1>1, <1>2 DEF Opened, Passed, ReaderInv, PlaceInv
<1>4. TargetInv' /\ PromiseInv'
  BY <1>1, <1>2 DEF ReaderInv, TargetInv, PromiseInv
<1>5. got \in Seq(AnyRecord) /\ block \in Seq(AnyRecord) /\ Len(got) \in Nat /\ Len(block) \in Nat
  BY DEF ReaderInv, HandedInv
<1>6. CASE RefusesDecode
  <2>1. PlaceInv' /\ HandedInv' /\ BlocksInv'
    BY <1>1, <1>2, <1>3, <1>6 DEF RefusesDecode, ReaderInv, PlaceInv, HandedInv, BlocksInv
  <2>2. EndInv' /\ ErrorInv'
    BY <1>1, <1>2, <1>6 DEF RefusesDecode, ReaderInv, EndInv, ErrorInv
  <2>. QED  BY <1>4, <2>1, <2>2 DEF ReaderInv
<1>7. ASSUME left > 0, left' = left - 1 PROVE PlaceInv'
  <2>1. left - 1 \in Nat /\ ~(pos <= 1)
    BY <1>3, <1>7 DEF ReaderInv, PlaceInv
  <2>. QED  BY <1>1, <1>2, <1>3, <1>7, <2>1 DEF ReaderInv, PlaceInv
<1>8. CASE HandsOut
  <2>1. /\ rerr = "nil" /\ left > 0 /\ block # << >> /\ rerr' = "nil"
        /\ left' = left - 1 /\ block' = Tail(block) /\ got' = Append(got, block[1])
        /\ left' = 0 => block' = << >>
    BY <1>8 DEF HandsOut
  <2>2. /\ block' \in Seq(AnyRecord) /\ Len(block') = Len(block) - 1 /\ got' \in Seq(AnyRecord)
        /\ got' \o block' = got \o block
    BY <1>5, <2>1, FirstAndRest
  <2>3. Passed = got \o block
    BY <2>1 DEF ReaderInv, HandedInv
  <2>4. HandedInv'
    <3>1. StartsWith(got' \o block', got')
      <4> DEFINE g == got'  b == block'
      <4>1. g \in Seq(AnyRecord) /\ b \in Seq(AnyRecord)
        BY <2>2
      <4> HIDE DEF g, b
      <4>2. StartsWith(g \o b, g)
        BY <4>1, StartsWithConcat
      <4>. QED  BY <4>2 DEF g, b
    <3>. QED  BY <1>3, <2>1, <2>2, <2>3, <3>1 DEF HandedInv
  <2>5. BlocksInv'
    <3>1. left' - Len(block') = left - Len(block)
      BY <1>3, <1>5, <2>1, <2>2
    <3>. QED  BY <1>1, <1>2, <2>1, <3>1 DEF ReaderInv, BlocksInv
  <2>6. EndInv' /\ ErrorInv'
    BY <1>2, <2>1 DEF EndInv, ErrorInv
  <2>. QED  BY <1>4, <1>7, <2>1, <2>4, <2>5, <2>6 DEF ReaderInv
<1>9. CASE FailsDecode
  <2>1. /\ rerr = "nil" /\ left > 0 /\ rerr' = "err" /\ left' = left - 1 /\ got' = got
        /\ block' = IF block = << >> THEN << >> ELSE Tail(block)
    BY <1>9 DEF FailsDecode
  <2>2. block' \in Seq(AnyRecord)
    BY <1>5, <2>1, FirstAndRest
  <2>3. HandedInv'
    BY <1>3, <2>1, <2>2 DEF ReaderInv, HandedInv
  <2>4. BlocksInv' /\ EndInv'
    BY <2>1 DEF BlocksInv, EndInv
  <2>5. ~Readable(Current)
    <3> SUFFICES ASSUME Readable(Current) PROVE FALSE
      OBVIOUS
    <3>1. left = Len(block) /\ block # << >> /\ block[1] # Bad
      BY <2>1, ReadableDecodes
    <3>2. left - 1 = 0 /\ Tail(block) # << >>
      BY <1>9, <3>1 DEF FailsDecode
    <3>3. Tail(block) \in Seq(AnyRecord) /\ Len(Tail(block)) = Len(block) - 1
      BY <1>5, <3>1, FirstAndRest
    <3>. QED  BY <1>3, <3>1, <3>2, <3>3, EmptySeq
  <2>6. ErrorInv'
    BY <1>1, <1>2, <2>5 DEF ErrorInv
  <2>. QED  BY <1>4, <1>7, <2>1, <2>3, <2>4, <2>6 DEF ReaderInv
<1>. QED  BY <1>6, <1>8, <1>9, DecodeBranches
------------------------------------------------------------------------------
\* Reader and encoder together: the encoder's own invariants hold, whatever
\* the reader does, and the reader's.
LEMMA EncoderUndisturbed == FileSpec => Spec
<1>1. FileInit => Init
  BY DEF FileInit
<1>2. [FileNext]_fileVars => [Next]_vars
  BY DEF FileNext, Open, Read, Reading, Work, fileVars
<1>. QED  BY <1>1, <1>2, PTL DEF FileSpec, Spec

LEMMA InitialReader == FileInit => ReaderInv
<1> SUFFICES ASSUME FileInit PROVE ReaderInv
  OBVIOUS
<1>1. /\ phase = "none" /\ pos = 0 /\ rerr = "nil" /\ left = 0 /\ block = << >> /\ got = << >>
      /\ promised = << >> /\ (\A o \in Outputs : landed[o] = << >> /\ files[o] = << >>) /\ 1 \in Outputs
      /\ (foreign = << >> /\ target \in Outputs) \/ (foreign \in ForeignFiles /\ target = 1)
  BY OutputsAssumption DEF FileInit, Init, Reader!DecInit, Outputs
<1>2. TargetInv
  BY <1>1 DEF TargetInv, Ours
<1>3. WellFormed(Current) /\ Len(Current) \in Nat
  <2>1. CASE Ours
    <3> DEFINE e == << >>
    <3>1. e \in Seq(Cells) /\ Current = e
      BY <1>1, <1>2, <2>1 DEF Current, TargetInv
    <3> HIDE DEF e
    <3>2. WellFormed(Current)
      BY <3>1, CellsWellFormed
    <3>. QED  BY <3>2, FileLength DEF WellFormed
  <2>2. CASE ~Ours
    <3>1. WellFormed(Current)
      BY <1>2, <2>2, ForeignWellFormed DEF TargetInv, Current
    <3>. QED  BY <3>1, FileLength DEF WellFormed
  <2>. QED  BY <2>1, <2>2
<1>4. PlaceInv
  BY <1>1, <1>3 DEF PlaceInv, Opened
<1>5. HandedInv
  <2>1. Passed = << >>
    BY <1>1, <1>3, NothingBeforeBlocks DEF Passed, WellFormed
  <2>2. << >> \in Seq(AnyRecord)
    OBVIOUS
  <2>3. << >> \o << >> = << >> /\ StartsWith(<< >>, << >>)
    BY <2>2, ConcatEmptySeq, StartsWithItself
  <2>. QED  BY <1>1, <2>1, <2>2, <2>3 DEF HandedInv
<1>6. BlocksInv
  BY <1>1 DEF BlocksInv
<1>7. EndInv /\ ErrorInv
  BY <1>1 DEF EndInv, ErrorInv
<1>8. PromiseInv
  <2>1. << >> \in Seq(Records)
    OBVIOUS
  <2>2. StartsWith(<< >>, << >>)
    BY <2>1, StartsWithItself
  <2>3. Ours => landed[target] = << >>
    BY <1>1, <1>2 DEF TargetInv
  <2>. QED  BY <1>1, <2>1, <2>2, <2>3 DEF PromiseInv
<1>. QED  BY <1>2, <1>4, <1>5, <1>6, <1>7, <1>8 DEF ReaderInv

LEMMA StepKeepsReader ==
  ASSUME OutputInv, ReaderInv, [FileNext]_fileVars
  PROVE  ReaderInv'
<1>1. CASE Open
  BY <1>1, OpenKeepsReader
<1>2. CASE Work
  BY <1>2, WorkKeepsReader
<1>3. CASE Read
  <2>1. \/ Reading(Reader!HasNextCall) \/ Reading(Reader!ReadBlock)
        \/ Reading(Reader!HasNextReturn) \/ Reading(Reader!Decode)
    BY <1>3 DEF Read, Reading
  <2>. QED  BY <2>1, HasNextKeepsReader, ReadBlockKeepsReader, DecodeKeepsReader
<1>4. CASE UNCHANGED fileVars
  <2>1. /\ UNCHANGED << Current, files, landed, target, foreign >> /\ (Ours' <=> Ours)
        /\ UNCHANGED << phase, pos, rerr, left, block, fileFmt, marker, got, promised >>
    BY <1>4, ReaderAlone DEF fileVars, readerVars
  <2>2. (Opened' <=> Opened) /\ Passed' = Passed
    BY <2>1 DEF Opened, Passed
  <2>3. TargetInv' /\ PlaceInv' /\ HandedInv' /\ BlocksInv'
    BY <2>1, <2>2 DEF ReaderInv, TargetInv, PlaceInv, HandedInv, BlocksInv
  <2>4. EndInv' /\ ErrorInv' /\ PromiseInv'
    BY <2>1 DEF ReaderInv, EndInv, ErrorInv, PromiseInv
  <2>. QED  BY <2>3, <2>4 DEF ReaderInv
<1>. QED  BY <1>1, <1>2, <1>3, <1>4 DEF FileNext

LEMMA ReaderInductive == FileSpec => [](OutputInv /\ ReaderInv)
<1>1. FileSpec => []EncoderInv /\ []ContainerInv
  BY EncoderUndisturbed, Inductive, FilesInductive, PTL
<1>2. EncoderInv /\ ContainerInv => OutputInv
  BY DEF OutputInv
<1>3. OutputInv /\ ReaderInv /\ [FileNext]_fileVars => ReaderInv'
  BY StepKeepsReader
<1>. QED  BY <1>1, <1>2, <1>3, InitialReader, PTL DEF FileSpec

\* What a reader got is the beginning of the records of the file it reads, be
\* it an output of the encoder, which may grow, fail and be appended to
\* meanwhile, or any file from elsewhere.
THEOREM ReaderAlwaysGetsAccepted == FileSpec => []ReaderGetsAccepted
<1>1. OutputInv /\ ReaderInv => ReaderGetsAccepted
  <2> SUFFICES ASSUME OutputInv, ReaderInv PROVE ReaderGetsAccepted
    OBVIOUS
  <2> DEFINE c == Current  all == IF Ours THEN landed[target] ELSE RecordsOf(foreign)
  <2>1. IsFile(c, AnyRecord) /\ Len(c) \in Nat /\ pos \in Nat /\ pos <= Len(c)
    BY CurrentWellFormed DEF OutputInv, ReaderInv, WellFormed, PlaceInv
  <2>2. RecordsOf(c) = all
    BY FilesHoldLanded DEF OutputInv, ReaderInv, TargetInv, Current
  <2>3. got \in Seq(AnyRecord) /\ StartsWith(RecordsOf(Prefix(c, pos)), got)
    BY DEF ReaderInv, HandedInv, Passed
  <2> HIDE DEF c
  <2>4. pos \in 0 .. Len(c) /\ Len(c) \in pos .. Len(c) /\ Len(c) \in 0 .. Len(c)
    BY <2>1
  <2>5. StartsWith(RecordsOf(Prefix(c, Len(c))), RecordsOf(Prefix(c, pos)))
    BY <2>1, <2>4, RecordsGrow
  <2>6. /\ RecordsOf(Prefix(c, pos)) \in Seq(AnyRecord) /\ RecordsOf(Prefix(c, Len(c))) \in Seq(AnyRecord)
        /\ RecordsOf(Prefix(c, Len(c))) = RecordsOf(c)
    BY <2>1, <2>4, RecordsByCell
  <2>7. StartsWith(RecordsOf(Prefix(c, Len(c))), got)
    BY <2>3, <2>5, <2>6, StartsWithTransitive
  <2>8. StartsWith(all, got)
    BY <2>2, <2>6, <2>7
  <2>. QED  BY <2>8 DEF ReaderGetsAccepted, StartsWith
<1>. QED  BY <1>1, ReaderInductive, PTL

\* A reading loop that ends without an error got every record of an output
\* that was complete when it was opened, and every record of a file from
\* elsewhere, which was a whole container.
THEOREM CleanEndsMeanAll == FileSpec => []CleanEndMeansAll
<1>1. OutputInv /\ ReaderInv => CleanEndMeansAll
  <2> SUFFICES ASSUME OutputInv, ReaderInv, Reader!CleanEnd
               PROVE  /\ Len(promised) <= Len(got) /\ promised = SubSeq(got, 1, Len(promised))
                      /\ ~Ours => IsContainer(foreign) /\ got = RecordsOf(foreign)
    BY DEF CleanEndMeansAll
  <2>1. rerr = "eof"
    BY DEF Reader!CleanEnd
  <2>2. CASE Ours
    BY <2>1, <2>2 DEF ReaderInv, EndInv, StartsWith
  <2>3. CASE ~Ours
    <3>1. promised = << >> /\ IsContainer(foreign) /\ got = RecordsOf(foreign) /\ got \in Seq(AnyRecord)
      BY <2>1, <2>3 DEF ReaderInv, EndInv, PromiseInv, HandedInv
    <3>2. Len(<< >>) = 0 /\ Len(got) >= 0 /\ SubSeq(got, 1, 0) = << >>
      BY <3>1
    <3>. QED  BY <3>1, <3>2
  <2>. QED  BY <2>2, <2>3
<1>. QED  BY <1>1, ReaderInductive, PTL
------------------------------------------------------------------------------
(* Blocks within the limits of a reader. *)

\* The encoder is configured to write blocks that fit the reader's limits,
\* which count and bound its blocks: no limit, or one that the fullest block
\* meets. A block is full at BlockLength records, or at BlockSize bytes with
\* the record that reached them.
LimitsFit ==
  /\ MaxBlockRecords = 0 \/ BlockLength \in 1 .. MaxBlockRecords
  /\ \/ MaxBlockBytes = 0
     \/ \E s \in Nat :
          /\ \A size \in RecordSizes : size <= s
          /\ \/ BlockLength # 0 /\ BlockLength * s <= MaxBlockBytes
             \/ BlockSize # 0 /\ BlockSize - 1 + s <= MaxBlockBytes

FitsBlock(n, size) ==
  /\ MaxBlockRecords > 0 => n <= MaxBlockRecords
  /\ MaxBlockBytes > 0 => size <= MaxBlockBytes

FitCells ==
  {cell \in Cells : /\ cell.kind = "count" /\ MaxBlockRecords > 0 => cell.n <= MaxBlockRecords
                    /\ cell.kind = "size" /\ MaxBlockBytes > 0 => cell.n <= MaxBlockBytes}

\* The pending records do not fill a block, and take no more than so many
\* records can.
PendingFits ==
  /\ BlockLength # 0 => count < BlockLength
  /\ BlockSize # 0 => bufLen < BlockSize
  /\ \A s \in Nat : (\A size \in RecordSizes : size <= s) => bufLen <= count * s

FilesFit == \A o \in Outputs : files[o] \in Seq(FitCells)

LimitInv == FilesFit /\ PendingFits

LEMMA MoreOfThem ==
  ASSUME NEW a \in Nat, NEW b \in Nat, NEW s \in Nat, a <= b
  PROVE  a * s <= b * s
OBVIOUS

LEMMA OneMore ==
  ASSUME NEW a \in Nat, NEW s \in Nat
  PROVE  a * s \in Nat /\ (a + 1) * s = a * s + s
OBVIOUS

\* The block of the pending records fits, and so it does with one more.
LEMMA PendingFitsBlock ==
  ASSUME LimitsFit, PendingFits, count \in Nat, bufLen \in Nat
  PROVE  /\ FitsBlock(count, bufLen)
         /\ \A size \in RecordSizes : FitsBlock(count + 1, bufLen + size)
<1>1. /\ BlockLength \in Nat /\ BlockSize \in Nat /\ MaxBlockRecords \in Nat /\ MaxBlockBytes \in Nat
      /\ RecordSizes \subseteq Nat
  BY LimitsAssumption, DecoderLimits, SizesAssumption
<1>2. MaxBlockRecords > 0 => count <= MaxBlockRecords /\ count + 1 <= MaxBlockRecords
  BY <1>1 DEF LimitsFit, PendingFits
<1>3. ASSUME MaxBlockBytes > 0
      PROVE  bufLen <= MaxBlockBytes /\ \A size \in RecordSizes : bufLen + size <= MaxBlockBytes
  <2>1. PICK s \in Nat :
          /\ \A size \in RecordSizes : size <= s
          /\ \/ BlockLength # 0 /\ BlockLength * s <= MaxBlockBytes
             \/ BlockSize # 0 /\ BlockSize - 1 + s <= MaxBlockBytes
    BY <1>1, <1>3 DEF LimitsFit
  <2>2. bufLen <= count * s
    BY <2>1 DEF PendingFits
  <2>3. bufLen + s <= MaxBlockBytes
    <3>1. CASE BlockLength # 0 /\ BlockLength * s <= MaxBlockBytes
      <4> DEFINE x == count * s  y == (count + 1) * s  z == BlockLength * s
      <4>1. count + 1 <= BlockLength /\ count + 1 \in Nat
        BY <1>1, <3>1 DEF PendingFits
      <4>2. x \in Nat /\ y = x + s
        BY OneMore
      <4>3. y <= z
        BY <1>1, <4>1, MoreOfThem
      <4>4. z \in Nat
        BY <1>1, OneMore
      <4>5. bufLen <= x /\ z <= MaxBlockBytes
        BY <2>2, <3>1
      <4> HIDE DEF x, y, z
      <4>. QED  BY <1>1, <4>2, <4>3, <4>4, <4>5
    <3>2. CASE BlockSize # 0 /\ BlockSize - 1 + s <= MaxBlockBytes
      <4>1. bufLen < BlockSize
        BY <3>2 DEF PendingFits
      <4>. QED  BY <1>1, <3>2, <4>1
    <3>. QED  BY <2>1, <3>1, <3>2
  <2>4. \A size \in RecordSizes : size \in Nat /\ size <= s
    BY <1>1, <2>1
  <2>. QED  BY <1>1, <2>3, <2>4
<1>. QED  BY <1>2, <1>3 DEF FitsBlock

LEMMA FittingCells ==
  ASSUME NEW f \in Formats, NEW mark \in Outputs, NEW n \in Nat, NEW records \in Seq(Records),
         NEW size \in Nat, FitsBlock(n, size)
  PROVE  /\ TornCell \in FitCells /\ << HeaderCell(f, mark) >> \in Seq(FitCells)
         /\ Block(f, n, records, size, mark) \in Seq(FitCells)
<1>1. /\ TornCell \in FitCells /\ HeaderCell(f, mark) \in FitCells
      /\ DataCell(f, records) \in FitCells /\ SyncCell(mark) \in FitCells
  BY DEF FitCells, Cells, TornCell, HeaderCell, DataCell, SyncCell
<1>2. CountCell(n) \in FitCells /\ SizeCell(size) \in FitCells
  BY DEF FitCells, Cells, CountCell, SizeCell, FitsBlock
<1>. QED  BY <1>1, <1>2 DEF Block

LEMMA BlockFits ==
  ASSUME EncoderInv, FilesFit, up, ~failed,
         NEW n \in Nat, NEW records \in Seq(Records), NEW size \in Nat, NEW outcome \in Outcomes,
         FitsBlock(n, size), WriterBlock(n, records, size, outcome)
  PROVE  FilesFit'
<1> DEFINE b == wbuf \o Block(fmt, n, records, size, sync)
<1>1. /\ files \in [Outputs -> Seq(Cells)] /\ cur \in Outputs /\ werr \in BOOLEAN /\ wbuf = << >>
      /\ fmt \in Formats /\ sync \in Outputs
  BY DEF EncoderInv, TypeOK, FailedMatchesWriter
<1>2. b \in Seq(FitCells) /\ TornCell \in FitCells
  <2>1. Block(fmt, n, records, size, sync) \in Seq(FitCells) /\ TornCell \in FitCells
    BY <1>1, FittingCells
  <2>. QED  BY <1>1, <2>1, ConcatEmptySeq
<1> HIDE DEF b
<1>3. PICK part \in Sent(b, werr, outcome) : files' = [files EXCEPT ![cur] = @ \o part]
  BY DEF WriterBlock, WriterFlush, b
<1>4. part \in Seq(FitCells)
  BY <1>1, <1>2, <1>3, SentFrom
<1>5. ASSUME NEW o \in Outputs PROVE files'[o] \in Seq(FitCells)
  <2>1. files[o] \in Seq(FitCells)
    BY DEF FilesFit
  <2>2. files[o] \o part \in Seq(FitCells)
    BY <1>4, <2>1, ConcatProperties
  <2>3. files'[o] = IF o = cur THEN files[o] \o part ELSE files[o]
    BY <1>1, <1>3
  <2>. QED  BY <2>1, <2>2, <2>3
<1>. QED  BY <1>5 DEF FilesFit

\* No pending records fit.
LEMMA NothingFits ==
  ASSUME count' = 0, bufLen' = 0
  PROVE  PendingFits'
BY LimitsAssumption DEF PendingFits

LEMMA AddRecordFits ==
  ASSUME EncoderInv, LimitsFit, LimitInv, up, ~failed, nextRec \in Records,
         NEW op, NEW size \in RecordSizes, NEW outcome \in Outcomes, AddRecord(op, size, outcome)
  PROVE  LimitInv'
<1>1. /\ count \in Nat /\ bufLen \in Nat /\ size \in Nat /\ Append(buf, nextRec) \in Seq(Records)
      /\ count + 1 \in Nat /\ bufLen + size \in Nat
  BY SizesAssumption DEF EncoderInv, TypeOK
<1>2. CASE WriterBlock(count + 1, Append(buf, nextRec), bufLen + size, outcome)
  <2>1. FitsBlock(count + 1, bufLen + size)
    BY <1>1, PendingFitsBlock DEF LimitInv
  <2>2. FilesFit'
    BY <1>1, <1>2, <2>1, BlockFits DEF LimitInv
  <2>3. count' = 0 /\ bufLen' = 0
    BY <1>2 DEF WriterBlock
  <2>. QED  BY <1>1, <2>2, <2>3, NothingFits DEF LimitInv
<1>3. CASE /\ ~ShouldWriteDataBlock(count + 1, bufLen + size)
           /\ count' = count + 1 /\ bufLen' = bufLen + size /\ UNCHANGED files
  <2>1. FilesFit'
    BY <1>3 DEF LimitInv, FilesFit
  <2>2. /\ BlockLength # 0 => count' < BlockLength
        /\ BlockSize # 0 => bufLen' < BlockSize
    BY <1>1, <1>3, LimitsAssumption DEF ShouldWriteDataBlock
  <2>3. ASSUME NEW s \in Nat, \A sz \in RecordSizes : sz <= s PROVE bufLen' <= count' * s
    <3> DEFINE x == count * s  y == (count + 1) * s
    <3>1. bufLen <= x /\ size <= s
      BY <2>3 DEF LimitInv, PendingFits
    <3>2. x \in Nat /\ y = x + s
      BY <1>1, OneMore
    <3>3. count' * s = y
      BY <1>3
    <3> HIDE DEF x, y
    <3>. QED  BY <1>1, <1>3, <3>1, <3>2, <3>3
  <2>. QED  BY <2>1, <2>2, <2>3 DEF LimitInv, PendingFits
<1>. QED  BY <1>2, <1>3 DEF AddRecord

LEMMA DoFlushFits ==
  ASSUME EncoderInv, LimitsFit, LimitInv, up, NEW op, NEW outcome \in Outcomes, DoFlush(op, outcome)
  PROVE  LimitInv'
<1>1. CASE UNCHANGED << files, count, bufLen >>
  BY <1>1 DEF LimitInv, FilesFit, PendingFits
<1>2. CASE ~failed /\ WriterBlock(count, buf, bufLen, outcome)
  <2>1. count \in Nat /\ bufLen \in Nat /\ buf \in Seq(Records)
    BY DEF EncoderInv, TypeOK
  <2>2. FitsBlock(count, bufLen)
    BY <2>1, PendingFitsBlock DEF LimitInv
  <2>3. FilesFit'
    BY <1>2, <2>1, <2>2, BlockFits DEF LimitInv
  <2>4. count' = 0 /\ bufLen' = 0
    BY <1>2 DEF WriterBlock
  <2>. QED  BY <2>1, <2>3, <2>4, NothingFits DEF LimitInv
<1>. QED  BY <1>1, <1>2 DEF DoFlush

LEMMA ResetAttachFits ==
  ASSUME EncoderInv, LimitsFit, LimitInv, NEW outcome \in Outcomes, ResetAttach(outcome)
  PROVE  LimitInv'
<1> DEFINE new     == cur + 1
           pending == wbuf \o Block(fmt, count, buf, bufLen, sync)
           head    == << HeaderCell(header.fmt, new) >>
<1>1. /\ files \in [Outputs -> Seq(Cells)] /\ cur \in Outputs /\ header.fmt \in Formats
      /\ fmt \in Formats /\ sync \in Outputs /\ count \in Nat /\ bufLen \in Nat /\ buf \in Seq(Records)
  BY DEF EncoderInv, TypeOK
<1>2. FitsBlock(count, bufLen)
  BY <1>1, PendingFitsBlock DEF LimitInv
<1>3. new \in Outputs /\ up
  BY DEF ResetAttach
<1>4. head \in Seq(FitCells) /\ TornCell \in FitCells /\ Block(fmt, count, buf, bufLen, sync) \in Seq(FitCells)
  <2> HIDE DEF new
  <2>. QED  BY <1>1, <1>2, <1>3, FittingCells
<1>5. ResetFlushes => pending \in Seq(FitCells)
  <2>1. ResetFlushes => wbuf = << >>
    BY <1>3 DEF ResetFlushes, EncoderInv, FailedMatchesWriter
  <2>. QED  BY <1>4, <2>1, ConcatEmptySeq
<1>6. PICK part \in Sent(head, FALSE, outcome) :
        files' = [files EXCEPT ![cur] = IF ResetFlushes THEN @ \o pending ELSE @, ![new] = @ \o part]
  BY DEF ResetAttach
<1> HIDE DEF head, pending
<1>7. part \in Seq(FitCells)
  BY <1>4, <1>6, SentFrom
<1>8. new # cur
  BY <1>1 DEF Outputs
<1>9. ASSUME NEW o \in Outputs PROVE files'[o] \in Seq(FitCells)
  <2>1. files[o] \in Seq(FitCells)
    BY DEF LimitInv, FilesFit
  <2>2. /\ files[o] \o part \in Seq(FitCells)
        /\ ResetFlushes => files[o] \o pending \in Seq(FitCells)
    BY <1>5, <1>7, <2>1, ConcatProperties
  <2>3. files'[o] = IF o = new THEN files[o] \o part
                    ELSE IF o = cur /\ ResetFlushes THEN files[o] \o pending ELSE files[o]
    <3> HIDE DEF new
    <3>. QED  BY <1>1, <1>3, <1>6, <1>8
  <2>. QED  BY <2>1, <2>2, <2>3
<1>10. PendingFits'
  <2>1. CASE count' = 0 /\ bufLen' = 0
    BY <1>1, <2>1, NothingFits
  <2>2. CASE UNCHANGED << count, bufLen >>
    BY <2>2 DEF LimitInv, PendingFits
  <2>. QED  BY <2>1, <2>2 DEF ResetAttach
<1>. QED  BY <1>9, <1>10 DEF LimitInv, FilesFit

LEMMA NewEncoderFits ==
  ASSUME EncoderInv, LimitsFit, LimitInv, NEW q \in Target, NEW format \in Formats,
         NEW outcome \in Outcomes, NewEncoder(q, format, outcome)
  PROVE  LimitInv'
<1> DEFINE head == << HeaderCell(format, q) >>
<1>1. /\ files \in [Outputs -> Seq(Cells)] /\ q \in Outputs
      /\ 0 \in Nat /\ << >> \in Seq(Records) /\ FitsBlock(0, 0)
  BY DecoderLimits DEF EncoderInv, TypeOK, Target, FitsBlock
<1>2. head \in Seq(FitCells) /\ TornCell \in FitCells
  BY <1>1, FittingCells
<1>3. PICK part \in Sent(head, FALSE, outcome) : files' = [files EXCEPT ![q] = part]
  BY DEF NewEncoder
<1> HIDE DEF head
<1>4. part \in Seq(FitCells)
  BY <1>2, <1>3, SentFrom
<1>5. FilesFit'
  BY <1>1, <1>3, <1>4 DEF LimitInv, FilesFit
<1>6. CASE count' = 0 /\ bufLen' = 0
  BY <1>1, <1>5, <1>6, NothingFits DEF LimitInv
<1>7. CASE UNCHANGED << count, bufLen >>
  BY <1>5, <1>7 DEF LimitInv, PendingFits
<1>. QED  BY <1>6, <1>7 DEF NewEncoder, Constructed, encVars

LEMMA StepFits ==
  ASSUME EncoderInv, LimitsFit, LimitInv, [Next]_vars
  PROVE  LimitInv'
<1>0. UNCHANGED << files, count, bufLen >> => LimitInv'
  BY DEF LimitInv, FilesFit, PendingFits
<1>1. \A op : Refused(op) => LimitInv'
  BY <1>0 DEF Refused, encVars
<1>2. ASSUME NEW outcome \in Outcomes, Write(outcome) \/ Encode(outcome) PROVE LimitInv'
  BY <1>1, <1>2, AddRecordFits DEF Write, Encode
<1>3. ASSUME NEW outcome \in Outcomes, Flush(outcome) \/ Close(outcome) PROVE LimitInv'
  BY <1>0, <1>3, DoFlushFits DEF Flush, Close
<1>4. ASSUME NEW outcome \in Outcomes, ResetFlushFails(outcome) PROVE LimitInv'
  <2>1. up /\ ~failed /\ WriterBlock(count, buf, bufLen, outcome)
    BY <1>4 DEF ResetFlushFails, ResetFlushes
  <2>2. count \in Nat /\ bufLen \in Nat /\ buf \in Seq(Records)
    BY DEF EncoderInv, TypeOK
  <2>3. FitsBlock(count, bufLen)
    BY <2>2, PendingFitsBlock DEF LimitInv
  <2>4. FilesFit'
    BY <2>1, <2>2, <2>3, BlockFits DEF LimitInv
  <2>5. count' = 0 /\ bufLen' = 0
    BY <2>1 DEF WriterBlock
  <2>. QED  BY <2>2, <2>4, <2>5, NothingFits DEF LimitInv
<1>5. ASSUME NEW op, EncodeRejected(op) PROVE LimitInv'
  BY <1>0, <1>5 DEF EncodeRejected
<1>6. ASSUME NEW q, NewEncoderAppend(q) PROVE LimitInv'
  <2>1. UNCHANGED files
    BY <1>6 DEF NewEncoderAppend
  <2>2. FilesFit'
    BY <2>1 DEF LimitInv, FilesFit
  <2>3. CASE count' = 0 /\ bufLen' = 0
    BY <2>2, <2>3, NothingFits DEF LimitInv
  <2>4. CASE UNCHANGED << count, bufLen >>
    BY <2>2, <2>4 DEF LimitInv, PendingFits
  <2>. QED  BY <1>6, <2>3, <2>4 DEF NewEncoderAppend, Constructed, encVars
<1>7. CASE Crash
  BY <1>0, <1>7 DEF Crash, encVars
<1>8. CASE UNCHANGED vars
  BY <1>0, <1>8 DEF vars, encVars
<1>. QED  BY <1>2, <1>3, <1>4, <1>5, <1>6, <1>7, <1>8, ResetAttachFits, NewEncoderFits DEF Next

\* With limits that fit, the encoder's outputs stay within them.
LEMMA LimitsKept ==
  ASSUME LimitsFit
  PROVE  Spec => []LimitInv
<1>1. Init => LimitInv
  <2> SUFFICES ASSUME Init PROVE LimitInv
    OBVIOUS
  <2>1. count = 0 /\ bufLen = 0 /\ \A o \in Outputs : files[o] = << >>
    BY DEF Init
  <2>2. << >> \in Seq(FitCells)
    OBVIOUS
  <2>3. FilesFit
    BY <2>1, <2>2 DEF FilesFit
  <2>4. PendingFits
    BY <2>1, LimitsAssumption DEF PendingFits
  <2>. QED  BY <2>3, <2>4 DEF LimitInv
<1>2. EncoderInv /\ LimitInv /\ [Next]_vars => LimitInv'
  BY StepFits
<1>. QED  BY <1>1, <1>2, Inductive, PTL DEF Spec

\* A container the encoder wrote within the limits is readable.
LEMMA OutputsReadable ==
  ASSUME OutputInv, LimitInv, NEW o \in Outputs, ~lossy[o], files[o] # << >>
  PROVE  Readable(files[o])
<1>1. IsContainer(files[o])
  BY DEF OutputInv, ContainerInv, FilesInv, WholeFile
<1>2. NoneBad(RecordsOf(files[o]))
  <2>1. RecordsOf(files[o]) \in Seq(Records)
    BY FilesHoldLanded DEF OutputInv, EncoderInv, TypeOK
  <2>2. \A s \in Seq(Records) : NoneBad(s)
    BY BadAssumption DEF NoneBad
  <2>. QED  BY <2>1, <2>2
<1>3. FitsLimits(files[o])
  <2>1. files[o] \in Seq(FitCells)
    BY DEF LimitInv, FilesFit
  <2>2. \A i \in 1 .. Len(files[o]) : files[o][i] \in FitCells
    BY <2>1
  <2>. QED  BY <2>2 DEF FitsLimits, FitCells
<1>. QED  BY <1>1, <1>2, <1>3 DEF Readable

\* When the limits of the reader fit the encoder's blocks, it meets an error
\* only on an output a write failed on, and never refuses to open a complete
\* one; a whole file from elsewhere that fits the limits is read without error.
THEOREM HealthyReadsAreClean ==
  ASSUME LimitsFit
  PROVE  FileSpec => []HealthyReadsClean
<1>1. OutputInv /\ ReaderInv /\ LimitInv => HealthyReadsClean
  <2> SUFFICES ASSUME OutputInv, ReaderInv, LimitInv PROVE HealthyReadsClean
    OBVIOUS
  <2>1. ASSUME Ours, ~lossy[target], rerr = "err" PROVE FALSE
    <3>1. target \in Outputs /\ Current = files[target] /\ ~Readable(Current)
      BY <2>1 DEF ReaderInv, TargetInv, ErrorInv, Current
    <3>2. Opened /\ Current # << >>
      <4>1. Opened /\ pos \in Nat /\ pos % 4 = 1 /\ pos <= Len(Current)
        BY <2>1 DEF ReaderInv, PlaceInv
      <4>2. pos # 0
        BY <4>1
      <4>3. Len(<< >>) = 0
        BY EmptySeq
      <4>. QED  BY <4>1, <4>2, <4>3
    <3>. QED  BY <2>1, <3>1, <3>2, OutputsReadable
  <2>2. promised # << >> => phase # "refused"
    BY DEF ReaderInv, PromiseInv
  <2> DEFINE all == RecordsOf(foreign)
  <2>3. ASSUME ~Ours, IsContainer(foreign), \A i \in 1 .. Len(all) : all[i] # Bad,
               \A i \in 1 .. Len(foreign) :
                 /\ foreign[i].kind = "count" => foreign[i].n <= MaxBlockRecords
                 /\ foreign[i].kind = "size" => foreign[i].n <= MaxBlockBytes
        PROVE  rerr # "err" /\ phase # "refused"
    <3>1. Readable(foreign)
      BY <2>3 DEF Readable, NoneBad, FitsLimits
    <3>2. Current = foreign
      BY <2>3 DEF Current
    <3>. QED  BY <2>3, <3>1, <3>2 DEF ReaderInv, ErrorInv
  <2>. QED  BY <2>1, <2>2, <2>3 DEF HealthyReadsClean
<1>. QED  BY <1>1, ReaderInductive, EncoderUndisturbed, LimitsKept, PTL
==============================================================================
