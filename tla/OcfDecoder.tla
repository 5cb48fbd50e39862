----------------------------- MODULE OcfDecoder ------------------------------
(***************************************************************************)
(* ocf.Decoder: reads a container file block by block and hands out its    *)
(* records one by one.  The caller alternates HasNext and Decode, in any   *)
(* order; the file may be whole, cut anywhere, or damaged.                 *)
(*                                                                         *)
(* HasNext loops over readBlock: each turn of the loop is one action.      *)
(***************************************************************************)
EXTENDS OcfFormat

CONSTANTS
  Bad,              \* a record whose bytes do not decode
  MaxBlockRecords,  \* WithMaxBlockRecords, 0 when disabled
  MaxBlockBytes     \* WithMaxBlockBytes, 0 when disabled

VARIABLES
  file,     \* the cells of the stream
  phase,    \* none: not constructed; idle, hasnext: in a call; refused: no decoder
  pos,      \* cells consumed by Decoder.reader
  rerr,     \* Decoder.reader.Error: nil, eof (a direct io.EOF) or err
  left,     \* Decoder.count: records of the block not yet read
  block,    \* what resetReader and the inner decoder still hold of the block
  fileFmt,  \* the format the header announced
  marker,   \* Decoder.sync
  got,      \* history: records returned by Decode without an error
  told      \* history: what the last HasNext returned

decVars == << phase, pos, rerr, left, block, fileFmt, marker, got, told >>

DecInit ==
  /\ phase = "none" /\ pos = 0 /\ rerr = "nil" /\ left = 0 /\ block = << >>
  /\ fileFmt = "none" /\ marker = 0 /\ got = << >> /\ told = "none"

\* NewDecoder: the header must be readable.
NewDecoder ==
  /\ phase = "none"
  /\ IF ReadsHeader(file)
     THEN /\ phase' = "idle" /\ pos' = 1
          /\ fileFmt' = file[1].fmt /\ marker' = file[1].sync
     ELSE /\ phase' = "refused"
          /\ UNCHANGED << pos, fileFmt, marker >>
  /\ UNCHANGED << file, rerr, left, block, got, told >>
------------------------------------------------------------------------------
\* The next cell is whole and of this kind; anything else (a cut cell, the end
\* of the stream, other bytes) makes the read of this field fail.
Has(i, kind) == pos + i <= Len(file) /\ file[pos + i].kind = kind

\* Mutants: the limit excludes its own value; the marker is not compared;
\* the end of the stream leaves no error behind.
CountBelow(n)       == n >= 0 /\ (MaxBlockRecords > 0 => n < MaxBlockRecords)
AnyMarker(s)        == TRUE
EOFForgotten        == "nil"

\* The checks of readBlock on the count, the size, the marker, the data (its
\* codec must decode it) and an empty block; and what Peek leaves at the end.
CountOK(n)         == n >= 0 /\ (MaxBlockRecords > 0 => n <= MaxBlockRecords)
SizeOK(n)          == n >= 0 /\ (MaxBlockBytes > 0 => n <= MaxBlockBytes)
MarkerOK(s)        == s = marker
DataOK(format)     == format = fileFmt
EmptyOK(n, records) == n = 0 => records = << >>
AtEOF              == "eof"

\* readBlock accepts the block at the reader's position.
BlockOK ==
  /\ Has(1, "count") /\ CountOK(file[pos + 1].n)
  /\ Has(2, "size") /\ SizeOK(file[pos + 2].n)
  /\ Has(3, "data")
  /\ Has(4, "sync") /\ MarkerOK(file[pos + 4].sync)
  /\ DataOK(file[pos + 3].fmt)
  /\ EmptyOK(file[pos + 1].n, file[pos + 3].recs)

HasNextCall ==
  /\ phase = "idle"
  /\ phase' = "hasnext"
  /\ UNCHANGED << file, pos, rerr, left, block, fileFmt, marker, got, told >>

\* One turn of the loop in HasNext: readBlock.
ReadBlock ==
  /\ phase = "hasnext" /\ left <= 0 /\ rerr = "nil"
  /\ \/ /\ pos = Len(file)
        /\ rerr' = AtEOF /\ left' = 0
        /\ UNCHANGED << pos, block >>
     \/ /\ pos < Len(file) /\ BlockOK
        /\ pos' = pos + 4 /\ left' = file[pos + 1].n /\ block' = file[pos + 3].recs
        /\ UNCHANGED rerr
     \/ /\ pos < Len(file) /\ ~BlockOK
        /\ rerr' = "err" /\ left' = 0
        /\ UNCHANGED << pos, block >>
  /\ UNCHANGED << file, phase, fileFmt, marker, got, told >>

HasNextReturn ==
  /\ phase = "hasnext" /\ ~(left <= 0 /\ rerr = "nil")
  /\ phase' = "idle"
  /\ told' = IF rerr = "nil" /\ left > 0 THEN "yes" ELSE "no"
  /\ UNCHANGED << file, pos, rerr, left, block, fileFmt, marker, got >>

\* Mutant: a record that runs out of bytes is taken for decoded.
FirstIfAny(records) == records = << >> \/ records[1] # Bad

\* The last record of a block must use up its bytes.
Exhausted(n, rest) == n = 0 => rest = << >>

\* DecodeDatum finds the bytes of one record and they decode.
FirstDecodes(records) == records # << >> /\ records[1] # Bad

\* Decode.  With an error set, or before HasNext, it returns an error and
\* changes nothing.
Decode ==
  /\ phase = "idle"
  /\ IF rerr = "nil" /\ left > 0
     THEN LET rest == IF block = << >> THEN << >> ELSE Tail(block)
              n    == left - 1
              ok   == FirstDecodes(block) /\ Exhausted(n, rest)
          IN  /\ left' = n
              /\ block' = rest
              /\ rerr' = IF ok THEN "nil" ELSE "err"
              /\ got' = IF ok THEN Append(got, IF block = << >> THEN Bad ELSE block[1]) ELSE got
     ELSE UNCHANGED << rerr, left, block, got >>
  /\ UNCHANGED << file, phase, pos, fileFmt, marker, told >>

DecNext == NewDecoder \/ HasNextCall \/ ReadBlock \/ HasNextReturn \/ Decode
------------------------------------------------------------------------------
\* Error() after HasNext said there is nothing more.
CleanEnd == phase = "idle" /\ told = "no" /\ rerr = "eof"
==============================================================================
