------------------------------- MODULE OcfFile -------------------------------
(***************************************************************************)
(* ocf.Encoder and ocf.Decoder on the same files: a reader opens one of    *)
(* the encoder's outputs at any moment, also while the file grows, after a *)
(* failed write, a crash or an append.  A Write of the encoder is seen     *)
(* whole, or as far as it landed when it failed.  Or it opens a file that  *)
(* comes from elsewhere, whole or damaged, and no encoder is at work.      *)
(***************************************************************************)
EXTENDS OcfEncoder

CONSTANTS
  Bad,              \* the decoder's undecodable record; the encoder writes none
  MaxBlockRecords, MaxBlockBytes,  \* of OcfDecoder
  ForeignFiles      \* files from elsewhere

ASSUME DecoderLimits == MaxBlockRecords \in Nat /\ MaxBlockBytes \in Nat
ASSUME BadAssumption == Bad \notin Records

\* A file from elsewhere is a sequence of cells: its counts and sizes are
\* whatever number stands there, its data any records, its markers any bytes.
ASSUME ForeignAssumption ==
  \A cells \in ForeignFiles :
    /\ cells \in Seq({cells[i] : i \in DOMAIN cells})
    /\ \A i \in DOMAIN cells :
         /\ cells[i].kind \in {"count", "size"} => cells[i].n \in Int
         /\ cells[i].kind = "data" => cells[i].recs \in Seq(Nat \cup {Bad})
         /\ cells[i].kind = "sync" => cells[i] = SyncCell(cells[i].sync)

VARIABLES
  target,  \* the output the reader opens
  foreign, \* the file from elsewhere it opens instead, << >> if none
  phase, pos, rerr, left, block, fileFmt, marker, got, told,  \* of OcfDecoder
  promised \* history: the records of a complete output when it was opened

readerVars == << phase, pos, rerr, left, block, fileFmt, marker, got, told >>
fileVars   == << vars, target, foreign, readerVars, promised >>

Ours == foreign = << >>

Reader == INSTANCE OcfDecoder WITH file <- IF Ours THEN files[target] ELSE foreign

\* Every call on the output returned nil and the last one closed it.
Complete(o) == ~lossy[o] /\ files[o] # << >> /\ (o < cur \/ (up /\ closed))

FileInit ==
  /\ Init /\ Reader!DecInit /\ promised = << >>
  /\ \/ foreign = << >> /\ target \in Outputs
     \/ foreign \in ForeignFiles /\ target = 1

Open ==
  /\ UNCHANGED << vars, target, foreign >>
  /\ Reader!NewDecoder
  /\ promised' = IF Ours /\ Complete(target) THEN taken[target] ELSE << >>

\* A step of the reader once it is open.
Reading(step) == UNCHANGED << vars, target, foreign, promised >> /\ step
Read == Reading(Reader!HasNextCall \/ Reader!ReadBlock \/ Reader!HasNextReturn \/ Reader!Decode)

Work == Ours /\ Next /\ UNCHANGED << target, foreign, readerVars, promised >>

FileNext == Open \/ Read \/ Work

FileSpec == FileInit /\ [][FileNext]_fileVars

\* A call of the reader runs to its end, and its caller keeps calling HasNext
\* and Decode.
Fairness ==
  /\ WF_fileVars(Open)
  /\ WF_fileVars(Reading(Reader!ReadBlock)) /\ WF_fileVars(Reading(Reader!HasNextReturn))
  /\ SF_fileVars(Reading(Reader!HasNextCall)) /\ SF_fileVars(Reading(Reader!Decode))

FairSpec == FileSpec /\ Fairness
------------------------------------------------------------------------------
\* The decoder hands out records of whole blocks only, in order, none twice
\* and none skipped, wherever the file is cut or damaged; from an output of the
\* encoder these are records accepted for it, whatever happens to it meanwhile.
ReaderGetsAccepted ==
  LET all == IF Ours THEN landed[target] ELSE RecordsOf(foreign)
  IN  Len(got) <= Len(all) /\ got = SubSeq(all, 1, Len(got))

\* A reader whose loop ends without an error got everything: each record of an
\* output that was complete when it was opened, or of a file from elsewhere,
\* which was a whole container. A torn or miscounted block is never taken for
\* the end of the file.
CleanEndMeansAll ==
  Reader!CleanEnd =>
    /\ Len(promised) <= Len(got) /\ promised = SubSeq(got, 1, Len(promised))
    /\ ~Ours => IsContainer(foreign) /\ got = RecordsOf(foreign)

\* The reader meets an error only on an output a write failed on, and refuses
\* to open only such an output or an empty one; and only on a file from
\* elsewhere that is damaged or over a limit.
HealthyReadsClean ==
  /\ Ours => (~lossy[target] => rerr # "err") /\ (promised # << >> => phase # "refused")
  /\ LET all == RecordsOf(foreign)
     IN  (/\ ~Ours /\ IsContainer(foreign)
          /\ \A i \in 1 .. Len(all) : all[i] # Bad
          /\ \A i \in 1 .. Len(foreign) :
               /\ foreign[i].kind = "count" => foreign[i].n <= MaxBlockRecords
               /\ foreign[i].kind = "size" => foreign[i].n <= MaxBlockBytes)
         => rerr # "err" /\ phase # "refused"

\* Every file is read to an end, also one that is damaged, has empty blocks or
\* grows: for d.HasNext() { d.Decode() } leaves the loop.
ReadLoopEnds == <>[](phase = "refused" \/ rerr # "nil")
==============================================================================
