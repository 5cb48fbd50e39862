------------------------------ MODULE OcfFormat ------------------------------
(***************************************************************************)
(* The byte layout of an Avro object container file (OCF), as ocf/ocf.go   *)
(* writes and reads it, at the grain of its fields: a file is a sequence   *)
(* of cells.                                                               *)
(*                                                                         *)
(*    header  (count  size  data  sync)*                                   *)
(*                                                                         *)
(* The header stands for magic, metadata (schema and codec name: one       *)
(* "format") and the 16-byte sync marker.  A cell that was cut by a short  *)
(* write or a truncation is a torn cell: some, never all, of its bytes.    *)
(***************************************************************************)
EXTENDS Integers, Sequences, FiniteSets

HeaderCell(format, marker) == [kind |-> "header", fmt |-> format, sync |-> marker]
CountCell(n)               == [kind |-> "count", n |-> n]
SizeCell(n)                == [kind |-> "size", n |-> n]
DataCell(format, records)  == [kind |-> "data", fmt |-> format, recs |-> records]
SyncCell(marker)           == [kind |-> "sync", sync |-> marker]
TornCell                   == [kind |-> "torn"]

\* The cells writerBlock puts in the writer's buffer.  The records are encoded
\* with the encoder's schema and compressed with its codec (the format).
Block(format, n, records, size, marker) ==
  << CountCell(n), SizeCell(size), DataCell(format, records), SyncCell(marker) >>

\* What may have reached the output when a single Write of these cells
\* returned an error or fell short: any prefix, possibly ending inside a cell,
\* possibly everything.
Landings(cells) ==
  { SubSeq(cells, 1, k) : k \in 0 .. Len(cells) }
    \cup { Append(SubSeq(cells, 1, k - 1), TornCell) : k \in 1 .. Len(cells) }

\* The header can be read: readHeader finds the magic, the schema and the codec.
ReadsHeader(cells) == cells # << >> /\ cells[1].kind = "header"

\* A whole block starts at cell i and ends with this marker.
BlockAt(cells, i, marker) ==
  /\ i + 3 <= Len(cells)
  /\ cells[i].kind = "count" /\ cells[i].n >= 0
  /\ cells[i + 1].kind = "size" /\ cells[i + 1].n >= 0
  /\ cells[i + 2].kind = "data"
  /\ cells[i + 3] = SyncCell(marker)

\* Mutant of SkipToEnd: a torn sync marker ends the file cleanly.
SkipToEndTornMarker(cells, marker) ==
  LET whole(i) == BlockAt([cells EXCEPT ![Len(cells)] = SyncCell(marker)], i, marker)
      skip[i \in 2 .. Len(cells) + 1] == i = Len(cells) + 1 \/ (whole(i) /\ skip[i + 4])
  IN  skip[2]

\* skipToEnd: from the end of the header, block by block, to a clean EOF.
\* FALSE is any of its error returns.
SkipToEnd(cells, marker) ==
  LET skip[i \in 2 .. Len(cells) + 1] ==
        \/ i = Len(cells) + 1
        \/ BlockAt(cells, i, marker) /\ skip[i + 4]
  IN  skip[2]

\* A file every reader accepts to its end, whose blocks hold what they declare.
IsContainer(cells) ==
  /\ ReadsHeader(cells)
  /\ Len(cells) % 4 = 1
  /\ \A i \in 2 .. Len(cells) : i % 4 = 2 =>
        /\ BlockAt(cells, i, cells[1].sync)
        /\ cells[i].n = Len(cells[i + 2].recs)
        /\ cells[i + 2].fmt = cells[1].fmt

\* The records of the whole blocks of a file, in order.
RecordsOf(cells) ==
  LET upTo[i \in 0 .. Len(cells)] ==
        IF i = 0 THEN << >>
        ELSE IF i % 4 = 1 /\ i > 1 /\ cells[i].kind = "sync" /\ cells[i - 1].kind = "data"
             THEN upTo[i - 1] \o cells[i - 1].recs
             ELSE upTo[i - 1]
  IN  upTo[Len(cells)]
==============================================================================
