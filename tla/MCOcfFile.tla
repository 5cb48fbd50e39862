------------------------------ MODULE MCOcfFile ------------------------------
(***************************************************************************)
(* Files from elsewhere for OcfFile: up to two blocks, each whole or with  *)
(* a wrong count, format, marker or record, or the file cut at any cell or *)
(* inside it.                                                              *)
(***************************************************************************)
EXTENDS OcfFile

Recs(b) == { << >>, << b + 1 >>, << b + 1, b + 2 >>, << b + 1, Bad >>, << b + 1, b + 2, b + 3 >> }
Fmts    == {"f1", "f2"}
Marks   == {1, 2}

Blocks(b) == { Block(f, n, r, 2 * Len(r), s) : f \in Fmts, n \in -1 .. 3, r \in Recs(b), s \in Marks }
Good(b)   == { Block("f1", Len(r), r, 2 * Len(r), 1) : r \in Recs(b) }

Opening == << HeaderCell("f1", 1) >>

\* Two blocks, one of them possibly damaged; or good ones, cut somewhere.
Damaged ==
  { Opening \o x \o y : x \in Blocks(0), y \in Good(10) }
    \cup { Opening \o x \o y : x \in Good(0), y \in Blocks(10) }
    \cup UNION { Landings(Opening \o x \o y) : x \in Good(0), y \in Good(10) }

MCForeign == Damaged \ {<< >>}
==============================================================================
