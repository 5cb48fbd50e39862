------------------------------- MODULE MCBlocks -------------------------------
(***************************************************************************)
(* Collections of up to four items of up to two strings; other writers'    *)
(* framings of up to two blocks of up to two items, each with or without   *)
(* its size; and every stream of up to four numbers.                       *)
(***************************************************************************)
EXTENDS Blocks

MCMinLong == -MaxLong - 1

Strings == {<< >>, << 5 >>}
Items(w) == [1 .. w -> Strings]

MCInputs == UNION {UNION {[1 .. n -> Items(w)] : n \in 0 .. 4} : w \in {0, 1, 2}}

MCFramings(w) ==
  LET bs == [items : UNION {[1 .. n -> Items(w)] : n \in 1 .. 2}, sized : BOOLEAN]
  IN  UNION {[1 .. n -> bs] : n \in 0 .. 2}

MCStreams == UNION {[1 .. n -> {MinLong, -2, -1, 0, 1, 2, MaxLong}] : n \in 0 .. 4}

MCRest == << 1 >>
==============================================================================
