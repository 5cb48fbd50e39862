---------------------------- MODULE MCSchemaParse ----------------------------
(***************************************************************************)
(* Two names; a text that defines one, one that defines and uses both, a   *)
(* recursive one with an alias, one that only uses, one that defines a     *)
(* name twice.                                                             *)
(***************************************************************************)
EXTENDS SchemaParse, TLC

CONSTANTS a, b

Def(ns) == [does |-> "define", names |-> ns]
Ref(n)  == [does |-> "use", names |-> {n}]

Symmetry == Permutations(Parsers)

MCNames == {a, b}
MCTexts == { << Def({a}) >>,
             << Def({b}), Ref(a) >>,
             << Def({b}), Def({a}), Ref(b), Ref(a) >>,
             << Def({a, b}), Ref(b) >>,
             << Ref(a), Def({a}) >>,
             << Def({a}), Def({a, b}) >> }
==============================================================================
