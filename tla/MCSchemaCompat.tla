---------------------------- MODULE MCSchemaCompat ----------------------------
(***************************************************************************)
(* Small schema graphs for SchemaCompat.  Names of the writer's schemas    *)
(* end in W, names of the reader's in R; the rest serve both.              *)
(***************************************************************************)
EXTENDS SchemaCompat, TLC

Plain(type)  == [type |-> type]
Bytes(dec)   == [type |-> "bytes", decimal |-> dec]
Fixed(name, full, size, dec) ==
  [type |-> "fixed", name |-> name, full |-> full, aliases |-> {}, size |-> size, decimal |-> dec]
Enum(symbols, default) ==
  [type |-> "enum", name |-> "E", full |-> "E", aliases |-> {}, symbols |-> symbols, default |-> default]
Array(items) == [type |-> "array", items |-> items]
Union(types) == [type |-> "union", types |-> types]
Field(name, aliases, type, default) ==
  [name |-> name, aliases |-> aliases, type |-> type, default |-> default]
Record(name, aliases, fields) ==
  [type |-> "record", name |-> name, full |-> name, aliases |-> aliases, fields |-> fields]

Leaves ==
  "null" :> Plain("null") @@ "int" :> Plain("int") @@ "long" :> Plain("long")
    @@ "string" :> Plain("string")

\* Two mutually recursive records.  The reader's A wants a field x that the
\* writer's A lacks, after the field that leads to B and back to A.
Mutual ==
  Leaves
    @@ "AW" :> Record("A", {}, << Field("next", {}, "nullBW", FALSE) >>)
    @@ "BW" :> Record("B", {}, << Field("a", {}, "AW", FALSE) >>)
    @@ "nullBW" :> Union(<< "null", "BW" >>)
    @@ "AR" :> Record("A", {}, << Field("next", {}, "nullBR", FALSE), Field("x", {}, "int", FALSE) >>)
    @@ "BR" :> Record("B", {}, << Field("a", {}, "AR", FALSE) >>)
    @@ "nullBR" :> Union(<< "null", "BR" >>)

MutualAsked == { << "AR", "AW" >>, << "BR", "BW" >> }

\* A linked list that reads, with promotion, a default and a renamed field.
Lists ==
  Leaves
    @@ "listW" :> Record("L", {}, << Field("v", {}, "int", FALSE), Field("next", {}, "nullListW", FALSE) >>)
    @@ "nullListW" :> Union(<< "null", "listW" >>)
    @@ "listR" :> Record("M", {"L"}, << Field("value", {"v"}, "long", FALSE),
                                        Field("next", {}, "nullListR", FALSE),
                                        Field("extra", {}, "string", TRUE) >>)
    @@ "nullListR" :> Union(<< "listR", "null" >>)
    @@ "listsW" :> Array("listW") @@ "listsR" :> Array("listR")

ListsAsked == { << "listR", "listW" >>, << "listsR", "listsW" >>, << "listW", "listR" >> }

Recursive      == Mutual @@ Lists
RecursiveAsked == MutualAsked \cup ListsAsked

\* No recursion: one pair for each rule and each way to break it.
Flat ==
  Leaves
    @@ "dec1" :> Bytes(<< 4, 2 >>) @@ "dec2" :> Fixed("F", "F", 8, << 5, 2 >>)
    @@ "fix8" :> Fixed("F", "ns.F", 8, << >>) @@ "fix9" :> Fixed("F", "F", 9, << >>)
    @@ "enumAB" :> Enum({"a", "b"}, FALSE) @@ "enumA" :> Enum({"a"}, FALSE) @@ "enumAdef" :> Enum({"a"}, TRUE)
    @@ "longOrString" :> Union(<< "long", "string" >>) @@ "intOrNull" :> Union(<< "int", "null" >>)
    @@ "twoW" :> Record("T", {}, << Field("p", {}, "int", FALSE), Field("q", {}, "string", FALSE) >>)
    @@ "oneR" :> Record("T", {}, << Field("p", {"q"}, "int", FALSE) >>)
    @@ "moreR" :> Record("T", {}, << Field("q", {}, "longOrString", FALSE), Field("z", {}, "int", FALSE) >>)
    @@ "swapR" :> Record("T", {}, << Field("p", {}, "longOrString", FALSE), Field("o", {"q"}, "string", FALSE) >>)
    @@ "bothR" :> Record("T", {}, << Field("p", {}, "int", FALSE), Field("o", {"p"}, "int", FALSE) >>)

FlatAsked ==
  { << "dec1", "dec2" >>, << "dec2", "fix8" >>, << "fix8", "fix9" >>, << "enumA", "enumAB" >>,
    << "enumAdef", "enumAB" >>, << "enumAB", "enumA" >>, << "longOrString", "intOrNull" >>,
    << "longOrString", "int" >>, << "long", "intOrNull" >>, << "longOrString", "string" >>,
    << "oneR", "twoW" >>, << "moreR", "twoW" >>, << "swapR", "twoW" >>, << "bothR", "twoW" >> }

\* Callers ask about one family of schemas or the other; about the flat ones,
\* where every order of the questions matters, one caller asks.
Graphs    == Recursive @@ Flat
AllAsked  == RecursiveAsked \cup FlatAsked
Nodes     == DOMAIN Graphs
MutualSchemas == DOMAIN Mutual

VARIABLE family

First == CHOOSE c \in Callers : TRUE
InFamily(c, p) ==
  IF family = "flat" THEN c = First /\ p \in FlatAsked ELSE p \in RecursiveAsked

MCInit == Init /\ family \in {"flat", "recursive"}
MCNext ==
  /\ Next /\ UNCHANGED family
  /\ \A c \in Callers : query'[c] \in {NoPair, query[c]} \/ InFamily(c, query'[c])
MCSpec == MCInit /\ [][MCNext]_<< vars, family >>

\* Any caller asks about any pair of one small family.
OneFamily == Init /\ family = "mutual" /\ [][Next /\ UNCHANGED family]_<< vars, family >>
==============================================================================
