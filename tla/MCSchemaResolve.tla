---------------------------- MODULE MCSchemaResolve ----------------------------
(***************************************************************************)
(* Small schema documents for SchemaResolve.  Names of the writer's        *)
(* schemas end in W, names of the reader's in R.                           *)
(***************************************************************************)
EXTENDS SchemaResolve

(***************************************************************************)
(* A document is a name, a type and what the type needs: the items of an   *)
(* array or a map, the branches of a union, the symbols and the default of *)
(* an enum, the full name of a named type, the aliases and the fields of a *)
(* record.  A field is a name, a type, and its default and its aliases if  *)
(* it has any.                                                             *)
(***************************************************************************)
FieldNode(f) ==
  [name |-> f[1], type |-> f[2], json |-> IF Len(f) > 2 THEN f[3] ELSE None,
   default |-> Len(f) > 2 /\ f[3].type # "none", aliases |-> IF Len(f) > 3 THEN f[4] ELSE {}]
FixedNode(full, size) ==
  [type |-> "fixed", name |-> full, full |-> full, aliases |-> {}, size |-> size, decimal |-> << >>]
EnumNode(list, def) ==
  [type |-> "enum", name |-> "E", full |-> "E", aliases |-> {}, list |-> list,
   symbols |-> ToSet(list), default |-> def # "", def |-> def]
RecordNode(full, aliases, fields) ==
  [type |-> "record", name |-> full, full |-> full, aliases |-> aliases,
   fields |-> [i \in DOMAIN fields |-> FieldNode(fields[i])]]
NodeOf(d) ==
  CASE d[2] \in {"string", "bytes"} -> [type |-> d[2], decimal |-> << >>]
    [] d[2] \in {"array", "map"}    -> [type |-> d[2], items |-> d[3]]
    [] d[2] = "union"  -> [type |-> "union", types |-> d[3]]
    [] d[2] = "fixed"  -> FixedNode(d[3], d[4])
    [] d[2] = "enum"   -> EnumNode(d[3], d[4])
    [] d[2] = "record" -> RecordNode(d[3], d[4], d[5])
    [] OTHER -> [type |-> d[2]]

Number(i) == Value("number", i)
String(x) == Value("string", x)
Json(x)   == Value("text", x)
Num(i)    == Value("int", i)
In(name, v) == Value("union", << name, v >>)
Rec(f)    == Value("record", f)
Arr(vs)   == Value("array", vs)

Documents == <<
  << "null", "null" >>, << "int", "int" >>, << "long", "long" >>, << "float", "float" >>,
  << "string", "string" >>, << "bytes", "bytes" >>,

  \* Promotion, a renamed field, ignored fields, defaults, reordered enums.
  << "enumW", "enum", << "c", "a", "b" >>, "" >>, << "enumR", "enum", << "a", "b", "x" >>, "x" >>,
  << "intsW", "array", "int" >>,
  << "innerR", "record", "In", {}, << << "u", "nullLong" >>, << "n", "int", Number(3) >> >> >>,
  << "nullLong", "union", << "null", "long" >> >>,
  << "userW", "record", "U", {}, << << "id", "int" >>, << "old", "intsW" >>, << "kind", "enumW" >>,
                                    << "name", "string", Json("anon") >> >> >>,
  << "userR", "record", "V", {"U"}, << << "inner", "innerR", Value("object", [u |-> Number(5)]) >>,
                                       << "name", "bytes" >>, << "kind", "enumR" >>,
                                       << "key", "long", None, {"id"} >>, << "opt", "nullLong", Number(7) >> >> >>,

  \* A linked list, its next field a union in another order, and a default.
  << "listW", "record", "L", {}, << << "v", "int" >>, << "next", "nullListW" >> >> >>,
  << "nullListW", "union", << "null", "listW" >> >>,
  << "listR", "record", "M", {"L"}, << << "value", "long", None, {"v"} >>, << "next", "nullListR" >>,
                                       << "extra", "string", Json("e") >> >> >>,
  << "nullListR", "union", << "listR", "null" >> >>,

  \* Unions against unions, and against what is none.
  << "intStringW", "union", << "int", "string" >> >>, << "stringLongR", "union", << "null", "bytes", "long" >> >>,
  << "mapW", "map", "intStringW" >>, << "mapR", "map", "stringLongR" >>,
  << "intLongW", "union", << "int", "long" >> >>, << "nodeOrMapR", "union", << "enumR", "mapR" >> >>,

  \* Every kind of value to be skipped; the plan of k has a field by default.
  << "fix2", "fixed", "F", 2 >>,
  << "kW", "record", "K", {}, << << "x", "enumW" >>, << "f", "fix2" >> >> >>,
  << "kR", "record", "K", {}, << << "d", "string", Json("d") >>, << "f", "fix2" >>, << "x", "enumR" >> >> >>,
  << "ksW", "array", "kW" >>, << "ksR", "array", "kR" >>,
  << "bagW", "record", "B", {}, << << "m", "mapW" >>, << "k", "kW" >>, << "ks", "ksW" >>, << "last", "int" >> >> >>,
  << "bagR", "record", "B", {}, << << "last", "float" >>, << "ks", "ksR" >>, << "m", "mapR" >>, << "k", "kR" >> >> >>,

  \* Two readers that differ only behind the second use of X, which a cache
  \* fingerprint names and does not expand.
  << "x1W", "record", "X1", {}, << << "f", "int" >> >> >>, << "x2W", "record", "X2", {}, << << "f", "string" >> >> >>,
  << "twoW", "record", "W", {}, << << "a", "x1W" >>, << "b", "x2W" >> >> >>,
  << "longString", "union", << "long", "string" >> >>, << "longBytes", "union", << "long", "bytes" >> >>,
  << "xStringR", "record", "X", {"X1", "X2"}, << << "f", "longString" >> >> >>,
  << "xBytesR", "record", "X", {"X1", "X2"}, << << "f", "longBytes" >> >> >>,
  << "twoStringR", "record", "R", {"W"}, << << "a", "xStringR" >>, << "b", "xStringR" >> >> >>,
  << "twoBytesR", "record", "R", {"W"}, << << "a", "xBytesR" >>, << "b", "xBytesR" >> >> >>,

  \* A field whose default is a record with a null in a union (a default that
  \* schema_test.go:755 has accepted).
  << "test2R", "record", "T2", {}, << << "b", "int" >>, << "c", "nullLong" >> >> >>,
  << "testW", "record", "T", {}, << << "id", "int" >> >> >>,
  << "testR", "record", "T", {}, << << "id", "int" >>,
       << "a", "test2R", Value("object", [b |-> Number(1), c |-> Value("null", "null")]) >> >> >> >>

GraphOf(docs) ==
  [s \in { docs[i][1] : i \in DOMAIN docs } |-> NodeOf(docs[CHOOSE i \in DOMAIN docs : docs[i][1] = s])]

Graphs == GraphOf(Documents)
Nodes  == DOMAIN Graphs

Asked ==
  { << "userR", "userW" >>, << "userW", "userW" >>, << "listR", "listW" >>, << "nullListR", "listW" >>,
    << "mapR", "mapW" >>, << "long", "intLongW" >>, << "nodeOrMapR", "mapW" >>, << "nodeOrMapR", "enumW" >>,
    << "enumR", "enumW" >>, << "enumW", "enumR" >>, << "bagR", "bagW" >>, << "longBytes", "intStringW" >>,
    << "twoStringR", "twoW" >>, << "twoBytesR", "twoW" >>, << "userR", "listW" >> }

AskedDefaults == { << "testW", "testW" >>, << "testR", "testW" >> }

User(f) == Rec("id" :> Num(4) @@ "old" :> Arr(<< Num(1), Num(0) >>) @@ f)
K(x)    == Rec("x" :> String(x) @@ "f" :> Value("fixed", "zz"))
Cell(i, next) == Rec("v" :> Num(i) @@ "next" :> next)
Entries == Value("map", "p" :> Num(1) @@ "q" :> In("string", String("s")))

MCData ==
  [w \in Nodes |->
     CASE w = "userW" -> { User("kind" :> String("a")), User("kind" :> String("c") @@ "name" :> String("n")),
                           Rec("kind" :> String("a")), User("kind" :> String("x")) }
       [] w = "listW" -> { Cell(1, Null), Cell(1, In("L", Cell(0, Null))) }
       [] w = "mapW"  -> { Entries, Value("map", << >>) }
       [] w = "intLongW" -> { Num(2), In("long", Value("long", 3)), Value("long", 1) }
       [] w = "enumW" -> { String("a"), String("c") }
       [] w = "intStringW" -> { Num(6), String("t"), In("bytes", Value("bytes", "t")) }
       [] w = "bagW" -> { Rec("m" :> Entries @@ "k" :> K("a") @@ "ks" :> Arr(<< K("b"), K("c") >>) @@ "last" :> Num(9)),
                          Rec("m" :> Value("map", << >>) @@ "k" :> K("c") @@ "ks" :> Arr(<< >>) @@ "last" :> Num(0)) }
       [] w = "twoW" -> { Rec("a" :> Rec("f" :> Num(1)) @@ "b" :> Rec("f" :> String("y"))) }
       [] w = "testW" -> { Rec("id" :> Num(i)) : i \in 0 .. 2 }
       [] OTHER -> { String("a") }]

MCStructs ==
  [r \in Nodes |->
     CASE r = "userR" -> { {"name", "id"}, {"key", "id", "inner"}, {"kind", "opt"} }
       [] r = "userW" -> { {"kind"} }
       [] r = "listR" -> { {"extra", "v"}, {"next"} }
       [] r = "bagR"  -> { {"last"}, {"k", "last"}, {"ks"} }
       [] r \in {"twoStringR", "twoBytesR"} -> { {"b"} }
       [] OTHER -> {}]

Compat == INSTANCE SchemaCompat WITH
       Callers <- {}, Asked <- Requests, NoPair <- "none", Rounds <- 8, cache <- << >>, goal <- << >>,
       stack <- << >>, answer <- << >>, query <- << >>, assumed <- {}
ReadablePairs == Compat!ReadablePairs

\* Eight rounds are enough for a fixed point.
ASSUME RoundsAreEnough ==
  ReadablePairs = { p \in ReadablePairs : Compat!Readable(p[1], p[2], ReadablePairs) }
================================================================================
