-------------------------- MODULE MCRegistryClient --------------------------
(***************************************************************************)
(* The instance of RegistryClient TLC checks: two goroutines; a schema with  *)
(* two versions of the same name, of which different GUIDs use different     *)
(* ones; GUIDs whose references are invalid in every way the code tests.     *)
(***************************************************************************)
EXTENDS RegistryClient

Doc(name, uses, rev) == [name |-> name, uses |-> uses, rev |-> rev]
Leaf(name, rev) == [doc |-> Doc(name, {}, rev), binds |-> {}]
Ref(name, version) == [name |-> name, subject |-> "s", version |-> version, wellFormed |-> TRUE]

Parent == Doc("Parent", {"Child"}, 1)

MCEntries0  == <<Leaf("Child", 1), Leaf("Child", 2), Leaf("bytes", 1)>>
MCVersions0 == [s |-> <<1, 2>>, t |-> <<3>>]

Text(doc, refs) == [avro |-> TRUE, doc |-> doc, refs |-> refs]

MCGuids ==
  [first      |-> Text(Parent, <<Ref("Child", 1)>>),
   second     |-> Text(Parent, <<Ref("Child", 2)>>),
   twice      |-> Text(Parent, <<Ref("Child", 1), Ref("Child", 2)>>),
   mismatch   |-> Text(Doc("Parent", {"Other"}, 1), <<Ref("Other", 1)>>),
   missing    |-> Text(Parent, << >>),
   malformed  |-> Text(Parent, <<[Ref("Child", 1) EXCEPT !.wellFormed = FALSE]>>),
   many       |-> Text(Parent, <<Ref("Child", 1), Ref("A", 1), Ref("B", 1)>>),
   json       |-> [Text(Parent, << >>) EXCEPT !.avro = FALSE],
   raw        |-> Text(Doc("bytes", {}, 1), << >>)]

Spelt(g, upper) == [guid |-> g, upper |-> upper, wellFormed |-> TRUE]

Header(key, g, ok) == [key |-> key, wellFormed |-> ok, guid |-> Spelt(g, FALSE)]

Message(headers, data) ==
  [call |-> "DecodeHeaders", message |-> [headers |-> headers, key |-> "value", data |-> data]]

Prefix(id) == <<0, 0, 0, 0, id>>

MCCalls ==
  { [call |-> "GetSchema", id |-> i] : i \in {1, 9} } \cup
  { [call |-> "GetSchemaByGUID", spelling |-> Spelt(g, FALSE)] : g \in DOMAIN MCGuids } \cup
  { [call |-> "GetSchemaByGUID", spelling |-> s] :
      s \in {Spelt("first", TRUE), [Spelt("first", FALSE) EXCEPT !.wellFormed = FALSE]} } \cup
  { Message(<< >>, <<0, 0, 0>>), Message(<< >>, <<1, 0, 0, 0, 1>>),
    Message(<< >>, Prefix(1) \o <<7>>), Message(<< >>, Prefix(3) \o <<7, 7, 7>>),
    Message(<<Header("key", "first", TRUE)>>, Prefix(3)),
    Message(<<Header("value", "raw", TRUE), Header("value", "second", TRUE)>>, Prefix(1)),
    Message(<<Header("value", "second", TRUE), Header("value", "raw", TRUE)>>, <<7, 7>>),
    Message(<<Header("value", "second", FALSE)>>, Prefix(1)) } \cup
  { [call |-> "GetSchemaByVersion", subject |-> "s", version |-> 2],
    [call |-> "GetSchemaInfo", subject |-> "s", version |-> 0],
    [call |-> "DeleteSubject", subject |-> "s"],
    [call |-> "CreateSchema", subject |-> "s", doc |-> Doc("Child", {}, 3), refs |-> << >>] } \cup
  { [call |-> k, subject |-> "t", doc |-> Parent, refs |-> <<Ref("Child", 2)>>] :
      k \in {"CreateSchema", "IsRegistered"} }
=============================================================================
