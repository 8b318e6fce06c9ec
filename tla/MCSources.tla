------------------------------ MODULE MCSources ------------------------------
(* The small tests that are compiled, and what the branches of a small race provide. *)
EXTENDS ValueTypes

-----------------------------------------------------------------------------
(* A binding or none, one statement of at most two blocks inside each      *)
(* other, and a use of a binding or of the page, or none.                  *)

Do(k) == [k |-> k]
Reading(k, value) == [k |-> k, value |-> value]
Block(k, body) == [k |-> k, name |-> "", body |-> body]
Let(name, value) == [k |-> "let", name |-> name, value |-> value]
Number == [k |-> "int"]
Name(n) == [k |-> "name", of |-> n]
ListWith(n) == [k |-> "list", of |-> n]
CallOf(value, safe) == [k |-> "call", value |-> value, safe |-> safe]
InServer(statement) == Block("server", <<statement>>)
InBrowser(statement) == Block("browser", <<statement>>)

Before ==
  {<<>>, <<InServer(Let("x", Number))>>, <<InServer(Let("x", CallOf("bytes", TRUE)))>>,
   <<Block("server", <<Let("z", CallOf("bytes", TRUE)), Let("x", ListWith("z"))>>)>>}
After ==
  {<<>>, <<InServer(Reading("expect", Name("x")))>>, <<InServer(Reading("expect", Name("y")))>>,
   <<InBrowser(Do("act"))>>}
Leaves ==
  {InServer(Reading("expect", Name("x"))), InServer(Let("y", Name("x"))), InServer(CallOf("int", FALSE)),
   InBrowser(Do("act")), InBrowser(Do("wait")), InBrowser(Reading("expect", Name("x"))),
   InServer(Reading("provide", Name("x"))), Block("server", <<Let("y", Number), Reading("provide", Name("y"))>>)}
Followed ==
  {Block("server", <<Block(k, <<Reading("provide", Number)>>), CallOf("int", TRUE)>>) : k \in {"timeout", "retry"}}
Wrapped == Leaves \cup Followed \cup {Block(k, <<l>>) : k \in {"timeout", "retry"}, l \in Leaves}
Split ==
  {[Block(k[1], <<l, w>>) EXCEPT !.name = k[2]] :
     k \in {<<"parallel", "">>, <<"race", "">>, <<"race", "y">>}, l \in Leaves, w \in Wrapped}
Middle ==
  Wrapped \cup Split \cup {Block(k, <<w>>) : k \in {"timeout", "retry"}, w \in Wrapped}
  \cup {Block("browser", <<Do("wait"), l>>) : l \in {Do("act"), Reading("expect", Name("x"))}}
ShallowTests == {b \o <<m>> \o a : b \in Before, m \in Middle, a \in After}

\* A nesting adds two to the path: the longest paths are on both sides of a limit of 12.
RECURSIVE Nest(_, _, _)
Nest(k, depth, statement) == IF depth = 0 THEN statement ELSE Block(k, <<Nest(k, depth - 1, statement)>>)

DeepLeaves == {Reading("expect", Number), InServer(Reading("expect", Number)), InBrowser(Do("wait"))}
DeepTests ==
  {<<Nest(k, depth, l)>> : k \in {"timeout", "retry", "parallel"}, depth \in 4..6, l \in DeepLeaves}

\* No branch, and one more than may be.
WideTests ==
  {<<Block(k, [i \in 1..n |-> InServer(Reading("expect", Number))])>> : k \in {"parallel", "race"}, n \in {0, 3}}

SmallTests == ShallowTests \cup DeepTests \cup WideTests

-----------------------------------------------------------------------------
(* Races                                                                   *)

\* No record with an optional field: see MCRaceResult.
RaceTypes ==
  {Plain(k) : k \in {"Null", "Int", "Float", "Json", "Bytes"}}
  \cup {Of("Option", Plain("Int")), Of("List", Plain("Int")), Of("List", Plain("Null")),
        Field(Of("Option", Plain("Float")), FALSE)}
Scalars == {Scalar(k) : k \in {"null", "int", "float", "bytes"}}
OptionalTypes ==
  {Plain("Int"), NoFields} \cup {Field(t, o) : t \in {Plain("Int"), Plain("Float")}, o \in BOOLEAN}

RaceValues ==
  Scalars \cup {ListOf(x) : x \in Scalars} \cup {[v |-> "list", of |-> {}], RecordOf({})} \cup {RecordOf({x}) : x \in Scalars}

=============================================================================
