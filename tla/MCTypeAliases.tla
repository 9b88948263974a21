----------------------------- MODULE MCTypeAliases -----------------------------
(***************************************************************************)
(* Programs with an alias A, an alias B with two parameters next to it or  *)
(* in an inner block, and what else has those names.                       *)
(***************************************************************************)
EXTENDS TypeAliases

Unknown == Keyword("unknown")
Text == Keyword("string")
Own(param, binders, scope) == Reference(param, <<>>, scope, binders)

\* The body of an alias: a type, or a union of two, that may name A, B and a promise.
Bodies(names, arguments, binders, scope) ==
  LET plain == {Unknown, Text} \cup {Own(param, binders, scope) : param \in binders}
      parts == plain \cup {Reference(name, given, scope, binders) :
                             name \in names \cup {"Promise"}, given \in {<<>>} \cup {<<a>> : a \in arguments}}
  IN  parts \cup {UnionOf({p, q}) : p \in parts, q \in {Text, Own("T", binders, scope)}}

Alias(name, params, body) == [kind |-> "alias", name |-> name, params |-> params, body |-> body]
Param(name, default) == [name |-> name, default |-> default]
AliasA(body) == Alias("A", <<Param("T", {Unknown})>>, body)
AliasB(body, scope) ==
  Alias("B", <<Param("T", {}), Param("W", {Own("T", {"T", "W"}, scope)})>>, body)
AliasT == Alias("T", <<>>, Unknown)
Other(kind, name) == [kind |-> kind, name |-> name]

Program(outer, inner) == [declares |-> outer, blocks |-> <<[declares |-> inner, blocks |-> <<>>]>>]
Programs(bodiesOfA, BodiesOfB(_)) ==
  UNION {{Program(<<AliasA(a), AliasB(b, <<>>), AliasT>>, inner) : b \in BodiesOfB(<<>>),
            inner \in {<<Other("value", "A")>>, <<Other("interface", "A")>>, <<Other("import", "B")>>}}
         \cup {Program(<<AliasA(a), AliasB(Text, <<>>), Other("interface", "B")>>, <<AliasB(b, <<1>>)>>) :
                 b \in BodiesOfB(<<1>>)} : a \in bodiesOfA}

\* Types outside of the aliases, and the bodies of the aliases, which have a rule as well.
Uses(program) ==
  {Reference(name, given, scope, {}) :
     name \in {"A", "B"}, given \in {<<>>, <<Text>>, <<Unknown>>, <<Unknown, Text>>}, scope \in {<<>>, <<1>>}}
  \cup {program.declares[n].body : n \in {1, 2}}

\* Aliases in a circle and in the arguments of each other, and aliases in a row.
ArgumentsOfA == {Unknown, Own("T", {"T"}, <<>>)}
ArgumentsOfB(scope) == {Own("T", {"T", "W"}, scope)}
Circular ==
  Programs(Bodies({"A", "B"}, ArgumentsOfA \cup {Reference("A", <<Unknown>>, <<>>, {"T"})}, {"T"}, <<>>),
           LAMBDA scope : Bodies({"A", "B"}, ArgumentsOfB(scope), {"T", "W"}, scope))
Straight ==
  Programs(Bodies({"B"}, ArgumentsOfA, {"T"}, <<>>),
           LAMBDA scope : Bodies({}, ArgumentsOfB(scope), {"T", "W"}, scope))

\* The rule reports only types that stand for unknown, however the aliases refer to each
\* other; it misses none when they refer to each other in a row. (In a circle it does: it
\* does not resolve an alias again in its own argument.)
AliasesAgree ==
  /\ \A p \in Circular : \A t \in Uses(p) :
       ResolvesToUnknown(p, t) => StandsForUnknown(p, t, <<>>, 2)
  /\ \A p \in Straight : \A t \in Uses(p) :
       StandsForUnknown(p, t, <<>>, 2) => ResolvesToUnknown(p, t)
=============================================================================
