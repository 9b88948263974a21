------------------------------ MODULE TypeAliases ------------------------------
(***************************************************************************)
(* tools/oxlint/anti-slop: how shared/type-alias-resolution.ts resolves    *)
(* the name of a type, the types that the rule no-unknown-returns finds    *)
(* through it, and what the names mean by the scopes of TypeScript.        *)
(*                                                                         *)
(* A block is [declares, blocks], the program is the outermost one, and a  *)
(* scope is the path of a block in it. A type is a keyword, a union of     *)
(* members or a reference, which knows the scope and the type parameters   *)
(* (binders) around it, as a node knows them by its parents. What may be   *)
(* absent is a set of one or none.                                         *)
(***************************************************************************)
EXTENDS Naturals, Sequences, SequencesExt, FiniteSetsExt

Keyword(name) == [form |-> "keyword", name |-> name]
UnionOf(members) == [form |-> "union", members |-> members]
Reference(name, arguments, scope, binders) ==
  [form |-> "reference", name |-> name, arguments |-> arguments,
   scope |-> scope, binders |-> binders]
TheOne(S) == CHOOSE x \in S : TRUE

\* Every declaration of a type; one of a value alone is none.
RECURSIVE CollectTypeBindings(_, _)
CollectTypeBindings(block, scope) ==
  {[scope |-> scope, nth |-> n, declared |-> block.declares[n]] :
     n \in {m \in DOMAIN block.declares : block.declares[m].kind # "value"}}
  \cup UNION {CollectTypeBindings(block.blocks[n], Append(scope, n)) : n \in DOMAIN block.blocks}

\* How far out the scope of a binding is.
AncestorDistance(binding, scope) == Len(scope) - Len(binding.scope)

NearestTypeBindings(bindings, name, scope) ==
  LET candidates == {b \in bindings : b.declared.name = name /\ IsPrefix(b.scope, scope)}
  IN  {b \in candidates : \A c \in candidates :
         AncestorDistance(b, scope) <= AncestorDistance(c, scope)}

VisibleTypeAlias(bindings, reference) ==
  LET nearest == NearestTypeBindings(bindings, reference.name, reference.scope)
  IN  {b \in nearest : /\ reference.name \notin reference.binders
                       /\ Cardinality(nearest) = 1 /\ b.declared.kind = "alias"}

\* Every parameter has an argument or a default.
Applies(params, arguments) ==
  \A n \in DOMAIN params : n <= Len(arguments) \/ params[n].default # {}

\* An argument keeps the substitutions of the place where it is written, a default
\* those of the parameters before it.
AliasSubstitutions(params, arguments, base) ==
  FoldLeftDomain(LAMBDA next, n :
      (params[n].name :> IF n <= Len(arguments)
                         THEN [type |-> arguments[n], substitutions |-> base]
                         ELSE [type |-> TheOne(params[n].default), substitutions |-> next]) @@ next,
    base, params)

\* Where the rule looks on: in the members of a union, in the value of a promise.
Inner(resolved) ==
  IF resolved.form = "union" THEN resolved.members
  ELSE IF resolved.form = "reference" /\ resolved.name = "Promise" /\ resolved.arguments # <<>>
  THEN {resolved.arguments[1]} ELSE {}

\* An alias is not resolved again on the way from it.
RECURSIVE Evaluate(_, _, _, _)
Evaluate(bindings, current, substitutions, resolving) ==
  LET refers == current.form = "reference"
      substitution == substitutions[current.name]
      alias == VisibleTypeAlias(bindings, current) \ resolving
      declared == TheOne(alias).declared
  IN  IF refers /\ current.name \in DOMAIN substitutions /\ current.arguments = <<>>
      THEN Evaluate(bindings, substitution.type, substitution.substitutions, resolving)
      ELSE IF refers /\ alias # {} /\ Applies(declared.params, current.arguments)
      THEN Evaluate(bindings, declared.body,
                    AliasSubstitutions(declared.params, current.arguments, substitutions),
                    resolving \cup alias)
      ELSE \/ current = Keyword("unknown")
           \/ \E child \in Inner(current) : Evaluate(bindings, child, substitutions, resolving)

ResolvesToUnknown(program, type) ==
  Evaluate(CollectTypeBindings(program, <<>>), type, <<>>, {})

-----------------------------------------------------------------------------
\* By definition, a name means what the innermost block around it that declares it says.
BlockAt(program, scope) == FoldLeft(LAMBDA block, n : block.blocks[n], program, scope)

RECURSIVE AliasSeen(_, _, _)
AliasSeen(program, name, scope) ==
  LET declares == BlockAt(program, scope).declares
      here == {n \in DOMAIN declares : declares[n].name = name /\ declares[n].kind # "value"}
  IN  IF here = {} /\ scope # <<>> THEN AliasSeen(program, name, Front(scope))
      ELSE {declares[n] : n \in {m \in here : Cardinality(here) = 1 /\ declares[m].kind = "alias"}}

\* A parameter stands for its argument in the body of its own alias and nowhere else, and
\* unknown is found behind at most `depth` aliases.
RECURSIVE StandsForUnknown(_, _, _, _)
StandsForUnknown(program, type, given, depth) ==
  LET alias == AliasSeen(program, type.name, type.scope)
      params == TheOne(alias).params
      own[n \in 0..Len(params)] ==
        IF n = 0 THEN <<>>
        ELSE (params[n].name :>
                IF n <= Len(type.arguments) THEN [type |-> type.arguments[n], given |-> given]
                ELSE [type |-> TheOne(params[n].default), given |-> own[n - 1]]) @@ own[n - 1]
  IN  IF type.form = "reference" /\ type.name \in type.binders
      THEN /\ type.name \in DOMAIN given
           /\ StandsForUnknown(program, given[type.name].type, given[type.name].given, depth)
      ELSE IF type.form = "reference" /\ alias # {} /\ Applies(params, type.arguments)
      THEN depth > 0 /\ StandsForUnknown(program, TheOne(alias).body, own[Len(params)], depth - 1)
      ELSE \/ type = Keyword("unknown")
           \/ \E child \in Inner(type) : StandsForUnknown(program, child, given, depth)
=============================================================================
