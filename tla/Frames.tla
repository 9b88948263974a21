-------------------------------- MODULE Frames --------------------------------
(***************************************************************************)
(* core/kernel/headstart.py: what joins() refuses and what compare()       *)
(* lists. For joins() a frame is the sequence of its keys, for compare()   *)
(* the value of each of its keys. A missing value is a key like any other. *)
(***************************************************************************)
EXTENDS Naturals, Sequences, SequencesExt, FiniteSets

CONSTANT Missing  \* NaN, None or NA in a column

\* a.merge(b, on=key, how=how) by row numbers; 0 is no row.
At(b, key) == {j \in DOMAIN b : b[j] = key}
Inner(a, b) == {p \in (DOMAIN a) \X (DOMAIN b) : a[p[1]] = b[p[2]]}
Merge(a, b, how) ==
  Inner(a, b) \cup (IF how = "left" THEN {<<i, 0>> : i \in {n \in DOMAIN a : At(b, a[n]) = {}}} ELSE {})

\* Index.duplicated() marks each occurrence but the first.
Duplicated(b) == {j \in DOMAIN b : \E n \in 1..j - 1 : b[n] = b[j]}

\* Mutant: a key counts as repeated when it repeats in a.
Repeated_InA(a, b) == {a[i] : i \in {n \in Duplicated(a) : a[n] \in Range(b)}}

Repeated(a, b) == {b[j] : j \in {n \in Duplicated(b) : b[n] \in Range(a)}}

\* The call without validate=, for a left or an inner join.
Refuses(a, b) == Repeated(a, b) # {}

-----------------------------------------------------------------------------
\* left.ne(right).fillna(True): a comparison with a missing value is true or missing.
Ne(left, right) == left = Missing \/ right = Missing \/ left # right

Differs(left, right) == Ne(left, right) /\ ~(left = Missing /\ right = Missing)

\* The state of each listed key of the outer merge, for frames with one other column.
State(a, b, key) ==
  IF key \notin DOMAIN b THEN "only a" ELSE IF key \notin DOMAIN a THEN "only b" ELSE "changed"
Compare(a, b) ==
  {[key |-> key, state |-> State(a, b, key)] :
     key \in {n \in DOMAIN a \cup DOMAIN b : State(a, b, n) = "changed" => Differs(a[n], b[n])}}

-----------------------------------------------------------------------------
\* An accepted join has no more rows than a; a left join is refused only if it had more.
JoinsKeepRows(a, b) ==
  /\ \A how \in {"left", "inner"} : ~Refuses(a, b) => Cardinality(Merge(a, b, how)) <= Len(a)
  /\ Refuses(a, b) => Cardinality(Merge(a, b, "left")) > Len(a)

\* compare() lists the keys by which the two frames are not the same mapping.
CompareFinds(a, b) ==
  Compare(a, b) =
    {[key |-> n, state |-> "only a"] : n \in DOMAIN a \ DOMAIN b} \cup
    {[key |-> n, state |-> "only b"] : n \in DOMAIN b \ DOMAIN a} \cup
    {[key |-> n, state |-> "changed"] : n \in {m \in DOMAIN a \cap DOMAIN b : a[m] # b[m]}}
=============================================================================
