---------------------------- MODULE MCCellRequests ----------------------------
EXTENDS CellRequests, Frames, DataFiles
CONSTANTS k1, v1, MaxRows, MaxBytes
ASSUME BoundsAssumption == MaxRows \in Nat /\ MaxBytes \in Nat

MCKeys == {k1, v1, Missing}
MCColumns == UNION {[S -> {v1, Missing, k1}] : S \in SUBSET {k1, v1, Missing}}

MCLines(S) == UNION {[1..n -> S] : n \in 0..MaxRows}

\* headstart's verbs: joins() never multiplies rows in silence, compare() finds every difference,
\* charge() counts the lines that it cannot read and keeps the zeros of codes, and interroge()
\* reads back the sizes that it prints. The inputs are the same in every state, so they are
\* tried in the first.
VerbsAgree ==
  RequestsInit =>
    /\ \A m, n \in 0..MaxRows : \A a \in [1..m -> MCKeys], b \in [1..n -> MCKeys] : JoinsKeepRows(a, b)
    /\ \A a, b \in MCColumns : CompareFinds(a, b)
    /\ \A lines \in MCLines({"blank", "object", "value", "bad"}) : LinesCounted(lines)
    /\ \A column \in MCLines({"code", "number", "text", "missing"}) : CodesKept(column)
    /\ \A n \in 0..MaxBytes : SizeReadsBack(n)
=============================================================================
