--------------------------- MODULE CheckpointShelf ---------------------------
(***************************************************************************)
(* What the checkpoint store promises its sessions, whatever is killed and *)
(* when: a checkpoint appears at once with every value that it names, it   *)
(* never changes, and it goes as a whole. Only a value that is given up    *)
(* on leaves the checkpoints that name it, until a save stores it again.   *)
(***************************************************************************)
CONSTANTS Ids, Values, Missing

VARIABLES record,  \* what each checkpoint names, or Missing
          lost     \* named values that cannot be loaded

Named(rec) == UNION {rec[i] : i \in {j \in Ids : rec[j] # Missing}}

Init == record = [i \in Ids |-> Missing] /\ lost = {}

Put(i) ==
  /\ record[i] = Missing
  /\ \E vs \in SUBSET Values :
       vs \cap lost = {} /\ record' = [record EXCEPT ![i] = vs]
  /\ UNCHANGED lost

Drop(i) ==
  /\ record[i] # Missing
  /\ record' = [record EXCEPT ![i] = Missing]
  /\ lost' = lost \cap Named(record')

Lose(v) == v \in Named(record) /\ lost' = lost \cup {v} /\ UNCHANGED record
Regain(v) == lost' = lost \ {v} /\ UNCHANGED record

Next ==
  \/ \E i \in Ids : Put(i) \/ Drop(i)
  \/ \E v \in Values : Lose(v) \/ Regain(v)

Spec == Init /\ [][Next]_<<record, lost>>
=============================================================================
