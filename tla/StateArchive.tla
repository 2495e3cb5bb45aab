---------------------------- MODULE StateArchive ----------------------------
(***************************************************************************)
(* What the save state service (SaveStates) promises: an archive of machine*)
(* contents by id, worked on by one operation at a time.  An operation that*)
(* was asked for takes effect at most once and only on its own id -- a new *)
(* save on an id that was free -- or ends without any effect.              *)
(***************************************************************************)
CONSTANTS Id, Snap, None

VARIABLES
  archive,  \* [Id -> Snap \cup {None}]
  machine,  \* the machine's contents
  op,       \* the operation that was asked for, "NONE" when there is none
  target,   \* the id it is for, 0 for a new save
  applied   \* it has taken effect

vars == <<archive, machine, op, target, applied>>

Init ==
  /\ archive \in [Id -> Snap \cup {None}] /\ machine \in Snap
  /\ op = "NONE" /\ target = 0 /\ applied = FALSE

\* The game goes on.
Play == op' = op /\ machine' \in Snap /\ applied = FALSE /\ UNCHANGED <<archive, target, applied>>

Ask ==
  /\ op = "NONE"
  /\ \/ op' = "SAVE" /\ target' = 0
     \/ op' \in {"OVERWRITE", "LOAD", "DELETE"} /\ target' \in Id
  /\ UNCHANGED <<archive, machine, applied>>

\* The machine's contents go to a free id (a new save) or replace the target's.
Store ==
  /\ op \in {"SAVE", "OVERWRITE"} /\ ~ applied
  /\ \E i \in Id : /\ IF op = "SAVE" THEN archive[i] = None ELSE i = target
                   /\ archive' = [archive EXCEPT ![i] = machine]
  /\ applied' = TRUE
  /\ UNCHANGED <<machine, op, target>>

Remove ==
  /\ op = "DELETE" /\ ~ applied
  /\ archive' = [archive EXCEPT ![target] = None] /\ applied' = TRUE
  /\ UNCHANGED <<machine, op, target>>

Restore ==
  /\ op = "LOAD" /\ archive[target] # None
  /\ machine' = archive[target] /\ op' = "NONE" /\ target' = 0
  /\ UNCHANGED <<archive, applied>>

\* The operation is over, with its effect or -- refused or failed -- without one.
End ==
  /\ op # "NONE" /\ op' = "NONE" /\ target' = 0 /\ applied' = FALSE
  /\ UNCHANGED <<archive, machine>>

\* A removal that the card refused is begun and ends without effect.
Refuse == op = "DELETE" /\ ~ applied /\ applied' = TRUE /\ UNCHANGED <<archive, machine, op, target>>

Next == Play \/ Ask \/ Store \/ Remove \/ Restore \/ End \/ Refuse

Spec == Init /\ [][Next]_vars
=============================================================================
