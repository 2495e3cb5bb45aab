------------------------------ MODULE SaveCard ------------------------------
(***************************************************************************)
(* What the save file promises the game, which sees one memory and one      *)
(* card: the card holds the memory of one moment, a snapshot gets there in  *)
(* one step or not at all, and never after a newer one, and a start brings  *)
(* back what is there.  Once something has gone wrong on the card, it may   *)
(* go on like this; after a second time nothing is promised.                *)
(***************************************************************************)
EXTENDS Naturals

CONSTANTS Version    \* numbers, newer ones greater; 0 is the blank memory

VARIABLES running, memory, pending, found, faults    \* pending: snapshots on their way

Init == ~ running /\ memory = 0 /\ pending = {} /\ found = 0 /\ faults = 0

Start == ~ running /\ running' /\ memory' = found /\ UNCHANGED <<pending, found>>

\* At any moment; the memory is gone.
Stop == ~ running' /\ memory' = 0 /\ pending' = {} /\ UNCHANGED found

Write == running /\ memory' \in Version /\ memory' > memory /\ UNCHANGED <<running, pending, found>>

\* A snapshot may take the place of one that waits, and be given up.
Take == running /\ pending' \subseteq pending \cup {memory} /\ UNCHANGED <<running, memory, found>>

Land ==
  /\ running /\ found' \in pending /\ found' >= found /\ pending' \subseteq pending
  /\ UNCHANGED <<running, memory>>

Step == Start \/ Stop \/ Write \/ Take \/ Land

Next == faults' >= faults /\ (faults' <= 1 => Step)

Spec == Init /\ [][Next]_<<running, memory, pending, found, faults>>
=============================================================================
