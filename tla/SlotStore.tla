------------------------------ MODULE SlotStore ------------------------------
(***************************************************************************)
(* What the save slots promise the player: a slot holds one whole save or   *)
(* nothing, only an operation on it changes it, and the card holds the      *)
(* slots of one moment, between two operations, which a start brings back.  *)
(* A reset may cut an operation; the slot it was for then has what it held, *)
(* what it was to hold, its spare or nothing.  Of a slot that an operation  *)
(* went astray in, nothing is promised until the next start or reset.       *)
(***************************************************************************)
EXTENDS Naturals

CONSTANTS Slots, Version, None    \* None: an empty slot

VARIABLES
  kept, stored,    \* the slots now, and those of the card
  spare,           \* the save a reset can fall back to; operations use and lose it freely
  astray           \* slots nothing is promised of

Holding == [Slots -> Version \cup {None}]

Init == stored \in Holding /\ kept = stored /\ spare \in Holding /\ astray = {}

\* A save is new: no slot, here or on the card, holds it yet.
New(v) == \A t \in Slots \ astray : v # kept[t] /\ v # stored[t]

Put(s) == \E v \in Version : New(v) /\ kept' = [kept EXCEPT ![s] = v]

Erase(s) == kept' = [kept EXCEPT ![s] = None]

Copy(s, t) == kept[s] # None /\ kept' = [kept EXCEPT ![t] = kept[s]]

Any(s) == s \in astray /\ \E v \in Version \cup {None} : kept' = [kept EXCEPT ![s] = v]

Operate == \E s \in Slots : Put(s) \/ Erase(s) \/ Any(s) \/ \E t \in Slots : Copy(s, t)

\* An operation begins where a reset left another one.
Stray == UNCHANGED kept /\ \E s \in Slots : astray' = astray \cup {s}

\* The card follows or is late.
Follow ==
  /\ stored' \in Holding
  /\ stored' = stored \/ \A s \in Slots \ astray' : stored'[s] = kept'[s]

Step ==
  /\ spare' \in Holding /\ Follow
  /\ Stray \/ (UNCHANGED astray /\ (UNCHANGED kept \/ Operate))

\* A reset, in the middle of an operation on s or when there is none.
Cut(s) ==
  /\ kept' \in Holding
  /\ \A t \in Slots \ (astray \cup {s}) : kept'[t] = kept[t]
  /\ \/ s \in astray
     \/ kept'[s] \in {kept[t] : t \in Slots} \cup {spare[s], None} \/ New(kept'[s])
  /\ spare' \in Holding /\ astray' = {} /\ Follow

Restart == kept' = stored /\ UNCHANGED stored /\ spare' \in Holding /\ astray' = {}

Next == Step \/ (\E s \in Slots : Cut(s)) \/ Restart

Spec == Init /\ [][Next]_<<kept, stored, spare, astray>>
=============================================================================
