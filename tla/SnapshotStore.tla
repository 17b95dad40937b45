---------------------------- MODULE SnapshotStore ----------------------------
(* What saving the state promises: a save replaces the stored snapshot in one
   step or not at all, whatever fails and whenever the process dies.  Only a
   damaged file can bring back an older snapshot, or none, and the next save
   that completes makes the store sound again. *)
EXTENDS Integers

VARIABLES
    value,    \* the snapshot a restart reads, 0 for none
    pending,  \* the snapshot being saved, 0 for none
    sound     \* the stored file is not damaged

vars == <<value, pending, sound>>

Init == value = 0 /\ pending = 0 /\ sound = TRUE

Begin ==
    /\ pending = 0
    /\ pending' \in Nat /\ pending' > value
    /\ UNCHANGED <<value, sound>>

Commit ==
    /\ pending # 0
    /\ value' = pending
    /\ pending' = 0
    /\ sound' = TRUE

(* The save fails, or the process dies. *)
Abort ==
    /\ pending' = 0
    /\ UNCHANGED <<value, sound>>

Damage ==
    /\ sound' = FALSE
    /\ value' \in 0..value
    /\ UNCHANGED pending

(* A damaged store may lose more before it is sound again. *)
Lose ==
    /\ ~sound
    /\ value' \in 0..value
    /\ UNCHANGED <<pending, sound>>

Next == Begin \/ Commit \/ Abort \/ Damage \/ Lose

Spec == Init /\ [][Next]_vars
=============================================================================
