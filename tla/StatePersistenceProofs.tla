------------------------ MODULE StatePersistenceProofs ------------------------
(* StatePersistence implements SnapshotStore, for every number of saves, damages
   and restarts. *)
EXTENDS StatePersistence, TLAPS

(* The invariant of a save holds initially. *)
LEMMA SaveInvInit == Init => SaveInv
BY BoundAssumption
   DEF Init, SaveInv, TypeOK, SaveShape, BackupTrails, Steps, Missing, Torn, Whole

(* Each step of atomic_write, each fault and each restart keeps the shape. *)
LEMMA SaveInvStep == SaveInv /\ [Next]_vars => SaveInv'
<1> SUFFICES ASSUME SaveInv, [Next]_vars PROVE SaveInv'
  OBVIOUS
<1> USE DEF SaveInv, TypeOK, SaveShape, BackupTrails, Steps, Missing, Torn, Whole
<1>1. CASE OpenTmp
  BY <1>1 DEF OpenTmp
<1>2. CASE WriteTmp
  BY <1>2 DEF WriteTmp
<1>3. CASE Validate
  BY <1>3 DEF Validate
<1>4. CASE BeginCopy
  BY <1>4 DEF BeginCopy
<1>5. CASE EndCopy
  BY <1>5 DEF EndCopy
<1>6. CASE Rename
  BY <1>6 DEF Rename
<1>7. CASE Damage
  <2>1. budget' \in [damages: Nat, restarts: Nat]
    <3>1. budget.damages - 1 \in Nat
      BY <1>7 DEF Damage
    <3> QED BY <1>7, <3>1 DEF Damage
  <2> QED BY <1>7, <2>1 DEF Damage
<1>8. CASE Restart
  <2>1. budget' \in [damages: Nat, restarts: Nat]
    <3>1. budget.restarts - 1 \in Nat
      BY <1>8 DEF Restart
    <3> QED BY <1>8, <3>1 DEF Restart
  <2> QED BY <1>8, <2>1 DEF Restart, RestoredFrom
<1>9. CASE UNCHANGED vars
  BY <1>9 DEF vars
<1> QED BY <1>1, <1>2, <1>3, <1>4, <1>5, <1>6, <1>7, <1>8, <1>9 DEF Next

(* Where a save is, and what each file holds, in every reachable state. *)
THEOREM SaveInvariant == Spec => []SaveInv
BY SaveInvInit, SaveInvStep, PTL DEF Spec

(* Going back to the backup never brings a snapshot whose save did not complete:
   the backup is never newer than the file it backs up. *)
THEOREM BackupNeverAhead == Spec => []BackupTrails
<1>1. SaveInv => BackupTrails
  BY DEF SaveInv
<1> QED BY <1>1, SaveInvariant, PTL

(* The initial state is one of the snapshot store. *)
LEMMA StoreInit == Init => Store!Init
BY DEF Init, Store!Init, Restored, Missing, Torn, Whole

(* The rename commits, giving up aborts, damage damages; copying the backup
   loses something only from a store that is damaged already. *)
LEMMA StoreStep == SaveInv /\ [Next]_vars => [Store!Next]_Store!vars
<1> SUFFICES ASSUME SaveInv, [Next]_vars PROVE [Store!Next]_Store!vars
  OBVIOUS
<1> USE DEF SaveInv, TypeOK, SaveShape, BackupTrails, Missing, Torn, Whole, Restored
<1>1. CASE OpenTmp
  BY <1>1 DEF OpenTmp, Store!Next, Store!Begin, Store!vars
<1>2. CASE WriteTmp
  BY <1>2 DEF WriteTmp, Store!vars
<1>3. CASE Validate
  BY <1>3 DEF Validate, Store!Next, Store!Abort, Store!vars
<1>4. CASE BeginCopy
  <2>1. UNCHANGED <<IF pc = "idle" THEN 0 ELSE ver, main # Torn>>
    BY <1>4 DEF BeginCopy
  <2>2. Restored' \in 0..Restored
    <3>1. Restored' \in Int /\ Restored \in Int /\ 0 <= Restored' /\ Restored' <= Restored
      BY <1>4 DEF BeginCopy
    <3> HIDE DEF Restored
    <3> QED BY <3>1
  <2>3. ASSUME main # Torn PROVE Restored' = Restored
    <3>1. pc = "backup" /\ main' = main
      BY <1>4 DEF BeginCopy
    <3>2. main > 0
      BY <2>3, <3>1
    <3> QED BY <3>1, <3>2
  <2> HIDE DEF Restored, Torn
  <2> QED BY <2>1, <2>2, <2>3 DEF Store!Next, Store!Lose, Store!vars
<1>5. CASE EndCopy
  BY <1>5 DEF EndCopy, Store!Next, Store!Lose, Store!vars
<1>6. CASE Rename
  BY <1>6 DEF Rename, Store!Next, Store!Commit, Store!Abort, Store!vars
<1>7. CASE Damage
  <2>1. UNCHANGED (IF pc = "idle" THEN 0 ELSE ver) /\ (main # Torn)' = FALSE
    BY <1>7 DEF Damage
  <2>2. Restored' \in 0..Restored
    <3>1. Restored' \in Int /\ Restored \in Int /\ 0 <= Restored' /\ Restored' <= Restored
      BY <1>7 DEF Damage
    <3> HIDE DEF Restored
    <3> QED BY <3>1
  <2> HIDE DEF Restored, Torn
  <2> QED BY <2>1, <2>2 DEF Store!Next, Store!Damage, Store!vars
<1>8. CASE Restart
  BY <1>8 DEF Restart, Store!Next, Store!Abort, Store!vars
<1>9. CASE UNCHANGED vars
  BY <1>9 DEF vars, Store!vars
<1> QED BY <1>1, <1>2, <1>3, <1>4, <1>5, <1>6, <1>7, <1>8, <1>9 DEF Next

(* Saving is all or nothing: whatever fails and whenever the process dies, a
   restart reads the last snapshot whose rename was done, unless state.json was
   damaged from outside. *)
THEOREM SaveIsAtomic == Spec => ImplementsStore
<1>1. Init => Store!Init
  BY StoreInit
<1>2. SaveInv /\ [Next]_vars => [Store!Next]_Store!vars
  BY StoreStep
<1> QED BY <1>1, <1>2, SaveInvariant, PTL DEF Spec, ImplementsStore, Store!Spec
=============================================================================
