--------------------------- MODULE StatePersistence ---------------------------
(***************************************************************************)
(* StatePersistence: save_state with atomic_write, and load_state.  Saves  *)
(* are serialised by m_mtx and follow one another; between two steps of a  *)
(* save the process may die, each step may fail, and the file may be       *)
(* damaged from outside.  A snapshot is its number; a file is missing,     *)
(* torn, or holds one whole snapshot.                                      *)
(***************************************************************************)
EXTENDS Integers

CONSTANTS
    MaxSaves,     \* bound: calls of save_state
    MaxDamages,   \* bound: times state.json is damaged
    MaxRestarts   \* bound: times the process dies and starts again

ASSUME BoundAssumption ==
    MaxSaves \in Nat /\ MaxDamages \in Nat /\ MaxRestarts \in Nat

VARIABLES
    main,     \* state.json
    bak,      \* state.json.bak
    tmp,      \* state.json.tmp
    pc,       \* the next step of atomic_write
    ver,      \* the snapshot of the current, or last, call of save_state
    source,   \* the file the last start of the process read
    budget    \* what is left of the bounds on the environment

vars == <<main, bak, tmp, pc, ver, source, budget>>

Missing == 0
Torn    == -1
Whole(file) == file > 0

(* load_state: the main file, or the backup, or a fresh start. *)
Restored == IF Whole(main) THEN main ELSE IF Whole(bak) THEN bak ELSE 0

RestoredFrom == IF Whole(main) THEN "main" ELSE IF Whole(bak) THEN "bak" ELSE "none"

Init ==
    /\ main = Missing /\ bak = Missing /\ tmp = Missing
    /\ pc = "idle"
    /\ ver = 0
    /\ source = "none"
    /\ budget = [damages |-> MaxDamages, restarts |-> MaxRestarts]

(* Mutant of OpenTmp: state.json itself is opened for writing. *)
OpenMain ==
    /\ pc = "idle" /\ ver < MaxSaves
    /\ ver' = ver + 1
    /\ \/ main' = Torn /\ tmp' = Torn /\ pc' = "write"
       \/ UNCHANGED <<main, tmp, pc>>
    /\ UNCHANGED <<bak, source, budget>>

(* fopen truncates the temporary file, or fails and the save is given up. *)
OpenTmp ==
    /\ pc = "idle" /\ ver < MaxSaves
    /\ ver' = ver + 1
    /\ \/ tmp' = Torn /\ pc' = "write"
       \/ UNCHANGED <<tmp, pc>>
    /\ UNCHANGED <<main, bak, source, budget>>

(* fwrite, fflush, fsync: their results are not looked at. *)
WriteTmp ==
    /\ pc = "write"
    /\ tmp' \in {ver, Torn}
    /\ pc' = "validate"
    /\ UNCHANGED <<main, bak, ver, source, budget>>

(* Mutant of Validate: the file is not read back. *)
ValidateNothing ==
    /\ pc = "validate"
    /\ pc' = IF main = Missing THEN "rename" ELSE "backup"
    /\ UNCHANGED <<main, bak, tmp, ver, source, budget>>

(* The temporary file is read back; one that does not parse ends the save. *)
Validate ==
    /\ pc = "validate"
    /\ pc' = IF ~Whole(tmp) THEN "idle"
             ELSE IF main = Missing THEN "rename" ELSE "backup"
    /\ UNCHANGED <<main, bak, tmp, ver, source, budget>>

(* copy_file truncates the backup, or fails before it: the save goes on. *)
BeginCopy ==
    /\ pc = "backup"
    /\ \/ bak' = Torn /\ pc' = "copy"
       \/ bak' = bak /\ pc' = "rename"
    /\ UNCHANGED <<main, tmp, ver, source, budget>>

(* The copy is complete, or it fails half way and only a warning says so. *)
EndCopy ==
    /\ pc = "copy"
    /\ bak' \in {main, Torn}
    /\ pc' = "rename"
    /\ UNCHANGED <<main, tmp, ver, source, budget>>

Rename ==
    /\ pc = "rename"
    /\ \/ main' = tmp /\ tmp' = Missing
       \/ UNCHANGED <<main, tmp>>
    /\ pc' = "idle"
    /\ UNCHANGED <<bak, ver, source, budget>>

(* state.json is damaged from outside. *)
Damage ==
    /\ budget.damages > 0 /\ main # Missing
    /\ budget' = [budget EXCEPT !.damages = @ - 1]
    /\ main' = Torn
    /\ UNCHANGED <<bak, tmp, pc, ver, source>>

(* The process dies and starts again. *)
Restart ==
    /\ budget.restarts > 0
    /\ budget' = [budget EXCEPT !.restarts = @ - 1]
    /\ source' = RestoredFrom
    /\ pc' = "idle"
    /\ UNCHANGED <<main, bak, tmp, ver>>

Next ==
    \/ OpenTmp \/ WriteTmp \/ Validate \/ BeginCopy \/ EndCopy \/ Rename
    \/ Damage \/ Restart

Spec == Init /\ [][Next]_vars

-----------------------------------------------------------------------------
Steps == {"idle", "write", "validate", "backup", "copy", "rename"}

TypeOK ==
    /\ main \in Int /\ main >= Torn
    /\ bak \in Int /\ bak >= Torn
    /\ tmp \in Int /\ tmp >= Torn
    /\ pc \in Steps
    /\ ver \in Nat
    /\ source \in {"none", "main", "bak"}
    /\ budget \in [damages: Nat, restarts: Nat]

(* The backup is never newer than the file it backs up: recovering from it goes
   back in time and never to a snapshot whose save did not complete. *)
BackupTrails == Whole(main) => bak <= main

(* Where a save is tells what the temporary file holds, and every file holds a
   snapshot that was saved earlier. *)
SaveShape ==
    /\ main <= ver /\ bak <= ver /\ tmp <= ver
    /\ pc # "idle" => ver > 0 /\ main < ver /\ bak < ver
    /\ pc = "validate" => tmp \in {ver, Torn}
    /\ pc \in {"backup", "copy", "rename"} => tmp = ver
    /\ pc \in {"backup", "copy"} => main # Missing
    /\ main = Missing => bak = Missing

SaveInv == TypeOK /\ SaveShape /\ BackupTrails

(* A save of StatePersistence is a save of SnapshotStore: the rename is the
   step that commits it, and no other step changes what a restart reads while
   state.json is undamaged. *)
Store == INSTANCE SnapshotStore WITH
            value   <- Restored,
            pending <- IF pc = "idle" THEN 0 ELSE ver,
            sound   <- main # Torn

ImplementsStore == Store!Spec
=============================================================================
