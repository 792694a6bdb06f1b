--------------------------- MODULE SnapshotRegister ---------------------------
(***************************************************************************)
(* What the repository promises (20_runtime_snapshot.md): a commit         *)
(* replaces the whole snapshot, one version at a time, and a reader is     *)
(* given a snapshot that was current during its call, or nothing.          *)
(***************************************************************************)
EXTENDS Naturals

CONSTANTS Readers, Snapshots, NoSnapshot

VARIABLES
    current,    \* the snapshot published last
    number,     \* its version
    seen,       \* the snapshot each reader's call has fixed on
    given       \* what the call has returned

registerVars == <<current, number, seen, given>>

RegisterInit ==
    /\ current \in Snapshots /\ number = 0
    /\ seen = [r \in Readers |-> current]
    /\ given = [r \in Readers |-> NoSnapshot]

Publish ==
    /\ current' \in Snapshots /\ number' = number + 1
    /\ UNCHANGED <<seen, given>>

Fix(r) ==
    /\ seen' = [seen EXCEPT ![r] = current]
    /\ given' = [given EXCEPT ![r] = NoSnapshot]
    /\ UNCHANGED <<current, number>>

Give(r) ==
    /\ given' = [given EXCEPT ![r] = seen[r]]
    /\ UNCHANGED <<current, number, seen>>

RegisterNext == Publish \/ \E r \in Readers : Fix(r) \/ Give(r)

RegisterSpec == RegisterInit /\ [][RegisterNext]_registerVars
=============================================================================
