--------------------------- MODULE CheckpointStore --------------------------
(***************************************************************************)
(* StorageService with an owner that keeps the discipline its interface    *)
(* relies on (1.docs .../22_persistent_storage.md, 9.4 and 9.6): it        *)
(* restores before it submits, and no record number is used twice since    *)
(* the last restore.                                                       *)
(***************************************************************************)
EXTENDS StorageService

VARIABLES
    owner,        \* "boot", "restoring" or "ready"
    lastNumber,   \* the record number used last
    lastVersion,  \* history: contents submitted so far, across resets
    acked         \* history: the version acknowledged last, across resets

ownerVars == <<owner, lastNumber, lastVersion, acked>>
vars == <<serviceVars, ownerVars>>

\* A device fresh from the factory, one with a committed record, one that a
\* newer firmware has written to, and one whose commit a reset tore.
Oldest == [number |-> 0, version |-> 0]
Filled(commit, cell) == [i \in 0 .. NChunks |-> IF i = Commit THEN commit ELSE cell]
Pair(a, b) == [s \in Slots |-> IF s = 0 THEN a ELSE b]
Images ==
    {Pair(Filled(Zero, Zero), Filled(Zero, Zero)),
     Pair(Filled(Zero, Zero), Filled(Valid, Oldest)),
     Pair(Filled(Valid, Oldest), Filled(Valid, Foreign)),
     Pair(Filled(Torn, Oldest), Filled(Zero, Zero))}

Init ==
    /\ ServiceInit(Images)
    /\ owner = "boot"
    /\ lastNumber = 0 /\ lastVersion = 0
    /\ acked = Nothing

\* At boot, and whenever the owner wants to read back what is stored.
Restore ==
    /\ StartRestoreVolume
    /\ owner' = "restoring"
    /\ UNCHANGED <<lastNumber, lastVersion, acked>>

\* Numbering resumes after the restored record; an I/O error or a conflict
\* is no basis to go on.
Restored ==
    /\ owner = "restoring"
    /\ TakeRestoredVolume
    /\ owner' = IF restored.status \in {"IO_ERROR", "SEQUENCE_CONFLICT"}
                THEN "boot" ELSE "ready"
    /\ lastNumber' = IF restored.status = "OK" THEN restored.record.number ELSE 0
    /\ UNCHANGED <<lastVersion, acked>>

\* A call during a restore is refused by the service itself.
Submit ==
    /\ owner # "boot"
    /\ lastNumber < MaxNumber /\ lastVersion < MaxVersion
    /\ lastNumber' = lastNumber + 1
    /\ lastVersion' = lastVersion + 1
    /\ SubmitCheckpoint([number |-> lastNumber', version |-> lastVersion'])
    /\ UNCHANGED <<owner, acked>>

Collect ==
    /\ TakeCompletion
    /\ acked' = IF reply.status = "OK" THEN reply.record.version ELSE acked
    /\ UNCHANGED <<owner, lastNumber, lastVersion>>

Reset ==
    /\ Crash
    /\ owner' = "boot"
    /\ lastNumber' = 0
    /\ UNCHANGED <<lastVersion, acked>>

Next ==
    \/ (Tick \/ PortStep) /\ UNCHANGED ownerVars
    \/ Restore \/ Restored \/ Submit \/ Collect \/ Reset

Spec == Init /\ [][Next]_vars

\* The main loop ticks the service, polls its mailboxes and restores at boot;
\* the port completes every accepted operation (storage_port.h).
FairSpec ==
    /\ Spec
    /\ WF_vars(Tick /\ UNCHANGED ownerVars)
    /\ WF_vars((PortReads \/ PortWrites \/ PortLosesWrite \/ PortFails)
               /\ UNCHANGED ownerVars)
    /\ WF_vars(owner = "boot" /\ Restore)
    /\ WF_vars(Restored)
    /\ WF_vars(Collect)

-----------------------------------------------------------------------------
TypeOK ==
    /\ ServiceTypeOK
    /\ owner \in {"boot", "restoring", "ready"}
    /\ lastNumber \in 0 .. MaxNumber
    /\ lastVersion \in 0 .. MaxVersion
    /\ acked \in 0 .. MaxVersion \union {Nothing}

Stored == Current(media)

(* An acknowledged checkpoint outlives crashes, failed transfers, lost     *)
(* writes and later failed commits: a restore finds it or a newer one.     *)
AckedIsDurable ==
    /\ acked # Nothing => Stored # Nothing /\ Stored.version >= acked
    /\ reply # Nothing /\ reply.status = "OK" => Stored = reply.record

(* The two slots never contradict each other, so no boot meets the         *)
(* SEQUENCE_CONFLICT that refuses every later commit.                      *)
NeverConflicting == ~HasConflict(media)

(* The slot a restore would select is never written by the service, and a  *)
(* record of another schema is never overwritten.                          *)
ActiveSlotUntouched ==
    [][\A s \in Slots :
          s = Selected(media) \/ IsForeign(media[s]) => media'[s] = media[s]]_vars

(* What is stored changes only to the candidate being committed.           *)
OnlyCandidateLands ==
    [][Stored' # Stored => state = "COMMIT" /\ Stored' = candidate]_vars

(* The service is a store of one durable record: DurableStore.             *)
Durable == INSTANCE DurableStore WITH
    durable <- Stored,
    active <- IF state \in CommitStates THEN candidate ELSE Nothing,
    view <- restored,
    Failures <- CommitStatuses \ {"OK", "SEQUENCE_CONFLICT"},
    RestoreFailures <- RestoreStatuses \ {"OK", "SEQUENCE_CONFLICT"}
ImplementsDurableStore == Durable!Spec

(* Every submitted candidate is answered or replaced by a later one, and   *)
(* the owner is not left waiting, as long as resets end.                   *)
CommitTerminates == state = "SCAN_A" ~> (reply # Nothing \/ owner = "boot")
PendingIsPromoted == pending # Nothing ~> pending = Nothing
=============================================================================
