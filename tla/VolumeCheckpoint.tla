-------------------------- MODULE VolumeCheckpoint --------------------------
(***************************************************************************)
(* StorageService with the owner the firmware provides for volume records: *)
(* VolumeAccumulator numbers a checkpoint one above the last successful    *)
(* one (services/volume/volume_accumulator.c) and CheckpointPolicy keeps   *)
(* one in flight (services/storage/checkpoint_policy.c).  No source file   *)
(* joins the three yet; they are joined here by their interfaces.          *)
(***************************************************************************)
EXTENDS StorageService

VARIABLES
    checkpointSequence,  \* VolumeState.checkpoint_sequence
    content,             \* the accumulated volumes and remainders
    inFlight,            \* CheckpointPolicy.in_flight
    booted,              \* the accumulator has been restored since the reset
    contents             \* history: contents so far, across resets

ownerVars == <<checkpointSequence, content, inFlight, booted, contents>>
vars == <<serviceVars, ownerVars>>

\* A committed record, and a second slot never used.
Images ==
    {[s \in Slots |->
        [i \in 0 .. NChunks |->
            IF s = 1 THEN Zero
            ELSE IF i = Commit THEN Valid ELSE [number |-> 0, version |-> 0]]]}

Init ==
    /\ ServiceInit(Images)
    /\ checkpointSequence = 0 /\ content = 0 /\ contents = 0
    /\ inFlight = FALSE /\ booted = FALSE

\* VolumeAccumulator_Consume adds to the volume; every outcome is new.
Consume ==
    /\ booted /\ contents < MaxVersion
    /\ contents' = contents + 1
    /\ content' = contents'
    /\ UNCHANGED <<serviceVars, checkpointSequence, inFlight, booted>>

\* CheckpointPolicy_Evaluate, VolumeAccumulator_PrepareCheckpoint, submission
\* and CheckpointPolicy_OnSubmitted.
NextNumber == checkpointSequence + 1

Checkpoint ==
    /\ booted /\ ~inFlight /\ NextNumber <= MaxNumber
    /\ SubmitAccepted([number |-> NextNumber, version |-> content])
    /\ inFlight' = TRUE
    /\ UNCHANGED <<checkpointSequence, content, booted, contents>>

\* CheckpointPolicy_OnCompleted, and VolumeAccumulator_OnCheckpointSuccess
\* when the commit succeeded.
Completed ==
    /\ TakeCompletion
    /\ inFlight' = FALSE
    /\ checkpointSequence' = IF reply.status = "OK" THEN reply.record.number
                                                    ELSE checkpointSequence
    /\ UNCHANGED <<content, booted, contents>>

StartRestore == ~booted /\ StartRestoreVolume /\ UNCHANGED ownerVars

\* VolumeAccumulator_Restore
Restore ==
    /\ TakeRestoredVolume
    /\ IF restored.status = "OK"
       THEN /\ checkpointSequence' = restored.record.number
            /\ content' = restored.record.version
            /\ booted' = TRUE
       ELSE UNCHANGED <<checkpointSequence, content, booted>>
    /\ UNCHANGED <<inFlight, contents>>

Reset ==
    /\ Crash
    /\ checkpointSequence' = 0 /\ content' = 0
    /\ inFlight' = FALSE /\ booted' = FALSE
    /\ UNCHANGED contents

Next ==
    \/ (Tick \/ PortStep) /\ UNCHANGED ownerVars
    \/ Consume \/ Checkpoint \/ Completed \/ StartRestore \/ Restore \/ Reset

Spec == Init /\ [][Next]_vars

-----------------------------------------------------------------------------
(* A checkpoint answered COMMIT_OK is what the next boot selects, whether  *)
(* its owner has collected the answer or not.                              *)
AnsweredIsSelected ==
    reply # Nothing /\ reply.status = "OK" => Current(media) = reply.record
=============================================================================
