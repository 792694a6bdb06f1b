--------------------------- MODULE StorageService ---------------------------
(***************************************************************************)
(* The two-slot commit and restore machine over F-RAM                      *)
(* (services/storage/storage_service.c, protocols/storage/ab_slot.c), with *)
(* the storage port it drives and the medium behind it.  One record type   *)
(* is modelled: the types share the machine and no slot.  The module has   *)
(* no Next of its own: CheckpointStore and VolumeCheckpoint add the owner  *)
(* that submits records and collects completions.                          *)
(*                                                                         *)
(* A slot is a function from its parts to cells: part 0 is the commit      *)
(* byte, parts 1 .. NChunks the body as it is written, 32 bytes at a time. *)
(* A record's CRC holds exactly when every chunk carries that record.      *)
(***************************************************************************)
EXTENDS Integers, FiniteSets

CONSTANTS
    NChunks,      \* chunks of a body: two for the 64-byte volume slot
    SeqModulus,   \* sequences are uint32_t: 2^32 in the code
    SeqBase,      \* the wire sequence of record number 0
    MaxNumber,    \* bound: record numbers
    MaxVersion,   \* bound: distinct record contents
    MaxFaults,    \* bound: refused, failed and silently lost transfers
    MaxCrashes,   \* bound: resets
    \* cell contents other than the chunks of a record
    Zero,         \* 0x00 bytes; as a commit byte, PERSIST_COMMIT_INVALID
    Torn,         \* the bytes an interrupted write leaves
    Valid,        \* PERSIST_COMMIT_VALID
    Foreign,      \* a chunk of a sound record of another schema version
    Nothing       \* no candidate, operation, reply or target

\* A record: its number, whose wire sequence is Sequence, and its content.
Record == [number : 0 .. MaxNumber, version : 0 .. MaxVersion]

Special == {Zero, Torn, Valid, Foreign, Nothing}

ASSUME GeometryAssumption == NChunks \in Nat \ {0}

\* Numbers stay within half of the sequence space (2^31 checkpoints), so
\* wire sequences wrap at most once and are never half a space apart.
ASSUME SequenceAssumption ==
    /\ SeqModulus \in Nat /\ SeqBase \in 0 .. SeqModulus - 1
    /\ MaxNumber \in Nat /\ 2 * MaxNumber < SeqModulus
    /\ MaxVersion \in Nat

ASSUME CellAssumption == Cardinality(Special) = 5 /\ Special \cap Record = {}

ASSUME BoundAssumption == MaxFaults \in Nat /\ MaxCrashes \in Nat

Slots == {0, 1}

\* "No target" is not a slot.
ASSUME SlotAssumption == Nothing \notin Slots

Other(s) == 1 - s
Chunks == 1 .. NChunks
Commit == 0
Image == NChunks + 1     \* a whole-slot read
Cells == Record \union {Zero, Torn, Valid, Foreign}
SlotImage == [0 .. NChunks -> Cells]

CommitStates ==
    {"SCAN_A", "SCAN_B", "PREPARE_TARGET", "INVALIDATE", "VERIFY_INVALIDATE",
     "CHECK_INVALIDATE", "WRITE_BODY", "READBACK_BODY", "VERIFY_BODY",
     "COMMIT", "VERIFY_COMMIT", "CHECK_COMMIT"}
RestoreStates ==
    {"RESTORE_SCAN_A", "RESTORE_SCAN_B", "RESTORE_DECODE",
     "RESTORE_COMPLETE", "RESTORE_FAILED"}
TerminalStates == {"IDLE", "COMPLETE", "FAILED"}

VARIABLES
    media,        \* the slots of the record type on the F-RAM
    state,        \* context.state
    candidate,    \* context.slot_buffer and sequence
    target,       \* context.target_slot
    offset,       \* context.write_offset, in chunks
    readback,     \* context.readback
    scan,         \* context.scan_a, scan_b
    ioByte,       \* context.io_byte
    io,           \* context.io_pending, io_completed and io_completion.result
    token,        \* context.io_token; the one before it is the only stale one
    pending,      \* context.pending and pending_buffer
    reply,        \* last_completion while completion_ready
    restored,     \* restore_status, restored_volume while restore_ready
    port,         \* the operation the storage port is executing
    faults,       \* faults so far
    crashes       \* resets so far

context == <<state, candidate, target, offset, readback, scan, ioByte, io, token>>
mailboxes == <<pending, reply, restored>>
serviceVars == <<media, context, mailboxes, port, faults, crashes>>

-----------------------------------------------------------------------------
(* Records, sequences and the choice between the two slots.                *)

Sequence(r) ==
    IF SeqBase + r.number < SeqModulus THEN SeqBase + r.number
                                       ELSE SeqBase + r.number - SeqModulus

\* (uint32_t)(a - b)
Difference(a, b) == IF a >= b THEN a - b ELSE a - b + SeqModulus

Intact(m) == m[Commit] = Valid /\ \A i \in Chunks : m[i] = m[1]
HasRecord(m) == Intact(m) /\ m[1] \in Record       \* SLOT_VALID_COMPATIBLE
IsForeign(m) == Intact(m) /\ m[1] = Foreign        \* ..._UNSUPPORTED_SCHEMA
IsBlank(m) == \A i \in 0 .. NChunks : m[i] = Zero  \* EMPTY_UNINITIALIZED

\* compare_sequence: SEQUENCE_A_NEWER
Newer(a, b) ==
    LET d == Difference(Sequence(a[1]), Sequence(b[1]))
    IN d # 0 /\ 2 * d < SeqModulus

\* SEQUENCE_EQUAL with different bodies, or half-range SEQUENCE_AMBIGUOUS
Conflict(a, b) ==
    LET d == Difference(Sequence(a[1]), Sequence(b[1]))
    IN (d = 0 /\ a[1] # b[1]) \/ 2 * d = SeqModulus

\* ab_slot_select: the slot whose record is current, if any.
HasConflict(m) == HasRecord(m[0]) /\ HasRecord(m[1]) /\ Conflict(m[0], m[1])

Selected(m) ==
    CASE ~HasRecord(m[0]) /\ ~HasRecord(m[1]) -> Nothing
      [] HasRecord(m[0]) /\ ~HasRecord(m[1]) -> 0
      [] ~HasRecord(m[0]) /\ HasRecord(m[1]) -> 1
      [] OTHER -> IF Conflict(m[0], m[1]) THEN Nothing
                  ELSE IF Newer(m[0], m[1]) \/ m[0][1] = m[1][1] THEN 0 ELSE 1

\* What a restore of this medium returns.
Current(m) == IF Selected(m) = Nothing THEN Nothing ELSE m[Selected(m)][1]

\* Mutant: the slots with a newer schema are not protected.
TargetOverForeign(m) ==
    IF HasConflict(m) THEN Nothing
    ELSE IF Selected(m) \in Slots THEN Other(Selected(m)) ELSE 0

\* ab_slot_choose_target
Target(m) ==
    IF HasConflict(m) \/ \E s \in Slots : IsForeign(m[s]) THEN Nothing
    ELSE IF Selected(m) \in Slots THEN Other(Selected(m)) ELSE 0

\* classify_restore_failure and the success of decode_restore
RestoreStatus(m) ==
    CASE Selected(m) # Nothing -> "OK"
      [] HasConflict(m) -> "SEQUENCE_CONFLICT"
      [] \A s \in Slots : IsBlank(m[s]) -> "EMPTY"
      [] Selected(m) = Nothing /\ \E s \in Slots : IsForeign(m[s])
           -> "UNSUPPORTED_SCHEMA"
      [] OTHER -> "CORRUPT"

-----------------------------------------------------------------------------
(* Initial states and the tails the handlers share.                        *)

NoOperation == [slot |-> 0, part |-> 0, write |-> FALSE, value |-> Nothing,
                token |-> 0]

ServiceInit(images) ==
    /\ media \in images
    /\ state = "IDLE" /\ candidate = Nothing /\ target = Nothing /\ offset = 0
    /\ readback = [i \in Chunks |-> Zero]
    /\ scan = [s \in Slots |-> [i \in 0 .. NChunks |-> Zero]]
    /\ ioByte = Zero /\ io = "none" /\ token = 0
    /\ pending = Nothing /\ reply = Nothing /\ restored = Nothing
    /\ port = Nothing /\ faults = 0 /\ crashes = 0

\* prepare_active_candidate; it also drops a candidate still pending.
PrepareCandidate(r) ==
    /\ candidate' = r
    /\ state' = "SCAN_A"
    /\ offset' = 0
    /\ readback' = [i \in Chunks |-> Zero]
    /\ scan' = [s \in Slots |-> [i \in 0 .. NChunks |-> Zero]]
    /\ pending' = Nothing
    /\ UNCHANGED <<target, ioByte, io, token, reply, restored, port, media>>

\* finish_commit
FinishCommit(status) ==
    /\ reply' = [record |-> candidate, status |-> status]
    /\ state' = IF status = "OK" THEN "COMPLETE" ELSE "FAILED"

\* fail_io
FailIo ==
    IF state \in RestoreStates
    THEN /\ restored' = [status |-> "IO_ERROR", record |-> Nothing]
         /\ state' = "RESTORE_FAILED"
         /\ UNCHANGED reply
    ELSE FinishCommit("IO_ERROR") /\ UNCHANGED restored

-----------------------------------------------------------------------------
(* The calls of the owner.                                                 *)

SubmitAccepted(r) ==
    /\ state \in TerminalStates /\ reply = Nothing
    /\ PrepareCandidate(r)
    /\ UNCHANGED <<faults, crashes>>

\* Answered STORAGE_BUSY: kept as the latest pending candidate.
SubmitPending(r) ==
    /\ state \in CommitStates
    /\ pending' = r
    /\ UNCHANGED <<media, context, reply, restored, port, faults, crashes>>

\* StorageService_SubmitCheckpoint; its refusals change nothing.
SubmitCheckpoint(r) == SubmitAccepted(r) \/ SubmitPending(r)

TakeCompletion ==
    /\ reply # Nothing
    /\ reply' = Nothing
    /\ UNCHANGED <<media, context, pending, restored, port, faults, crashes>>

MayRestore == state \in TerminalStates /\ pending = Nothing /\ reply = Nothing

StartRestoreVolume ==
    /\ MayRestore
    /\ state' = "RESTORE_SCAN_A"
    /\ offset' = 0
    /\ scan' = [s \in Slots |-> [i \in 0 .. NChunks |-> Zero]]
    /\ restored' = Nothing
    /\ UNCHANGED <<media, candidate, target, readback, ioByte, io, token,
                   pending, reply, port, faults, crashes>>

TakeRestoredVolume ==
    /\ restored # Nothing
    /\ restored' = Nothing
    /\ state' = "IDLE"
    /\ UNCHANGED <<media, candidate, target, offset, readback, scan, ioByte,
                   io, token, pending, reply, port, faults, crashes>>

-----------------------------------------------------------------------------
(* StorageService_Tick: one bounded piece of work.                         *)

Read(s, p) == [NoOperation EXCEPT !.slot = s, !.part = p]
Write(s, p, v) ==
    [NoOperation EXCEPT !.slot = s, !.part = p, !.write = TRUE, !.value = v]

\* The transfer the state asks for, if it asks for one.
Operation ==
    CASE state \in {"SCAN_A", "RESTORE_SCAN_A"} -> Read(0, Image)
      [] state \in {"SCAN_B", "RESTORE_SCAN_B"} -> Read(1, Image)
      [] state = "INVALIDATE" -> Write(target, Commit, Zero)
      [] state \in {"VERIFY_INVALIDATE", "VERIFY_COMMIT"} -> Read(target, Commit)
      [] state = "WRITE_BODY" /\ offset < NChunks
           -> Write(target, offset + 1, candidate)
      [] state = "READBACK_BODY" /\ offset < NChunks -> Read(target, offset + 1)
      [] state = "COMMIT" -> Write(target, Commit, Valid)
      [] OTHER -> Nothing

\* Mutant: the commit byte is not read back.
SuccessWithoutReadback ==
    CASE state = "SCAN_A" -> "SCAN_B"
      [] state = "SCAN_B" -> "PREPARE_TARGET"
      [] state = "INVALIDATE" -> "VERIFY_INVALIDATE"
      [] state = "VERIFY_INVALIDATE" -> "CHECK_INVALIDATE"
      [] state = "COMMIT" -> "CHECK_COMMIT"
      [] state = "RESTORE_SCAN_A" -> "RESTORE_SCAN_B"
      [] state = "RESTORE_SCAN_B" -> "RESTORE_DECODE"
      [] OTHER -> state

\* Mutant: a restore looks at slot A only.
SuccessSkipsSlotB ==
    CASE state = "SCAN_A" -> "SCAN_B"
      [] state = "SCAN_B" -> "PREPARE_TARGET"
      [] state = "INVALIDATE" -> "VERIFY_INVALIDATE"
      [] state = "VERIFY_INVALIDATE" -> "CHECK_INVALIDATE"
      [] state = "COMMIT" -> "VERIFY_COMMIT"
      [] state = "VERIFY_COMMIT" -> "CHECK_COMMIT"
      [] state = "RESTORE_SCAN_A" -> "RESTORE_DECODE"
      [] OTHER -> state

\* io_success_state
SuccessState ==
    CASE state = "SCAN_A" -> "SCAN_B"
      [] state = "SCAN_B" -> "PREPARE_TARGET"
      [] state = "INVALIDATE" -> "VERIFY_INVALIDATE"
      [] state = "VERIFY_INVALIDATE" -> "CHECK_INVALIDATE"
      [] state = "COMMIT" -> "VERIFY_COMMIT"
      [] state = "VERIFY_COMMIT" -> "CHECK_COMMIT"
      [] state = "RESTORE_SCAN_A" -> "RESTORE_SCAN_B"
      [] state = "RESTORE_SCAN_B" -> "RESTORE_DECODE"
      [] OTHER -> state                 \* WRITE_BODY and READBACK_BODY loop

\* io_byte is the transmit buffer of the two one-byte writes.
LoadIoByte ==
    ioByte' = CASE state = "INVALIDATE" -> Zero
                [] state = "COMMIT" -> Valid
                [] OTHER -> ioByte

\* submit_read, submit_write: accepted by an idle port.
SubmitIo ==
    /\ io = "none" /\ Operation # Nothing /\ port = Nothing
    /\ port' = [Operation EXCEPT !.token = 1 - token]
    /\ token' = 1 - token
    /\ io' = "pending"
    /\ LoadIoByte
    /\ UNCHANGED <<media, state, candidate, target, offset, readback, scan,
                   mailboxes, faults, crashes>>

\* The port refuses the transfer: it is busy, not ready or out of capacity.
SubmitIoRefused ==
    /\ io = "none" /\ Operation # Nothing
    /\ \/ port # Nothing /\ UNCHANGED faults
       \/ faults < MaxFaults /\ faults' = faults + 1
    /\ token' = 1 - token
    /\ LoadIoByte
    /\ FailIo
    /\ UNCHANGED <<media, candidate, target, offset, readback, scan, io,
                   pending, port, crashes>>

\* Mutant: io_advance_bytes is not applied.
ConsumeWithoutAdvance ==
    /\ io \in {"ok", "error"}
    /\ io' = "none"
    /\ IF io = "ok"
       THEN /\ state' = SuccessState
            /\ UNCHANGED <<reply, restored>>
       ELSE FailIo
    /\ UNCHANGED <<media, offset, candidate, target, readback, scan, ioByte, token,
                   pending, port, faults, crashes>>

\* Mutant: io_advance_bytes is applied to one-byte transfers too.
ConsumeAdvancesAlways ==
    /\ io \in {"ok", "error"}
    /\ io' = "none"
    /\ IF io = "ok"
       THEN /\ state' = SuccessState
            /\ offset' = offset + 1
            /\ UNCHANGED <<reply, restored>>
       ELSE FailIo /\ UNCHANGED offset
    /\ UNCHANGED <<media, candidate, target, readback, scan, ioByte, token,
                   pending, port, faults, crashes>>

\* consume_io_completion
ConsumeCompletion ==
    /\ io \in {"ok", "error"}
    /\ io' = "none"
    /\ IF io = "ok"
       THEN /\ state' = SuccessState
            /\ offset' = IF state \in {"WRITE_BODY", "READBACK_BODY"}
                         THEN offset + 1 ELSE offset
            /\ UNCHANGED <<reply, restored>>
       ELSE FailIo /\ UNCHANGED offset
    /\ UNCHANGED <<media, candidate, target, readback, scan, ioByte, token,
                   pending, port, faults, crashes>>

\* Mutant: only a successful commit is followed by the pending one.
PromoteAfterSuccess ==
    /\ state = "COMPLETE" /\ pending # Nothing /\ reply = Nothing
    /\ PrepareCandidate(pending)
    /\ UNCHANGED <<faults, crashes>>

\* promote_pending
PromotePending ==
    /\ state \in {"COMPLETE", "FAILED"} /\ pending # Nothing /\ reply = Nothing
    /\ PrepareCandidate(pending)
    /\ UNCHANGED <<faults, crashes>>

\* Mutant: the body is written without invalidating the slot first.
ChooseTargetValid ==
    /\ state = "PREPARE_TARGET"
    /\ target' = Target(scan)
    /\ IF target' = Nothing
       THEN /\ FinishCommit(IF HasConflict(scan) THEN "SEQUENCE_CONFLICT"
                                                 ELSE "REJECTED")
            /\ UNCHANGED offset
       ELSE offset' = 0 /\ state' = "WRITE_BODY" /\ UNCHANGED reply
    /\ UNCHANGED <<media, candidate, readback, scan, ioByte, io, token,
                   pending, restored, port, faults, crashes>>

\* choose_target
ChooseTarget ==
    /\ state = "PREPARE_TARGET"
    /\ target' = Target(scan)
    /\ IF target' = Nothing
       THEN /\ FinishCommit(IF HasConflict(scan) THEN "SEQUENCE_CONFLICT"
                                                 ELSE "REJECTED")
            /\ UNCHANGED offset
       ELSE offset' = 0 /\ state' = "INVALIDATE" /\ UNCHANGED reply
    /\ UNCHANGED <<media, candidate, readback, scan, ioByte, io, token,
                   pending, restored, port, faults, crashes>>

CheckInvalidate ==
    /\ state = "CHECK_INVALIDATE"
    /\ IF ioByte = Valid
       THEN FinishCommit("VERIFY_ERROR") /\ UNCHANGED offset
       ELSE state' = "WRITE_BODY" /\ offset' = 0 /\ UNCHANGED reply
    /\ UNCHANGED <<media, candidate, target, readback, scan, ioByte, io,
                   token, pending, restored, port, faults, crashes>>

\* The loop exits of WRITE_BODY and READBACK_BODY.
BodyDone ==
    /\ state \in {"WRITE_BODY", "READBACK_BODY"} /\ offset >= NChunks
    /\ IF state = "WRITE_BODY"
       THEN state' = "READBACK_BODY" /\ offset' = 0
       ELSE state' = "VERIFY_BODY" /\ UNCHANGED offset
    /\ UNCHANGED <<media, candidate, target, readback, scan, ioByte, io,
                   token, mailboxes, port, faults, crashes>>

VerifyBody ==
    /\ state = "VERIFY_BODY"
    /\ IF \A i \in Chunks : readback[i] = candidate
       THEN state' = "COMMIT" /\ UNCHANGED reply
       ELSE FinishCommit("VERIFY_ERROR")
    /\ UNCHANGED <<media, candidate, target, offset, readback, scan, ioByte,
                   io, token, pending, restored, port, faults, crashes>>

CheckCommit ==
    /\ state = "CHECK_COMMIT"
    /\ FinishCommit(IF ioByte = Valid THEN "OK" ELSE "VERIFY_ERROR")
    /\ UNCHANGED <<media, candidate, target, offset, readback, scan, ioByte,
                   io, token, pending, restored, port, faults, crashes>>

\* decode_restore
DecodeRestore ==
    /\ state = "RESTORE_DECODE"
    /\ restored' = [status |-> RestoreStatus(scan), record |-> Current(scan)]
    /\ state' = "RESTORE_COMPLETE"
    /\ UNCHANGED <<media, candidate, target, offset, readback, scan, ioByte,
                   io, token, pending, reply, port, faults, crashes>>

LocalWork ==
    io = "none" /\ (PromotePending \/ ChooseTarget \/ CheckInvalidate
                    \/ BodyDone \/ VerifyBody \/ CheckCommit \/ DecodeRestore)

Tick == ConsumeCompletion \/ SubmitIo \/ SubmitIoRefused \/ LocalWork

-----------------------------------------------------------------------------
(* The storage port and the medium (drivers/storage/fram_driver.c): one    *)
(* terminal completion for every accepted operation.                       *)

\* Mutant: the token of the completion is not compared.
OnAnyCompletion(t, result) ==
    io' = IF io = "pending" THEN result ELSE io

\* StorageService_OnIoCompletion: only the transfer awaited now completes.
OnIoCompletion(t, result) ==
    io' = IF io = "pending" /\ t = token THEN result ELSE io

Written(v) == [media EXCEPT ![port.slot][port.part] = v]

\* Where the bytes read land.
Deposit ==
    CASE port.part = Image ->
           /\ scan' = [scan EXCEPT ![port.slot] = media[port.slot]]
           /\ UNCHANGED <<readback, ioByte>>
      [] port.part = Commit ->
           /\ ioByte' = media[port.slot][Commit]
           /\ UNCHANGED <<readback, scan>>
      [] OTHER ->
           /\ readback' = [readback EXCEPT ![port.part] = media[port.slot][port.part]]
           /\ UNCHANGED <<scan, ioByte>>

PortDone(result) ==
    /\ OnIoCompletion(port.token, result)
    /\ port' = Nothing
    /\ UNCHANGED <<state, candidate, target, offset, token, mailboxes, crashes>>

PortReads ==
    /\ port # Nothing /\ ~port.write
    /\ Deposit
    /\ PortDone("ok")
    /\ UNCHANGED <<media, faults>>

PortWrites ==
    /\ port # Nothing /\ port.write
    /\ media' = Written(port.value)
    /\ PortDone("ok")
    /\ UNCHANGED <<readback, scan, ioByte, faults>>

\* Acknowledged on the bus, lost or mangled on the medium.
PortLosesWrite ==
    /\ port # Nothing /\ port.write /\ faults < MaxFaults
    /\ media' \in {media, Written(Torn)}
    /\ PortDone("ok")
    /\ faults' = faults + 1
    /\ UNCHANGED <<readback, scan, ioByte>>

\* What an interrupted operation may have left on the medium.
Interrupted ==
    IF port # Nothing /\ port.write
    THEN {media, Written(Torn), Written(port.value)} ELSE {media}

\* A bus error, a timeout or a short transfer.
PortFails ==
    /\ port # Nothing /\ faults < MaxFaults
    /\ media' \in Interrupted
    /\ PortDone("error")
    /\ faults' = faults + 1
    /\ UNCHANGED <<readback, scan, ioByte>>

\* A completion of an operation that is over arrives once more.
LateCompletion ==
    \E t \in {0, 1} :
        /\ io = "pending" => t # token
        /\ OnIoCompletion(t, "ok")
        /\ UNCHANGED <<media, state, candidate, target, offset, readback, scan,
                       ioByte, token, mailboxes, port, faults, crashes>>

PortStep ==
    PortReads \/ PortWrites \/ PortLosesWrite \/ PortFails \/ LateCompletion

\* Reset or power loss: StorageService_Init runs again on the same medium.
Crash ==
    /\ crashes < MaxCrashes
    /\ crashes' = crashes + 1
    /\ media' \in Interrupted
    /\ state' = "IDLE" /\ candidate' = Nothing /\ target' = Nothing
    /\ offset' = 0
    /\ readback' = [i \in Chunks |-> Zero]
    /\ scan' = [s \in Slots |-> [i \in 0 .. NChunks |-> Zero]]
    /\ ioByte' = Zero /\ io' = "none" /\ token' = 0
    /\ pending' = Nothing /\ reply' = Nothing /\ restored' = Nothing
    /\ port' = Nothing
    /\ UNCHANGED faults

-----------------------------------------------------------------------------
Transfer ==
    [slot : Slots, part : 0 .. NChunks + 1, write : BOOLEAN,
     value : Cells \union {Nothing}, token : {0, 1}]

CommitStatuses ==
    {"OK", "IO_ERROR", "VERIFY_ERROR", "SEQUENCE_CONFLICT", "REJECTED"}
RestoreStatuses ==
    {"OK", "IO_ERROR", "SEQUENCE_CONFLICT", "EMPTY", "UNSUPPORTED_SCHEMA",
     "CORRUPT"}

ServiceTypeOK ==
    /\ media \in [Slots -> SlotImage]
    /\ state \in CommitStates \union RestoreStates \union TerminalStates
    /\ candidate \in Record \union {Nothing}
    /\ target \in Slots \union {Nothing}
    /\ offset \in 0 .. NChunks
    /\ readback \in [Chunks -> Cells]
    /\ scan \in [Slots -> SlotImage]
    /\ ioByte \in Cells
    /\ io \in {"none", "pending", "ok", "error"}
    /\ token \in {0, 1}
    /\ pending \in Record \union {Nothing}
    /\ reply \in [record : Record, status : CommitStatuses] \union {Nothing}
    /\ restored \in [status : RestoreStatuses, record : Record \union {Nothing}]
                    \union {Nothing}
    /\ port \in Transfer \union {Nothing}
    /\ faults \in 0 .. MaxFaults
    /\ crashes \in 0 .. MaxCrashes
=============================================================================
