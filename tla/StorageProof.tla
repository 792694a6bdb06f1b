---------------------------- MODULE StorageProof ----------------------------
(***************************************************************************)
(* Theorems about CheckpointStore: the checkpoint acknowledged last is     *)
(* durable, the slots never conflict, the current slot is never written,   *)
(* and the service implements DurableStore.                                *)
(***************************************************************************)
EXTENDS CheckpointStore, TLAPS, FiniteSetTheorems

-----------------------------------------------------------------------------
(* Cells, sequences and the choice between the slots.                      *)

(* The cell contents that are no record differ from each other.            *)
LEMMA CellsDiffer ==
    /\ Valid # Zero /\ Valid # Torn
    /\ Foreign \notin Record /\ Valid \notin Record /\ Nothing \notin Record
<1>1. ASSUME NEW a, NEW b, NEW c, NEW d  PROVE  Cardinality({a, b, c, d}) # 5
  <2>1. IsFiniteSet({}) /\ Cardinality({}) = 0
    BY FS_EmptySet
  <2>2. IsFiniteSet({a}) /\ Cardinality({a}) = 1
    BY FS_Singleton
  <2>3. IsFiniteSet({a, b}) /\ Cardinality({a, b}) \in 0 .. 2
    <3>1. {a, b} = {a} \union {b}
      OBVIOUS
    <3> QED  BY <2>2, <3>1, FS_AddElement
  <2>4. IsFiniteSet({a, b, c}) /\ Cardinality({a, b, c}) \in 0 .. 3
    <3>1. {a, b, c} = {a, b} \union {c}
      OBVIOUS
    <3> QED  BY <2>3, <3>1, FS_AddElement
  <2>5. IsFiniteSet({a, b, c, d}) /\ Cardinality({a, b, c, d}) \in 0 .. 4
    <3>1. {a, b, c, d} = {a, b, c} \union {d}
      OBVIOUS
    <3> QED  BY <2>4, <3>1, FS_AddElement
  <2> QED  BY <2>5
<1>2. Valid # Zero
  <2>1. Valid = Zero => Special = {Valid, Torn, Foreign, Nothing}
    BY DEF Special
  <2> QED  BY <2>1, <1>1, CellAssumption
<1>3. Valid # Torn
  <2>1. Valid = Torn => Special = {Zero, Valid, Foreign, Nothing}
    BY DEF Special
  <2> QED  BY <2>1, <1>1, CellAssumption
<1>4. Foreign \notin Record /\ Valid \notin Record /\ Nothing \notin Record
  BY CellAssumption DEF Special
<1> QED  BY <1>2, <1>3, <1>4

(* compare_sequence orders records as their numbers are ordered, also      *)
(* across the wrap of the sequence.                                        *)
LEMMA SequenceOrder ==
    ASSUME NEW a, NEW b, a[1] \in Record, b[1] \in Record
    PROVE  /\ Newer(a, b) <=> b[1].number < a[1].number
           /\ Conflict(a, b) <=> a[1].number = b[1].number /\ a[1] # b[1]
<1> DEFINE n == a[1].number
           k == b[1].number
           d == Difference(Sequence(a[1]), Sequence(b[1]))
<1>1. n \in 0 .. MaxNumber /\ k \in 0 .. MaxNumber
  BY DEF Record
<1>2. d = IF n >= k THEN n - k ELSE n - k + SeqModulus
  BY <1>1, SequenceAssumption DEF Difference, Sequence
<1> HIDE DEF n, k, d
<1>3. (d # 0 /\ 2 * d < SeqModulus) <=> k < n
  BY <1>1, <1>2, SequenceAssumption
<1>4. (d = 0 <=> n = k) /\ 2 * d # SeqModulus
  BY <1>1, <1>2, SequenceAssumption
<1>5. Newer(a, b) <=> d # 0 /\ 2 * d < SeqModulus
  BY DEF Newer, d
<1>6. Conflict(a, b) <=> (d = 0 /\ a[1] # b[1]) \/ 2 * d = SeqModulus
  BY DEF Conflict, d
<1> QED  BY <1>3, <1>4, <1>5, <1>6 DEF n, k

(* ab_slot_select selects a slot with a record, and none has a greater     *)
(* number.                                                                 *)
LEMMA SelectedIsGreatest ==
    ASSUME NEW m
    PROVE  /\ Selected(m) \in Slots \union {Nothing}
           /\ Selected(m) \in Slots => HasRecord(m[Selected(m)])
           /\ ~HasConflict(m) => \A s \in Slots : HasRecord(m[s]) =>
                 /\ Selected(m) \in Slots
                 /\ m[s][1].number <= m[Selected(m)][1].number
<1>1. Selected(m) \in Slots \union {Nothing}
  BY DEF Selected, Slots
<1>2. Selected(m) \in Slots => HasRecord(m[Selected(m)])
  BY SlotAssumption DEF Selected, Slots
<1>3. ASSUME ~HasConflict(m), NEW s \in Slots, HasRecord(m[s])
      PROVE  /\ Selected(m) \in Slots
             /\ m[s][1].number <= m[Selected(m)][1].number
  <2>1. m[s][1].number \in Int
    BY <1>3 DEF HasRecord, Record
  <2>2. CASE ~HasRecord(m[0]) \/ ~HasRecord(m[1])
    BY <1>3, <2>1, <2>2 DEF Selected, Slots
  <2>3. CASE HasRecord(m[0]) /\ HasRecord(m[1])
    <3>1. m[0][1] \in Record /\ m[1][1] \in Record /\ ~Conflict(m[0], m[1])
      BY <1>3, <2>3 DEF HasRecord, HasConflict
    <3>2. Selected(m) = IF Newer(m[0], m[1]) \/ m[0][1] = m[1][1] THEN 0 ELSE 1
      BY <2>3, <3>1 DEF Selected
    <3>3. m[0][1].number \in Int /\ m[1][1].number \in Int
      BY <3>1 DEF Record
    <3> QED  BY <3>1, <3>2, <3>3, SequenceOrder DEF Slots
  <2> QED  BY <2>2, <2>3
<1> QED  BY <1>1, <1>2, <1>3

(* Invalidating or tearing the slot that is not current changes nothing    *)
(* that a restore sees.                                                    *)
LEMMA EraseKeepsCurrent ==
    ASSUME NEW m, NEW n, NEW t \in Slots, Selected(m) # t, ~HasConflict(m),
           n[Other(t)] = m[Other(t)], ~HasRecord(n[t])
    PROVE  Selected(n) = Selected(m) /\ Current(n) = Current(m) /\ ~HasConflict(n)
<1>1. CASE t = 0
  <2>1. n[1] = m[1] /\ ~HasRecord(n[0])
    BY <1>1 DEF Other
  <2>2. HasRecord(m[1]) => Selected(m) = 1
    BY <1>1, SelectedIsGreatest DEF Slots
  <2>3. ~HasRecord(m[1]) => Selected(m) = Nothing
    BY <1>1 DEF Selected
  <2>4. Selected(n) = Selected(m)
    BY <2>1, <2>2, <2>3 DEF Selected
  <2> QED  BY <2>1, <2>2, <2>3, <2>4, SlotAssumption DEF Current, HasConflict, Slots
<1>2. CASE t = 1
  <2>1. n[0] = m[0] /\ ~HasRecord(n[1])
    BY <1>2 DEF Other
  <2>2. HasRecord(m[0]) => Selected(m) = 0
    BY <1>2, SelectedIsGreatest DEF Slots
  <2>3. ~HasRecord(m[0]) => Selected(m) = Nothing
    BY <1>2 DEF Selected
  <2>4. Selected(n) = Selected(m)
    BY <2>1, <2>2, <2>3 DEF Selected
  <2> QED  BY <2>1, <2>2, <2>3, <2>4, SlotAssumption DEF Current, HasConflict, Slots
<1> QED  BY <1>1, <1>2 DEF Slots

(* A sound slot above the other one is the current one.                    *)
LEMMA GreaterIsCurrent ==
    ASSUME NEW n, NEW t \in Slots, HasRecord(n[t]),
           HasRecord(n[Other(t)]) => n[Other(t)][1].number < n[t][1].number
    PROVE  Selected(n) = t /\ Current(n) = n[t][1] /\ ~HasConflict(n)
<1>1. Selected(n) = t /\ ~HasConflict(n)
  <2>1. CASE ~HasRecord(n[Other(t)])
    BY <2>1 DEF Selected, HasConflict, Slots, Other
  <2>2. CASE HasRecord(n[Other(t)])
    <3>1. /\ n[t][1] \in Record /\ n[Other(t)][1] \in Record
          /\ n[t][1].number \in Int /\ n[Other(t)][1].number \in Int
      BY <2>2 DEF HasRecord, Record
    <3>2. CASE t = 0
      <4>1. Newer(n[0], n[1]) /\ ~Conflict(n[0], n[1])
        BY <2>2, <3>1, <3>2, SequenceOrder DEF Other
      <4> QED  BY <2>2, <3>2, <4>1 DEF Selected, HasConflict, Other
    <3>3. CASE t = 1
      <4>1. ~Newer(n[0], n[1]) /\ ~Conflict(n[0], n[1]) /\ n[0][1] # n[1][1]
        BY <2>2, <3>1, <3>3, SequenceOrder DEF Other
      <4> QED  BY <2>2, <3>3, <4>1 DEF Selected, HasConflict, Other
    <3> QED  BY <3>2, <3>3 DEF Slots
  <2> QED  BY <2>1, <2>2
<1> QED  BY <1>1, SlotAssumption DEF Current

-----------------------------------------------------------------------------
(* The inductive invariant.                                                *)

Below(r, q) == r.number < q.number /\ r.version < q.version

CommitOver == {"COMPLETE", "FAILED"}
RestoreOver == {"RESTORE_COMPLETE", "RESTORE_FAILED"}

\* States in which the target slot is being rewritten: from the choice of the
\* target until the commit byte may have reached the medium.
Rewriting ==
    \/ state \in {"INVALIDATE", "VERIFY_INVALIDATE", "CHECK_INVALIDATE",
                  "WRITE_BODY", "READBACK_BODY", "VERIFY_BODY"}
    \/ state = "COMMIT" /\ io \in {"none", "pending"}

\* From then on the target may hold the candidate.
MayHaveLanded ==
    \/ state = "COMMIT" /\ io \in {"ok", "error"}
    \/ state \in {"VERIFY_COMMIT", "CHECK_COMMIT"}

(* The port executes nothing but the transfer the state asks for.          *)
PortMatches ==
    /\ port # Nothing => io = "pending" /\ port = [Operation EXCEPT !.token = token]
    /\ io # "none" => Operation # Nothing

(* Who owns what: the mailboxes and the owner follow the state.            *)
Phases ==
    /\ reply # Nothing => state \in CommitOver
    /\ restored # Nothing => state \in RestoreOver
    /\ pending # Nothing => state \in CommitStates \union CommitOver
    /\ state \in CommitStates => candidate \in Record
    /\ state \in CommitStates \union CommitOver => owner = "ready"
    /\ owner = "restoring" <=> state \in RestoreStates

(* Later submissions are above earlier ones, in number and in version.     *)
Ages ==
    /\ \A s \in Slots : HasRecord(media[s]) =>
          /\ media[s][1].version <= lastVersion
          /\ owner = "ready" => media[s][1].number <= lastNumber
          /\ pending # Nothing => Below(media[s][1], pending)
    /\ pending # Nothing =>
          pending.number <= lastNumber /\ pending.version <= lastVersion
    /\ state \in CommitStates =>
          /\ candidate.number <= lastNumber /\ candidate.version <= lastVersion
          /\ pending # Nothing => Below(candidate, pending)
          /\ \A s \in Slots : HasRecord(media[s]) =>
                Below(media[s][1], candidate) \/ (MayHaveLanded /\ s = target)

(* The scan buffers hold what is on the medium when they are used.         *)
ScannedA ==
    \/ state \in {"SCAN_B", "PREPARE_TARGET", "RESTORE_SCAN_B", "RESTORE_DECODE"}
    \/ state \in {"SCAN_A", "RESTORE_SCAN_A"} /\ io = "ok"
ScannedB ==
    \/ state \in {"PREPARE_TARGET", "RESTORE_DECODE"}
    \/ state \in {"SCAN_B", "RESTORE_SCAN_B"} /\ io = "ok"

ScanMatches ==
    /\ ScannedA => scan[0] = media[0]
    /\ ScannedB => scan[1] = media[1]

(* The slot being rewritten is neither current nor of another schema.      *)
TargetIsFree ==
    Rewriting => /\ target \in Slots
                 /\ target # Selected(media)
                 /\ ~IsForeign(media[target])

(* It is invalid while its body is written, and complete when it is made   *)
(* valid again.                                                            *)
CommitByteRead ==
    \/ state \in {"VERIFY_INVALIDATE", "VERIFY_COMMIT"} /\ io = "ok"
    \/ state \in {"CHECK_INVALIDATE", "CHECK_COMMIT"}
Unsealed ==
    \/ state \in {"WRITE_BODY", "READBACK_BODY", "VERIFY_BODY"}
    \/ state = "COMMIT" /\ io \in {"none", "pending"}

BodyIsInvalid ==
    /\ CommitByteRead => ioByte = media[target][Commit]
    /\ Unsealed => media[target][Commit] # Valid

BodyIsVerified ==
    /\ state = "READBACK_BODY" =>
          \A i \in Chunks : i <= offset \/ (i = offset + 1 /\ io = "ok")
                               => readback[i] = media[target][i]
    /\ state = "VERIFY_BODY" =>
          \A i \in Chunks : readback[i] = media[target][i]
    /\ state \in {"COMMIT", "VERIFY_COMMIT", "CHECK_COMMIT"} =>
          /\ target \in Slots
          /\ \A i \in Chunks : media[target][i] = candidate

(* A restored view is what is stored.                                      *)
ViewMatches ==
    restored # Nothing =>
        /\ restored.status = "OK" => Stored # Nothing /\ restored.record = Stored
        /\ restored.status \in {"EMPTY", "UNSUPPORTED_SCHEMA", "CORRUPT"}
              => Stored = Nothing

Inv ==
    /\ TypeOK
    /\ PortMatches
    /\ Phases
    /\ Ages
    /\ NeverConflicting
    /\ AckedIsDurable
    /\ ViewMatches
    /\ ScanMatches
    /\ TargetIsFree
    /\ BodyIsInvalid
    /\ BodyIsVerified
-----------------------------------------------------------------------------
(* What the port executes, and what it may leave on the medium.            *)

LEMMA PortExecutes ==
    ASSUME TypeOK, PortMatches, port # Nothing
    PROVE  /\ io = "pending" /\ port.token = token
           /\ \/ /\ state \in {"SCAN_A", "RESTORE_SCAN_A"}
                 /\ port.slot = 0 /\ port.part = Image /\ ~port.write
              \/ /\ state \in {"SCAN_B", "RESTORE_SCAN_B"}
                 /\ port.slot = 1 /\ port.part = Image /\ ~port.write
              \/ /\ state = "INVALIDATE" /\ port.slot = target
                 /\ port.part = Commit /\ port.write /\ port.value = Zero
              \/ /\ state \in {"VERIFY_INVALIDATE", "VERIFY_COMMIT"}
                 /\ port.slot = target /\ port.part = Commit /\ ~port.write
              \/ /\ state = "WRITE_BODY" /\ offset < NChunks /\ port.slot = target
                 /\ port.part = offset + 1 /\ port.write /\ port.value = candidate
              \/ /\ state = "READBACK_BODY" /\ offset < NChunks
                 /\ port.slot = target /\ port.part = offset + 1 /\ ~port.write
              \/ /\ state = "COMMIT" /\ port.slot = target
                 /\ port.part = Commit /\ port.write /\ port.value = Valid
<1>1. io = "pending" /\ port = [Operation EXCEPT !.token = token]
  BY DEF PortMatches
<1>2. Operation # Nothing
  BY <1>1 DEF PortMatches
<1> QED  BY <1>1, <1>2 DEF Operation, Read, Write, NoOperation

(* The states of a commit in which a transfer may be written.              *)
LEMMA WriteStates ==
    ASSUME TypeOK, PortMatches, port # Nothing, port.write
    PROVE  /\ state \in {"INVALIDATE", "WRITE_BODY", "COMMIT"}
           /\ Rewriting /\ ~MayHaveLanded /\ state \in CommitStates
BY PortExecutes DEF Rewriting, MayHaveLanded, CommitStates

(* A write touches the target slot only, and leaves it invalid unless it   *)
(* is the commit byte that lands on a complete body.                       *)
LEMMA WriteLeaves ==
    ASSUME TypeOK, PortMatches, Phases, TargetIsFree, BodyIsInvalid,
           BodyIsVerified, port # Nothing, port.write,
           NEW v \in {Torn, port.value}
    PROVE  /\ Written(v) \in [Slots -> SlotImage]
           /\ target \in Slots
           /\ Written(v)[Other(target)] = media[Other(target)]
           /\ state # "WRITE_BODY" =>
                 \A i \in Chunks : Written(v)[target][i] = media[target][i]
           /\ state = "WRITE_BODY" =>
                 Written(v)[target][Commit] = media[target][Commit]
           /\ \/ Written(v)[target][Commit] # Valid
              \/ state = "COMMIT" /\ Written(v)[target][Commit] = Valid
<1> DEFINE n == Written(v)
<1>1. /\ target \in Slots /\ port.slot = target /\ port.part \in 0 .. NChunks
      /\ v \in Cells
      /\ state = "WRITE_BODY" => port.part \in Chunks
      /\ state # "WRITE_BODY" => port.part = Commit
      /\ state = "INVALIDATE" => v \in {Torn, Zero}
      /\ state \in {"INVALIDATE", "WRITE_BODY", "COMMIT"}
  <2>1. target \in Slots
    BY WriteStates DEF TargetIsFree
  <2>2. candidate \in Record
    BY WriteStates DEF Phases
  <2>3. offset \in 0 .. NChunks /\ NChunks \in Nat \ {0}
    BY GeometryAssumption DEF TypeOK, ServiceTypeOK
  <2> QED  BY <2>1, <2>2, <2>3, PortExecutes, WriteStates
             DEF Chunks, Commit, Cells
<1>2. media \in [Slots -> SlotImage] /\ media[target] \in SlotImage
  BY <1>1 DEF TypeOK, ServiceTypeOK
<1>3. n = [media EXCEPT ![target] = [media[target] EXCEPT ![port.part] = v]]
  BY <1>1, <1>2 DEF Written
<1>4. [media[target] EXCEPT ![port.part] = v] \in SlotImage
  BY <1>1, <1>2 DEF SlotImage
<1>5. n[target] = [media[target] EXCEPT ![port.part] = v]
  BY <1>1, <1>2, <1>3
<1>6. n \in [Slots -> SlotImage]
  BY <1>1, <1>2, <1>3, <1>4
<1>7. n[Other(target)] = media[Other(target)]
  BY <1>1, <1>2, <1>3 DEF Slots, Other
<1>8. state # "WRITE_BODY" => \A i \in Chunks : n[target][i] = media[target][i]
  BY <1>1, <1>2, <1>5 DEF SlotImage, Chunks, Commit
<1>9. state = "WRITE_BODY" => n[target][Commit] = media[target][Commit]
  BY <1>1, <1>2, <1>5, GeometryAssumption DEF SlotImage, Chunks, Commit
<1>10. n[target][Commit] # Valid \/ state = "COMMIT"
  <2>1. CASE state = "WRITE_BODY"
    BY <2>1, <1>9 DEF BodyIsInvalid, Unsealed
  <2>2. CASE state = "INVALIDATE"
    BY <2>2, <1>1, <1>2, <1>5, CellsDiffer DEF SlotImage
  <2> QED  BY <1>1, <2>1, <2>2
<1> HIDE DEF n
<1>11. /\ n \in [Slots -> SlotImage] /\ target \in Slots
       /\ n[Other(target)] = media[Other(target)]
       /\ state # "WRITE_BODY" => \A i \in Chunks : n[target][i] = media[target][i]
       /\ state = "WRITE_BODY" => n[target][Commit] = media[target][Commit]
       /\ n[target][Commit] # Valid \/ (state = "COMMIT" /\ n[target][Commit] = Valid)
  BY <1>1, <1>6, <1>7, <1>8, <1>9, <1>10
<1> QED  BY <1>11 DEF n

(* What an interrupted or completed transfer may leave on the medium.      *)
LEMMA MediumAfter ==
    ASSUME TypeOK, PortMatches, Phases, Ages, NeverConflicting, TargetIsFree,
           BodyIsInvalid, BodyIsVerified, NEW n \in Interrupted
    PROVE  /\ n \in [Slots -> SlotImage] /\ ~HasConflict(n)
           /\ \A s \in Slots :
                 \/ n[s] = media[s]
                 \/ /\ port # Nothing /\ port.write /\ s = target
                    /\ s # Selected(media) /\ ~IsForeign(media[s])
           /\ \A s \in Slots : HasRecord(n[s]) =>
                 \/ HasRecord(media[s]) /\ n[s] = media[s]
                 \/ state = "COMMIT" /\ s = target /\ n[s][1] = candidate
           /\ \/ Current(n) = Current(media) /\ Selected(n) = Selected(media)
              \/ /\ state = "COMMIT" /\ port # Nothing /\ port.write
                 /\ Current(n) = candidate /\ Selected(n) = target
           /\ port # Nothing /\ port.write =>
                 /\ target \in Slots
                 /\ state # "COMMIT" => /\ ~Intact(n[target]) \/ n = media
                                        /\ Selected(n) = Selected(media)
                 /\ state = "COMMIT" => \A i \in Chunks : n[target][i] = candidate
                 /\ state = "WRITE_BODY" =>
                       n[target][Commit] = media[target][Commit]
<1>1. CASE n = media
  <2>1. port # Nothing /\ port.write => target \in Slots
    BY WriteStates DEF TargetIsFree
  <2>2. port # Nothing /\ port.write /\ state = "COMMIT"
           => \A i \in Chunks : n[target][i] = candidate
    BY <1>1 DEF BodyIsVerified
  <2> QED  BY <1>1, <2>1, <2>2 DEF TypeOK, ServiceTypeOK, NeverConflicting
<1>2. CASE n # media
  <2>1. port # Nothing /\ port.write /\ n \in {Written(Torn), Written(port.value)}
    BY <1>2 DEF Interrupted
  <2>2. /\ n \in [Slots -> SlotImage] /\ target \in Slots
        /\ n[Other(target)] = media[Other(target)]
        /\ state # "WRITE_BODY" => \A i \in Chunks : n[target][i] = media[target][i]
        /\ state = "WRITE_BODY" => n[target][Commit] = media[target][Commit]
        /\ \/ n[target][Commit] # Valid
           \/ state = "COMMIT" /\ n[target][Commit] = Valid
    BY <2>1, WriteLeaves
  <2>3. target # Selected(media) /\ ~IsForeign(media[target])
    BY <2>1, WriteStates DEF TargetIsFree
  <2>4. candidate \in Record /\ state \in CommitStates /\ ~MayHaveLanded
    BY <2>1, WriteStates DEF Phases
  <2>5. \A s \in Slots : s = target \/ n[s] = media[s]
    BY <2>2 DEF Slots, Other
  <2>6. state = "COMMIT" => \A i \in Chunks : n[target][i] = candidate
    BY <2>2 DEF BodyIsVerified
  <2>7. CASE n[target][Commit] # Valid
    <3>1. ~Intact(n[target]) /\ ~HasRecord(n[target])
      BY <2>7 DEF Intact, HasRecord
    <3>2. Selected(n) = Selected(media) /\ Current(n) = Current(media)
             /\ ~HasConflict(n)
      BY <2>2, <2>3, <3>1, EraseKeepsCurrent DEF NeverConflicting
    <3> QED  BY <2>1, <2>2, <2>3, <2>5, <2>6, <3>1, <3>2
  <2>8. CASE state = "COMMIT" /\ n[target][Commit] = Valid
    <3>1. 1 \in Chunks
      BY GeometryAssumption DEF Chunks
    <3>2. n[target][1] = candidate /\ HasRecord(n[target])
      BY <2>4, <2>6, <2>8, <3>1 DEF Intact, HasRecord
    <3>3. HasRecord(n[Other(target)])
             => n[Other(target)][1].number < n[target][1].number
      <4>1. Other(target) \in Slots
        BY <2>2 DEF Slots, Other
      <4> QED  BY <2>2, <2>4, <3>2, <4>1 DEF Ages, Below
    <3>4. Selected(n) = target /\ Current(n) = candidate /\ ~HasConflict(n)
      BY <2>2, <3>2, <3>3, GreaterIsCurrent
    <3> QED  BY <2>1, <2>2, <2>3, <2>5, <2>6, <2>8, <3>2, <3>4
  <2> QED  BY <2>2, <2>7, <2>8
<1> QED  BY <1>1, <1>2

-----------------------------------------------------------------------------
(* The tails that several handlers share.                                  *)

(* Between a commit and the next, and during no restore, nothing is owed   *)
(* to the buffers.                                                         *)
LEMMA QuietStates ==
    ASSUME state' \in CommitOver \union RestoreOver \union {"IDLE"}
    PROVE  (ScanMatches /\ TargetIsFree /\ BodyIsInvalid /\ BodyIsVerified)'
BY DEF CommitOver, RestoreOver, ScanMatches, ScannedA, ScannedB, TargetIsFree,
       Rewriting, BodyIsInvalid, CommitByteRead, Unsealed, BodyIsVerified

(* finish_commit, wherever it is called from.                              *)
LEMMA FinishKeeps ==
    ASSUME Inv, state \in CommitStates, port = Nothing,
           NEW status \in CommitStatuses, FinishCommit(status),
           status = "OK" => Stored = candidate,
           io' = "none", port' = port,
           UNCHANGED <<media, candidate, readback, scan, pending, restored,
                       crashes, ownerVars>>,
           target' \in Slots \union {Nothing}, offset' \in 0 .. NChunks,
           ioByte' \in Cells, token' \in {0, 1}, faults' \in 0 .. MaxFaults
    PROVE  Inv'
<1>1. candidate \in Record /\ restored = Nothing
  BY DEF Inv, Phases, CommitStates, RestoreOver
<1>2. reply' = [record |-> candidate, status |-> status] /\ state' \in CommitOver
  BY DEF FinishCommit, CommitOver
<1>3. TypeOK'
  <2>1. reply' \in [record : Record, status : CommitStatuses]
    BY <1>1, <1>2
  <2> QED  BY <1>2, <2>1 DEF Inv, TypeOK, ServiceTypeOK, CommitOver, TerminalStates,
                             ownerVars
<1>4. PortMatches'
  BY DEF PortMatches
<1>5. Phases'
  BY <1>1, <1>2 DEF Inv, Phases, CommitStates, CommitOver, RestoreOver,
                    RestoreStates, ownerVars
<1>6. Ages'
  BY <1>2 DEF Inv, Ages, CommitOver, CommitStates, ownerVars
<1>7. NeverConflicting'
  BY DEF Inv, NeverConflicting
<1>8. AckedIsDurable'
  BY <1>2 DEF Inv, AckedIsDurable, Stored, ownerVars
<1>9. ViewMatches'
  BY <1>1 DEF ViewMatches
<1> QED  BY <1>2, <1>3, <1>4, <1>5, <1>6, <1>7, <1>8, <1>9, QuietStates DEF Inv

(* fail_io in a restore.                                                   *)
LEMMA RestoreFailsKeeps ==
    ASSUME Inv, state \in RestoreStates \ RestoreOver, port = Nothing, FailIo,
           io' = "none", port' = port,
           UNCHANGED <<media, candidate, readback, scan, pending, crashes,
                       ownerVars, target, offset>>,
           ioByte' \in Cells, token' \in {0, 1}, faults' \in 0 .. MaxFaults
    PROVE  Inv'
<1>1. /\ restored' = [status |-> "IO_ERROR", record |-> Nothing]
      /\ state' = "RESTORE_FAILED" /\ reply' = reply
  BY DEF FailIo
<1>2. TypeOK'
  <2>1. restored' \in [status : RestoreStatuses, record : Record \union {Nothing}]
    BY <1>1 DEF RestoreStatuses
  <2> QED  BY <1>1, <2>1 DEF Inv, TypeOK, ServiceTypeOK, RestoreStates, ownerVars
<1>3. PortMatches'
  BY DEF PortMatches
<1>4. Phases'
  BY <1>1 DEF Inv, Phases, CommitStates, CommitOver, RestoreOver, RestoreStates,
              ownerVars
<1>5. Ages'
  BY <1>1 DEF Inv, Ages, CommitStates, ownerVars
<1>6. NeverConflicting'
  BY DEF Inv, NeverConflicting
<1>7. AckedIsDurable'
  BY <1>1 DEF Inv, AckedIsDurable, Stored, ownerVars
<1>8. ViewMatches'
  BY <1>1 DEF ViewMatches
<1> QED  BY <1>1, <1>2, <1>3, <1>4, <1>5, <1>6, <1>7, <1>8, QuietStates
         DEF Inv, RestoreOver

(* prepare_active_candidate, for a record above all that came before.      *)
LEMMA PrepareKeeps ==
    ASSUME Inv, state \in TerminalStates, reply = Nothing, owner = "ready",
           io = "none", port = Nothing,
           NEW r \in Record, PrepareCandidate(r), UNCHANGED <<faults, crashes, owner, acked>>,
           lastNumber' \in 0 .. MaxNumber, lastVersion' \in 0 .. MaxVersion,
           lastNumber <= lastNumber', lastVersion <= lastVersion',
           r.number <= lastNumber', r.version <= lastVersion',
           \A s \in Slots : HasRecord(media[s]) => Below(media[s][1], r)
    PROVE  Inv'
<1>1. /\ candidate' = r /\ state' = "SCAN_A" /\ offset' = 0 /\ pending' = Nothing
      /\ readback' = [i \in Chunks |-> Zero]
      /\ scan' = [s \in Slots |-> [i \in 0 .. NChunks |-> Zero]]
      /\ UNCHANGED <<target, ioByte, io, token, reply, restored, port, media>>
  BY DEF PrepareCandidate
<1>2. TypeOK'
  <2>1. readback' \in [Chunks -> Cells] /\ scan' \in [Slots -> SlotImage]
    BY <1>1 DEF Cells, SlotImage
  <2>2. offset' \in 0 .. NChunks
    BY <1>1, GeometryAssumption
  <2>3. state' \in CommitStates
    BY <1>1 DEF CommitStates
  <2> QED  BY <1>1, <2>1, <2>2, <2>3 DEF Inv, TypeOK, ServiceTypeOK
<1>3. PortMatches'
  BY <1>1 DEF PortMatches
<1>4. Phases'
  BY <1>1 DEF Inv, Phases, TerminalStates, CommitStates, CommitOver, RestoreOver,
              RestoreStates
<1>5. Ages'
  <2>1. \A s \in Slots : HasRecord(media[s]) =>
           media[s][1].version <= lastVersion' /\ media[s][1].number <= lastNumber'
    <3>1. ASSUME NEW s \in Slots, HasRecord(media[s])
          PROVE  media[s][1].version <= lastVersion' /\ media[s][1].number <= lastNumber'
      <4>1. media[s][1].number \in Int /\ media[s][1].version \in Int
               /\ r.number \in Int /\ r.version \in Int
        BY <3>1 DEF HasRecord, Record
      <4> QED  BY <3>1, <4>1 DEF Below
    <3> QED  BY <3>1
  <2> QED  BY <1>1, <2>1 DEF Ages
<1>6. NeverConflicting'
  BY <1>1 DEF Inv, NeverConflicting
<1>7. AckedIsDurable'
  BY <1>1 DEF Inv, AckedIsDurable, Stored
<1>8. ViewMatches'
  BY <1>1 DEF Inv, ViewMatches, Phases, TerminalStates, RestoreOver
<1>9. ScanMatches' /\ TargetIsFree' /\ BodyIsInvalid' /\ BodyIsVerified'
  BY <1>1 DEF ScanMatches, ScannedA, ScannedB, TargetIsFree, Rewriting,
              BodyIsInvalid, CommitByteRead, Unsealed, BodyIsVerified
<1> QED  BY <1>2, <1>3, <1>4, <1>5, <1>6, <1>7, <1>8, <1>9 DEF Inv

(* What is stored changes to the candidate only, which is above it: an     *)
(* acknowledged version stays covered.                                     *)
LEMMA StoredGrows ==
    ASSUME TypeOK, PortMatches, Phases, Ages, NeverConflicting, TargetIsFree,
           BodyIsInvalid, BodyIsVerified, AckedIsDurable, media' \in Interrupted
    PROVE  acked # Nothing => Stored' # Nothing /\ Stored'.version >= acked
<1>1. \/ Stored' = Stored
      \/ Stored' = candidate /\ state = "COMMIT" /\ port # Nothing
  <2>1. \/ Current(media') = Current(media)
        \/ state = "COMMIT" /\ port # Nothing /\ Current(media') = candidate
    BY MediumAfter
  <2> QED  BY <2>1 DEF Stored
<1>2. CASE Stored' = Stored
  BY <1>2 DEF AckedIsDurable
<1>3. CASE Stored' = candidate /\ state = "COMMIT" /\ port # Nothing
  <2>1. candidate \in Record /\ candidate # Nothing
    BY <1>3, CellsDiffer DEF Phases, CommitStates
  <2>2. ASSUME acked # Nothing
        PROVE  candidate.version >= acked
    <3>1. Stored # Nothing /\ Stored.version >= acked
      BY <2>2 DEF AckedIsDurable
    <3>2. PICK s \in Slots : HasRecord(media[s]) /\ Stored = media[s][1]
      BY <3>1, SelectedIsGreatest DEF Stored, Current
    <3>3. Below(Stored, candidate)
      BY <1>3, <3>2, PortExecutes DEF Ages, CommitStates, MayHaveLanded
    <3>4. Stored \in Record /\ acked \in Int
      BY <2>2, <3>2 DEF HasRecord, TypeOK
    <3>5. Stored.version \in Int /\ candidate.version \in Int
      BY <2>1, <3>4 DEF Record
    <3> QED  BY <3>1, <3>3, <3>4, <3>5 DEF Below
  <2> QED  BY <1>3, <2>1, <2>2
<1> QED  BY <1>1, <1>2, <1>3

(* The end of a transfer that may have changed the medium.                 *)
LEMMA WrittenKeeps ==
    ASSUME Inv, port # Nothing, media' \in Interrupted, port' = Nothing,
           port.write \/ media' = media, io' = "error" \/ (io' = "ok" /\ port.write),
           UNCHANGED <<state, candidate, target, offset, readback, scan, ioByte,
                       token, mailboxes, crashes, ownerVars>>,
           faults' \in 0 .. MaxFaults
    PROVE  Inv'
<1>1. TypeOK /\ PortMatches /\ Phases /\ Ages /\ NeverConflicting /\ AckedIsDurable
         /\ TargetIsFree /\ BodyIsInvalid /\ BodyIsVerified
  BY DEF Inv
<1>2. UNCHANGED <<pending, reply, restored, owner, lastNumber, lastVersion, acked>>
  BY DEF mailboxes, ownerVars
<1>3. /\ reply = Nothing /\ restored = Nothing /\ state \notin CommitOver
  BY <1>1, PortExecutes DEF Phases, CommitOver, RestoreOver
<1>4. TypeOK'
  <2>1. media' \in [Slots -> SlotImage]
    BY <1>1, MediumAfter
  <2> QED  BY <1>1, <1>2, <2>1 DEF TypeOK, ServiceTypeOK
<1>5. PortMatches'
  <2>1. Operation' = Operation /\ Operation # Nothing
    BY <1>1, PortExecutes DEF PortMatches, Operation, Read, Write, NoOperation
  <2> QED  BY <2>1 DEF PortMatches
<1>6. Phases'
  BY <1>1, <1>2 DEF Phases
<1>7. Ages'
  <2>1. state = "COMMIT" => MayHaveLanded' /\ state \in CommitStates
    BY DEF MayHaveLanded, CommitStates
  <2>2. MayHaveLanded => MayHaveLanded'
    BY DEF MayHaveLanded
  <2>3. \A s \in Slots : HasRecord(media'[s]) =>
                 \/ HasRecord(media[s]) /\ media'[s] = media[s]
                 \/ state = "COMMIT" /\ s = target /\ media'[s][1] = candidate
    BY <1>1, MediumAfter
  <2> QED  BY <1>1, <1>2, <2>1, <2>2, <2>3 DEF Ages
<1>8. NeverConflicting'
  BY <1>1, MediumAfter DEF NeverConflicting
<1>9. AckedIsDurable'
  BY <1>1, <1>2, <1>3, StoredGrows DEF AckedIsDurable
<1>10. ViewMatches'
  BY <1>2, <1>3 DEF ViewMatches
<1>11. ScanMatches'
  <2>1. CASE media' = media
    <3>1. ScannedA' => ScannedA \/ io' = "ok"
      BY DEF ScannedA
    <3> QED  BY <1>1, <2>1, PortExecutes
             DEF Inv, ScanMatches, ScannedA, ScannedB
  <2>2. CASE media' # media
    BY <1>1, <2>2, WriteStates DEF ScanMatches, ScannedA, ScannedB
  <2> QED  BY <2>1, <2>2
<1>12. TargetIsFree'
  <2>1. CASE media' = media
    BY <1>1, <2>1, PortExecutes DEF TargetIsFree, Rewriting
  <2>2. CASE media' # media /\ state = "COMMIT"
    BY <2>2 DEF TargetIsFree, Rewriting
  <2>3. CASE media' # media /\ state # "COMMIT"
    <3>1. /\ target \in Slots /\ ~Intact(media'[target])
          /\ Selected(media') = Selected(media)
      BY <1>1, <2>3, MediumAfter
    <3>2. target # Selected(media)
      BY <1>1, <2>3, WriteStates DEF TargetIsFree
    <3> QED  BY <3>1, <3>2 DEF TargetIsFree, IsForeign
  <2> QED  BY <2>1, <2>2, <2>3
<1>13. BodyIsInvalid'
  <2>1. CASE media' = media
    BY <1>1, <2>1, PortExecutes DEF BodyIsInvalid, CommitByteRead, Unsealed
  <2>2. CASE media' # media
    <3>1. state \in {"INVALIDATE", "WRITE_BODY", "COMMIT"}
      BY <1>1, <2>2, WriteStates
    <3>2. state = "WRITE_BODY" => media'[target][Commit] = media[target][Commit]
      BY <1>1, <2>2, MediumAfter
    <3> QED  BY <1>1, <3>1, <3>2 DEF BodyIsInvalid, CommitByteRead, Unsealed
  <2> QED  BY <2>1, <2>2
<1>14. BodyIsVerified'
  <2>1. CASE media' = media
    BY <1>1, <2>1, PortExecutes DEF BodyIsVerified
  <2>2. CASE media' # media
    <3>1. /\ state \in {"INVALIDATE", "WRITE_BODY", "COMMIT"} /\ target \in Slots
          /\ state = "COMMIT" => \A i \in Chunks : media'[target][i] = candidate
      BY <1>1, <2>2, WriteStates, MediumAfter
    <3> QED  BY <3>1 DEF BodyIsVerified
  <2> QED  BY <2>1, <2>2
<1> QED  BY <1>4, <1>5, <1>6, <1>7, <1>8, <1>9, <1>10, <1>11, <1>12, <1>13, <1>14
         DEF Inv

-----------------------------------------------------------------------------
(* Every action keeps the invariant: StorageService_Tick.                  *)

(* A transfer is wanted in some states only.                               *)
LEMMA TransferStates ==
    ASSUME Operation # Nothing
    PROVE  /\ state \in (CommitStates \union RestoreStates) \ RestoreOver
           /\ state \notin {"PREPARE_TARGET", "CHECK_INVALIDATE", "VERIFY_BODY",
                            "CHECK_COMMIT", "RESTORE_DECODE"}
           /\ state \in {"WRITE_BODY", "READBACK_BODY"} => offset < NChunks
BY DEF Operation, CommitStates, RestoreStates, RestoreOver

LEMMA ConsumeKeeps ==
    ASSUME Inv, ConsumeCompletion, UNCHANGED ownerVars
    PROVE  Inv'
<1>1. TypeOK /\ PortMatches /\ Phases /\ port = Nothing /\ Operation # Nothing
  BY DEF Inv, PortMatches, ConsumeCompletion
<1>2. /\ io' = "none"
      /\ UNCHANGED <<media, candidate, target, readback, scan, ioByte, token,
                     pending, port, faults, crashes>>
  BY DEF ConsumeCompletion
<1>3. CASE io = "error"
  <2>1. FailIo /\ UNCHANGED offset
    BY <1>3 DEF ConsumeCompletion
  <2>2. CASE state \in RestoreStates
    BY <1>1, <1>2, <2>1, <2>2, TransferStates, RestoreFailsKeeps
       DEF TypeOK, ServiceTypeOK
  <2>3. CASE state \notin RestoreStates
    <3>1. FinishCommit("IO_ERROR") /\ UNCHANGED restored
      BY <2>1, <2>3 DEF FailIo
    <3>2. state \in CommitStates /\ "IO_ERROR" \in CommitStatuses
      BY <1>1, <2>3, TransferStates DEF CommitStatuses
    <3> QED  BY <1>1, <1>2, <2>1, <3>1, <3>2, FinishKeeps DEF TypeOK, ServiceTypeOK
  <2> QED  BY <2>2, <2>3
<1>4. CASE io = "ok"
  <2>1. /\ state' = SuccessState /\ UNCHANGED <<reply, restored>>
        /\ offset' = IF state \in {"WRITE_BODY", "READBACK_BODY"}
                     THEN offset + 1 ELSE offset
    BY <1>4 DEF ConsumeCompletion
  <2>2. /\ state \in CommitStates => state' \in CommitStates
        /\ state \in RestoreStates => state' \in RestoreStates
        /\ state \in CommitStates \union RestoreStates
        /\ state \notin RestoreOver
    BY <1>1, <2>1, TransferStates DEF SuccessState, CommitStates, RestoreStates
  <2>3. TypeOK'
    <3>1. offset' \in 0 .. NChunks
      BY <1>1, <2>1, TransferStates, GeometryAssumption DEF TypeOK, ServiceTypeOK
    <3> QED  BY <1>1, <1>2, <2>1, <2>2, <3>1 DEF TypeOK, ServiceTypeOK, ownerVars
  <2>4. PortMatches'
    BY <1>1, <1>2 DEF PortMatches
  <2>5. Phases'
    BY <1>1, <1>2, <2>1, <2>2 DEF Phases, ownerVars, CommitStates, CommitOver,
       RestoreStates, RestoreOver
  <2>6. Ages'
    <3>1. MayHaveLanded => MayHaveLanded'
      BY <1>1, <1>2, <2>1, TransferStates DEF MayHaveLanded, SuccessState
    <3>2. state' \in CommitStates => state \in CommitStates
      BY <2>1, <2>2 DEF CommitStates, RestoreStates
    <3> QED  BY <1>2, <3>1, <3>2 DEF Inv, Ages, ownerVars
  <2>7. NeverConflicting'
    BY <1>2 DEF Inv, NeverConflicting
  <2>8. AckedIsDurable'
    BY <1>2, <2>1 DEF Inv, AckedIsDurable, Stored, ownerVars
  <2>9. ViewMatches'
    BY <1>2, <2>1 DEF Inv, ViewMatches, Stored
  <2>10. ScanMatches'
    BY <1>1, <1>2, <1>4, <2>1 DEF Inv, ScanMatches, ScannedA, ScannedB, SuccessState
  <2>11. TargetIsFree'
    BY <1>1, <1>2, <1>4, <2>1, TransferStates
       DEF Inv, TargetIsFree, Rewriting, SuccessState
  <2>12. BodyIsInvalid'
    BY <1>1, <1>2, <1>4, <2>1, TransferStates
       DEF Inv, BodyIsInvalid, CommitByteRead, Unsealed, SuccessState
  <2>13. BodyIsVerified'
    <3>1. CASE state = "READBACK_BODY"
      <4>1. \A i \in Chunks : i <= offset' => readback'[i] = media'[target'][i]
        <5>1. offset' = offset + 1 /\ offset \in Int
          BY <1>1, <2>1, <3>1 DEF TypeOK, ServiceTypeOK
        <5>2. \A i \in Chunks : i <= offset + 1 => i <= offset \/ i = offset + 1
          BY <5>1 DEF Chunks
        <5> QED  BY <1>2, <1>4, <3>1, <5>1, <5>2 DEF Inv, BodyIsVerified
      <4> QED  BY <1>2, <2>1, <3>1, <4>1 DEF BodyIsVerified, SuccessState
    <3>2. CASE state # "READBACK_BODY"
      <4>1. state' # "READBACK_BODY" /\ state' # "VERIFY_BODY"
        BY <1>1, <2>1, <3>2, TransferStates DEF SuccessState
      <4>2. state' \in {"COMMIT", "VERIFY_COMMIT", "CHECK_COMMIT"}
               => state \in {"COMMIT", "VERIFY_COMMIT", "CHECK_COMMIT"}
        BY <2>1 DEF SuccessState
      <4> QED  BY <1>2, <4>1, <4>2 DEF Inv, BodyIsVerified
    <3> QED  BY <3>1, <3>2
  <2> QED  BY <2>3, <2>4, <2>5, <2>6, <2>7, <2>8, <2>9, <2>10, <2>11, <2>12, <2>13
           DEF Inv
<1> QED  BY <1>3, <1>4 DEF ConsumeCompletion

LEMMA SubmitIoKeeps ==
    ASSUME Inv, SubmitIo, UNCHANGED ownerVars
    PROVE  Inv'
<1>1. /\ io = "none" /\ Operation # Nothing /\ port = Nothing
      /\ port' = [Operation EXCEPT !.token = 1 - token]
      /\ token' = 1 - token /\ io' = "pending" /\ LoadIoByte
      /\ UNCHANGED <<media, state, candidate, target, offset, readback, scan,
                     pending, reply, restored, faults, crashes>>
  BY DEF SubmitIo, mailboxes
<1>2. UNCHANGED <<owner, lastNumber, lastVersion, acked>>
  BY DEF ownerVars
<1>3. TypeOK /\ Phases /\ state \in (CommitStates \union RestoreStates) \ RestoreOver
  BY <1>1, TransferStates DEF Inv
<1>4. TypeOK'
  <2>1. ioByte' \in Cells /\ token' \in {0, 1}
    BY <1>1, <1>3 DEF LoadIoByte, Cells, TypeOK, ServiceTypeOK
  <2>2. Operation \in Transfer
    <3>1. NChunks \in Nat \ {0} /\ offset \in 0 .. NChunks
      BY <1>3, GeometryAssumption DEF TypeOK, ServiceTypeOK
    <3>2. state = "WRITE_BODY" => candidate \in Record
      BY <1>3 DEF Phases, CommitStates
    <3>3. state \in {"INVALIDATE", "VERIFY_INVALIDATE", "VERIFY_COMMIT", "WRITE_BODY",
                     "READBACK_BODY", "COMMIT"} => target \in Slots
      BY DEF Inv, TargetIsFree, Rewriting, BodyIsVerified
    <3>4. ASSUME NEW s \in Slots, NEW p \in 0 .. NChunks + 1, NEW v \in Cells
          PROVE  Read(s, p) \in Transfer /\ Write(s, p, v) \in Transfer
      <4>1. NoOperation \in Transfer
        BY <3>1 DEF NoOperation, Transfer, Slots
      <4>2. [NoOperation EXCEPT !.slot = s] \in Transfer
        BY <4>1 DEF Transfer
      <4>3. Read(s, p) \in Transfer
        BY <4>2 DEF Read, Transfer
      <4>4. [NoOperation EXCEPT !.slot = s, !.part = p, !.write = TRUE] \in Transfer
        BY <4>3 DEF Read, Transfer
      <4>5. Write(s, p, v) \in Transfer
        BY <4>4 DEF Write, Transfer
      <4> QED  BY <4>3, <4>5
    <3>5. /\ Image \in 0 .. NChunks + 1 /\ Commit \in 0 .. NChunks + 1
          /\ offset < NChunks => offset + 1 \in 0 .. NChunks + 1
          /\ Zero \in Cells /\ Valid \in Cells
          /\ candidate \in Record => candidate \in Cells
          /\ 0 \in Slots /\ 1 \in Slots
      BY <3>1 DEF Image, Commit, Cells, Slots
    <3> QED  BY <1>1, <3>2, <3>3, <3>4, <3>5, TransferStates DEF Operation
  <2>3. port' \in Transfer
    BY <1>1, <2>1, <2>2 DEF Transfer
  <2> QED  BY <1>1, <1>2, <1>3, <2>1, <2>3 DEF TypeOK, ServiceTypeOK
<1>5. PortMatches'
  <2>1. Operation' = Operation
    BY <1>1 DEF Operation, Read, Write, NoOperation
  <2> QED  BY <1>1, <2>1 DEF PortMatches
<1>6. Phases'
  BY <1>1, <1>2, <1>3 DEF Phases
<1>7. Ages'
  BY <1>1, <1>2 DEF Inv, Ages, MayHaveLanded
<1>8. NeverConflicting' /\ AckedIsDurable' /\ ViewMatches'
  BY <1>1, <1>2 DEF Inv, NeverConflicting, AckedIsDurable, ViewMatches, Stored
<1>9. ScanMatches' /\ TargetIsFree'
  BY <1>1 DEF Inv, ScanMatches, ScannedA, ScannedB, TargetIsFree, Rewriting
<1>10. BodyIsInvalid'
  BY <1>1, TransferStates DEF Inv, BodyIsInvalid, CommitByteRead, Unsealed
<1>11. BodyIsVerified'
  BY <1>1 DEF Inv, BodyIsVerified
<1> QED  BY <1>4, <1>5, <1>6, <1>7, <1>8, <1>9, <1>10, <1>11 DEF Inv

LEMMA RefusedKeeps ==
    ASSUME Inv, SubmitIoRefused, UNCHANGED ownerVars
    PROVE  Inv'
<1>1. /\ io = "none" /\ Operation # Nothing /\ port = Nothing
      /\ token' = 1 - token /\ LoadIoByte /\ FailIo
      /\ UNCHANGED <<media, candidate, target, offset, readback, scan, io,
                     pending, port, crashes>>
  BY DEF Inv, PortMatches, SubmitIoRefused
<1>2. TypeOK /\ ioByte' \in Cells /\ token' \in {0, 1}
  BY <1>1 DEF Inv, LoadIoByte, Cells, TypeOK, ServiceTypeOK
<1>3. faults' \in 0 .. MaxFaults
  BY <1>1, <1>2, BoundAssumption DEF SubmitIoRefused, TypeOK, ServiceTypeOK
<1>4. CASE state \in RestoreStates
  BY <1>1, <1>2, <1>3, <1>4, TransferStates, RestoreFailsKeeps
<1>5. CASE state \notin RestoreStates
  <2>1. FinishCommit("IO_ERROR") /\ UNCHANGED restored
    BY <1>1, <1>5 DEF FailIo
  <2>2. state \in CommitStates /\ "IO_ERROR" \in CommitStatuses
    BY <1>1, <1>5, TransferStates DEF CommitStatuses
  <2> QED  BY <1>1, <1>2, <1>3, <2>1, <2>2, FinishKeeps DEF TypeOK, ServiceTypeOK
<1> QED  BY <1>4, <1>5

LEMMA PromoteKeeps ==
    ASSUME Inv, io = "none", PromotePending, UNCHANGED ownerVars
    PROVE  Inv'
<1>1. /\ state \in CommitOver /\ pending # Nothing /\ reply = Nothing
      /\ PrepareCandidate(pending) /\ UNCHANGED <<faults, crashes>>
  BY DEF PromotePending, CommitOver
<1>2. UNCHANGED <<owner, lastNumber, lastVersion, acked>>
  BY DEF ownerVars
<1>3. pending \in Record /\ port = Nothing /\ owner = "ready"
  BY <1>1 DEF Inv, TypeOK, ServiceTypeOK, PortMatches, Phases
<1>4. /\ lastNumber' \in 0 .. MaxNumber /\ lastVersion' \in 0 .. MaxVersion
      /\ lastNumber <= lastNumber' /\ lastVersion <= lastVersion'
  BY <1>2, SequenceAssumption DEF Inv, TypeOK
<1>5. /\ pending.number <= lastNumber' /\ pending.version <= lastVersion'
      /\ \A s \in Slots : HasRecord(media[s]) => Below(media[s][1], pending)
  BY <1>1, <1>2 DEF Inv, Ages
<1> QED  BY <1>1, <1>2, <1>3, <1>4, <1>5, PrepareKeeps DEF CommitOver, TerminalStates

(* Both scans are over before they are used, and nothing was written since. *)
LEMMA ScanIsMedia ==
    ASSUME Inv, state \in {"PREPARE_TARGET", "RESTORE_DECODE"}
    PROVE  scan = media
<1>1. scan[0] = media[0] /\ scan[1] = media[1]
  BY DEF Inv, ScanMatches, ScannedA, ScannedB
<1>2. scan \in [Slots -> SlotImage] /\ media \in [Slots -> SlotImage]
  BY DEF Inv, TypeOK, ServiceTypeOK
<1> QED  BY <1>1, <1>2 DEF Slots

LEMMA ChooseTargetKeeps ==
    ASSUME Inv, io = "none", ChooseTarget, UNCHANGED ownerVars
    PROVE  Inv'
<1>1. /\ state = "PREPARE_TARGET" /\ target' = Target(scan)
      /\ UNCHANGED <<media, candidate, readback, scan, ioByte, io, token,
                     pending, restored, port, faults, crashes>>
  BY DEF ChooseTarget
<1>2. TypeOK /\ port = Nothing /\ state \in CommitStates
  BY <1>1 DEF Inv, PortMatches, CommitStates
<1>3. scan = media
  BY <1>1, ScanIsMedia
<1>4. /\ Target(media) \in Slots \union {Nothing}
      /\ Target(media) \in Slots => /\ Target(media) # Selected(media)
                                    /\ ~IsForeign(media[Target(media)])
  <2>1. Selected(media) \in Slots \union {Nothing}
    BY SelectedIsGreatest
  <2> QED  BY <2>1, SlotAssumption DEF Target, Slots, Other
<1>5. CASE target' = Nothing
  <2>1. FinishCommit(IF HasConflict(scan) THEN "SEQUENCE_CONFLICT" ELSE "REJECTED")
           /\ UNCHANGED offset
    BY <1>5 DEF ChooseTarget
  <2>2. FinishCommit("REJECTED")
    BY <1>3, <2>1 DEF Inv, NeverConflicting
  <2>3. "REJECTED" \in CommitStatuses
    BY DEF CommitStatuses
  <2> QED  BY <1>1, <1>2, <1>5, <2>1, <2>2, <2>3, FinishKeeps DEF TypeOK, ServiceTypeOK
<1>6. CASE target' # Nothing
  <2>1. offset' = 0 /\ state' = "INVALIDATE" /\ UNCHANGED reply
    BY <1>6 DEF ChooseTarget
  <2>2. TypeOK'
    <3>1. offset' \in 0 .. NChunks /\ state' \in CommitStates
      BY <2>1, GeometryAssumption DEF CommitStates
    <3> QED  BY <1>1, <1>2, <1>3, <1>4, <2>1, <3>1 DEF TypeOK, ServiceTypeOK, ownerVars
  <2>3. PortMatches'
    BY <1>1, <1>2 DEF PortMatches
  <2>4. Phases'
    BY <1>1, <1>2, <2>1 DEF Inv, Phases, ownerVars, CommitStates, CommitOver,
       RestoreStates, RestoreOver
  <2>5. Ages'
    <3>1. ~MayHaveLanded
      BY <1>1 DEF MayHaveLanded
    <3> QED  BY <1>1, <1>2, <2>1, <3>1 DEF Inv, Ages, ownerVars
  <2>6. NeverConflicting' /\ AckedIsDurable' /\ ViewMatches'
    BY <1>1, <2>1 DEF Inv, NeverConflicting, AckedIsDurable, ViewMatches, Stored,
       ownerVars
  <2>7. TargetIsFree'
    BY <1>1, <1>3, <1>4, <1>6, <2>1 DEF TargetIsFree
  <2>8. ScanMatches' /\ BodyIsInvalid' /\ BodyIsVerified'
    BY <2>1 DEF ScanMatches, ScannedA, ScannedB, BodyIsInvalid, CommitByteRead,
       Unsealed, BodyIsVerified
  <2> QED  BY <2>2, <2>3, <2>4, <2>5, <2>6, <2>7, <2>8 DEF Inv
<1> QED  BY <1>5, <1>6

(* The steps of a commit that only move on to the next state.              *)
LEMMA AdvanceKeeps ==
    ASSUME Inv, io = "none", UNCHANGED ownerVars,
           state \in CommitStates, ~MayHaveLanded, state' \in CommitStates,
           offset' \in 0 .. NChunks,
           UNCHANGED <<media, candidate, target, readback, scan, ioByte, io,
                       token, pending, reply, restored, port, faults, crashes>>,
           state' \in {"WRITE_BODY", "READBACK_BODY", "VERIFY_BODY", "COMMIT"},
           Rewriting, BodyIsInvalid', BodyIsVerified'
    PROVE  Inv'
<1>1. TypeOK /\ port = Nothing
  BY DEF Inv, PortMatches
<1>2. TypeOK'
  BY <1>1 DEF TypeOK, ServiceTypeOK, ownerVars
<1>3. PortMatches'
  BY <1>1 DEF PortMatches
<1>4. Phases'
  BY DEF Inv, Phases, ownerVars, CommitStates, CommitOver, RestoreStates, RestoreOver
<1>5. Ages'
  BY DEF Inv, Ages, ownerVars
<1>6. NeverConflicting' /\ AckedIsDurable' /\ ViewMatches'
  BY DEF Inv, NeverConflicting, AckedIsDurable, ViewMatches, Stored, ownerVars
<1>7. ScanMatches' /\ TargetIsFree'
  BY DEF Inv, ScanMatches, ScannedA, ScannedB, TargetIsFree
<1> QED  BY <1>2, <1>3, <1>4, <1>5, <1>6, <1>7 DEF Inv

LEMMA CheckInvalidateKeeps ==
    ASSUME Inv, io = "none", CheckInvalidate, UNCHANGED ownerVars
    PROVE  Inv'
<1>1. /\ state = "CHECK_INVALIDATE" /\ state \in CommitStates
      /\ UNCHANGED <<media, candidate, target, readback, scan, ioByte, io,
                     token, pending, restored, port, faults, crashes>>
  BY DEF CheckInvalidate, CommitStates
<1>2. TypeOK /\ port = Nothing
  BY <1>1 DEF Inv, PortMatches
<1>3. CASE ioByte = Valid
  <2>1. FinishCommit("VERIFY_ERROR") /\ UNCHANGED offset
    BY <1>3 DEF CheckInvalidate
  <2> QED  BY <1>1, <1>2, <2>1, FinishKeeps DEF TypeOK, ServiceTypeOK, CommitStatuses
<1>4. CASE ioByte # Valid
  <2>1. state' = "WRITE_BODY" /\ offset' = 0 /\ UNCHANGED reply
    BY <1>4 DEF CheckInvalidate
  <2>2. BodyIsInvalid' /\ BodyIsVerified'
    BY <1>1, <1>4, <2>1 DEF Inv, BodyIsInvalid, CommitByteRead, Unsealed, BodyIsVerified
  <2>3. Rewriting /\ ~MayHaveLanded
    BY <1>1 DEF Rewriting, MayHaveLanded
  <2>4. offset' \in 0 .. NChunks /\ state' \in CommitStates
    BY <2>1, GeometryAssumption DEF CommitStates
  <2> QED  BY <1>1, <2>1, <2>2, <2>3, <2>4, AdvanceKeeps
<1> QED  BY <1>3, <1>4

LEMMA BodyDoneKeeps ==
    ASSUME Inv, io = "none", BodyDone, UNCHANGED ownerVars
    PROVE  Inv'
<1>1. /\ state \in {"WRITE_BODY", "READBACK_BODY"} /\ offset >= NChunks
      /\ UNCHANGED <<media, candidate, target, readback, scan, ioByte, io,
                     token, pending, reply, restored, port, faults, crashes>>
  BY DEF BodyDone, mailboxes
<1>2. \/ state = "WRITE_BODY" /\ state' = "READBACK_BODY" /\ offset' = 0
      \/ state = "READBACK_BODY" /\ state' = "VERIFY_BODY" /\ offset' = offset
  BY <1>1 DEF BodyDone
<1>3. offset \in 0 .. NChunks /\ NChunks \in Nat \ {0}
  BY GeometryAssumption DEF Inv, TypeOK, ServiceTypeOK
<1>4. BodyIsInvalid'
  BY <1>1, <1>2 DEF Inv, BodyIsInvalid, CommitByteRead, Unsealed
<1>5. BodyIsVerified'
  <2>1. CASE state = "WRITE_BODY"
    <3>1. \A i \in Chunks : ~(i <= 0) /\ ~(i = 0 + 1 /\ io = "ok")
      BY DEF Chunks
    <3> QED  BY <1>1, <1>2, <2>1, <3>1 DEF BodyIsVerified
  <2>2. CASE state = "READBACK_BODY"
    <3>1. \A i \in Chunks : i <= offset
      BY <1>1, <1>3 DEF Chunks
    <3> QED  BY <1>1, <1>2, <2>2, <3>1 DEF Inv, BodyIsVerified
  <2> QED  BY <1>1, <2>1, <2>2
<1>6. /\ Rewriting /\ ~MayHaveLanded /\ state \in CommitStates /\ state' \in CommitStates
      /\ offset' \in 0 .. NChunks
  BY <1>1, <1>2, <1>3 DEF Rewriting, MayHaveLanded, CommitStates
<1> QED  BY <1>1, <1>2, <1>4, <1>5, <1>6, AdvanceKeeps

LEMMA VerifyBodyKeeps ==
    ASSUME Inv, io = "none", VerifyBody, UNCHANGED ownerVars
    PROVE  Inv'
<1>1. /\ state = "VERIFY_BODY" /\ state \in CommitStates
      /\ UNCHANGED <<media, candidate, target, offset, readback, scan, ioByte,
                     io, token, pending, restored, port, faults, crashes>>
  BY DEF VerifyBody, CommitStates
<1>2. TypeOK /\ port = Nothing
  BY <1>1 DEF Inv, PortMatches
<1>3. CASE \A i \in Chunks : readback[i] = candidate
  <2>1. state' = "COMMIT" /\ UNCHANGED reply
    BY <1>3 DEF VerifyBody
  <2>2. BodyIsInvalid'
    BY <1>1, <2>1 DEF Inv, BodyIsInvalid, CommitByteRead, Unsealed
  <2>3. BodyIsVerified'
    <3>1. target \in Slots /\ \A i \in Chunks : media[target][i] = candidate
      BY <1>1, <1>3 DEF Inv, BodyIsVerified, TargetIsFree, Rewriting
    <3> QED  BY <1>1, <2>1, <3>1 DEF BodyIsVerified
  <2>4. Rewriting /\ ~MayHaveLanded
    BY <1>1 DEF Rewriting, MayHaveLanded
  <2>5. offset' \in 0 .. NChunks /\ state' \in CommitStates
    BY <1>1, <1>2, <2>1 DEF CommitStates, TypeOK, ServiceTypeOK
  <2> QED  BY <1>1, <2>1, <2>2, <2>3, <2>4, <2>5, AdvanceKeeps
<1>4. CASE ~(\A i \in Chunks : readback[i] = candidate)
  <2>1. FinishCommit("VERIFY_ERROR")
    BY <1>4 DEF VerifyBody
  <2> QED  BY <1>1, <1>2, <2>1, FinishKeeps DEF TypeOK, ServiceTypeOK, CommitStatuses
<1> QED  BY <1>3, <1>4

(* A commit byte read back over a verified body means the candidate is     *)
(* what is stored.                                                         *)
LEMMA CommittedIsStored ==
    ASSUME Inv, state = "CHECK_COMMIT", ioByte = Valid
    PROVE  Stored = candidate
<1>1. /\ target \in Slots /\ candidate \in Record
      /\ \A i \in Chunks : media[target][i] = candidate
      /\ media[target][Commit] = Valid
  BY DEF Inv, Phases, CommitStates, BodyIsVerified, BodyIsInvalid, CommitByteRead
<1>2. 1 \in Chunks
  BY GeometryAssumption DEF Chunks
<1>3. media[target][1] = candidate /\ HasRecord(media[target])
  BY <1>1, <1>2 DEF HasRecord, Intact
<1>4. HasRecord(media[Other(target)])
         => media[Other(target)][1].number < media[target][1].number
  <2>1. Other(target) \in Slots /\ Other(target) # target
    BY <1>1 DEF Slots, Other
  <2> QED  BY <1>3, <2>1 DEF Inv, Ages, Below, CommitStates
<1> QED  BY <1>1, <1>3, <1>4, GreaterIsCurrent DEF Stored

LEMMA CheckCommitKeeps ==
    ASSUME Inv, io = "none", CheckCommit, UNCHANGED ownerVars
    PROVE  Inv'
<1>1. /\ state = "CHECK_COMMIT" /\ state \in CommitStates
      /\ UNCHANGED <<media, candidate, target, offset, readback, scan, ioByte,
                     io, token, pending, restored, port, faults, crashes>>
  BY DEF CheckCommit, CommitStates
<1>2. TypeOK /\ port = Nothing
  BY <1>1 DEF Inv, PortMatches
<1>3. PICK status \in {"OK", "VERIFY_ERROR"} :
         FinishCommit(status) /\ (status = "OK" => ioByte = Valid)
  BY DEF CheckCommit
<1>4. status = "OK" => Stored = candidate
  BY <1>1, <1>3, CommittedIsStored
<1> QED  BY <1>1, <1>2, <1>3, <1>4, FinishKeeps DEF TypeOK, ServiceTypeOK, CommitStatuses

(* What a decode of the scanned slots answers.                             *)
LEMMA DecodeAnswers ==
    ASSUME Inv, state = "RESTORE_DECODE"
    PROVE  /\ scan = media
           /\ Current(scan) \in Record \union {Nothing}
           /\ RestoreStatus(scan) \in RestoreStatuses \ {"IO_ERROR", "SEQUENCE_CONFLICT"}
           /\ RestoreStatus(scan) = "OK" <=> Stored # Nothing
           /\ Current(scan) = Stored
<1>1. scan = media
  BY ScanIsMedia
<1>2. Selected(media) = Nothing => Stored = Nothing
  BY DEF Stored, Current
<1>3. Selected(media) # Nothing => Stored \in Record /\ Stored # Nothing
  BY SelectedIsGreatest, CellsDiffer DEF Stored, Current, HasRecord
<1>4. ~HasConflict(media)
  BY DEF Inv, NeverConflicting
<1>5. RestoreStatus(media) = "OK" <=> Selected(media) # Nothing
  <2>1. Selected(media) # Nothing => ~(\A s \in Slots : IsBlank(media[s]))
    <3>1. ASSUME Selected(media) # Nothing
          PROVE  Selected(media) \in Slots /\ ~IsBlank(media[Selected(media)])
      <4>1. Selected(media) \in Slots /\ HasRecord(media[Selected(media)])
        BY <3>1, SelectedIsGreatest
      <4>2. Commit \in 0 .. NChunks
        BY GeometryAssumption DEF Commit
      <4> QED  BY <4>1, <4>2, CellsDiffer DEF HasRecord, Intact, IsBlank
    <3> QED  BY <3>1
  <2>2. Selected(media) # Nothing => RestoreStatus(media) = "OK"
    BY <1>4, <2>1 DEF RestoreStatus
  <2>3. Selected(media) = Nothing =>
           RestoreStatus(media) \in {"EMPTY", "UNSUPPORTED_SCHEMA", "CORRUPT"}
    BY <1>4 DEF RestoreStatus
  <2> QED  BY <2>2, <2>3
<1>6. RestoreStatus(media) \in RestoreStatuses \ {"IO_ERROR", "SEQUENCE_CONFLICT"}
  BY <1>4 DEF RestoreStatus, RestoreStatuses
<1> QED  BY <1>1, <1>2, <1>3, <1>5, <1>6 DEF Stored

LEMMA DecodeKeeps ==
    ASSUME Inv, io = "none", DecodeRestore, UNCHANGED ownerVars
    PROVE  Inv'
<1>1. /\ state = "RESTORE_DECODE" /\ state' = "RESTORE_COMPLETE"
      /\ restored' = [status |-> RestoreStatus(scan), record |-> Current(scan)]
      /\ UNCHANGED <<media, candidate, target, offset, readback, scan, ioByte,
                     io, token, pending, reply, port, faults, crashes>>
  BY DEF DecodeRestore
<1>2. TypeOK /\ port = Nothing
  BY <1>1 DEF Inv, PortMatches
<1>3. TypeOK'
  <2>1. restored' \in [status : RestoreStatuses, record : Record \union {Nothing}]
    BY <1>1, DecodeAnswers
  <2> QED  BY <1>1, <1>2, <2>1 DEF TypeOK, ServiceTypeOK, RestoreStates, ownerVars
<1>4. PortMatches'
  BY <1>1, <1>2 DEF PortMatches
<1>5. Phases'
  BY <1>1 DEF Inv, Phases, ownerVars, CommitStates, CommitOver, RestoreStates,
     RestoreOver
<1>6. Ages'
  BY <1>1 DEF Inv, Ages, CommitStates, ownerVars
<1>7. NeverConflicting' /\ AckedIsDurable'
  BY <1>1 DEF Inv, NeverConflicting, AckedIsDurable, Stored, ownerVars
<1>8. ViewMatches'
  <2>1. Stored' = Stored
    BY <1>1 DEF Stored
  <2> QED  BY <1>1, <2>1, DecodeAnswers DEF ViewMatches
<1> QED  BY <1>1, <1>3, <1>4, <1>5, <1>6, <1>7, <1>8, QuietStates DEF Inv, RestoreOver

-----------------------------------------------------------------------------
(* Every action keeps the invariant: the port and the owner.               *)

LEMMA ReadKeeps ==
    ASSUME Inv, PortReads, UNCHANGED ownerVars
    PROVE  Inv'
<1>1. /\ port # Nothing /\ ~port.write /\ Deposit
      /\ UNCHANGED <<media, state, candidate, target, offset, token, pending,
                     reply, restored, faults, crashes>>
      /\ port' = Nothing
  BY DEF PortReads, PortDone, mailboxes
<1>2. UNCHANGED <<owner, lastNumber, lastVersion, acked>>
  BY DEF ownerVars
<1>3. TypeOK /\ PortMatches /\ NChunks \in Nat \ {0}
  BY GeometryAssumption DEF Inv
<1>4. io = "pending" /\ io' = "ok"
  BY <1>1, <1>3, PortExecutes DEF PortReads, PortDone, OnIoCompletion
<1>5. port \in Transfer /\ media \in [Slots -> SlotImage]
  BY <1>1, <1>3 DEF TypeOK, ServiceTypeOK
<1>6. Image \notin Chunks /\ Image # Commit /\ Commit \notin Chunks
  BY <1>3 DEF Image, Commit, Chunks
<1>7. ASSUME port.part = Image, port.slot \in Slots,
             port.slot = 0 => state \in {"SCAN_A", "RESTORE_SCAN_A"},
             port.slot = 1 => state \in {"SCAN_B", "RESTORE_SCAN_B"}
      PROVE  TypeOK' /\ ScanMatches' /\ TargetIsFree' /\ BodyIsInvalid' /\ BodyIsVerified'
  <2>1. /\ scan' = [scan EXCEPT ![port.slot] = media[port.slot]]
        /\ UNCHANGED <<readback, ioByte>>
    BY <1>1, <1>6, <1>7 DEF Deposit
  <2>2. scan \in [Slots -> SlotImage] /\ scan' \in [Slots -> SlotImage]
    BY <1>3, <1>5, <1>7, <2>1 DEF TypeOK, ServiceTypeOK
  <2>3. TypeOK'
    BY <1>1, <1>2, <1>3, <1>4, <2>1, <2>2 DEF TypeOK, ServiceTypeOK
  <2>4. ScanMatches'
    <3>1. port.slot = 0 => scan'[0] = media[0] /\ scan'[1] = scan[1]
      BY <2>1, <2>2 DEF Slots
    <3>2. port.slot = 1 => scan'[1] = media[1] /\ scan'[0] = scan[0]
      BY <2>1, <2>2 DEF Slots
    <3> QED  BY <1>1, <1>4, <1>7, <3>1, <3>2
             DEF Inv, ScanMatches, ScannedA, ScannedB, Slots
  <2>5. state \in {"SCAN_A", "RESTORE_SCAN_A", "SCAN_B", "RESTORE_SCAN_B"}
    BY <1>7 DEF Slots
  <2>6. TargetIsFree' /\ BodyIsInvalid' /\ BodyIsVerified'
    BY <1>1, <2>5 DEF TargetIsFree, Rewriting, BodyIsInvalid, CommitByteRead,
                      Unsealed, BodyIsVerified
  <2> QED  BY <2>3, <2>4, <2>6
<1>8. ASSUME port.part = Commit, port.slot = target, target \in Slots,
             state \in {"VERIFY_INVALIDATE", "VERIFY_COMMIT"}
      PROVE  TypeOK' /\ ScanMatches' /\ TargetIsFree' /\ BodyIsInvalid' /\ BodyIsVerified'
  <2>1. ioByte' = media[target][Commit] /\ UNCHANGED <<readback, scan>>
    BY <1>1, <1>6, <1>8 DEF Deposit
  <2>2. ioByte' \in Cells
    BY <1>3, <1>5, <1>8, <2>1 DEF SlotImage, Commit
  <2>3. TypeOK'
    BY <1>1, <1>2, <1>3, <1>4, <2>1, <2>2 DEF TypeOK, ServiceTypeOK
  <2>4. BodyIsInvalid'
    BY <1>1, <1>8, <2>1 DEF BodyIsInvalid, Unsealed
  <2>5. ScanMatches' /\ TargetIsFree' /\ BodyIsVerified'
    BY <1>1, <1>8 DEF Inv, ScanMatches, ScannedA, ScannedB, TargetIsFree, Rewriting,
                      BodyIsVerified
  <2> QED  BY <2>3, <2>4, <2>5
<1>9. ASSUME state = "READBACK_BODY", port.slot = target, target \in Slots,
             port.part = offset + 1, offset + 1 \in Chunks
      PROVE  TypeOK' /\ ScanMatches' /\ TargetIsFree' /\ BodyIsInvalid' /\ BodyIsVerified'
  <2>1. /\ readback' = [readback EXCEPT ![offset + 1] = media[target][offset + 1]]
        /\ UNCHANGED <<scan, ioByte>>
    BY <1>1, <1>6, <1>9 DEF Deposit
  <2>2. readback \in [Chunks -> Cells] /\ offset \in Int
    BY <1>3 DEF TypeOK, ServiceTypeOK
  <2>3. media[target][offset + 1] \in Cells
    BY <1>3, <1>5, <1>9, <2>2 DEF SlotImage, Chunks
  <2>4. TypeOK'
    <3>1. readback' \in [Chunks -> Cells]
      BY <1>9, <2>1, <2>2, <2>3
    <3> QED  BY <1>1, <1>2, <1>3, <1>4, <2>1, <3>1 DEF TypeOK, ServiceTypeOK
  <2>5. BodyIsVerified'
    <3>1. \A i \in Chunks : i <= offset \/ i = offset + 1
                               => readback'[i] = media[target][i]
      <4>1. \A i \in Chunks : i <= offset => readback[i] = media[target][i]
        BY <1>9 DEF Inv, BodyIsVerified
      <4> QED  BY <1>9, <2>1, <2>2, <4>1 DEF Chunks
    <3> QED  BY <1>1, <1>9, <3>1 DEF BodyIsVerified
  <2>6. ScanMatches' /\ TargetIsFree' /\ BodyIsInvalid'
    BY <1>1, <1>9 DEF Inv, ScanMatches, ScannedA, ScannedB, TargetIsFree, Rewriting,
                      BodyIsInvalid, CommitByteRead, Unsealed
  <2> QED  BY <2>4, <2>5, <2>6
<1>10. TypeOK' /\ ScanMatches' /\ TargetIsFree' /\ BodyIsInvalid' /\ BodyIsVerified'
  <2>1. state \in {"VERIFY_INVALIDATE", "VERIFY_COMMIT", "READBACK_BODY"}
           => target \in Slots
    BY DEF Inv, TargetIsFree, Rewriting, BodyIsVerified
  <2>2. offset < NChunks => offset + 1 \in Chunks
    BY <1>3 DEF TypeOK, ServiceTypeOK, Chunks
  <2> QED  BY <1>1, <1>3, <1>7, <1>8, <1>9, <2>1, <2>2, PortExecutes DEF Slots
<1>11. PortMatches'
  <2>1. Operation' = Operation /\ Operation # Nothing
    BY <1>1, <1>3, <1>4 DEF PortMatches, Operation, Read, Write, NoOperation
  <2> QED  BY <1>1, <2>1 DEF PortMatches
<1>12. Phases'
  BY <1>1, <1>2 DEF Inv, Phases
<1>13. Ages'
  <2>1. MayHaveLanded => MayHaveLanded'
    BY <1>1, <1>4 DEF MayHaveLanded
  <2> QED  BY <1>1, <1>2, <2>1 DEF Inv, Ages
<1>14. NeverConflicting' /\ AckedIsDurable' /\ ViewMatches'
  BY <1>1, <1>2 DEF Inv, NeverConflicting, AckedIsDurable, ViewMatches, Stored
<1> QED  BY <1>10, <1>11, <1>12, <1>13, <1>14 DEF Inv

LEMMA PortKeeps ==
    ASSUME Inv, PortWrites \/ PortLosesWrite \/ PortFails, UNCHANGED ownerVars
    PROVE  Inv'
<1>1. /\ port # Nothing /\ port' = Nothing
      /\ UNCHANGED <<state, candidate, target, offset, readback, scan, ioByte,
                     token, mailboxes, crashes>>
  BY DEF PortWrites, PortLosesWrite, PortFails, PortDone
<1>2. io = "pending" /\ port.token = token
  BY <1>1, PortExecutes DEF Inv
<1>3. media' \in Interrupted /\ (port.write \/ media' = media)
  BY <1>1 DEF PortWrites, PortLosesWrite, PortFails, Interrupted
<1>4. io' = "error" \/ (io' = "ok" /\ port.write)
  BY <1>2 DEF PortWrites, PortLosesWrite, PortFails, PortDone, OnIoCompletion
<1>5. faults' \in 0 .. MaxFaults
  BY BoundAssumption DEF PortWrites, PortLosesWrite, PortFails, Inv, TypeOK, ServiceTypeOK
<1> QED  BY <1>1, <1>3, <1>4, <1>5, WrittenKeeps

(* A completion with a stale token, or with none awaited, does nothing.    *)
LEMMA LateKeeps ==
    ASSUME LateCompletion
    PROVE  UNCHANGED serviceVars
BY DEF LateCompletion, OnIoCompletion, serviceVars, context, mailboxes

LEMMA RestoreKeeps ==
    ASSUME Inv, Restore
    PROVE  Inv'
<1>1. /\ state \in TerminalStates /\ pending = Nothing /\ reply = Nothing
      /\ state' = "RESTORE_SCAN_A" /\ offset' = 0 /\ restored' = Nothing
      /\ scan' = [s \in Slots |-> [i \in 0 .. NChunks |-> Zero]]
      /\ UNCHANGED <<media, candidate, target, readback, ioByte, io, token,
                     pending, reply, port, faults, crashes>>
      /\ owner' = "restoring" /\ UNCHANGED <<lastNumber, lastVersion, acked>>
  BY DEF Restore, StartRestoreVolume, MayRestore
<1>2. TypeOK /\ io = "none" /\ port = Nothing
  BY <1>1, TransferStates
     DEF Inv, PortMatches, TerminalStates, CommitStates, RestoreStates
<1>3. TypeOK'
  <2>1. scan' \in [Slots -> SlotImage]
    BY <1>1 DEF SlotImage, Cells
  <2>2. offset' \in 0 .. NChunks /\ state' \in RestoreStates
    BY <1>1, GeometryAssumption DEF RestoreStates
  <2> QED  BY <1>1, <1>2, <2>1, <2>2 DEF TypeOK, ServiceTypeOK
<1>4. PortMatches'
  BY <1>1, <1>2 DEF PortMatches
<1>5. Phases'
  BY <1>1 DEF Phases, CommitStates, CommitOver, RestoreStates
<1>6. Ages'
  BY <1>1 DEF Inv, Ages, CommitStates
<1>7. NeverConflicting' /\ AckedIsDurable' /\ ViewMatches'
  BY <1>1 DEF Inv, NeverConflicting, AckedIsDurable, ViewMatches, Stored
<1>8. ScanMatches' /\ TargetIsFree' /\ BodyIsInvalid' /\ BodyIsVerified'
  BY <1>1, <1>2 DEF ScanMatches, ScannedA, ScannedB, TargetIsFree, Rewriting,
                    BodyIsInvalid, CommitByteRead, Unsealed, BodyIsVerified
<1> QED  BY <1>3, <1>4, <1>5, <1>6, <1>7, <1>8 DEF Inv

LEMMA RestoredKeeps ==
    ASSUME Inv, Restored
    PROVE  Inv'
<1>1. /\ owner = "restoring" /\ restored # Nothing /\ restored' = Nothing
      /\ state' = "IDLE"
      /\ UNCHANGED <<media, candidate, target, offset, readback, scan, ioByte,
                     io, token, pending, reply, port, faults, crashes>>
      /\ UNCHANGED <<lastVersion, acked>>
  BY DEF Restored, TakeRestoredVolume
<1>2. TypeOK /\ Phases /\ state \in RestoreOver
  BY <1>1 DEF Inv, Phases
<1>3. /\ io = "none" /\ port = Nothing /\ pending = Nothing /\ reply = Nothing
  BY <1>1, <1>2, TransferStates
     DEF Inv, PortMatches, Phases, CommitStates, CommitOver, RestoreOver
<1>4. restored \in [status : RestoreStatuses, record : Record \union {Nothing}]
  BY <1>1, <1>2 DEF TypeOK, ServiceTypeOK
<1>5. restored.status = "OK" => Stored \in Record /\ restored.record = Stored
  <2>1. Stored # Nothing => Stored \in Record
    BY SelectedIsGreatest DEF Stored, Current, HasRecord
  <2> QED  BY <1>1, <2>1 DEF Inv, ViewMatches
<1>6. /\ owner' \in {"boot", "ready"}
      /\ owner' = "ready" => restored.status \notin {"IO_ERROR", "SEQUENCE_CONFLICT"}
      /\ lastNumber' = IF restored.status = "OK" THEN restored.record.number ELSE 0
  BY DEF Restored
<1>7. TypeOK'
  <2>1. lastNumber' \in 0 .. MaxNumber
    BY <1>5, <1>6, SequenceAssumption DEF Record
  <2>2. state' \in TerminalStates
    BY <1>1 DEF TerminalStates
  <2> QED  BY <1>1, <1>2, <1>6, <2>1, <2>2 DEF TypeOK, ServiceTypeOK
<1>8. PortMatches'
  BY <1>1, <1>3 DEF PortMatches
<1>9. Phases'
  BY <1>1, <1>3, <1>6 DEF Phases, CommitStates, CommitOver, RestoreStates
<1>10. Ages'
  <2>1. ASSUME NEW s \in Slots, HasRecord(media[s]), owner' = "ready"
        PROVE  media[s][1].number <= lastNumber'
    <3>1. /\ Selected(media) \in Slots
          /\ media[s][1].number <= media[Selected(media)][1].number
      BY <2>1, SelectedIsGreatest DEF Inv, NeverConflicting
    <3>2. Stored = media[Selected(media)][1] /\ Stored # Nothing
      BY <3>1, SelectedIsGreatest, SlotAssumption, CellsDiffer
         DEF Stored, Current, HasRecord
    <3>3. restored.status = "OK"
      BY <1>1, <1>4, <1>6, <2>1, <3>2 DEF Inv, ViewMatches, RestoreStatuses
    <3> QED  BY <1>5, <1>6, <3>1, <3>2, <3>3
  <2> QED  BY <1>1, <1>3, <2>1 DEF Inv, Ages, CommitStates
<1>11. NeverConflicting' /\ AckedIsDurable' /\ ViewMatches'
  BY <1>1 DEF Inv, NeverConflicting, AckedIsDurable, ViewMatches, Stored
<1> QED  BY <1>1, <1>7, <1>8, <1>9, <1>10, <1>11, QuietStates DEF Inv

(* A submitted record is above everything submitted before.                *)
LEMMA SubmitKeeps ==
    ASSUME Inv, Submit
    PROVE  Inv'
<1> DEFINE r == [number |-> lastNumber', version |-> lastVersion']
<1>1. /\ owner # "boot" /\ lastNumber < MaxNumber /\ lastVersion < MaxVersion
      /\ lastNumber' = lastNumber + 1 /\ lastVersion' = lastVersion + 1
      /\ SubmitAccepted(r) \/ SubmitPending(r)
      /\ UNCHANGED <<owner, acked>>
  BY DEF Submit, SubmitCheckpoint
<1>2. /\ lastNumber \in 0 .. MaxNumber /\ lastVersion \in 0 .. MaxVersion
      /\ MaxNumber \in Nat /\ MaxVersion \in Nat
  BY SequenceAssumption DEF Inv, TypeOK
<1>3. /\ lastNumber' \in 0 .. MaxNumber /\ lastVersion' \in 0 .. MaxVersion
      /\ lastNumber <= lastNumber' /\ lastVersion <= lastVersion'
  BY <1>1, <1>2
<1>4. r \in Record /\ r.number = lastNumber + 1 /\ r.version = lastVersion + 1
  BY <1>1, <1>3 DEF Record
<1>5. owner = "ready"
  <2>1. owner \in {"boot", "restoring", "ready"}
    BY DEF Inv, TypeOK
  <2>2. state \notin RestoreStates
    BY <1>1 DEF SubmitAccepted, SubmitPending, TerminalStates, CommitStates, RestoreStates
  <2> QED  BY <1>1, <2>1, <2>2 DEF Inv, Phases
<1> HIDE DEF r
<1>6. \A q \in Record : q.number <= lastNumber /\ q.version <= lastVersion
                           => Below(q, r)
  BY <1>2, <1>4 DEF Below, Record
<1>7. \A s \in Slots : HasRecord(media[s]) => Below(media[s][1], r)
  BY <1>5, <1>6 DEF Inv, Ages, HasRecord
<1>8. CASE SubmitAccepted(r)
  <2>1. /\ state \in TerminalStates /\ reply = Nothing /\ PrepareCandidate(r)
        /\ UNCHANGED <<faults, crashes>>
    BY <1>8 DEF SubmitAccepted
  <2>2. io = "none" /\ port = Nothing
    BY <2>1, TransferStates
       DEF Inv, PortMatches, TerminalStates, CommitStates, RestoreStates
  <2>3. r.number <= lastNumber' /\ r.version <= lastVersion'
    BY <1>1, <1>2, <1>4
  <2> QED  BY <1>1, <1>3, <1>4, <1>5, <1>7, <2>1, <2>2, <2>3, PrepareKeeps
<1>9. CASE SubmitPending(r)
  <2>1. /\ state \in CommitStates /\ pending' = r
        /\ UNCHANGED <<media, state, candidate, target, offset, readback, scan,
                       ioByte, io, token, reply, restored, port, faults, crashes>>
    BY <1>9 DEF SubmitPending, context
  <2>2. TypeOK'
    BY <1>1, <1>3, <1>4, <2>1 DEF Inv, TypeOK, ServiceTypeOK
  <2>3. PortMatches'
    <3>1. Operation' = Operation
      BY <2>1 DEF Operation, Read, Write, NoOperation
    <3> QED  BY <2>1, <3>1 DEF Inv, PortMatches
  <2>4. Phases'
    BY <1>1, <2>1 DEF Inv, Phases
  <2>5. Ages'
    <3>1. candidate \in Record
      BY <2>1 DEF Inv, Phases
    <3>2. /\ candidate.number <= lastNumber /\ candidate.version <= lastVersion
          /\ Below(candidate, r)
      BY <1>6, <2>1, <3>1 DEF Inv, Ages
    <3>3. candidate.number <= lastNumber' /\ candidate.version <= lastVersion'
      BY <1>1, <1>2, <3>1, <3>2 DEF Record
    <3>4. \A s \in Slots : HasRecord(media[s]) =>
             /\ media[s][1].version <= lastVersion'
             /\ media[s][1].number <= lastNumber'
      <4>1. \A q \in Record : q.number <= lastNumber /\ q.version <= lastVersion
                => q.number <= lastNumber' /\ q.version <= lastVersion'
        BY <1>1, <1>2 DEF Record
      <4> QED  BY <1>5, <4>1 DEF Inv, Ages, HasRecord
    <3>5. r.number <= lastNumber' /\ r.version <= lastVersion'
      BY <1>1, <1>2, <1>4
    <3>6. MayHaveLanded' <=> MayHaveLanded
      BY <2>1 DEF MayHaveLanded
    <3>7. \A s \in Slots : HasRecord(media[s]) =>
             Below(media[s][1], candidate) \/ (MayHaveLanded /\ s = target)
      BY <2>1 DEF Inv, Ages
    <3> QED  BY <1>7, <2>1, <3>2, <3>3, <3>4, <3>5, <3>6, <3>7 DEF Ages
  <2>6. NeverConflicting' /\ AckedIsDurable' /\ ViewMatches'
    BY <1>1, <2>1 DEF Inv, NeverConflicting, AckedIsDurable, ViewMatches, Stored
  <2>7. ScanMatches' /\ TargetIsFree' /\ BodyIsInvalid' /\ BodyIsVerified'
    BY <2>1 DEF Inv, ScanMatches, ScannedA, ScannedB, TargetIsFree, Rewriting,
                BodyIsInvalid, CommitByteRead, Unsealed, BodyIsVerified
  <2> QED  BY <2>2, <2>3, <2>4, <2>5, <2>6, <2>7 DEF Inv
<1> QED  BY <1>1, <1>8, <1>9

LEMMA CollectKeeps ==
    ASSUME Inv, Collect
    PROVE  Inv'
<1>1. /\ reply # Nothing /\ reply' = Nothing
      /\ acked' = IF reply.status = "OK" THEN reply.record.version ELSE acked
      /\ UNCHANGED <<media, state, candidate, target, offset, readback, scan,
                     ioByte, io, token, pending, restored, port, faults, crashes,
                     owner, lastNumber, lastVersion>>
  BY DEF Collect, TakeCompletion, context
<1>2. TypeOK /\ reply \in [record : Record, status : CommitStatuses]
  BY <1>1 DEF Inv, TypeOK, ServiceTypeOK
<1>3. TypeOK'
  <2>1. acked' \in 0 .. MaxVersion \union {Nothing}
    BY <1>1, <1>2 DEF TypeOK, Record
  <2> QED  BY <1>1, <1>2, <2>1 DEF TypeOK, ServiceTypeOK
<1>4. AckedIsDurable'
  <2>1. CASE reply.status = "OK"
    <3>1. Stored = reply.record /\ acked' = Stored.version /\ Stored \in Record
      BY <1>1, <1>2, <2>1 DEF Inv, AckedIsDurable
    <3>2. Stored # Nothing /\ Stored.version \in Int
      BY <3>1, CellsDiffer DEF Record
    <3> QED  BY <1>1, <3>1, <3>2 DEF AckedIsDurable, Stored
  <2>2. CASE reply.status # "OK"
    BY <1>1, <2>2 DEF Inv, AckedIsDurable, Stored
  <2> QED  BY <2>1, <2>2
<1>5. PortMatches'
  <2>1. Operation' = Operation
    BY <1>1 DEF Operation, Read, Write, NoOperation
  <2> QED  BY <1>1, <2>1 DEF Inv, PortMatches
<1>6. Phases' /\ Ages'
  BY <1>1 DEF Inv, Phases, Ages, MayHaveLanded
<1>7. NeverConflicting' /\ ViewMatches'
  BY <1>1 DEF Inv, NeverConflicting, ViewMatches, Stored
<1>8. ScanMatches' /\ TargetIsFree' /\ BodyIsInvalid' /\ BodyIsVerified'
  BY <1>1 DEF Inv, ScanMatches, ScannedA, ScannedB, TargetIsFree, Rewriting,
              BodyIsInvalid, CommitByteRead, Unsealed, BodyIsVerified
<1> QED  BY <1>3, <1>4, <1>5, <1>6, <1>7, <1>8 DEF Inv

(* A reset keeps what is durable: the medium is as an interrupted transfer *)
(* may have left it, and no later record than the candidate is on it.      *)
LEMMA ResetKeeps ==
    ASSUME Inv, Reset
    PROVE  Inv'
<1>1. /\ crashes < MaxCrashes /\ crashes' = crashes + 1 /\ media' \in Interrupted
      /\ state' = "IDLE" /\ candidate' = Nothing /\ target' = Nothing /\ offset' = 0
      /\ readback' = [i \in Chunks |-> Zero]
      /\ scan' = [s \in Slots |-> [i \in 0 .. NChunks |-> Zero]]
      /\ ioByte' = Zero /\ io' = "none" /\ token' = 0
      /\ pending' = Nothing /\ reply' = Nothing /\ restored' = Nothing
      /\ port' = Nothing /\ owner' = "boot" /\ lastNumber' = 0
      /\ UNCHANGED <<faults, lastVersion, acked>>
  BY DEF Reset, Crash
<1>2. TypeOK /\ PortMatches /\ Phases /\ Ages /\ NeverConflicting /\ TargetIsFree
         /\ BodyIsInvalid /\ BodyIsVerified /\ AckedIsDurable
  BY DEF Inv
<1>3. TypeOK'
  <2>1. media' \in [Slots -> SlotImage]
    BY <1>1, <1>2, MediumAfter
  <2>2. scan' \in [Slots -> SlotImage] /\ readback' \in [Chunks -> Cells]
    BY <1>1 DEF SlotImage, Cells
  <2>3. /\ offset' \in 0 .. NChunks /\ crashes' \in 0 .. MaxCrashes
        /\ lastNumber' \in 0 .. MaxNumber /\ ioByte' \in Cells
        /\ state' \in TerminalStates
    BY <1>1, <1>2, GeometryAssumption, BoundAssumption, SequenceAssumption
       DEF TypeOK, ServiceTypeOK, Cells, TerminalStates
  <2> QED  BY <1>1, <1>2, <2>1, <2>2, <2>3 DEF TypeOK, ServiceTypeOK
<1>4. PortMatches'
  BY <1>1 DEF PortMatches
<1>5. Phases'
  BY <1>1 DEF Phases, CommitStates, CommitOver, RestoreStates
<1>6. Ages'
  <2>1. state = "COMMIT" => candidate.version <= lastVersion
    BY <1>2 DEF Ages, CommitStates
  <2>2. \A s \in Slots : HasRecord(media'[s]) =>
                 \/ HasRecord(media[s]) /\ media'[s] = media[s]
                 \/ state = "COMMIT" /\ s = target /\ media'[s][1] = candidate
    BY <1>1, <1>2, MediumAfter
  <2>3. \A s \in Slots : HasRecord(media'[s]) => media'[s][1].version <= lastVersion
    BY <1>2, <2>1, <2>2 DEF Ages
  <2> QED  BY <1>1, <2>3 DEF Ages, CommitStates
<1>7. NeverConflicting'
  BY <1>1, <1>2, MediumAfter DEF NeverConflicting
<1>8. AckedIsDurable'
  BY <1>1, <1>2, StoredGrows DEF AckedIsDurable
<1>9. ViewMatches'
  BY <1>1 DEF ViewMatches
<1> QED  BY <1>1, <1>3, <1>4, <1>5, <1>6, <1>7, <1>8, <1>9, QuietStates DEF Inv

-----------------------------------------------------------------------------
(* The invariant, and the properties it implies.                           *)

LEMMA FilledSlot ==
    ASSUME NEW c \in Cells, NEW cell \in Cells
    PROVE  /\ Filled(c, cell) \in SlotImage
           /\ Filled(c, cell)[Commit] = c
           /\ Filled(c, cell)[1] = cell
BY GeometryAssumption DEF Filled, SlotImage, Commit

LEMMA InitHolds == Init => Inv
<1> SUFFICES ASSUME Init PROVE Inv
  OBVIOUS
<1>1. /\ media \in Images /\ state = "IDLE" /\ candidate = Nothing
      /\ target = Nothing /\ offset = 0
      /\ readback = [i \in Chunks |-> Zero]
      /\ scan = [s \in Slots |-> [i \in 0 .. NChunks |-> Zero]]
      /\ ioByte = Zero /\ io = "none" /\ token = 0 /\ pending = Nothing
      /\ reply = Nothing /\ restored = Nothing /\ port = Nothing
      /\ faults = 0 /\ crashes = 0 /\ owner = "boot"
      /\ lastNumber = 0 /\ lastVersion = 0 /\ acked = Nothing
  BY DEF Init, ServiceInit
<1>2. Oldest \in Record /\ Oldest.version = 0
  BY SequenceAssumption DEF Oldest, Record
<1>3. \A a, b : Pair(a, b)[0] = a /\ Pair(a, b)[1] = b
         /\ (a \in SlotImage /\ b \in SlotImage => Pair(a, b) \in [Slots -> SlotImage])
  BY DEF Pair, Slots
<1>4. PICK c0 \in Cells, d0 \in Cells, c1 \in Cells, d1 \in Cells :
         /\ media = Pair(Filled(c0, d0), Filled(c1, d1))
         /\ c0 # Valid \/ c1 # Valid \/ d1 = Foreign
         /\ d0 \in Record => d0 = Oldest
         /\ d1 \in Record => d1 = Oldest
  <2>1. /\ Zero \in Cells /\ Torn \in Cells /\ Valid \in Cells /\ Foreign \in Cells
        /\ Oldest \in Cells
    BY <1>2 DEF Cells
  <2>2. Zero \notin Record /\ Foreign \notin Record
    BY CellAssumption DEF Special
  <2>3. CASE media = Pair(Filled(Zero, Zero), Filled(Zero, Zero))
    BY <2>1, <2>2, <2>3, CellsDiffer
  <2>4. CASE media = Pair(Filled(Zero, Zero), Filled(Valid, Oldest))
    BY <2>1, <2>2, <2>4, CellsDiffer
  <2>5. CASE media = Pair(Filled(Valid, Oldest), Filled(Valid, Foreign))
    BY <2>1, <2>2, <2>5, CellsDiffer
  <2>6. CASE media = Pair(Filled(Torn, Oldest), Filled(Zero, Zero))
    BY <2>1, <2>2, <2>6, CellsDiffer
  <2> QED  BY <1>1, <2>3, <2>4, <2>5, <2>6 DEF Images
<1>5. media[0] = Filled(c0, d0) /\ media[1] = Filled(c1, d1)
         /\ media \in [Slots -> SlotImage]
  BY <1>3, <1>4, FilledSlot
<1>6. NeverConflicting
  BY <1>4, <1>5, FilledSlot, CellsDiffer DEF NeverConflicting, HasConflict, HasRecord, Intact
<1>7. \A s \in Slots : HasRecord(media[s]) => media[s][1].version <= lastVersion
  <2>1. HasRecord(media[0]) => media[0][1].version = 0
    BY <1>2, <1>4, <1>5, FilledSlot DEF HasRecord
  <2>2. HasRecord(media[1]) => media[1][1].version = 0
    BY <1>2, <1>4, <1>5, FilledSlot DEF HasRecord
  <2> QED  BY <1>1, <2>1, <2>2 DEF Slots
<1>8. Ages
  BY <1>1, <1>7 DEF Ages, CommitStates
<1>9. TypeOK
  <2>1. scan \in [Slots -> SlotImage] /\ readback \in [Chunks -> Cells]
    BY <1>1 DEF SlotImage, Cells
  <2>2. /\ offset \in 0 .. NChunks /\ crashes \in 0 .. MaxCrashes
        /\ faults \in 0 .. MaxFaults /\ lastNumber \in 0 .. MaxNumber
        /\ lastVersion \in 0 .. MaxVersion /\ ioByte \in Cells
        /\ state \in TerminalStates
    BY <1>1, GeometryAssumption, BoundAssumption, SequenceAssumption
       DEF Cells, TerminalStates
  <2> QED  BY <1>1, <1>5, <2>1, <2>2 DEF TypeOK, ServiceTypeOK
<1>10. PortMatches /\ Phases /\ AckedIsDurable /\ ViewMatches
  BY <1>1 DEF PortMatches, Phases, AckedIsDurable, ViewMatches, CommitStates,
              CommitOver, RestoreStates
<1>11. ScanMatches /\ TargetIsFree /\ BodyIsInvalid /\ BodyIsVerified
  BY <1>1 DEF ScanMatches, ScannedA, ScannedB, TargetIsFree, Rewriting,
              BodyIsInvalid, CommitByteRead, Unsealed, BodyIsVerified
<1> QED  BY <1>6, <1>8, <1>9, <1>10, <1>11 DEF Inv

LEMMA StutterKeeps ==
    ASSUME Inv, UNCHANGED vars
    PROVE  Inv'
<1>1. UNCHANGED <<media, state, candidate, target, offset, readback, scan, ioByte,
                  io, token, pending, reply, restored, port, faults, crashes,
                  owner, lastNumber, lastVersion, acked>>
  BY DEF vars, serviceVars, context, mailboxes, ownerVars
<1>2. Operation' = Operation
  BY <1>1 DEF Operation, Read, Write, NoOperation
<1>3. TypeOK' /\ PortMatches' /\ Phases'
  BY <1>1, <1>2 DEF Inv, TypeOK, ServiceTypeOK, PortMatches, Phases
<1>4. Ages' /\ NeverConflicting' /\ AckedIsDurable' /\ ViewMatches'
  BY <1>1 DEF Inv, Ages, MayHaveLanded, NeverConflicting, AckedIsDurable,
              ViewMatches, Stored
<1>5. ScanMatches' /\ TargetIsFree' /\ BodyIsInvalid' /\ BodyIsVerified'
  BY <1>1 DEF Inv, ScanMatches, ScannedA, ScannedB, TargetIsFree, Rewriting,
              BodyIsInvalid, CommitByteRead, Unsealed, BodyIsVerified
<1> QED  BY <1>3, <1>4, <1>5 DEF Inv

LEMMA NextKeeps == Inv /\ [Next]_vars => Inv'
<1> SUFFICES ASSUME Inv, [Next]_vars PROVE Inv'
  OBVIOUS
<1>1. CASE Tick /\ UNCHANGED ownerVars
  BY <1>1, ConsumeKeeps, SubmitIoKeeps, RefusedKeeps, PromoteKeeps, ChooseTargetKeeps,
     CheckInvalidateKeeps, BodyDoneKeeps, VerifyBodyKeeps, CheckCommitKeeps, DecodeKeeps
     DEF Tick, LocalWork
<1>2. CASE PortStep /\ UNCHANGED ownerVars
  <2>1. CASE LateCompletion
    BY <1>2, <2>1, LateKeeps, StutterKeeps DEF vars
  <2> QED  BY <1>2, <2>1, ReadKeeps, PortKeeps DEF PortStep
<1>3. CASE Restore \/ Restored \/ Submit \/ Collect \/ Reset
  BY <1>3, RestoreKeeps, RestoredKeeps, SubmitKeeps, CollectKeeps, ResetKeeps
<1>4. CASE UNCHANGED vars
  BY <1>4, StutterKeeps
<1> QED  BY <1>1, <1>2, <1>3, <1>4 DEF Next

THEOREM Invariance == Spec => []Inv
<1>1. Init => Inv
  BY InitHolds
<1>2. Inv /\ [Next]_vars => Inv'
  BY NextKeeps
<1> QED  BY <1>1, <1>2, PTL DEF Spec

(* The state machine of storage_service.c stays within its types: offsets  *)
(* within the body, a target that is a slot, answers of the known kinds.   *)
THEOREM TypeCorrect == Spec => []TypeOK
<1>1. Inv => TypeOK
  BY DEF Inv
<1> QED  BY <1>1, Invariance, PTL

(* A checkpoint answered OK survives every later crash, fault and commit:  *)
(* a restore finds it or a newer one.                                      *)
THEOREM AcknowledgedIsDurable == Spec => []AckedIsDurable
<1>1. Inv => AckedIsDurable
  BY DEF Inv
<1> QED  BY <1>1, Invariance, PTL

(* No sequence of commits, crashes and faults leaves two sound slots that  *)
(* ab_slot_select cannot order.                                            *)
THEOREM SlotsNeverConflict == Spec => []NeverConflicting
<1>1. Inv => NeverConflicting
  BY DEF Inv
<1> QED  BY <1>1, Invariance, PTL

-----------------------------------------------------------------------------
(* What a step may do to the medium.                                       *)

\* Only the port writes, and a reset may cut a write short.
LEMMA MediumSteps ==
    ASSUME Inv, [Next]_vars
    PROVE  media' \in Interrupted /\ (media' # media => port # Nothing /\ port.write)
<1>1. media \in Interrupted
  BY DEF Interrupted
<1>2. CASE Tick
  BY <1>1, <1>2 DEF Tick, ConsumeCompletion, SubmitIo, SubmitIoRefused, LocalWork,
     PromotePending, PrepareCandidate, ChooseTarget, CheckInvalidate, BodyDone,
     VerifyBody, CheckCommit, DecodeRestore
<1>3. CASE PortStep
  BY <1>1, <1>3 DEF PortStep, PortReads, PortWrites, PortLosesWrite, PortFails,
     LateCompletion, Interrupted
<1>4. CASE Restore \/ Restored \/ Submit \/ Collect
  BY <1>1, <1>4 DEF Restore, StartRestoreVolume, Restored, TakeRestoredVolume, Submit,
     SubmitCheckpoint, SubmitAccepted, PrepareCandidate, SubmitPending, Collect,
     TakeCompletion
<1>5. CASE Reset
  BY <1>5 DEF Reset, Crash, Interrupted
<1>6. CASE UNCHANGED vars
  BY <1>1, <1>6 DEF vars, serviceVars
<1> QED  BY <1>2, <1>3, <1>4, <1>5, <1>6 DEF Next

LEMMA StepLeaves ==
    ASSUME Inv, [Next]_vars
    PROVE  /\ \A s \in Slots : s = Selected(media) \/ IsForeign(media[s])
                 => media'[s] = media[s]
           /\ Stored' = Stored \/ (state = "COMMIT" /\ Stored' = candidate)
<1>1. media' \in Interrupted
  BY MediumSteps
<1>2. TypeOK /\ PortMatches /\ Phases /\ Ages /\ NeverConflicting /\ TargetIsFree
         /\ BodyIsInvalid /\ BodyIsVerified
  BY DEF Inv
<1>3. \A s \in Slots : \/ media'[s] = media[s]
                       \/ s # Selected(media) /\ ~IsForeign(media[s])
  BY <1>1, <1>2, MediumAfter
<1>4. \/ Current(media') = Current(media)
      \/ state = "COMMIT" /\ Current(media') = candidate
  BY <1>1, <1>2, MediumAfter
<1> QED  BY <1>3, <1>4 DEF Stored

(* Neither the slot a restore would select nor a record of a newer schema  *)
(* is ever written, not even by a write that a fault mangles.              *)
THEOREM CurrentSlotUntouched == Spec => ActiveSlotUntouched
<1>1. Inv /\ [Next]_vars => [\A s \in Slots :
          s = Selected(media) \/ IsForeign(media[s]) => media'[s] = media[s]]_vars
  BY StepLeaves
<1> QED  BY <1>1, Invariance, PTL DEF Spec, ActiveSlotUntouched

(* What a restore would return changes only when the commit byte of the    *)
(* candidate lands.                                                        *)
THEOREM OnlyTheCandidateLands == Spec => OnlyCandidateLands
<1>1. Inv /\ [Next]_vars
         => [Stored' # Stored => state = "COMMIT" /\ Stored' = candidate]_vars
  BY StepLeaves
<1> QED  BY <1>1, Invariance, PTL DEF Spec, OnlyCandidateLands

-----------------------------------------------------------------------------
(* The service implements DurableStore.                                    *)

LEMMA AnswerStep ==
    ASSUME Inv, state \in CommitStates,
           NEW status \in CommitStatuses \ {"SEQUENCE_CONFLICT"}, FinishCommit(status),
           status = "OK" => Stored = candidate, UNCHANGED <<media, restored>>
    PROVE  Durable!Answer
<1>1. candidate \in Record /\ candidate # Nothing
  BY CellsDiffer DEF Inv, Phases
<1>2. state' \notin CommitStates /\ reply' = [record |-> candidate, status |-> status]
  BY DEF FinishCommit, CommitStates
<1>3. status \in (CommitStatuses \ {"OK", "SEQUENCE_CONFLICT"}) \union {"OK"}
  OBVIOUS
<1>4. Stored' = Stored
  BY DEF Stored
<1> QED  BY <1>1, <1>2, <1>3, <1>4 DEF Durable!Answer

LEMMA BeginStep ==
    ASSUME Inv, state \in TerminalStates, reply = Nothing, NEW r \in Record,
           PrepareCandidate(r)
    PROVE  Durable!Begin(r)
<1>1. state \notin CommitStates /\ state' \in CommitStates /\ candidate' = r
         /\ UNCHANGED <<media, reply, restored>>
  BY DEF TerminalStates, CommitStates, PrepareCandidate
<1> QED  BY <1>1 DEF Durable!Begin, Stored

\* Moves within a commit or within a restore are not visible.
LEMMA HiddenStep ==
    ASSUME UNCHANGED <<media, candidate, reply, restored>>,
           state' \in CommitStates <=> state \in CommitStates
    PROVE  UNCHANGED Durable!vars
BY DEF Durable!vars, Stored

LEMMA FailIoStep ==
    ASSUME Inv, Operation # Nothing, FailIo, UNCHANGED media
    PROVE  Durable!Next
<1>1. CASE state \in RestoreStates
  <2>1. /\ restored' = [status |-> "IO_ERROR", record |-> Nothing]
        /\ state' = "RESTORE_FAILED" /\ reply' = reply
    BY <1>1 DEF FailIo
  <2>2. state \notin CommitStates /\ state' \notin CommitStates /\ reply = Nothing
    BY <1>1, <2>1 DEF Inv, Phases, CommitStates, RestoreStates, CommitOver
  <2>3. "IO_ERROR" \in RestoreStatuses \ {"OK", "SEQUENCE_CONFLICT"}
    BY DEF RestoreStatuses
  <2> QED  BY <2>1, <2>2, <2>3 DEF Durable!Next, Durable!Look, Stored
<1>2. CASE state \notin RestoreStates
  <2>1. FinishCommit("IO_ERROR") /\ UNCHANGED restored
    BY <1>2 DEF FailIo
  <2>2. state \in CommitStates /\ "IO_ERROR" \in CommitStatuses \ {"SEQUENCE_CONFLICT"}
    BY <1>2, TransferStates DEF CommitStatuses
  <2> QED  BY <2>1, <2>2, AnswerStep DEF Durable!Next
<1> QED  BY <1>1, <1>2

LEMMA TickStep ==
    ASSUME Inv, Tick, UNCHANGED ownerVars
    PROVE  [Durable!Next]_(Durable!vars)
<1>1. CASE ConsumeCompletion
  <2>1. Operation # Nothing /\ UNCHANGED <<media, candidate>>
    BY <1>1 DEF Inv, PortMatches, ConsumeCompletion
  <2>2. CASE io = "ok"
    <3>1. state' = SuccessState /\ UNCHANGED <<reply, restored>>
      BY <1>1, <2>2 DEF ConsumeCompletion
    <3>2. state' \in CommitStates <=> state \in CommitStates
      BY <2>1, <3>1, TransferStates DEF SuccessState, CommitStates
    <3> QED  BY <2>1, <3>1, <3>2, HiddenStep
  <2>3. CASE io # "ok"
    BY <1>1, <2>1, <2>3, FailIoStep DEF ConsumeCompletion
  <2> QED  BY <2>2, <2>3
<1>2. CASE SubmitIo
  BY <1>2, HiddenStep DEF SubmitIo, mailboxes
<1>3. CASE SubmitIoRefused
  BY <1>3, FailIoStep DEF SubmitIoRefused
<1>4. CASE PromotePending
  <2>1. state \in TerminalStates /\ reply = Nothing /\ PrepareCandidate(pending)
    BY <1>4 DEF PromotePending, TerminalStates
  <2>2. pending \in Record
    BY <1>4 DEF PromotePending, Inv, TypeOK, ServiceTypeOK
  <2> QED  BY <2>1, <2>2, BeginStep DEF Durable!Next
<1>5. CASE ChooseTarget
  <2>1. state = "PREPARE_TARGET" /\ state \in CommitStates /\ ~HasConflict(scan)
           /\ UNCHANGED <<media, candidate, restored>>
    BY <1>5, ScanIsMedia DEF ChooseTarget, CommitStates, Inv, NeverConflicting
  <2>2. CASE target' = Nothing
    <3>1. FinishCommit("REJECTED")
      BY <1>5, <2>1, <2>2 DEF ChooseTarget
    <3> QED  BY <2>1, <3>1, AnswerStep DEF Durable!Next, CommitStatuses
  <2>3. CASE target' # Nothing
    BY <1>5, <2>1, <2>3, HiddenStep DEF ChooseTarget, CommitStates
  <2> QED  BY <2>2, <2>3
<1>6. CASE CheckInvalidate
  <2>1. state \in CommitStates /\ UNCHANGED <<media, candidate, restored>>
    BY <1>6 DEF CheckInvalidate, CommitStates
  <2>2. CASE ioByte = Valid
    BY <1>6, <2>1, <2>2, AnswerStep DEF CheckInvalidate, Durable!Next, CommitStatuses
  <2>3. CASE ioByte # Valid
    BY <1>6, <2>1, <2>3, HiddenStep DEF CheckInvalidate, CommitStates
  <2> QED  BY <2>2, <2>3
<1>7. CASE BodyDone
  BY <1>7, HiddenStep DEF BodyDone, mailboxes, CommitStates
<1>8. CASE VerifyBody
  <2>1. state \in CommitStates /\ UNCHANGED <<media, candidate, restored>>
    BY <1>8 DEF VerifyBody, CommitStates
  <2>2. CASE \A i \in Chunks : readback[i] = candidate
    BY <1>8, <2>1, <2>2, HiddenStep DEF VerifyBody, CommitStates
  <2>3. CASE ~(\A i \in Chunks : readback[i] = candidate)
    BY <1>8, <2>1, <2>3, AnswerStep DEF VerifyBody, Durable!Next, CommitStatuses
  <2> QED  BY <2>2, <2>3
<1>9. CASE CheckCommit
  <2>1. /\ state = "CHECK_COMMIT" /\ state \in CommitStates
        /\ UNCHANGED <<media, candidate, restored>>
    BY <1>9 DEF CheckCommit, CommitStates
  <2>2. PICK status \in {"OK", "VERIFY_ERROR"} :
           FinishCommit(status) /\ (status = "OK" => ioByte = Valid)
    BY <1>9 DEF CheckCommit
  <2>3. status = "OK" => Stored = candidate
    BY <2>1, <2>2, CommittedIsStored
  <2> QED  BY <2>1, <2>2, <2>3, AnswerStep DEF Durable!Next, CommitStatuses
<1>10. CASE DecodeRestore
  <2>1. /\ state = "RESTORE_DECODE" /\ state' = "RESTORE_COMPLETE"
        /\ restored' = [status |-> RestoreStatus(scan), record |-> Stored]
        /\ UNCHANGED <<media, candidate, reply>>
    BY <1>10, DecodeAnswers DEF DecodeRestore
  <2>2. state \notin CommitStates /\ state' \notin CommitStates /\ reply = Nothing
    BY <2>1 DEF Inv, Phases, CommitStates, CommitOver
  <2>3. Stored' = Stored
    BY <2>1 DEF Stored
  <2>4. CASE Stored # Nothing
    <3>1. restored' = [status |-> "OK", record |-> Stored]
      BY <2>1, <2>4, DecodeAnswers
    <3> QED  BY <2>1, <2>2, <2>3, <2>4, <3>1 DEF Durable!Next, Durable!Look
  <2>5. CASE Stored = Nothing
    <3>1. /\ restored' = [status |-> RestoreStatus(scan), record |-> Nothing]
          /\ RestoreStatus(scan) \in RestoreStatuses \ {"OK", "SEQUENCE_CONFLICT"}
      BY <2>1, <2>5, DecodeAnswers
    <3> QED  BY <2>1, <2>2, <2>3, <2>5, <3>1 DEF Durable!Next, Durable!Look
  <2> QED  BY <2>4, <2>5
<1> QED  BY <1>1, <1>2, <1>3, <1>4, <1>5, <1>6, <1>7, <1>8, <1>9, <1>10
         DEF Tick, LocalWork

LEMMA PortSideStep ==
    ASSUME Inv, PortStep, UNCHANGED ownerVars
    PROVE  [Durable!Next]_(Durable!vars)
<1>1. UNCHANGED <<state, candidate, reply, restored>>
  BY DEF PortStep, PortReads, PortWrites, PortLosesWrite, PortFails, PortDone,
         LateCompletion, mailboxes
<1>2. Stored' = Stored \/ (state = "COMMIT" /\ Stored' = candidate)
  BY StepLeaves DEF Next
<1>3. CASE Stored' = Stored
  BY <1>1, <1>3 DEF Durable!vars
<1>4. CASE state = "COMMIT" /\ Stored' = candidate
  <2>1. state \in CommitStates /\ candidate # Nothing
    BY <1>4, CellsDiffer DEF CommitStates, Inv, Phases
  <2> QED  BY <1>1, <1>4, <2>1 DEF Durable!Next, Durable!Land
<1> QED  BY <1>2, <1>3, <1>4

LEMMA OwnerStep ==
    ASSUME Inv, Restore \/ Restored \/ Submit \/ Collect \/ Reset
    PROVE  [Durable!Next]_(Durable!vars)
<1>1. CASE Restore
  <2>1. /\ state \in TerminalStates /\ state' = "RESTORE_SCAN_A" /\ restored' = Nothing
        /\ UNCHANGED <<media, candidate, reply>>
    BY <1>1 DEF Restore, StartRestoreVolume, MayRestore
  <2>2. restored = Nothing
    BY <2>1 DEF Inv, Phases, TerminalStates, RestoreOver
  <2> QED  BY <2>1, <2>2, HiddenStep DEF TerminalStates, CommitStates
<1>2. CASE Restored
  <2>1. /\ restored # Nothing /\ restored' = Nothing /\ state' = "IDLE"
        /\ UNCHANGED <<media, candidate, reply>>
    BY <1>2 DEF Restored, TakeRestoredVolume
  <2>2. state \notin CommitStates /\ state' \notin CommitStates
    BY <2>1 DEF Inv, Phases, CommitStates, RestoreOver
  <2> QED  BY <2>1, <2>2 DEF Durable!Next, Durable!CollectView, Stored
<1>3. CASE Submit
  <2> DEFINE r == [number |-> lastNumber', version |-> lastVersion']
  <2>1. SubmitAccepted(r) \/ SubmitPending(r)
    BY <1>3 DEF Submit, SubmitCheckpoint
  <2>2. r \in Record
    BY <1>3, SubmitKeeps DEF Inv, TypeOK, Record
  <2> HIDE DEF r
  <2>3. CASE SubmitAccepted(r)
    BY <2>2, <2>3, BeginStep DEF SubmitAccepted, Durable!Next
  <2>4. CASE SubmitPending(r)
    BY <2>4, HiddenStep DEF SubmitPending, context
  <2> QED  BY <2>1, <2>3, <2>4
<1>4. CASE Collect
  <2>1. /\ reply # Nothing /\ reply' = Nothing
        /\ UNCHANGED <<media, state, candidate, restored>>
    BY <1>4 DEF Collect, TakeCompletion, context
  <2> QED  BY <2>1 DEF Durable!Next, Durable!Collect, Stored
<1>5. CASE Reset
  <2>1. /\ state' = "IDLE" /\ reply' = Nothing /\ restored' = Nothing
    BY <1>5 DEF Reset, Crash
  <2>2. Stored' = Stored \/ (state = "COMMIT" /\ Stored' = candidate)
    BY <1>5, StepLeaves DEF Next
  <2>3. state = "COMMIT" => state \in CommitStates /\ candidate # Nothing
    BY CellsDiffer DEF CommitStates, Inv, Phases
  <2>4. state' \notin CommitStates
    BY <2>1 DEF CommitStates
  <2> QED  BY <2>1, <2>2, <2>3, <2>4 DEF Durable!Next, Durable!Crash
<1> QED  BY <1>1, <1>2, <1>3, <1>4, <1>5

(* StorageService, driven by an owner that numbers its records, is a store *)
(* of one durable record: every step is a step of DurableStore or hidden   *)
(* from it.                                                                *)
THEOREM StoreIsDurable == Spec => ImplementsDurableStore
<1>1. Init => Durable!Init
  <2> SUFFICES ASSUME Init PROVE Durable!Init
    OBVIOUS
  <2>1. state = "IDLE" /\ reply = Nothing /\ restored = Nothing
    BY DEF Init, ServiceInit
  <2>2. Stored \in Record \union {Nothing}
    BY SelectedIsGreatest DEF Stored, Current, HasRecord
  <2> QED  BY <2>1, <2>2 DEF Durable!Init, CommitStates
<1>2. Inv /\ [Next]_vars => [Durable!Next]_(Durable!vars)
  <2> SUFFICES ASSUME Inv, [Next]_vars PROVE [Durable!Next]_(Durable!vars)
    OBVIOUS
  <2>1. CASE UNCHANGED vars
    BY <2>1, HiddenStep DEF vars, serviceVars, context, mailboxes
  <2> QED  BY <2>1, TickStep, PortSideStep, OwnerStep DEF Next
<1> QED  BY <1>1, <1>2, Invariance, PTL DEF Spec, ImplementsDurableStore, Durable!Spec
=============================================================================
