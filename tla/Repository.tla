------------------------------ MODULE Repository ------------------------------
(***************************************************************************)
(* The data repository: two snapshot buffers and the index of the active   *)
(* one (infrastructure/repositories/data_repository.c), written through    *)
(* transactions (repo_transaction.c).  Copies are split into words, and a  *)
(* reader may be preempted between any two accesses.  Writers share one    *)
(* context: a begin is not interrupted by another writer.                  *)
(***************************************************************************)
EXTENDS Integers, FiniteSets

CONSTANTS
    Writers,          \* owners of a RepoWriteTxn
    Readers,          \* callers of data_repository_snapshot_copy
    Fields,           \* flow, pressure, ..., power
    Values,           \* contents of a field
    CommitsPerCopy,   \* commits that one attempt of a reader may live through
    MaxCommits,       \* bound: commits
    NoSnapshot        \* what a call has returned before it returns

\* The words of a RuntimeSnapshot; the version is one of them.
Version == "snapshot_version"
Words == Fields \cup {Version}

\* Attempts of data_repository_snapshot_copy.
Attempts == 3

ASSUME WordsAssumption == Version \notin Fields /\ Values \subseteq Nat

ASSUME BoundAssumption == MaxCommits \in Nat /\ CommitsPerCopy \in Nat

Buffers == {0, 1}
Snapshot == [Words -> Nat]
Blank == [x \in Words |-> 0]

VARIABLES
    buffers,          \* repo.buffers
    active,           \* repo.active_index
    version,          \* repo.snapshot_version
    writeIndex,       \* repo.write_index
    writerActive,     \* repo.writer_active
    txn,              \* the RepoWriteTxn of each writer, and its progress
    reader,           \* the call of each reader
    intended,         \* history: what each writer's transaction should publish
    published         \* history: the snapshots of versions 0 .. version

repo == <<buffers, active, version, writeIndex, writerActive>>
vars == <<repo, txn, reader, intended, published>>

TxnStates == {"IDLE", "COPYING", "ACTIVE", "STAMPED", "COMMITTED", "ABORTED", "ERROR"}

Txn == [state : TxnStates, index : Buffers, base : Nat, left : SUBSET Words]

Call == [at : {"idle", "version", "copy", "done", "failed"}, attempt : 0 .. Attempts,
         before : Buffers, wanted : Nat, left : SUBSET Words, copy : Snapshot,
         looked : Nat,      \* history: the version published when before was loaded
         commits : Nat]     \* commits since then

\* The version that readers find.
Current == buffers[active][Version]

Init ==
    /\ buffers = [b \in Buffers |-> Blank]
    /\ active = 0 /\ version = 0 /\ writeIndex = 0 /\ writerActive = FALSE
    /\ txn = [w \in Writers |-> [state |-> "IDLE", index |-> 0, base |-> 0, left |-> {}]]
    /\ reader = [r \in Readers |->
                   [at |-> "idle", attempt |-> 0, before |-> 0, wanted |-> 0,
                    left |-> {}, copy |-> Blank, looked |-> 0, commits |-> 0]]
    /\ intended = [w \in Writers |-> Blank]
    /\ published = [v \in 0 .. MaxCommits |-> Blank]

-----------------------------------------------------------------------------
(* Transactions.                                                           *)

\* No writer is between the two ends of its begin or of its commit.
NoneInCall == \A w \in Writers : txn[w].state \notin {"COPYING", "STAMPED"}

\* Mutant: the single-writer guard is missing.
BeginUnguarded(w) ==
    /\ NoneInCall /\ txn[w].state # "ACTIVE"
    /\ txn' = [txn EXCEPT ![w].state = "COPYING", ![w].index = 1 - active,
                          ![w].left = Words]
    /\ UNCHANGED <<repo, reader, intended, published>>

\* txn_begin, refused without effect when a transaction is active.
Begin(w) ==
    /\ NoneInCall /\ ~writerActive /\ txn[w].state # "ACTIVE"
    /\ txn' = [txn EXCEPT ![w].state = "COPYING", ![w].index = 1 - active,
                          ![w].left = Words]
    /\ UNCHANGED <<repo, reader, intended, published>>

\* Its memcpy from the active buffer to the other.
BeginCopies(w, x) ==
    /\ txn[w].state = "COPYING" /\ x \in txn[w].left
    /\ buffers' = [buffers EXCEPT ![txn[w].index][x] = buffers[active][x]]
    /\ txn' = [txn EXCEPT ![w].left = @ \ {x}]
    /\ UNCHANGED <<active, version, writeIndex, writerActive, reader, intended, published>>

\* Mutant: the copy is left out, so that an aborted write stays in the buffer.
BeginEndsEarly(w) ==
    /\ txn[w].state = "COPYING"
    /\ txn' = [txn EXCEPT ![w].state = "ACTIVE", ![w].base = version, ![w].left = {}]
    /\ writeIndex' = txn[w].index /\ writerActive' = TRUE
    /\ intended' = [intended EXCEPT ![w] = published[version]]
    /\ UNCHANGED <<buffers, active, version, reader, published>>

BeginEnds(w) ==
    /\ txn[w].state = "COPYING" /\ txn[w].left = {}
    /\ txn' = [txn EXCEPT ![w].state = "ACTIVE", ![w].base = version]
    /\ writeIndex' = txn[w].index /\ writerActive' = TRUE
    /\ intended' = [intended EXCEPT ![w] = published[version]]
    /\ UNCHANGED <<buffers, active, version, reader, published>>

\* The checks of write_field and txn_commit on the repository's side.
OwnsRepository(w) == writerActive /\ writeIndex = txn[w].index

\* Mutant: the active buffer is written in place.
WriteInPlace(w, f, v) ==
    /\ txn[w].state = "ACTIVE" /\ OwnsRepository(w)
    /\ buffers' = [buffers EXCEPT ![active][f] = v]
    /\ intended' = [intended EXCEPT ![w][f] = v]
    /\ UNCHANGED <<active, version, writeIndex, writerActive, txn, reader, published>>

\* txn_write_flow and the others.
Write(w, f, v) ==
    /\ txn[w].state = "ACTIVE" /\ OwnsRepository(w)
    /\ buffers' = [buffers EXCEPT ![txn[w].index][f] = v]
    /\ intended' = [intended EXCEPT ![w][f] = v]
    /\ UNCHANGED <<active, version, writeIndex, writerActive, txn, reader, published>>

\* txn_commit, first half: the version, in the repository and in the buffer.
CommitStamps(w) ==
    /\ txn[w].state = "ACTIVE" /\ version < MaxCommits
    /\ OwnsRepository(w) /\ version = txn[w].base
    /\ version' = version + 1
    /\ buffers' = [buffers EXCEPT ![txn[w].index][Version] = version']
    /\ txn' = [txn EXCEPT ![w].state = "STAMPED"]
    /\ intended' = [intended EXCEPT ![w][Version] = version']
    /\ published' = [published EXCEPT ![version'] = intended'[w]]
    /\ UNCHANGED <<active, writeIndex, writerActive, reader>>

InCopy(r) == reader[r].at \in {"version", "copy"}

\* Second half: the index.  Readers are quick: CommitsPerCopy.
CommitPublishes(w) ==
    /\ txn[w].state = "STAMPED"
    /\ \A r \in Readers : InCopy(r) => reader[r].commits < CommitsPerCopy
    /\ active' = txn[w].index
    /\ writerActive' = FALSE
    /\ txn' = [txn EXCEPT ![w].state = "COMMITTED"]
    /\ reader' = [r \in Readers |->
                    IF InCopy(r) THEN [reader[r] EXCEPT !.commits = @ + 1]
                                 ELSE reader[r]]
    /\ intended' = [intended EXCEPT ![w] = Blank]
    /\ UNCHANGED <<buffers, version, writeIndex, published>>

\* txn_abort
Abort(w) ==
    /\ txn[w].state = "ACTIVE"
    /\ writerActive' = IF OwnsRepository(w) THEN FALSE ELSE writerActive
    /\ txn' = [txn EXCEPT ![w].state = "ABORTED"]
    /\ intended' = [intended EXCEPT ![w] = Blank]
    /\ UNCHANGED <<buffers, active, version, writeIndex, reader, published>>

\* A write or a commit without an active transaction.
Misuse(w) ==
    /\ txn[w].state \notin {"COPYING", "ACTIVE", "STAMPED"}
    /\ txn' = [txn EXCEPT ![w].state = "ERROR"]
    /\ UNCHANGED <<repo, reader, intended, published>>

-----------------------------------------------------------------------------
(* data_repository_snapshot_copy.                                          *)

\* The attempt begins: active_index is loaded.
Look(r) ==
    /\ reader[r].at \in {"idle", "done", "failed"}
    /\ reader' = [reader EXCEPT ![r].at = "version", ![r].attempt = 1,
                                ![r].before = active, ![r].commits = 0,
                                ![r].looked = Current]
    /\ UNCHANGED <<repo, txn, intended, published>>

LoadVersion(r) ==
    /\ reader[r].at = "version"
    /\ reader' = [reader EXCEPT ![r].at = "copy", ![r].left = Words,
                                ![r].wanted = buffers[reader[r].before][Version]]
    /\ UNCHANGED <<repo, txn, intended, published>>

\* One word of its memcpy, in any order.
CopyWord(r, x) ==
    /\ reader[r].at = "copy" /\ x \in reader[r].left
    /\ reader' = [reader EXCEPT ![r].left = @ \ {x},
                                ![r].copy[x] = buffers[reader[r].before][x]]
    /\ UNCHANGED <<repo, txn, intended, published>>

\* Mutant: the index is not looked at again.
IsSoundByVersion(r) == reader[r].copy[Version] = reader[r].wanted

\* Nothing was published meanwhile, as far as the reader can tell.
IsSound(r) ==
    /\ reader[r].before = active
    /\ reader[r].copy[Version] = reader[r].wanted

\* Mutant: one attempt too many.
IsLastPlusOne(r) == reader[r].attempt = Attempts + 1

IsLast(r) == reader[r].attempt = Attempts

Recheck(r) ==
    /\ reader[r].at = "copy" /\ reader[r].left = {}
    /\ IF IsSound(r)
       THEN reader' = [reader EXCEPT ![r].at = "done"]
       ELSE IF IsLast(r)
       THEN reader' = [reader EXCEPT ![r].at = "failed"]
       ELSE reader' = [reader EXCEPT ![r].at = "version", ![r].attempt = @ + 1,
                                     ![r].before = active, ![r].commits = 0,
                                     ![r].looked = Current]
    /\ UNCHANGED <<repo, txn, intended, published>>

-----------------------------------------------------------------------------
WriterStep(w) ==
    \/ Begin(w) \/ BeginEnds(w)
    \/ \E x \in Words : BeginCopies(w, x)
    \/ \E f \in Fields, v \in Values : Write(w, f, v)
    \/ CommitStamps(w) \/ CommitPublishes(w) \/ Abort(w) \/ Misuse(w)

ReaderStep(r) ==
    \/ Look(r) \/ LoadVersion(r) \/ Recheck(r)
    \/ \E x \in Words : CopyWord(r, x)

Next == (\E w \in Writers : WriterStep(w)) \/ (\E r \in Readers : ReaderStep(r))

Spec == Init /\ [][Next]_vars

-----------------------------------------------------------------------------
(* Properties.                                                             *)

TypeOK ==
    /\ buffers \in [Buffers -> Snapshot]
    /\ active \in Buffers /\ writeIndex \in Buffers
    /\ version \in 0 .. MaxCommits
    /\ writerActive \in BOOLEAN
    /\ txn \in [Writers -> Txn]
    /\ reader \in [Readers -> Call]
    /\ intended \in [Writers -> Snapshot]
    /\ published \in [0 .. MaxCommits -> Snapshot]

\* What a reader accepts is one published snapshot, whole, and the one that was
\* current when its last attempt began, however the writers' copies, writes and
\* aborts fall between its accesses.
ReadIsPublished ==
    \A r \in Readers : reader[r].at = "done" => reader[r].copy = published[reader[r].looked]

\* The active buffer holds the snapshot that its transaction was meant to
\* publish: nothing of an aborted transaction, nothing left out.
ActiveIsPublished == buffers[active] = published[Current]

\* Writers work in the inactive buffer only, and never two of them.
ActiveUntouched == [][buffers'[active] = buffers[active]]_vars

\* The two buffers behave as one register that changes at once.
Register == INSTANCE SnapshotRegister WITH
    Snapshots <- Snapshot,
    current <- buffers[active],
    number <- Current,
    seen <- [r \in Readers |-> published[reader[r].looked]],
    given <- [r \in Readers |-> IF reader[r].at = "done" THEN reader[r].copy ELSE NoSnapshot]

ImplementsRegister == Register!RegisterSpec
=============================================================================
