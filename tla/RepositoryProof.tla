--------------------------- MODULE RepositoryProof ---------------------------
(***************************************************************************)
(* The repository for any writers, readers, fields, values and number of   *)
(* commits, when no attempt of a reader lives through two of them.         *)
(***************************************************************************)
EXTENDS Repository, TLAPS

\* The bound on a reader's lifetime that two buffers require.
QuickReaders == CommitsPerCopy <= 1

-----------------------------------------------------------------------------
(* The invariant.                                                          *)

InBegin(w) == txn[w].state = "COPYING"
Holds(w) == txn[w].state \in {"ACTIVE", "STAMPED"}
Busy(w) == InBegin(w) \/ Holds(w)

\* One writer at a time works, in the buffer that is not active.
WritersInv ==
    /\ \A w, u \in Writers : Busy(w) /\ Busy(u) => w = u
    /\ \A w \in Writers :
        /\ InBegin(w) => ~writerActive
        /\ Holds(w) => writerActive /\ writeIndex = txn[w].index
        /\ Busy(w) => txn[w].index # active

\* What the buffer of a writer holds at each stage of its transaction.
BufferInv ==
    /\ \A x \in Words : buffers[active][x] = published[Current][x]
    /\ \A w \in Writers : LET own == buffers[txn[w].index] IN
        /\ InBegin(w) => \A x \in Words \ txn[w].left : own[x] = buffers[active][x]
        /\ txn[w].state = "ACTIVE" => own = intended[w]
        /\ txn[w].state = "STAMPED" => own = published[version]

\* The version in the repository is ahead of the active buffer's only between
\* the two halves of a commit.
VersionInv ==
    /\ \A v \in 0 .. version : published[v][Version] = v
    /\ Current <= version
    /\ (\E w \in Writers : txn[w].state = "STAMPED") => version = Current + 1
    /\ (\A w \in Writers : txn[w].state # "STAMPED") => version = Current

\* A reader whose index is still the active one has seen no commit.
ReaderInv(r) ==
    /\ reader[r].looked <= Current
    /\ reader[r].at = "done" => reader[r].copy = published[reader[r].looked]
    /\ InCopy(r) /\ reader[r].commits # 0 => reader[r].before # active
    /\ InCopy(r) /\ reader[r].commits = 0 =>
        reader[r].before = active /\ reader[r].looked = Current
    /\ reader[r].at = "copy" /\ reader[r].commits = 0 =>
        \A x \in Words \ reader[r].left : reader[r].copy[x] = buffers[active][x]

ReadersInv == \A r \in Readers : ReaderInv(r)

IInv == TypeOK /\ WritersInv /\ BufferInv /\ VersionInv /\ ReadersInv

LEMMA InitInv == Init => IInv
<1> USE WordsAssumption, BoundAssumption
<1> SUFFICES ASSUME Init PROVE IInv
  OBVIOUS
<1> USE DEF Init, Buffers, Words
<1>0. Blank \in Snapshot
  BY DEF Blank, Snapshot
<1>1. TypeOK
  <2>1. txn \in [Writers -> Txn]
    BY DEF Txn, TxnStates
  <2>2. reader \in [Readers -> Call]
    BY <1>0 DEF Call, Attempts
  <2>3. buffers \in [Buffers -> Snapshot] /\ intended \in [Writers -> Snapshot]
    BY <1>0
  <2>4. published \in [0 .. MaxCommits -> Snapshot] /\ version \in 0 .. MaxCommits
    BY <1>0
  <2>5. active \in Buffers /\ writeIndex \in Buffers /\ writerActive \in BOOLEAN
    OBVIOUS
  <2> QED
    BY <2>1, <2>2, <2>3, <2>4, <2>5 DEF TypeOK
<1>2. WritersInv
  BY DEF WritersInv, Busy, InBegin, Holds
<1>3. Current = 0
  BY DEF Current, Blank
<1>4. BufferInv
  BY <1>3 DEF BufferInv, InBegin
<1>5. VersionInv
  BY <1>3 DEF VersionInv, Blank
<1>6. ReadersInv
  BY <1>3 DEF ReadersInv, ReaderInv, InCopy
<1> QED
  BY <1>1, <1>2, <1>4, <1>5, <1>6 DEF IInv

-----------------------------------------------------------------------------
(* Types.                                                                  *)

\* A buffer, a snapshot or a transaction changed in one place keeps its type.
LEMMA WordWrite ==
    ASSUME TypeOK, NEW i \in Buffers, NEW x \in Words, NEW n \in Nat,
           buffers' = [buffers EXCEPT ![i][x] = n]
    PROVE  buffers' \in [Buffers -> Snapshot]
<1>1. [buffers[i] EXCEPT ![x] = n] \in Snapshot
  BY DEF TypeOK, Snapshot
<1> QED
  BY <1>1 DEF TypeOK

LEMMA WriterTypes ==
    ASSUME TypeOK, NEW w \in Writers, WriterStep(w)
    PROVE  TypeOK'
<1> USE DEF TypeOK
<1>0. txn[w] \in Txn /\ intended[w] \in Snapshot /\ Version \in Words
  BY DEF Words
<1>i. txn[w].index \in Buffers /\ 1 - active \in Buffers
  BY <1>0 DEF Txn, Buffers
<1>1. CASE Begin(w)
  <2>1. txn' \in [Writers -> Txn]
    BY <1>0, <1>1, <1>i DEF Begin, Txn, TxnStates
  <2> QED
    BY <1>1, <2>1 DEF Begin, repo
<1>2. CASE BeginEnds(w)
  <2>0. version \in Nat
    BY BoundAssumption
  <2>2. [txn[w] EXCEPT !.state = "ACTIVE", !.base = version] \in Txn
    BY <1>0, <2>0 DEF Txn, TxnStates
  <2>1. txn' \in [Writers -> Txn]
    BY <1>2, <2>2 DEF BeginEnds
  <2> QED
    BY <1>2, <1>i, <2>1 DEF BeginEnds
<1>3. ASSUME NEW x \in Words, BeginCopies(w, x) PROVE TypeOK'
  <2>1. buffers[active][x] \in Nat
    BY DEF Snapshot
  <2>2. buffers' \in [Buffers -> Snapshot]
    BY <1>3, <1>i, <2>1, WordWrite DEF BeginCopies
  <2>3. txn' \in [Writers -> Txn]
    BY <1>0, <1>3 DEF BeginCopies, Txn, TxnStates
  <2> QED
    BY <1>3, <2>2, <2>3 DEF BeginCopies
<1>4. ASSUME NEW f \in Fields, NEW v \in Values, Write(w, f, v) PROVE TypeOK'
  <2>1. f \in Words /\ v \in Nat
    BY WordsAssumption DEF Words
  <2>2. buffers' \in [Buffers -> Snapshot]
    BY <1>4, <1>i, <2>1, WordWrite DEF Write
  <2>3. [intended[w] EXCEPT ![f] = v] \in Snapshot
    BY <1>0, <2>1 DEF Snapshot
  <2>4. intended' \in [Writers -> Snapshot]
    BY <1>4, <2>3 DEF Write
  <2> QED
    BY <1>4, <2>2, <2>4 DEF Write
<1>5. CASE CommitStamps(w)
  <2>1. version' \in 0 .. MaxCommits /\ version' \in Nat
    BY <1>5, BoundAssumption DEF CommitStamps
  <2>2. buffers' \in [Buffers -> Snapshot]
    BY <1>0, <1>5, <1>i, <2>1, WordWrite DEF CommitStamps
  <2>3. [intended[w] EXCEPT ![Version] = version'] \in Snapshot
    BY <1>0, <2>1 DEF Snapshot
  <2>4. intended' \in [Writers -> Snapshot] /\ intended'[w] \in Snapshot
    BY <1>5, <2>3 DEF CommitStamps
  <2>5. published' \in [0 .. MaxCommits -> Snapshot]
    BY <1>5, <2>1, <2>4 DEF CommitStamps
  <2>6. txn' \in [Writers -> Txn]
    BY <1>0, <1>5 DEF CommitStamps, Txn, TxnStates
  <2> QED
    BY <1>5, <2>1, <2>2, <2>4, <2>5, <2>6 DEF CommitStamps
<1>b. Blank \in Snapshot
  BY DEF Blank, Snapshot
<1>6. CASE CommitPublishes(w)
  <2>1. txn' \in [Writers -> Txn]
    BY <1>0, <1>6 DEF CommitPublishes, Txn, TxnStates
  <2>2. reader' \in [Readers -> Call]
    <3>1. ASSUME NEW r \in Readers
          PROVE  [reader[r] EXCEPT !.commits = @ + 1] \in Call
      <4>1. reader[r] \in Call /\ reader[r].commits + 1 \in Nat
        BY DEF Call
      <4> QED
        BY <4>1 DEF Call
    <3> QED
      BY <1>6, <3>1 DEF CommitPublishes
  <2> QED
    BY <1>6, <1>b, <1>i, <2>1, <2>2 DEF CommitPublishes
<1>7. CASE Abort(w)
  <2>1. txn' \in [Writers -> Txn]
    BY <1>0, <1>7 DEF Abort, Txn, TxnStates
  <2> QED
    BY <1>7, <1>b, <2>1 DEF Abort
<1>8. CASE Misuse(w)
  <2>1. txn' \in [Writers -> Txn]
    BY <1>0, <1>8 DEF Misuse, Txn, TxnStates
  <2> QED
    BY <1>8, <2>1 DEF Misuse, repo
<1> QED
  BY <1>1, <1>2, <1>3, <1>4, <1>5, <1>6, <1>7, <1>8 DEF WriterStep

LEMMA ReaderTypes ==
    ASSUME TypeOK, NEW r \in Readers, ReaderStep(r)
    PROVE  TypeOK'
<1>0. reader[r] \in Call /\ active \in Buffers /\ Current \in Nat
  BY DEF TypeOK, Current, Snapshot, Words
<1>1. reader' \in [Readers -> Call]
  <2>1. CASE Look(r)
    <3>0. 1 \in 0 .. Attempts
      BY DEF Attempts
    <3>1. [reader[r] EXCEPT !.at = "version", !.attempt = 1, !.before = active,
                            !.commits = 0, !.looked = Current] \in Call
      BY <1>0, <3>0 DEF Call
    <3> QED
      BY <2>1, <3>1 DEF TypeOK, Look
  <2>2. CASE LoadVersion(r)
    <3>1. buffers[reader[r].before][Version] \in Nat
      BY <1>0 DEF TypeOK, Call, Snapshot, Words
    <3> QED
      BY <1>0, <2>2, <3>1 DEF TypeOK, LoadVersion, Call
  <2>3. ASSUME NEW x \in Words, CopyWord(r, x) PROVE reader' \in [Readers -> Call]
    <3>1. buffers[reader[r].before][x] \in Nat
      BY <1>0 DEF TypeOK, Call, Snapshot
    <3>2. [reader[r].copy EXCEPT ![x] = buffers[reader[r].before][x]] \in Snapshot
      BY <1>0, <3>1 DEF Call, Snapshot
    <3> QED
      BY <1>0, <2>3, <3>2 DEF TypeOK, CopyWord, Call
  <2>4. CASE Recheck(r)
    <3>1. ~IsLast(r) => reader[r].attempt + 1 \in 0 .. Attempts
      BY <1>0 DEF IsLast, Call, Attempts
    <3>2. ~IsLast(r) =>
            [reader[r] EXCEPT !.at = "version", !.attempt = @ + 1, !.before = active,
                              !.commits = 0, !.looked = Current] \in Call
      BY <1>0, <3>1 DEF Call
    <3>3. \A at \in {"done", "failed"} : [reader[r] EXCEPT !.at = at] \in Call
      BY <1>0 DEF Call
    <3> QED
      BY <2>4, <3>2, <3>3 DEF TypeOK, Recheck
  <2> QED
    BY <2>1, <2>2, <2>3, <2>4 DEF ReaderStep
<1>2. UNCHANGED <<repo, txn, intended, published>>
  BY DEF ReaderStep, Look, LoadVersion, CopyWord, Recheck
<1> QED
  BY <1>1, <1>2 DEF TypeOK, repo

-----------------------------------------------------------------------------
(* Steps of a writer.                                                      *)

\* What a writer does outside the active buffer does not concern the readers.
LEMMA ReadersFrame ==
    ASSUME TypeOK, ReadersInv, VersionInv, reader' = reader, active' = active,
           buffers'[active] = buffers[active],
           \A v \in 0 .. version : published'[v] = published[v]
    PROVE  ReadersInv'
<1>1. Current' = Current
  BY DEF Current
<1>2. ASSUME NEW r \in Readers
      PROVE  published'[reader[r].looked] = published[reader[r].looked]
  <2>1. reader[r].looked \in 0 .. version
    BY DEF TypeOK, Call, ReadersInv, ReaderInv, VersionInv, Current, Snapshot, Words
  <2> QED
    BY <2>1
<1> QED
  BY <1>1, <1>2 DEF ReadersInv, ReaderInv, InCopy

LEMMA BeginKeeps ==
    ASSUME IInv, NEW w \in Writers, Begin(w), TypeOK'
    PROVE  IInv'
<1> USE DEF IInv, TypeOK
<1>0. /\ txn[w] \in Txn /\ txn'[w].state = "COPYING"
      /\ txn'[w].index = 1 - active /\ txn'[w].left = Words
      /\ \A u \in Writers : u # w => txn'[u] = txn[u]
  BY DEF Begin, Txn
<1>1. \A u \in Writers : ~Busy(u)
  BY DEF Begin, NoneInCall, WritersInv, Busy, InBegin, Holds
<1>2. \A u \in Writers : Busy(u)' => u = w
  BY <1>0, <1>1 DEF Busy, InBegin, Holds
<1>3. WritersInv'
  BY <1>0, <1>2 DEF WritersInv, Begin, Busy, InBegin, Holds, repo, Buffers
<1>4. BufferInv'
  BY <1>0, <1>2 DEF BufferInv, Begin, Busy, InBegin, Holds, repo, Current
<1>5. VersionInv'
  BY <1>0, <1>1, <1>2 DEF VersionInv, Begin, Busy, Holds, repo, Current
<1>6. ReadersInv'
  BY ReadersFrame DEF Begin, repo
<1> QED
  BY <1>3, <1>4, <1>5, <1>6

LEMMA BeginCopiesKeeps ==
    ASSUME IInv, NEW w \in Writers, NEW x \in Words, BeginCopies(w, x), TypeOK'
    PROVE  IInv'
<1> USE DEF IInv, TypeOK
<1>0. /\ txn[w] \in Txn /\ txn'[w].state = "COPYING"
      /\ txn'[w].index = txn[w].index /\ txn'[w].left = txn[w].left \ {x}
      /\ \A u \in Writers : u # w => txn'[u] = txn[u]
  BY DEF BeginCopies, Txn
<1>1. \A u \in Writers : (InBegin(u)' <=> InBegin(u)) /\ (Holds(u)' <=> Holds(u))
                         /\ txn'[u].index = txn[u].index /\ txn'[u].state = txn[u].state
  BY <1>0 DEF BeginCopies, InBegin, Holds
<1>2. \A u \in Writers : Busy(u) => u = w
  BY DEF BeginCopies, WritersInv, Busy, InBegin
<1>3. txn[w].index \in Buffers /\ txn[w].index # active
  BY <1>0 DEF BeginCopies, WritersInv, Busy, InBegin, Txn
<1>4. /\ buffers'[active] = buffers[active]
      /\ buffers'[txn[w].index] = [buffers[txn[w].index] EXCEPT ![x] = buffers[active][x]]
  BY <1>3 DEF BeginCopies
<1>5. WritersInv'
  BY <1>1 DEF WritersInv, Busy, BeginCopies
<1>6. Current' = Current
  BY <1>4 DEF Current, BeginCopies
<1>7. BufferInv'
  <2>1. \A y \in Words \ txn'[w].left :
           buffers'[txn[w].index][y] = buffers[active][y]
    BY <1>0, <1>3, <1>4 DEF BufferInv, BeginCopies, InBegin, Snapshot
  <2>2. \A u \in Writers : txn'[u].state \in {"ACTIVE", "STAMPED"} => FALSE
    BY <1>1, <1>2 DEF Busy, Holds, BeginCopies
  <2>3. \A u \in Writers : InBegin(u)' => u = w
    BY <1>1, <1>2 DEF Busy
  <2>4. \A y \in Words : buffers'[active'][y] = published'[Current'][y]
    BY <1>4, <1>6 DEF BufferInv, BeginCopies
  <2> QED
    BY <1>0, <1>4, <2>1, <2>2, <2>3, <2>4 DEF BufferInv, BeginCopies
<1>8. VersionInv'
  BY <1>1, <1>6 DEF VersionInv, BeginCopies
<1>9. ReadersInv'
  BY <1>4, ReadersFrame DEF BeginCopies
<1> QED
  BY <1>5, <1>7, <1>8, <1>9

LEMMA BeginEndsKeeps ==
    ASSUME IInv, NEW w \in Writers, BeginEnds(w), TypeOK'
    PROVE  IInv'
<1> USE DEF IInv, TypeOK
<1>0. /\ txn[w] \in Txn /\ txn[w].state = "COPYING" /\ txn'[w].state = "ACTIVE"
      /\ txn'[w].index = txn[w].index
      /\ \A u \in Writers : u # w => txn'[u] = txn[u]
  BY DEF BeginEnds, Txn
<1>1. \A u \in Writers : Busy(u) => u = w
  BY <1>0 DEF WritersInv, Busy, InBegin
<1>2. \A u \in Writers : Busy(u)' => u = w
  BY <1>0, <1>1 DEF Busy, InBegin, Holds
<1>3. WritersInv'
  BY <1>0, <1>2 DEF WritersInv, BeginEnds, Busy, InBegin, Holds
<1>4. \A u \in Writers : txn[u].state # "STAMPED" /\ txn'[u].state # "STAMPED"
  BY <1>0, <1>1 DEF Busy, Holds
<1>5. version = Current /\ Current' = Current
  BY <1>4 DEF VersionInv, BeginEnds, Current
<1>6. BufferInv'
  <2>1. buffers[txn[w].index] = published[version]
    <3>1. \A x \in Words : buffers[txn[w].index][x] = buffers[active][x]
      BY <1>0 DEF BufferInv, BeginEnds, InBegin
    <3>2. \A x \in Words : buffers[txn[w].index][x] = published[version][x]
      BY <1>5, <3>1 DEF BufferInv
    <3>3. buffers[txn[w].index] \in Snapshot /\ published[version] \in Snapshot
      BY <1>0 DEF Txn
    <3> QED
      BY <3>2, <3>3 DEF Snapshot
  <2>2. intended'[w] = published[version]
    BY DEF BeginEnds
  <2>3. \A u \in Writers : ~InBegin(u)'
    BY <1>0, <1>2 DEF Busy, InBegin
  <2>4. \A u \in Writers : txn'[u].state = "ACTIVE" => u = w
    BY <1>2 DEF Busy, Holds
  <2>5. \A x \in Words : buffers'[active'][x] = published'[Current'][x]
    BY <1>5 DEF BufferInv, BeginEnds
  <2> QED
    BY <1>0, <1>4, <2>1, <2>2, <2>3, <2>4, <2>5 DEF BufferInv, BeginEnds
<1>7. VersionInv'
  BY <1>4, <1>5 DEF VersionInv, BeginEnds
<1>8. ReadersInv'
  BY ReadersFrame DEF BeginEnds
<1> QED
  BY <1>3, <1>6, <1>7, <1>8

LEMMA WriteKeeps ==
    ASSUME IInv, NEW w \in Writers, NEW f \in Fields, NEW v \in Values,
           Write(w, f, v), TypeOK'
    PROVE  IInv'
<1> USE DEF IInv, TypeOK
<1>0. txn[w].state = "ACTIVE" /\ txn[w] \in Txn /\ f # Version
  BY WordsAssumption DEF Write
<1>1. \A u \in Writers : Busy(u) => u = w
  BY <1>0 DEF WritersInv, Busy, Holds
<1>2. txn[w].index \in Buffers /\ txn[w].index # active
  BY <1>0 DEF WritersInv, Busy, Holds, Txn
<1>3. /\ buffers'[active] = buffers[active]
      /\ buffers'[txn[w].index] = [buffers[txn[w].index] EXCEPT ![f] = v]
      /\ intended'[w] = [intended[w] EXCEPT ![f] = v]
  BY <1>2 DEF Write
<1>4. WritersInv'
  BY DEF WritersInv, Write, Busy, InBegin, Holds
<1>5. Current' = Current
  BY <1>3 DEF Current, Write
<1>6. BufferInv'
  <2>1. buffers[txn[w].index] = intended[w]
    BY <1>0 DEF BufferInv
  <2>2. buffers'[txn[w].index] = intended'[w]
    BY <1>3, <2>1
  <2>3. \A x \in Words : buffers'[active'][x] = published'[Current'][x]
    BY <1>3, <1>5 DEF BufferInv, Write
  <2>4. \A u \in Writers : ~InBegin(u)' /\ txn'[u].state # "STAMPED"
    BY <1>0, <1>1 DEF Write, Busy, InBegin, Holds
  <2>5. \A u \in Writers : txn'[u].state = "ACTIVE" => u = w
    BY <1>1 DEF Write, Busy, Holds
  <2> QED
    BY <2>2, <2>3, <2>4, <2>5 DEF BufferInv, Write
<1>7. VersionInv'
  BY <1>5 DEF VersionInv, Write
<1>8. ReadersInv'
  BY <1>3, ReadersFrame DEF Write
<1> QED
  BY <1>4, <1>6, <1>7, <1>8

LEMMA CommitStampsKeeps ==
    ASSUME IInv, NEW w \in Writers, CommitStamps(w), TypeOK'
    PROVE  IInv'
<1> USE DEF IInv, TypeOK
<1>0. /\ txn[w].state = "ACTIVE" /\ txn[w] \in Txn
      /\ txn'[w].state = "STAMPED" /\ txn'[w].index = txn[w].index
      /\ \A u \in Writers : u # w => txn'[u] = txn[u]
  BY DEF CommitStamps, Txn
<1>1. \A u \in Writers : Busy(u) => u = w
  BY <1>0 DEF WritersInv, Busy, Holds
<1>2. txn[w].index \in Buffers /\ txn[w].index # active
  BY <1>0 DEF WritersInv, Busy, Holds, Txn
<1>3. \A u \in Writers : Busy(u)' => u = w
  BY <1>0, <1>1 DEF Busy, InBegin, Holds
<1>4. version = Current /\ version' = version + 1 /\ version \in Nat
  <2>1. \A u \in Writers : txn[u].state # "STAMPED"
    BY <1>0, <1>1 DEF Busy, Holds
  <2> QED
    BY <2>1, BoundAssumption DEF VersionInv, CommitStamps
<1>5. /\ buffers'[active] = buffers[active]
      /\ buffers'[txn[w].index] = [buffers[txn[w].index] EXCEPT ![Version] = version']
      /\ intended'[w] = [intended[w] EXCEPT ![Version] = version']
  BY <1>2 DEF CommitStamps
<1>6. /\ \A v \in 0 .. version : published'[v] = published[v]
      /\ published'[version'] = intended'[w]
  BY <1>4 DEF CommitStamps
<1>7. Current' = Current
  BY <1>5 DEF Current, CommitStamps
<1>8. WritersInv'
  BY <1>0, <1>3 DEF WritersInv, CommitStamps, Busy, InBegin, Holds
<1>9. BufferInv'
  <2>1. buffers[txn[w].index] = intended[w]
    BY <1>0 DEF BufferInv
  <2>2. buffers'[txn[w].index] = published'[version']
    BY <1>5, <1>6, <2>1
  <2>3. \A x \in Words : buffers'[active'][x] = published'[Current'][x]
    <3>1. published'[Current] = published[Current]
      BY <1>4, <1>6
    <3>2. published'[Current'] = published[Current] /\ buffers'[active'] = buffers[active]
      BY <1>5, <1>7, <3>1 DEF CommitStamps
    <3>3. \A x \in Words : buffers[active][x] = published[Current][x]
      BY DEF BufferInv
    <3> QED
      BY <3>2, <3>3, Zenon
  <2>4. \A u \in Writers : ~InBegin(u)' /\ txn'[u].state # "ACTIVE"
    BY <1>0, <1>3 DEF Busy, InBegin, Holds
  <2>5. \A u \in Writers : txn'[u].state = "STAMPED" => u = w
    BY <1>3 DEF Busy, Holds
  <2> QED
    BY <1>0, <2>2, <2>3, <2>4, <2>5 DEF BufferInv
<1>10. VersionInv'
  <2>1. intended'[w][Version] = version'
    BY <1>5 DEF Snapshot, Words
  <2>2. \A v \in 0 .. version' : published'[v][Version] = v
    <3>1. \A v \in 0 .. version' : v \in 0 .. version \/ v = version'
      BY <1>4
    <3>2. \A v \in 0 .. version : published[v][Version] = v
      BY DEF VersionInv
    <3> QED
      BY <1>6, <2>1, <3>1, <3>2, Zenon
  <2> QED
    BY <1>0, <1>4, <1>7, <2>2 DEF VersionInv
<1>11. ReadersInv'
  BY <1>5, <1>6, ReadersFrame DEF CommitStamps
<1> QED
  BY <1>8, <1>9, <1>10, <1>11

\* A commit turns every attempt under way into one that will be rejected.
LEMMA CommitPublishesKeeps ==
    ASSUME IInv, QuickReaders, NEW w \in Writers, CommitPublishes(w), TypeOK'
    PROVE  IInv' /\ Current' = Current + 1 /\ buffers[active'] = published[version]
<1> USE DEF IInv, TypeOK
<1>0. /\ txn[w].state = "STAMPED" /\ txn[w] \in Txn
      /\ txn'[w].state = "COMMITTED"
      /\ \A u \in Writers : u # w => txn'[u] = txn[u]
  BY DEF CommitPublishes, Txn
<1>1. \A u \in Writers : Busy(u) => u = w
  BY <1>0 DEF WritersInv, Busy, Holds
<1>2. active' \in Buffers /\ active' # active
  BY <1>0 DEF WritersInv, Busy, Holds, CommitPublishes
<1>3. \A u \in Writers : ~Busy(u)' /\ txn'[u].state # "STAMPED"
  BY <1>0, <1>1 DEF Busy, InBegin, Holds
<1>4. version = Current + 1 /\ version \in Nat
  BY <1>0, BoundAssumption DEF VersionInv
<1>5. buffers'[active'] = published[version]
  BY <1>0 DEF BufferInv, CommitPublishes
<1>6. Current' = version
  <2>1. published[version][Version] = version
    BY <1>4 DEF VersionInv
  <2> QED
    BY <1>5, <2>1 DEF Current
<1>7. WritersInv'
  BY <1>3 DEF WritersInv, Busy
<1>8. BufferInv'
  BY <1>3, <1>5, <1>6 DEF BufferInv, Busy, Holds, CommitPublishes
<1>9. VersionInv'
  BY <1>3, <1>4, <1>6 DEF VersionInv, CommitPublishes
<1>10. ReadersInv'
  <2> SUFFICES ASSUME NEW r \in Readers
               PROVE  ReaderInv(r)'
    BY DEF ReadersInv
  <2>1. reader[r] \in Call /\ Current \in Nat /\ CommitsPerCopy \in Nat
    BY BoundAssumption DEF Current, Snapshot, Words
  <2>2. CASE InCopy(r)
    <3>1. reader[r].commits = 0
      BY <2>1, <2>2 DEF CommitPublishes, QuickReaders, Call
    <3>2. reader'[r] = [reader[r] EXCEPT !.commits = @ + 1]
      BY <2>2 DEF CommitPublishes
    <3>0. reader[r].before = active /\ reader[r].looked = Current
      BY <2>2, <3>1 DEF ReadersInv, ReaderInv
    <3>3. reader'[r].commits = 1 /\ reader'[r].before = active
      BY <2>1, <3>0, <3>1, <3>2 DEF Call
    <3>4. reader'[r].at # "done" /\ reader'[r].looked = reader[r].looked
      BY <2>1, <2>2, <3>2 DEF InCopy, Call
    <3> QED
      BY <1>2, <1>4, <1>6, <2>1, <3>0, <3>3, <3>4 DEF ReaderInv
  <2>3. CASE ~InCopy(r)
    <3>1. reader'[r] = reader[r]
      BY <2>3 DEF CommitPublishes
    <3> QED
      BY <1>4, <1>6, <2>1, <2>3, <3>1 DEF ReadersInv, ReaderInv, InCopy, CommitPublishes, Call
  <2> QED
    BY <2>2, <2>3
<1> QED
  BY <1>4, <1>5, <1>6, <1>7, <1>8, <1>9, <1>10 DEF CommitPublishes

LEMMA EndKeeps ==
    ASSUME IInv, NEW w \in Writers, Abort(w) \/ Misuse(w), TypeOK'
    PROVE  IInv'
<1> USE DEF IInv, TypeOK
<1>0. /\ txn[w] \in Txn /\ txn[w].state \notin {"COPYING", "STAMPED"}
      /\ txn'[w].state \in {"ABORTED", "ERROR"}
      /\ \A u \in Writers : u # w => txn'[u] = txn[u]
      /\ UNCHANGED <<buffers, active, version, writeIndex, reader, published>>
      /\ \A u \in Writers : u # w => intended'[u] = intended[u]
  <2>1. txn[w] \in Txn
    OBVIOUS
  <2>2. CASE Abort(w)
    BY <2>1, <2>2 DEF Abort, Txn
  <2>3. CASE Misuse(w)
    BY <2>1, <2>3 DEF Misuse, Txn, repo
  <2> QED
    BY <2>2, <2>3
<1>1. \A u \in Writers : ~Busy(w)' /\ (Busy(u)' => Busy(u) /\ u # w /\ txn'[u] = txn[u])
  BY <1>0 DEF Busy, InBegin, Holds
<1>2. WritersInv'
  <2>1. CASE txn[w].state = "ACTIVE"
    BY <1>0, <1>1, <2>1 DEF WritersInv, Busy, Holds
  <2>2. CASE txn[w].state # "ACTIVE"
    <3>1. writerActive' = writerActive
      BY <2>2 DEF Abort, Misuse, repo
    <3> QED
      BY <1>0, <1>1, <3>1 DEF WritersInv, Busy, InBegin, Holds
  <2> QED
    BY <2>1, <2>2
<1>3. Current' = Current
  BY <1>0 DEF Current
<1>4. BufferInv'
  BY <1>0, <1>1, <1>3 DEF BufferInv, Busy, InBegin, Holds
<1>5. VersionInv'
  <2>1. \A u \in Writers : txn'[u].state = "STAMPED" <=> txn[u].state = "STAMPED"
    BY <1>0
  <2> QED
    BY <1>0, <1>3, <2>1 DEF VersionInv
<1>6. ReadersInv'
  BY <1>0, ReadersFrame
<1> QED
  BY <1>2, <1>4, <1>5, <1>6

LEMMA WriterKeeps ==
    ASSUME IInv, QuickReaders, NEW w \in Writers, WriterStep(w)
    PROVE  IInv'
<1>1. TypeOK'
  BY WriterTypes DEF IInv
<1> QED
  BY <1>1, BeginKeeps, BeginEndsKeeps, BeginCopiesKeeps, WriteKeeps, CommitStampsKeeps,
     CommitPublishesKeeps, EndKeeps DEF WriterStep

-----------------------------------------------------------------------------
(* Steps of a reader.                                                      *)

LEMMA ReaderFrame ==
    ASSUME TypeOK, NEW r \in Readers, ReaderStep(r)
    PROVE  /\ UNCHANGED <<repo, txn, intended, published>>
           /\ \A q \in Readers : q # r => reader'[q] = reader[q]
<1>1. UNCHANGED <<repo, txn, intended, published>>
  BY DEF ReaderStep, Look, LoadVersion, CopyWord, Recheck
<1>2. \E call : reader' = [reader EXCEPT ![r] = call]
  <2>1. CASE Look(r) \/ LoadVersion(r) \/ Recheck(r)
    BY <2>1 DEF Look, LoadVersion, Recheck
  <2>2. ASSUME NEW x \in Words, CopyWord(r, x)
        PROVE  \E call : reader' = [reader EXCEPT ![r] = call]
    <3> HIDE DEF TypeOK
    <3>1. reader' = [reader EXCEPT
                       ![r] = [[reader[r] EXCEPT !.left = @ \ {x}]
                                 EXCEPT !.copy[x] = buffers[reader[r].before][x]]]
      BY <2>2 DEF CopyWord
    <3> QED
      BY <3>1
  <2> QED
    BY <2>1, <2>2 DEF ReaderStep
<1> QED
  BY <1>1, <1>2 DEF TypeOK

\* What a look at the index gives.
LEMMA LookedAt ==
    ASSUME IInv, NEW r \in Readers, ReaderStep(r),
           reader'[r].at = "version", reader'[r].before = active,
           reader'[r].commits = 0, reader'[r].looked = Current
    PROVE  ReadersInv'
<1>1. UNCHANGED <<buffers, active, published>> /\ Current' = Current
  BY ReaderFrame DEF IInv, repo, Current
<1>2. \A q \in Readers : q # r => reader'[q] = reader[q]
  BY ReaderFrame DEF IInv
<1>3. Current \in Nat
  BY DEF IInv, TypeOK, Current, Snapshot, Words
<1> QED
  BY <1>1, <1>2, <1>3 DEF IInv, ReadersInv, ReaderInv, InCopy

LEMMA ReaderKeeps ==
    ASSUME IInv, NEW r \in Readers, ReaderStep(r)
    PROVE  IInv'
<1>1. TypeOK'
  BY ReaderTypes DEF IInv
<1>2. UNCHANGED <<buffers, active, version, writeIndex, writerActive, txn, intended, published>>
      /\ Current' = Current /\ \A q \in Readers : q # r => reader'[q] = reader[q]
  BY ReaderFrame DEF IInv, repo, Current
<1>3. WritersInv' /\ BufferInv' /\ VersionInv'
  BY <1>2 DEF IInv, WritersInv, BufferInv, VersionInv, Busy, InBegin, Holds
<1>t. reader[r] \in Call /\ reader \in [Readers -> Call] /\ active \in Buffers
      /\ buffers \in [Buffers -> Snapshot] /\ published \in [0 .. MaxCommits -> Snapshot]
      /\ Current \in Nat
  BY DEF IInv, TypeOK, Current, Snapshot, Words
<1>4. ReadersInv'
  <2>1. CASE Look(r)
    BY <1>t, <2>1, LookedAt DEF Look, Call
  <2>2. CASE LoadVersion(r)
    <3>1. /\ reader'[r].at = "copy" /\ reader'[r].left = Words
          /\ reader'[r].before = reader[r].before /\ reader'[r].commits = reader[r].commits
          /\ reader'[r].looked = reader[r].looked /\ reader[r].at = "version"
      BY <1>t, <2>2 DEF LoadVersion, Call
    <3> QED
      BY <1>2, <3>1 DEF IInv, ReadersInv, ReaderInv, InCopy
  <2>3. ASSUME NEW x \in Words, CopyWord(r, x)
        PROVE  ReadersInv'
    <3>1. /\ reader'[r].at = "copy" /\ reader'[r].left = reader[r].left \ {x}
          /\ reader'[r].before = reader[r].before /\ reader'[r].commits = reader[r].commits
          /\ reader'[r].looked = reader[r].looked /\ reader[r].at = "copy"
          /\ reader'[r].copy =
                [reader[r].copy EXCEPT ![x] = buffers[reader[r].before][x]]
      BY <1>t, <2>3 DEF CopyWord, Call
    <3>2. reader[r].copy \in [Words -> Nat]
      BY <1>t DEF Call, Snapshot
    <3>3. reader[r].commits = 0 => reader[r].before = active
      BY <3>1 DEF IInv, ReadersInv, ReaderInv, InCopy
    <3>4. reader[r].commits = 0 =>
             \A y \in Words \ reader'[r].left : reader'[r].copy[y] = buffers[active][y]
      BY <3>1, <3>2, <3>3 DEF IInv, ReadersInv, ReaderInv
    <3>5. ReaderInv(r)'
      BY <1>2, <3>1, <3>4 DEF IInv, ReadersInv, ReaderInv, InCopy
    <3> QED
      BY <1>2, <3>5 DEF IInv, ReadersInv, ReaderInv, InCopy
  <2>4. CASE Recheck(r)
    <3>1. CASE IsSound(r)
      <4>1. reader'[r] = [reader[r] EXCEPT !.at = "done"] /\ reader[r].at = "copy"
            /\ reader[r].left = {}
        BY <1>t, <2>4, <3>1 DEF Recheck
      <4>2. reader[r].commits = 0 /\ reader[r].looked = Current
        BY <3>1, <4>1 DEF IInv, ReadersInv, ReaderInv, IsSound, InCopy
      <4>3. \A x \in Words : reader[r].copy[x] = published[Current][x]
        BY <4>1, <4>2 DEF IInv, ReadersInv, ReaderInv, BufferInv
      <4>4. Current \in 0 .. MaxCommits
        BY <1>t, BoundAssumption DEF IInv, VersionInv, TypeOK
      <4>5. reader[r].copy = published[reader[r].looked]
        BY <1>t, <4>2, <4>3, <4>4 DEF Call, Snapshot
      <4>6. /\ reader'[r].at = "done" /\ reader'[r].copy = reader[r].copy
            /\ reader'[r].looked = reader[r].looked
        BY <1>t, <4>1 DEF Call
      <4> QED
        BY <1>2, <4>5, <4>6 DEF IInv, ReadersInv, ReaderInv, InCopy
    <3>2. CASE ~IsSound(r) /\ IsLast(r)
      <4>1. reader'[r].at = "failed" /\ reader'[r].looked = reader[r].looked
        BY <1>t, <2>4, <3>2 DEF Recheck, Call
      <4> QED
        BY <1>2, <4>1 DEF IInv, ReadersInv, ReaderInv, InCopy
    <3>3. CASE ~IsSound(r) /\ ~IsLast(r)
      <4>1. /\ reader'[r].at = "version" /\ reader'[r].before = active
            /\ reader'[r].commits = 0 /\ reader'[r].looked = Current
        BY <1>t, <2>4, <3>3 DEF Recheck, Call
      <4> QED
        BY <4>1, LookedAt
    <3> QED
      BY <3>1, <3>2, <3>3
  <2> QED
    BY <2>1, <2>2, <2>3, <2>4 DEF ReaderStep
<1> QED
  BY <1>1, <1>3, <1>4 DEF IInv

-----------------------------------------------------------------------------
(* The theorems.                                                           *)

LEMMA NextKeeps ==
    ASSUME QuickReaders, IInv, [Next]_vars
    PROVE  IInv'
<1>1. CASE Next
  BY <1>1, WriterKeeps, ReaderKeeps DEF Next
<1>2. CASE UNCHANGED vars
  <2>1. TypeOK'
    BY <1>2 DEF IInv, TypeOK, vars, repo
  <2>2. WritersInv' /\ VersionInv'
    BY <1>2 DEF IInv, WritersInv, VersionInv, Busy, InBegin, Holds, Current, vars, repo
  <2>3. BufferInv' /\ ReadersInv'
    BY <1>2 DEF IInv, BufferInv, ReadersInv, ReaderInv, InBegin, InCopy, Current, vars, repo
  <2> QED
    BY <2>1, <2>2, <2>3 DEF IInv
<1> QED
  BY <1>1, <1>2

\* The types hold however long readers take.
THEOREM TypeCorrect == Spec => []TypeOK
<1>1. Init => TypeOK
  BY InitInv DEF IInv
<1>2. ASSUME TypeOK, [Next]_vars
      PROVE  TypeOK'
  <2>1. CASE Next
    BY <1>2, <2>1, WriterTypes, ReaderTypes DEF Next
  <2>2. CASE UNCHANGED vars
    BY <1>2, <2>2 DEF TypeOK, vars, repo
  <2> QED
    BY <1>2, <2>1, <2>2
<1> QED
  BY <1>1, <1>2, PTL DEF Spec

LEMMA Invariance == ASSUME QuickReaders PROVE Spec => []IInv
<1>1. ASSUME IInv, [Next]_vars
      PROVE  IInv'
  BY <1>1, NextKeeps
<1> QED
  BY <1>1, InitInv, PTL DEF Spec

LEMMA ActiveEqual == IInv => ActiveIsPublished
<1> SUFFICES ASSUME IInv PROVE buffers[active] = published[Current]
  BY DEF ActiveIsPublished
<1>1. buffers[active] \in Snapshot /\ Current \in Nat
  BY DEF IInv, TypeOK, Current, Snapshot, Words
<1>2. Current \in 0 .. MaxCommits
  BY <1>1, BoundAssumption DEF IInv, TypeOK, VersionInv
<1>3. published[Current] \in Snapshot
  BY <1>2 DEF IInv, TypeOK
<1> QED
  BY <1>1, <1>3 DEF IInv, BufferInv, Snapshot

\* FW-SNAP-REQ-002: a reader that is given a snapshot is given one that some
\* commit published, whole.
THEOREM ReadersGetPublished ==
    ASSUME QuickReaders PROVE Spec => []ReadIsPublished
<1>1. IInv => ReadIsPublished
  BY DEF IInv, ReadersInv, ReaderInv, ReadIsPublished
<1> QED
  BY <1>1, Invariance, PTL

\* FW-SNAP-REQ-001: the snapshot that is published is the one its transaction
\* was meant to publish.
THEOREM ActiveIsWhole ==
    ASSUME QuickReaders PROVE Spec => []ActiveIsPublished
BY ActiveEqual, Invariance, PTL

\* No step of a writer is visible before its commit.
THEOREM WritersStayOut ==
    ASSUME QuickReaders PROVE Spec => ActiveUntouched
<1>1. ASSUME IInv, [Next]_vars
      PROVE  [buffers'[active] = buffers[active]]_vars
  <2>1. ASSUME NEW w \in Writers, WriterStep(w)
        PROVE  buffers'[active] = buffers[active]
    <3>1. txn[w].index \in Buffers /\ active \in Buffers
      BY <1>1 DEF IInv, TypeOK, Txn
    <3>2. Busy(w) => txn[w].index # active
      BY <1>1 DEF IInv, WritersInv
    <3> QED
      BY <1>1, <2>1, <3>1, <3>2
      DEF WriterStep, Begin, BeginCopies, BeginEnds, Write, CommitStamps, CommitPublishes,
          Abort, Misuse, Busy, InBegin, Holds, IInv, TypeOK, repo
  <2>2. ASSUME NEW r \in Readers, ReaderStep(r)
        PROVE  buffers'[active] = buffers[active]
    BY <1>1, <2>2, ReaderFrame DEF IInv, repo
  <2> QED
    BY <1>1, <2>1, <2>2 DEF Next
<1> QED
  BY <1>1, Invariance, PTL DEF Spec, ActiveUntouched

\* The repository is a register that changes at once and is read at once.
THEOREM RepositoryIsARegister ==
    ASSUME QuickReaders PROVE Spec => ImplementsRegister
<1> USE DEF Register!RegisterInit, Register!RegisterNext, Register!Publish,
            Register!Fix, Register!Give, Register!registerVars
<1>1. Init => Register!RegisterInit
  <2> SUFFICES ASSUME Init PROVE Register!RegisterInit
    OBVIOUS
  <2>1. buffers[active] = Blank /\ Current = 0 /\ Blank \in Snapshot
    BY DEF Init, Buffers, Current, Blank, Snapshot, Words
  <2>2. \A r \in Readers : reader[r].at = "idle" /\ published[reader[r].looked] = Blank
    BY BoundAssumption DEF Init
  <2> QED
    BY <2>1, <2>2
<1>2. ASSUME IInv, IInv', [Next]_vars
      PROVE  [Register!RegisterNext]_(Register!registerVars)
  <2> DEFINE Seen(r) == published[reader[r].looked]
             Given(r) == IF reader[r].at = "done" THEN reader[r].copy ELSE NoSnapshot
  <2>1. ASSUME NEW w \in Writers, WriterStep(w)
        PROVE  [Register!RegisterNext]_(Register!registerVars)
    <3>1. \A r \in Readers : Given(r)' = Given(r) /\ reader'[r].looked = reader[r].looked
      <4>1. CASE CommitPublishes(w)
        BY <1>2, <4>1 DEF CommitPublishes, InCopy, IInv, TypeOK, Call
      <4>2. CASE ~CommitPublishes(w)
        <5>1. reader' = reader
          BY <2>1, <4>2 DEF WriterStep, Begin, BeginCopies, BeginEnds, Write, CommitStamps,
                            Abort, Misuse
        <5> QED
          BY <5>1
      <4> QED
        BY <4>1, <4>2
    <3>2. \A r \in Readers : Seen(r)' = Seen(r)
      <4>1. CASE CommitStamps(w)
        <5>1. \A r \in Readers : reader[r].looked \in 0 .. version
          BY <1>2 DEF IInv, TypeOK, Call, ReadersInv, ReaderInv, VersionInv, Current,
                      Snapshot, Words
        <5>2. version \in Nat /\ version' = version + 1
          BY <1>2, <4>1, BoundAssumption DEF IInv, TypeOK, CommitStamps
        <5>3. \A v \in 0 .. version : published'[v] = published[v]
          BY <1>2, <4>1, <5>2 DEF CommitStamps, IInv, TypeOK
        <5> QED
          BY <3>1, <5>1, <5>3
      <4>2. CASE ~CommitStamps(w)
        <5>1. published' = published
          BY <2>1, <4>2 DEF WriterStep, Begin, BeginCopies, BeginEnds, Write,
                            CommitPublishes, Abort, Misuse
        <5> QED
          BY <3>1, <5>1
      <4> QED
        BY <4>1, <4>2
    <3>3. UNCHANGED <<[r \in Readers |-> Seen(r)], [r \in Readers |-> Given(r)]>>
      BY <3>1, <3>2
    <3>4. CASE CommitPublishes(w)
      <4>1. TypeOK'
        BY <1>2 DEF IInv
      <4>2. Current' = Current + 1
        BY <1>2, <3>4, <4>1, CommitPublishesKeeps
      <4>3. buffers'[active'] \in Snapshot
        BY <4>1 DEF TypeOK
      <4> QED
        BY <3>3, <4>2, <4>3
    <3>5. CASE ~CommitPublishes(w)
      <4>1. active' = active
        BY <2>1, <3>5 DEF WriterStep, Begin, BeginCopies, BeginEnds, Write, CommitStamps,
                          Abort, Misuse, repo
      <4>2. txn[w].index \in Buffers /\ active \in Buffers
        BY <1>2 DEF IInv, TypeOK, Txn
      <4>3. Busy(w) => txn[w].index # active
        BY <1>2 DEF IInv, WritersInv
      <4>4. buffers'[active] = buffers[active]
        BY <1>2, <2>1, <4>2, <4>3
        DEF WriterStep, Begin, BeginCopies, BeginEnds, Write, CommitStamps, CommitPublishes,
            Abort, Misuse, Busy, InBegin, Holds, IInv, TypeOK, repo
      <4> QED
        BY <3>3, <4>1, <4>4 DEF Current
    <3> QED
      BY <3>4, <3>5
  <2>2. ASSUME NEW r \in Readers, ReaderStep(r)
        PROVE  [Register!RegisterNext]_(Register!registerVars)
    <3>1. /\ UNCHANGED <<buffers, active, published>> /\ Current' = Current
          /\ \A q \in Readers : q # r => reader'[q] = reader[q]
      BY <1>2, <2>2, ReaderFrame DEF IInv, repo, Current
    <3>2. \A q \in Readers : q # r => Seen(q)' = Seen(q) /\ Given(q)' = Given(q)
      BY <3>1
    <3>t. reader \in [Readers -> Call]
      BY <1>2 DEF IInv, TypeOK
    <3>3. CASE reader'[r].at = "version" /\ reader'[r].looked = Current
      <4>1. Seen(r)' = buffers[active] /\ Given(r)' = NoSnapshot
        BY <1>2, <3>1, <3>3, ActiveEqual DEF ActiveIsPublished
      <4>2. Register!Fix(r)
        BY <3>1, <3>2, <4>1
      <4> QED
        BY <4>2
    <3>4. CASE reader'[r].at = "done" /\ reader'[r].looked = reader[r].looked
      <4>1. Seen(r)' = Seen(r) /\ Given(r)' = Seen(r)
        BY <1>2, <3>1, <3>4 DEF IInv, ReadersInv, ReaderInv
      <4>2. Register!Give(r)
        BY <3>1, <3>2, <4>1
      <4> QED
        BY <4>2
    <3>5. CASE reader[r].at # "done" /\ reader'[r].at # "done"
               /\ reader'[r].looked = reader[r].looked
      <4>1. Seen(r)' = Seen(r) /\ Given(r)' = Given(r)
        BY <3>1, <3>5
      <4> QED
        BY <3>1, <3>2, <4>1
    <3>6. \/ reader'[r].at = "version" /\ reader'[r].looked = Current
          \/ reader'[r].at = "done" /\ reader'[r].looked = reader[r].looked
          \/ /\ reader[r].at # "done" /\ reader'[r].at # "done"
             /\ reader'[r].looked = reader[r].looked
      <4>0. reader[r] \in Call
        BY <3>t
      <4>1. CASE Look(r) \/ LoadVersion(r)
        BY <3>t, <4>0, <4>1 DEF Look, LoadVersion, Call
      <4>2. ASSUME NEW x \in Words, CopyWord(r, x)
            PROVE  /\ reader[r].at # "done" /\ reader'[r].at # "done"
                   /\ reader'[r].looked = reader[r].looked
        BY <3>t, <4>0, <4>2 DEF CopyWord, Call
      <4>3. CASE Recheck(r)
        BY <3>t, <4>0, <4>3 DEF Recheck, Call
      <4> QED
        BY <2>2, <4>1, <4>2, <4>3 DEF ReaderStep
    <3> QED
      BY <3>3, <3>4, <3>5, <3>6
  <2>3. CASE UNCHANGED vars
    BY <2>3 DEF vars, repo, Current
  <2> QED
    BY <1>2, <2>1, <2>2, <2>3 DEF Next
<1> QED
  BY <1>1, <1>2, Invariance, PTL DEF Spec, ImplementsRegister, Register!RegisterSpec
=============================================================================
