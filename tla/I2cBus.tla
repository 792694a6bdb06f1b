-------------------------------- MODULE I2cBus --------------------------------
(***************************************************************************)
(* The shared I2C bus: the bus manager (infrastructure/bus/                *)
(* i2c_bus_manager.c), the F-RAM driver that is one of its clients         *)
(* (drivers/storage/fram_driver.c), the pressure chain as the other, and   *)
(* the port below (platform/stm32/adapters/i2c_port_stm32.c).  A handler   *)
(* is one step: it includes the callbacks it makes, and what they submit.  *)
(***************************************************************************)
EXTENDS Integers, FiniteSets

CONSTANTS
    Capacity,        \* I2C_BUS_PENDING_CAPACITY
    MaxLength,       \* chunks of the longest F-RAM operation
    MaxOperations,   \* bound: F-RAM operations begun
    MaxTransfers,    \* bound: transactions of the pressure chain
    MaxAborts,       \* bound: recoveries of the bus and driver generations
    None

Clients == {"pressure", "fram"}

\* Numerically smaller wins; the F-RAM is configured behind the pressure chain.
Priority == [c \in Clients |-> IF c = "pressure" THEN 1 ELSE 4]

\* Identifiers are drawn in order; a refused submission uses one up as well.
Ids == 1 .. MaxTransfers + MaxOperations * MaxLength

ASSUME SizesAssumption ==
    /\ Capacity \in Nat /\ MaxLength \in Nat \ {0}
    /\ MaxOperations \in Nat /\ MaxTransfers \in Nat
    /\ MaxAborts \in Nat

\* I2cPendingTransaction; chunk says which part of an operation it carries.
\* The identifier also stands for admission_sequence: both count submissions.
Transaction ==
    [id : Nat, client : Clients, correlation : Nat, chunk : Nat,
     owner : Nat, bus : Nat]

ASSUME NoneAssumption == None \notin Transaction

VARIABLES
    active,          \* bus.active while bus.busy
    pending,         \* bus.pending
    generation,      \* bus.bus_generation
    nextId,          \* bus.next_transaction_id
    asked,           \* bound: transactions the pressure chain has asked for
    owner,           \* client_generation of the F-RAM driver and of its client entry
    fram,            \* the driver's operation, length 0 in FRAM_STATE_IDLE
    token,           \* the correlation of the storage service's last request
    wire,            \* the request the port is executing
    late,            \* requests given up whose completion may still come
    aborts,          \* bound: recoveries and driver generations so far
    notices,         \* history: what the client of each transaction has heard
    carried          \* history: chunks of the last operation that were moved in time

vars == <<active, pending, generation, nextId, asked, owner, fram, token,
          wire, late, aborts, notices, carried>>

\* The driver between operations, after the answer it gave last.
Idle(result) ==
    [length |-> 0, done |-> 0, id |-> 0, correlation |-> 0, last |-> result]

Init ==
    /\ active = None /\ pending = {} /\ generation = 1 /\ nextId = 1 /\ asked = 0
    /\ owner = 1 /\ fram = Idle("none") /\ token = 0
    /\ wire = None /\ late = {} /\ aborts = 0
    /\ notices = [i \in Ids |-> "free"] /\ carried = {}

-----------------------------------------------------------------------------
(* Arbitration.                                                            *)

\* Mutant: the order of admission alone.
BeforeByAge(t, u) == t.id < u.id

\* best_pending_index: by priority, then by admission.
Before(t, u) ==
    \/ Priority[t.client] < Priority[u.client]
    \/ Priority[t.client] = Priority[u.client] /\ t.id < u.id

Best(queue) == CHOOSE t \in queue : \A u \in queue \ {t} : Before(t, u)

\* The sets that the loop of start_next may have gone through.
Ahead(queue) ==
    {refused \in SUBSET queue :
        \A t \in refused, u \in queue \ refused : Before(t, u)}

\* notify
Notified(S) ==
    [i \in Ids |->
        IF i \notin {t.id : t \in S} THEN notices[i]
        ELSE IF notices[i] = "open" THEN "answered" ELSE "unexpected"]

\* fram_on_i2c_completion: the notification is for the transfer awaited.
IsAwaited(driver, t) ==
    /\ driver.length > 0 /\ t.client = "fram"
    /\ t.id = driver.id /\ t.correlation = driver.correlation
    /\ t.owner = owner

\* The driver after a transfer that was not OK.
Failed(driver, S) ==
    IF \E t \in S : IsAwaited(driver, t) THEN Idle("ERROR") ELSE driver

\* start_next on an idle bus over the queue given: the best pending ones that
\* the port refuses are answered FAILED, the first one it takes is on the wire.
\* The clients in heard, and the driver, have had their callbacks already.
StartNext(queue, driver, port, heard) ==
    \E refused \in Ahead(queue) :
        LET rest == queue \ refused
        IN /\ port # None => rest = {}
           /\ active' = IF rest = {} THEN None
                        ELSE [Best(rest) EXCEPT !.bus = generation']
           /\ wire' = IF rest = {} THEN port ELSE active'
           /\ pending' = IF rest = {} THEN {} ELSE rest \ {Best(rest)}
           /\ notices' = Notified(heard \cup refused)
           /\ fram' = Failed(driver, refused)

-----------------------------------------------------------------------------
(* Submission.                                                             *)

\* Chunk n of the operation with this correlation, as submit_current_chunk asks.
Chunk(n, correlation) ==
    [id |-> nextId, client |-> "fram", correlation |-> correlation, chunk |-> n,
     owner |-> owner, bus |-> generation]

\* An idle bus puts the transaction on the wire.
SubmitStarts(t) ==
    /\ active = None /\ wire = None
    /\ active' = t /\ wire' = t
    /\ notices' = [notices EXCEPT ![t.id] = "open"]
    /\ nextId' = nextId + 1
    /\ UNCHANGED <<pending, generation>>

\* A busy bus keeps it.
SubmitWaits(t) ==
    /\ active # None /\ Cardinality(pending) < Capacity
    /\ pending' = pending \cup {t}
    /\ notices' = [notices EXCEPT ![t.id] = "open"]
    /\ nextId' = nextId + 1
    /\ UNCHANGED <<active, generation, wire>>

\* PORT_ERROR or NO_CAPACITY: nobody is notified, the identifier is used up.
SubmitRefused ==
    /\ active # None => Cardinality(pending) >= Capacity
    /\ nextId' = nextId + 1
    /\ UNCHANGED <<active, pending, generation, wire, notices>>

\* i2c_bus_submit
Submit(t) == SubmitStarts(t) \/ SubmitWaits(t) \/ SubmitRefused

\* submit_pressure_start, submit_pressure_read: when the events of the sensor ask
\* for a transfer; an earlier one may still be waiting.
PressureSubmits ==
    LET t == [id |-> nextId, client |-> "pressure", correlation |-> nextId,
              chunk |-> 0, owner |-> 1, bus |-> generation]
    IN /\ asked < MaxTransfers
       /\ asked' = asked + 1
       /\ Submit(t)
       /\ UNCHANGED <<owner, fram, token, late, aborts, carried>>

\* begin_operation for a read or a write.
Begin ==
    /\ fram.length = 0 /\ token < MaxOperations
    /\ token' = token + 1
    /\ \E length \in 1 .. MaxLength :
         \/ /\ (SubmitStarts(Chunk(1, token')) \/ SubmitWaits(Chunk(1, token')))
            /\ fram' = [length |-> length, done |-> 0, id |-> nextId,
                        correlation |-> token', last |-> fram.last]
            /\ carried' = {}
         \/ SubmitRefused /\ UNCHANGED <<fram, carried>>
    /\ UNCHANGED <<asked, owner, late, aborts>>

-----------------------------------------------------------------------------
(* Answers.                                                                *)

\* transferred_length < requested_length, after the chunk that has just ended.
HasMoreChunks == fram.done + 1 < fram.length

\* The driver's callback submits the next chunk before start_next runs, and
\* finds the bus idle whatever is pending.
NextChunkStarts(t, port) ==
    LET next == Chunk(t.chunk + 1, t.correlation)
    IN /\ port = None
       /\ active' = next /\ wire' = next
       /\ fram' = [fram EXCEPT !.done = @ + 1, !.id = nextId]
       /\ nextId' = nextId + 1
       /\ notices' = [Notified({t}) EXCEPT ![nextId] = "open"]
       /\ UNCHANGED <<pending>>

\* The port refuses it: the operation ends with BUS_ERROR.
NextChunkRefused(t, port) ==
    /\ nextId' = nextId + 1
    /\ StartNext(pending, Idle("ERROR"), port, {t})

\* The bus is released by t, which ended with this result: notify, start_next.
Release(t, result, port) ==
    IF ~IsAwaited(fram, t)
    THEN StartNext(pending, fram, port, {t}) /\ UNCHANGED nextId
    ELSE IF result = "OK" /\ HasMoreChunks
    THEN NextChunkStarts(t, port) \/ NextChunkRefused(t, port)
    ELSE /\ StartNext(pending, Idle(IF result = "OK" THEN "OK" ELSE "ERROR"),
                      port, {t})
         /\ UNCHANGED nextId

\* Mutant: whatever completes is the answer to the active transaction.
IsAnswerToAny(r) == active # None

\* i2c_bus_complete: the request answered is the active one.
IsAnswer(r) ==
    /\ active # None
    /\ r.bus = generation /\ r.id = active.id
    /\ r.correlation = active.correlation /\ r.owner = active.owner

Complete(r, result, port) ==
    IF IsAnswer(r)
    THEN Release(active, result, port)
    ELSE /\ wire' = port
         /\ UNCHANGED <<active, pending, nextId, fram, notices>>

Results == {"OK", "BUSY", "FAILED"}

\* i2c_port_stm32_on_complete, i2c_bus_on_port_completion
PortCompletes ==
    /\ wire # None
    /\ UNCHANGED <<generation, asked, owner, token, late, aborts>>
    /\ \E result \in Results :
         /\ Complete(wire, result, None)
         /\ carried' = IF /\ result = "OK" /\ wire.client = "fram"
                          /\ wire.correlation = fram.correlation
                       THEN carried \cup {wire.chunk} ELSE carried

\* The completion of a request that a recovery had ended.
LateCompletion ==
    \E r \in late, result \in Results :
        /\ late' = late \ {r}
        /\ UNCHANGED <<generation, asked, owner, token, aborts, carried>>
        /\ Complete(r, result, wire)

\* i2c_bus_tick at the deadline of the active transaction.  Its callers are tests:
\* no turn of the event loop makes it, so nothing promises that it ever happens.
Tick ==
    /\ active # None
    /\ generation' = generation + 1
    /\ \E port \in {None, wire} : Release(active, "TIMEOUT", port)
    /\ UNCHANGED <<asked, owner, token, late, aborts, carried>>

\* Mutant: what the driver has waiting in the queue is left there.
CancelRunningOnly ==
    LET running == active # None /\ active.client = "fram"
    IN /\ aborts < MaxAborts /\ aborts' = aborts + 1
       /\ owner' = owner + 1
       /\ IF fram.length > 0 /\ running
          THEN /\ generation' = generation + 1
               /\ \E port \in {None, wire} :
                    StartNext(pending, Failed(fram, {active}), port, {active})
          ELSE UNCHANGED <<active, pending, generation, wire, fram, notices>>
       /\ UNCHANGED <<nextId, asked, token, late, carried>>

\* fram_cancel_generation: i2c_bus_cancel_client takes the driver's transaction
\* off the queue or the wire, then both sides get the new generation.
CancelGeneration ==
    LET waiting == {t \in pending : t.client = "fram"}
        running == active # None /\ active.client = "fram"
        driver == Failed(fram, waiting)
    IN /\ aborts < MaxAborts /\ aborts' = aborts + 1
       /\ owner' = owner + 1
       /\ IF fram.length > 0 /\ running
          THEN /\ generation' = generation + 1
               /\ \E port \in {None, wire} :
                    StartNext(pending \ waiting, Failed(driver, {active}), port,
                              waiting \cup {active})
          ELSE IF fram.length > 0
          THEN /\ pending' = pending \ waiting
               /\ fram' = driver
               /\ notices' = Notified(waiting)
               /\ UNCHANGED <<active, generation, wire>>
          ELSE UNCHANGED <<active, pending, generation, wire, fram, notices>>
       /\ UNCHANGED <<nextId, asked, token, late, carried>>

\* Mutant: the client of the active transaction is not told.
RecoverSilently ==
    /\ aborts < MaxAborts /\ aborts' = aborts + 1
    /\ generation' = generation + 1
    /\ \E port \in {None, wire} :
         /\ late' \in IF wire # None /\ port = None
                      THEN {late, late \cup {wire}} ELSE {late}
         /\ StartNext(pending, fram, port, {})
    /\ UNCHANGED <<nextId, asked, owner, token, carried>>

\* i2c_bus_recover; the port may forget the request it executes, or complete it
\* after all (the action that linux_i2c_recover leaves scheduled).
Recover ==
    LET mine == IF active = None THEN {} ELSE {active}
    IN /\ aborts < MaxAborts /\ aborts' = aborts + 1
       /\ generation' = generation + 1
       /\ \E port \in {None, wire} :
            /\ late' \in IF wire # None /\ port = None
                         THEN {late, late \cup {wire}} ELSE {late}
            /\ StartNext(pending, Failed(fram, mine), port, mine)
       /\ UNCHANGED <<nextId, asked, owner, token, carried>>

Next ==
    \/ PressureSubmits \/ Begin
    \/ PortCompletes \/ LateCompletion
    \/ Tick \/ CancelGeneration \/ Recover

Spec == Init /\ [][Next]_vars

-----------------------------------------------------------------------------
(* Properties.                                                             *)

Held == pending \cup (IF active = None THEN {} ELSE {active})

\* Every accepted transaction is in exactly one place until its client is told,
\* and its client is told once: not again by a late completion, not by the
\* timeout of another, not when a queue is cancelled around it.
OneNotice ==
    /\ \A i \in Ids : /\ notices[i] # "unexpected"
                      /\ notices[i] = "open" <=> \E t \in Held : t.id = i
    /\ \A t, u \in Held : t.id = u.id => t = u
    /\ active \notin pending

\* Between two handlers nothing waits for an idle bus, and while the bus is busy
\* the port executes the active transaction, not one that was given up.
WireMatchesManager ==
    IF active = None THEN pending = {} ELSE wire = active

\* The driver waits exactly while one transfer of its operation, the one after
\* those that were moved, is held by the bus.
DriverMatchesBus ==
    LET mine == {t \in Held : t.client = "fram"}
    IN IF fram.length = 0 THEN mine = {}
       ELSE \E t \in mine : /\ mine = {t} /\ IsAwaited(fram, t)
                            /\ t.chunk = fram.done + 1
                            /\ carried = 1 .. fram.done

\* All three agree, whatever was refused, cancelled, recovered or answered late:
\* a bus never stays idle beside waiting work, and the driver never waits for a
\* transfer that is gone (i2c_bus_manager.c:88-107, fram_driver.c:299-353).
SidesAgree == WireMatchesManager /\ DriverMatchesBus

\* The pressure chain waits for at most the F-RAM operation that is under way:
\* the first chunk of a new one does not get on the wire while a pressure
\* transaction is pending.  Later chunks do: the driver's callback submits them
\* before start_next looks at the queue.
PressureGoesFirst ==
    [][(/\ active' # None /\ active' # active
        /\ active'.client = "fram" /\ active'.chunk = 1)
       => \A t \in pending' : t.client # "pressure"]_vars

\* Seen from the storage service the driver on its bus is a storage port: at most
\* one answer for each operation, OK only when all its chunks crossed the wire.
Port == INSTANCE StoragePort WITH
    operation <- fram.length,
    moved <- Cardinality(carried),
    result <- fram.last

ImplementsStoragePort == Port!PortSpec
=============================================================================
