------------------------------ MODULE Scheduler ------------------------------
(***************************************************************************)
(* The monotonic scheduler (infrastructure/time/monotonic_scheduler.c): a  *)
(* dense table of one-shot and periodic jobs.  It owns no clock and no     *)
(* queue: scheduler_dispatch_due hands copies of due events to its caller. *)
(* Deadlines are far from 2^64, so the clamp of next_anchored is left out. *)
(***************************************************************************)
EXTENDS Integers, Sequences, SequencesExt

CONSTANTS
    MaxJobs,       \* SCHEDULER_MAX_JOBS
    MaxDueEvents   \* events that one dispatch may hand out

ASSUME SchedulerAssumption == MaxJobs \in Nat /\ MaxDueEvents \in Nat \ {0}

VARIABLES
    jobs,     \* the dense prefix of the table, in insertion order
    cursor,   \* where the loop of scheduler_dispatch_due stands; 0 outside it
    due       \* events_out: due events that the loop has yet to post

\* A job: [id, kind, policy, anchor, period, deadline, generation, pending];
\* kind is the event-catalogue entry it fires and period 0 means one-shot.
Policies == {"SKIP", "SIGNAL_ONCE", "OWNER_SPECIFIC"}

IsPeriodic(job) == job.period > 0

SchedulerInit == jobs = <<>> /\ cursor = 0 /\ due = <<>>

\* next_anchored with a mistake: one period on, however late the call is.
NextPeriod(anchor, period, now) == IF anchor > now THEN anchor ELSE anchor + period

\* The first instant of the grid anchor, anchor + period, ... after now.
NextAnchored(anchor, period, now) ==
    IF anchor > now THEN anchor
    ELSE anchor + ((now - anchor) \div period + 1) * period

IsScheduled(id) == \E i \in DOMAIN jobs : jobs[i].id = id

\* Mutant: the table takes one job too many.
HasRoomForOneMore(id) == Len(jobs) <= MaxJobs /\ ~IsScheduled(id)

HasRoom(id) == Len(jobs) < MaxJobs /\ ~IsScheduled(id)

\* A one-shot job always has the policy SKIP.
ScheduleOneShot(id, kind, deadline, generation) ==
    /\ HasRoom(id)
    /\ jobs' = Append(jobs, [id |-> id, kind |-> kind, policy |-> "SKIP",
                             anchor |-> deadline, period |-> 0, deadline |-> deadline,
                             generation |-> generation, pending |-> FALSE])

SchedulePeriodic(id, kind, anchor, period, policy, generation, now) ==
    /\ period > 0
    /\ HasRoom(id)
    /\ jobs' = Append(jobs, [id |-> id, kind |-> kind, policy |-> policy,
                             anchor |-> anchor, period |-> period,
                             deadline |-> NextAnchored(anchor, period, now),
                             generation |-> generation, pending |-> FALSE])

\* A cancel that names another generation finds nothing.
Cancel(id, generation) ==
    \E i \in DOMAIN jobs :
        /\ jobs[i].id = id /\ jobs[i].generation = generation
        /\ jobs' = RemoveAt(jobs, i)

\* Mutant: any acknowledgement of the identifier counts.
AcknowledgedByAnyone(table, id, generation) ==
    [i \in DOMAIN table |->
        IF table[i].id = id THEN [table[i] EXCEPT !.pending = FALSE] ELSE table[i]]

\* The table after an acknowledgement: one of another generation is ignored.
Acknowledged(table, id, generation) ==
    [i \in DOMAIN table |->
        IF table[i].id = id /\ table[i].generation = generation
        THEN [table[i] EXCEPT !.pending = FALSE] ELSE table[i]]

DueEvent(job) ==
    [kind |-> job.kind, payload |-> [correlation |-> job.id, generation |-> job.generation]]

-----------------------------------------------------------------------------
(* scheduler_dispatch_due, one iteration of its loop at a time.            *)

\* The job under the cursor moves to the next deadline of its grid; a one-shot
\* job is removed.
MovesOn(now, pending) ==
    LET job == jobs[cursor]
        advanced == [job EXCEPT !.deadline = NextAnchored(job.anchor, job.period, now),
                                !.pending = pending]
    IN  jobs' = IF IsPeriodic(job) THEN [jobs EXCEPT ![cursor] = advanced]
                ELSE RemoveAt(jobs, cursor)

\* Not due; or due, and its last event still waits to be consumed.
Passes(now) ==
    /\ \/ jobs[cursor].deadline > now
       \/ jobs[cursor].pending /\ jobs[cursor].policy # "SKIP"
    /\ UNCHANGED <<jobs, due>>

\* SKIP drops the deadline and forgets that the job was pending.
Skips(now) ==
    /\ jobs[cursor].deadline <= now
    /\ jobs[cursor].pending /\ jobs[cursor].policy = "SKIP"
    /\ MovesOn(now, FALSE)
    /\ UNCHANGED due

Fires(now) ==
    /\ jobs[cursor].deadline <= now
    /\ ~jobs[cursor].pending
    /\ due' = Append(due, DueEvent(jobs[cursor]))
    /\ MovesOn(now, TRUE)

\* i++, unless a removal has moved the next job under the cursor.
NextPosition == IF Len(jobs') < Len(jobs) THEN cursor ELSE cursor + 1

\* The loop goes on below the end of the table and of the caller's array.
InTable(table, position, events) ==
    position <= Len(table) /\ Len(events) < MaxDueEvents
=============================================================================
