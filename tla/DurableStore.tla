---------------------------- MODULE DurableStore ----------------------------
(***************************************************************************)
(* What StorageService promises its owner: one durable record.  A          *)
(* submitted record may become the durable one at any moment until its     *)
(* answer is given, also in a crash and also when that answer reports a    *)
(* failure; the durable record changes in no other way.  OK is answered    *)
(* only for a record that is durable, and a restore returns it.            *)
(***************************************************************************)
CONSTANTS Record, Nothing, Failures, RestoreFailures

VARIABLES
    durable,   \* the record a restore would return
    active,    \* the record being committed
    reply,     \* the answer not yet collected
    view       \* the restored record not yet collected

vars == <<durable, active, reply, view>>

Init ==
    /\ durable \in Record \union {Nothing}
    /\ active = Nothing /\ reply = Nothing /\ view = Nothing

\* A commit begins.
Begin(r) ==
    /\ active = Nothing /\ reply = Nothing
    /\ active' = r
    /\ UNCHANGED <<durable, reply, view>>

\* The record under commit becomes the durable one.
Land ==
    /\ active # Nothing
    /\ durable' = active
    /\ UNCHANGED <<active, reply, view>>

Answer ==
    /\ active # Nothing
    /\ active' = Nothing
    /\ \E status \in Failures \union {"OK"} :
          /\ status = "OK" => durable = active
          /\ reply' = [record |-> active, status |-> status]
    /\ UNCHANGED <<durable, view>>

Collect ==
    /\ reply # Nothing
    /\ reply' = Nothing
    /\ UNCHANGED <<durable, active, view>>

\* A restore ends: with the durable record, or with a reason there is none.
\* Only an I/O error hides a record that exists.
Look ==
    /\ active = Nothing /\ reply = Nothing
    /\ \/ durable # Nothing /\ view' = [status |-> "OK", record |-> durable]
       \/ \E status \in RestoreFailures :
             /\ durable # Nothing => status = "IO_ERROR"
             /\ view' = [status |-> status, record |-> Nothing]
    /\ UNCHANGED <<durable, active, reply>>

\* The view is collected, or dropped by a new restore or commit.
CollectView ==
    /\ view # Nothing
    /\ view' = Nothing
    /\ UNCHANGED <<durable, active, reply>>

Crash ==
    /\ durable' \in {durable, IF active = Nothing THEN durable ELSE active}
    /\ active' = Nothing /\ reply' = Nothing /\ view' = Nothing

Next ==
    \/ \E r \in Record : Begin(r)
    \/ Land \/ Answer \/ Collect \/ Look \/ CollectView \/ Crash

Spec == Init /\ [][Next]_vars
=============================================================================
