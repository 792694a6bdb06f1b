---------------------------- MODULE MCEventQueue ----------------------------
(* Small catalogues for EventQueue: one kind per priority that matters.    *)
EXTENDS EventQueue

Kind(i, p, d) == [id |-> i, source |-> 0, priority |-> p, delivery |-> d]

\* The classes admission, coalescing and dequeue tell apart, and a second kind
\* of the LEVEL signal's own priority.
QueueKinds ==
    {Kind(1, CRITICAL, "EDGE"), Kind(2, MEASUREMENT, "MAILBOX"),
     Kind(3, CONFIG, "LEVEL"), Kind(5, CONFIG, "EDGE"),
     Kind(4, BACKGROUND, "EDGE")}
=============================================================================
