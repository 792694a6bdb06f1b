----------------------------- MODULE StoragePort -----------------------------
(***************************************************************************)
(* What the storage service relies on (ports/storage_port.h): one          *)
(* operation at a time, at most one answer for each accepted operation,    *)
(* and an OK only with the last chunk of that operation.  That an answer   *)
(* comes in the end is not promised here: CheckpointStore assumes it.      *)
(***************************************************************************)
EXTENDS Naturals

CONSTANT MaxLength   \* chunks of the longest operation

VARIABLES
    operation,       \* length of the operation in progress, 0 if there is none
    moved,           \* chunks of the last operation that crossed the wire
    result           \* the last answer

portVars == <<operation, moved, result>>

PortInit == operation = 0 /\ moved = 0 /\ result = "none"

Accept ==
    /\ operation = 0
    /\ operation' \in 1 .. MaxLength
    /\ moved' = 0
    /\ UNCHANGED result

Move ==
    /\ moved < operation
    /\ moved' = moved + 1
    /\ UNCHANGED <<operation, result>>

\* The last chunk and the answer are one instant.
AnswerOk ==
    /\ operation # 0 /\ moved + 1 = operation
    /\ operation' = 0 /\ moved' = operation /\ result' = "OK"

\* The operation ends early, or the next chunk is refused after this one.
AnswerError ==
    /\ operation # 0
    /\ moved' \in {moved, moved + 1} /\ moved' <= operation
    /\ operation' = 0 /\ result' = "ERROR"

Answer == AnswerOk \/ AnswerError

PortNext == Accept \/ Move \/ Answer

PortSpec == PortInit /\ [][PortNext]_portVars
=============================================================================
