------------------------------ MODULE BoundedFifo ------------------------------
(* What the rest of the firmware relies on when it uses OfflineBuffer: a first *)
(* in, first out queue of at most Capacity payloads whose push never fails and *)
(* makes room by dropping the oldest payload.  `out` is the last payload a     *)
(* caller received from peek.                                                  *)
EXTENDS Naturals, Sequences

CONSTANTS
    Payload,    \* what is queued
    Capacity,   \* payloads the queue holds, at least 1
    NoPayload   \* what peek's caller holds before the first peek

VARIABLES queue, out

vars == <<queue, out>>

(* The queue after a push: the oldest payload leaves when the queue is full. *)
Pushed(q, p) == Append(IF Len(q) = Capacity THEN Tail(q) ELSE q, p)

Init == queue = << >> /\ out = NoPayload

Push(p) == queue' = Pushed(queue, p) /\ UNCHANGED out

Peek == queue # << >> /\ out' = Head(queue) /\ UNCHANGED queue

Pop == queue # << >> /\ queue' = Tail(queue) /\ UNCHANGED out

Next == (\E p \in Payload : Push(p)) \/ Peek \/ Pop

Spec == Init /\ [][Next]_vars
================================================================================
