----------------------------- MODULE OfflineBuffer -----------------------------
(* firmware/lib/OfflineBuffer: the ring buffer that keeps telemetry while the  *)
(* broker cannot be reached.  Slots are numbered as in the C++ array, and the  *)
(* three size_t fields keep their names.                                       *)
EXTENDS Naturals, Sequences

CONSTANTS
    Payload,    \* the serialised telemetry samples
    Capacity,   \* OFFLINE_BUFFER_SIZE
    NoPayload   \* the empty String of an unused slot

ASSUME CapacityAssumption == Capacity \in Nat \ {0}
ASSUME NoPayloadAssumption == NoPayload \notin Payload

VARIABLES
    items,      \* _items
    head,       \* _head: next slot to leave
    tail,       \* _tail: next free slot
    count,      \* _count
    out         \* the caller's String that peek filled last

vars == <<items, head, tail, count, out>>

Slots == 0 .. Capacity - 1

(* The slot after i, wrapping at the end of the array. *)
After(i) == (i + 1) % Capacity

Init ==
    /\ items = [i \in Slots |-> NoPayload]
    /\ head = 0 /\ tail = 0 /\ count = 0
    /\ out = NoPayload

(* Mutants of push and pop: _tail does not wrap, the drop-oldest branch leaves *)
(* _head where it is, a full buffer replaces its newest payload, a popped slot *)
(* keeps its String.                                                           *)
PushPastTheEnd(p) ==
    /\ count' = IF count = Capacity THEN count ELSE count + 1
    /\ head' = IF count = Capacity THEN After(head) ELSE head
    /\ items' = [items EXCEPT ![tail] = p]
    /\ tail' = tail + 1
    /\ UNCHANGED out

PushKeepsHead(p) ==
    /\ count' = IF count = Capacity THEN count ELSE count + 1
    /\ items' = [items EXCEPT ![tail] = p]
    /\ tail' = After(tail)
    /\ UNCHANGED <<head, out>>

PushOverNewest(p) ==
    LET full == count = Capacity IN
    /\ count' = IF full THEN count ELSE count + 1
    /\ items' = [items EXCEPT ![IF full THEN (tail + Capacity - 1) % Capacity ELSE tail] = p]
    /\ tail' = IF full THEN tail ELSE After(tail)
    /\ UNCHANGED <<head, out>>

PopKeepsString ==
    /\ count # 0
    /\ head' = After(head)
    /\ count' = count - 1
    /\ UNCHANGED <<items, tail, out>>

(* A full buffer first discards its oldest payload. *)
Push(p) ==
    LET full == count = Capacity IN
    /\ head' = IF full THEN After(head) ELSE head
    /\ count' = IF full THEN count ELSE count + 1
    /\ items' = [items EXCEPT ![tail] = p]
    /\ tail' = After(tail)
    /\ UNCHANGED out

Peek ==
    /\ count # 0
    /\ out' = items[head]
    /\ UNCHANGED <<items, head, tail, count>>

Pop ==
    /\ count # 0
    /\ items' = [items EXCEPT ![head] = NoPayload]
    /\ head' = After(head)
    /\ count' = count - 1
    /\ UNCHANGED <<tail, out>>

Next == (\E p \in Payload : Push(p)) \/ Peek \/ Pop

Spec == Init /\ [][Next]_vars

--------------------------------------------------------------------------------

(* The slot of the k-th oldest payload, k counted from 1, of a buffer whose    *)
(* oldest payload is in slot h.                                                *)
SlotAt(h, k) == (h + k - 1) % Capacity
SlotOf(k) == SlotAt(head, k)

(* What the buffer holds, oldest first: the refinement mapping to the queue. *)
Contents == [k \in 1 .. count |-> items[SlotOf(k)]]

Fifo == INSTANCE BoundedFifo WITH queue <- Contents

(* Type invariant: every field stays in the range the array indexing needs,    *)
(* so that _items[_tail] and _items[_head] are never out of bounds.            *)
TypeOK ==
    /\ items \in [Slots -> Payload \cup {NoPayload}]
    /\ head \in Slots
    /\ tail \in Slots
    /\ count \in 0 .. Capacity
    /\ out \in Payload \cup {NoPayload}

(* _tail is not independent state: it is always _count slots after _head, also *)
(* after the drop-oldest branch of push has moved _head and _tail together.    *)
TailFollowsCount == tail = (head + count) % Capacity

(* The slots that hold a payload are exactly the window from _head: pop leaves *)
(* no stale String behind, push never leaves a hole, so the memory the buffer  *)
(* keeps alive is what size() reports.                                         *)
WindowIsOccupied ==
    \A i \in Slots : items[i] # NoPayload <=> \E k \in 1 .. count : SlotOf(k) = i

(* The ring buffer implements the bounded drop-oldest queue: push, peek and    *)
(* pop act on Contents as they do on the abstract queue.                       *)
RefinesFifo == Fifo!Spec
================================================================================
