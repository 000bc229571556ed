-------------------------- MODULE OfflineBufferProofs --------------------------
(* Proofs about the ring buffer, for every capacity and every payload set.     *)
EXTENDS OfflineBuffer, TLAPS

(* The remainder of a number below twice the divisor, the only case the ring   *)
(* buffer's index arithmetic meets.                                            *)
LEMMA ModBelowTwice ==
    ASSUME NEW a \in Nat, a < 2 * Capacity
    PROVE  a % Capacity = IF a < Capacity THEN a ELSE a - Capacity
  BY CapacityAssumption, SMTT(60)

(* The slot after a slot is a slot, and it is the next index unless it wraps.  *)
LEMMA AfterWraps ==
    ASSUME NEW i \in Slots
    PROVE  /\ After(i) = IF i = Capacity - 1 THEN 0 ELSE i + 1
           /\ After(i) \in Slots
  <1> DEFINE a == i + 1
  <1>1. a \in Nat /\ a < 2 * Capacity
    BY CapacityAssumption DEF Slots
  <1>2. After(i) = a % Capacity
    BY DEF After
  <1> HIDE DEF a
  <1>3. a % Capacity = IF a < Capacity THEN a ELSE a - Capacity
    BY <1>1, ModBelowTwice
  <1> QED
    BY <1>2, <1>3, CapacityAssumption DEF a, Slots

(* The slot at an offset from a head.                                          *)
LEMMA OffsetWraps ==
    ASSUME NEW h \in Slots, NEW k \in 0 .. Capacity
    PROVE  (h + k) % Capacity = IF h + k < Capacity THEN h + k ELSE h + k - Capacity
  <1> DEFINE a == h + k
  <1>1. a \in Nat /\ a < 2 * Capacity
    BY CapacityAssumption DEF Slots
  <1> HIDE DEF a
  <1>2. a % Capacity = IF a < Capacity THEN a ELSE a - Capacity
    BY <1>1, ModBelowTwice
  <1> QED
    BY <1>1, <1>2, CapacityAssumption DEF a, Slots

(* The inductive invariant: the two index invariants need the field ranges,    *)
(* and the window needs to know where the tail is.                             *)
IInv == TypeOK /\ TailFollowsCount /\ WindowIsOccupied

(* SlotAt without the remainder.                                               *)
LEMMA SlotAtWraps ==
    ASSUME NEW h \in Slots, NEW k \in 1 .. Capacity
    PROVE  SlotAt(h, k) = IF h + k - 1 < Capacity THEN h + k - 1
                                                  ELSE h + k - 1 - Capacity
  <1>1. k - 1 \in 0 .. Capacity /\ h + k - 1 = h + (k - 1)
    BY CapacityAssumption DEF Slots
  <1>2. (h + (k - 1)) % Capacity = IF h + (k - 1) < Capacity
                THEN h + (k - 1) ELSE h + (k - 1) - Capacity
    BY <1>1, OffsetWraps
  <1> QED
    BY <1>1, <1>2 DEF SlotAt

--------------------------------------------------------------------------------

LEMMA InitIInv == Init => IInv
  <1> SUFFICES ASSUME Init PROVE IInv
    OBVIOUS
  <1>1. TypeOK
    BY CapacityAssumption DEF Init, TypeOK, Slots
  <1>2. TailFollowsCount
    <2>1. 0 \in Slots /\ 0 \in 0 .. Capacity
      BY CapacityAssumption DEF Slots
    <2>2. (0 + 0) % Capacity = IF 0 + 0 < Capacity THEN 0 + 0 ELSE 0 + 0 - Capacity
      BY <2>1, OffsetWraps
    <2> QED
      BY <2>2, CapacityAssumption DEF Init, TailFollowsCount
  <1>3. WindowIsOccupied
    BY CapacityAssumption DEF Init, WindowIsOccupied, Slots
  <1> QED
    BY <1>1, <1>2, <1>3 DEF IInv

(* tail without the remainder *)
LEMMA TailWraps ==
    ASSUME TypeOK, TailFollowsCount
    PROVE  tail = IF head + count < Capacity THEN head + count
                                             ELSE head + count - Capacity
  <1>1. head \in Slots /\ count \in 0 .. Capacity
    BY DEF TypeOK
  <1> QED
    BY <1>1, OffsetWraps DEF TailFollowsCount

LEMMA PushType ==
    ASSUME TypeOK, NEW p \in Payload, Push(p)
    PROVE  TypeOK'
  <1>1. After(head) \in Slots /\ After(tail) \in Slots
    BY AfterWraps DEF TypeOK
  <1>2. items' \in [Slots -> Payload \cup {NoPayload}]
    BY DEF TypeOK, Push
  <1>3. head' \in Slots /\ tail' \in Slots /\ out' \in Payload \cup {NoPayload}
    BY <1>1 DEF TypeOK, Push
  <1>4. count' \in 0 .. Capacity
    BY CapacityAssumption DEF TypeOK, Push
  <1> QED
    BY <1>2, <1>3, <1>4 DEF TypeOK

LEMMA PopType ==
    ASSUME TypeOK, Pop
    PROVE  TypeOK'
  <1>1. After(head) \in Slots
    BY AfterWraps DEF TypeOK
  <1>2. items' \in [Slots -> Payload \cup {NoPayload}]
    BY DEF TypeOK, Pop
  <1>3. count' \in 0 .. Capacity
    BY CapacityAssumption DEF TypeOK, Pop
  <1> QED
    BY <1>1, <1>2, <1>3 DEF TypeOK, Pop

LEMMA PeekType ==
    ASSUME TypeOK, Peek
    PROVE  TypeOK'
  BY DEF TypeOK, Peek

(* Push moves the tail one slot on, and the head with it when it drops.        *)
LEMMA PushTail ==
    ASSUME TypeOK, TailFollowsCount, NEW p \in Payload, Push(p)
    PROVE  TailFollowsCount'
  <1>1. head \in Slots /\ tail \in Slots /\ count \in 0 .. Capacity
    BY DEF TypeOK
  <1>2. TypeOK'
    BY PushType
  <1>3. head' \in Slots /\ count' \in 0 .. Capacity
    BY <1>2 DEF TypeOK, Slots
  <1>4. (head' + count') % Capacity =
            IF head' + count' < Capacity THEN head' + count'
                                         ELSE head' + count' - Capacity
    BY <1>3, OffsetWraps
  <1>5. tail' = IF tail = Capacity - 1 THEN 0 ELSE tail + 1
    BY <1>1, AfterWraps DEF Push
  <1>6. After(head) = IF head = Capacity - 1 THEN 0 ELSE head + 1
    BY <1>1, AfterWraps
  <1>7. head' = (IF count = Capacity THEN After(head) ELSE head)
        /\ count' = IF count = Capacity THEN count ELSE count + 1
    BY DEF Push
  <1>8. tail' = IF head' + count' < Capacity THEN head' + count'
                                             ELSE head' + count' - Capacity
    <2> CASE count = Capacity
      BY <1>1, <1>5, <1>6, <1>7, TailWraps, CapacityAssumption DEF Slots
    <2> CASE count # Capacity
      BY <1>1, <1>5, <1>7, TailWraps, CapacityAssumption DEF Slots
    <2> QED
      OBVIOUS
  <1> QED
    BY <1>4, <1>8 DEF TailFollowsCount

LEMMA PopTail ==
    ASSUME TypeOK, TailFollowsCount, Pop
    PROVE  TailFollowsCount'
  <1>1. head \in Slots /\ tail \in Slots /\ count \in 1 .. Capacity
    BY DEF TypeOK, Pop
  <1>2. TypeOK'
    BY PopType
  <1>3. head' \in Slots /\ count' \in 0 .. Capacity
    BY <1>2 DEF TypeOK, Slots
  <1>4. (head' + count') % Capacity =
            IF head' + count' < Capacity THEN head' + count'
                                         ELSE head' + count' - Capacity
    BY <1>3, OffsetWraps
  <1>5. head' = IF head = Capacity - 1 THEN 0 ELSE head + 1
    BY <1>1, AfterWraps DEF Pop
  <1>6. count' = count - 1 /\ tail' = tail
    BY DEF Pop
  <1>7. tail' = IF head' + count' < Capacity THEN head' + count'
                                             ELSE head' + count' - Capacity
    BY <1>1, <1>5, <1>6, TailWraps, CapacityAssumption DEF Slots
  <1> QED
    BY <1>4, <1>7 DEF TailFollowsCount

LEMMA PeekTail ==
    ASSUME TailFollowsCount, Peek
    PROVE  TailFollowsCount'
  BY DEF TailFollowsCount, Peek

--------------------------------------------------------------------------------

(* The window as an interval of slot numbers, possibly wrapped.                *)
InWindow(i, h, n) ==
    IF h + n <= Capacity THEN h <= i /\ i < h + n
                         ELSE h <= i \/ i < h + n - Capacity

LEMMA WindowArith ==
    ASSUME NEW h \in Slots, NEW n \in 0 .. Capacity, NEW i \in Slots
    PROVE  (\E k \in 1 .. n : SlotAt(h, k) = i) <=> InWindow(i, h, n)
  <1>1. ASSUME NEW k \in 1 .. n, SlotAt(h, k) = i
        PROVE  InWindow(i, h, n)
    <2>1. k \in 1 .. Capacity
      BY CapacityAssumption
    <2> QED
      BY <1>1, <2>1, SlotAtWraps, CapacityAssumption DEF InWindow, Slots
  <1>2. ASSUME InWindow(i, h, n)
        PROVE  \E k \in 1 .. n : SlotAt(h, k) = i
    <2> DEFINE k == IF h <= i THEN i - h + 1 ELSE i + Capacity - h + 1
    <2>1. k \in 1 .. n
      BY <1>2, CapacityAssumption DEF InWindow, Slots
    <2>2. k \in 1 .. Capacity
      BY <2>1, CapacityAssumption
    <2>3. IF h + k - 1 < Capacity THEN h + k - 1 = i
                                  ELSE h + k - 1 - Capacity = i
      BY CapacityAssumption DEF Slots
    <2> HIDE DEF k
    <2>4. SlotAt(h, k) = i
      BY <2>2, <2>3, SlotAtWraps
    <2> QED
      BY <2>1, <2>4
  <1> QED
    BY <1>1, <1>2

LEMMA PushWindow ==
    ASSUME IInv, NEW p \in Payload, Push(p)
    PROVE  WindowIsOccupied'
  <1>0. TypeOK /\ TailFollowsCount /\ WindowIsOccupied /\ TypeOK'
    BY PushType DEF IInv
  <1>1. head \in Slots /\ tail \in Slots /\ count \in 0 .. Capacity
        /\ items \in [Slots -> Payload \cup {NoPayload}]
    BY <1>0 DEF TypeOK
  <1>2. After(head) = IF head = Capacity - 1 THEN 0 ELSE head + 1
    BY <1>1, AfterWraps
  <1>3. ASSUME NEW i \in Slots
        PROVE  items'[i] # NoPayload <=> InWindow(i, head', count')
    <2>1. items[i] # NoPayload <=> InWindow(i, head, count)
      BY <1>0, <1>1, WindowArith DEF WindowIsOccupied, SlotOf
    <2>2. items'[i] = IF i = tail THEN p ELSE items[i]
      BY <1>1 DEF Push
    <2>3. items'[i] # NoPayload <=> (i = tail \/ InWindow(i, head, count))
      BY <2>1, <2>2, NoPayloadAssumption
    <2>4. InWindow(i, head', count') <=> (i = tail \/ InWindow(i, head, count))
      <3>1. CASE count = Capacity
        BY <1>0, <1>1, <1>2, <3>1, TailWraps, CapacityAssumption DEF Push, InWindow, Slots
      <3>2. CASE count # Capacity
        BY <1>0, <1>1, <3>2, TailWraps, CapacityAssumption DEF Push, InWindow, Slots
      <3> QED
        BY <3>1, <3>2
    <2> QED
      BY <2>3, <2>4
  <1>4. head' \in Slots /\ count' \in 0 .. Capacity
    BY <1>0 DEF TypeOK, Slots
  <1>5. \A i \in Slots : (\E k \in 1 .. count' : SlotAt(head', k) = i)
                            <=> InWindow(i, head', count')
    BY <1>4, WindowArith
  <1> QED
    BY <1>3, <1>5 DEF WindowIsOccupied, SlotOf, Slots

LEMMA PopWindow ==
    ASSUME IInv, Pop
    PROVE  WindowIsOccupied'
  <1>0. TypeOK /\ WindowIsOccupied /\ TypeOK'
    BY PopType DEF IInv
  <1>1. head \in Slots /\ count \in 1 .. Capacity
        /\ items \in [Slots -> Payload \cup {NoPayload}]
    BY <1>0 DEF TypeOK, Pop
  <1>2. After(head) = IF head = Capacity - 1 THEN 0 ELSE head + 1
    BY <1>1, AfterWraps
  <1>3. ASSUME NEW i \in Slots
        PROVE  items'[i] # NoPayload <=> InWindow(i, head', count')
    <2>1. items[i] # NoPayload <=> InWindow(i, head, count)
      BY <1>0, <1>1, WindowArith DEF WindowIsOccupied, SlotOf
    <2>2. items'[i] = IF i = head THEN NoPayload ELSE items[i]
      BY <1>1 DEF Pop
    <2>3. InWindow(i, head', count') <=> (i # head /\ InWindow(i, head, count))
      BY <1>1, <1>2, CapacityAssumption DEF Pop, InWindow, Slots
    <2> QED
      BY <2>1, <2>2, <2>3
  <1>4. head' \in Slots /\ count' \in 0 .. Capacity
    BY <1>0 DEF TypeOK, Slots
  <1>5. \A i \in Slots : (\E k \in 1 .. count' : SlotAt(head', k) = i)
                            <=> InWindow(i, head', count')
    BY <1>4, WindowArith
  <1> QED
    BY <1>3, <1>5 DEF WindowIsOccupied, SlotOf, Slots

LEMMA PeekWindow ==
    ASSUME WindowIsOccupied, Peek
    PROVE  WindowIsOccupied'
  BY DEF WindowIsOccupied, SlotOf, Peek

LEMMA NextIInv == IInv /\ [Next]_vars => IInv'
  <1> SUFFICES ASSUME IInv, [Next]_vars PROVE IInv'
    OBVIOUS
  <1>1. CASE \E p \in Payload : Push(p)
    BY <1>1, PushType, PushTail, PushWindow DEF IInv
  <1>2. CASE Peek
    BY <1>2, PeekType, PeekTail, PeekWindow DEF IInv
  <1>3. CASE Pop
    BY <1>3, PopType, PopTail, PopWindow DEF IInv
  <1>4. CASE UNCHANGED vars
    BY <1>4 DEF vars, IInv, TypeOK, TailFollowsCount, WindowIsOccupied, SlotOf
  <1> QED
    BY <1>1, <1>2, <1>3, <1>4 DEF Next

(* No reachable state lets an index leave the array, separates _tail from      *)
(* _head + _count, or leaves a stale or missing payload in a slot.             *)
THEOREM BufferInvariant == Spec => []IInv
  BY InitIInv, NextIInv, PTL DEF Spec

THEOREM TypeCorrect == Spec => []TypeOK
  <1>1. IInv => TypeOK
    BY DEF IInv
  <1> QED
    BY <1>1, BufferInvariant, PTL

THEOREM TailCorrect == Spec => []TailFollowsCount
  <1>1. IInv => TailFollowsCount
    BY DEF IInv
  <1> QED
    BY <1>1, BufferInvariant, PTL

THEOREM WindowCorrect == Spec => []WindowIsOccupied
  <1>1. IInv => WindowIsOccupied
    BY DEF IInv
  <1> QED
    BY <1>1, BufferInvariant, PTL

--------------------------------------------------------------------------------

(* Contents as a sequence: its length, and its elements without the remainder. *)
LEMMA ContentsSeq ==
    ASSUME TypeOK
    PROVE  /\ Contents \in Seq(Payload \cup {NoPayload})
           /\ Len(Contents) = count
           /\ \A k \in 1 .. count : Contents[k] = items[SlotAt(head, k)]
  <1>1. head \in Slots /\ count \in 0 .. Capacity
        /\ items \in [Slots -> Payload \cup {NoPayload}]
    BY DEF TypeOK
  <1>2. \A k \in 1 .. count : SlotAt(head, k) \in Slots
    BY <1>1, SlotAtWraps, CapacityAssumption DEF Slots
  <1>3. Contents \in [1 .. count -> Payload \cup {NoPayload}]
    BY <1>1, <1>2 DEF Contents, SlotOf
  <1>4. count \in Nat
    BY <1>1, CapacityAssumption
  <1> QED
    BY <1>3, <1>4 DEF Contents, SlotOf

(* One step along the window: the slot after the k-th is the (k+1)-th.         *)
LEMMA SlotAtShift ==
    ASSUME NEW h \in Slots, NEW k \in 1 .. Capacity - 1
    PROVE  SlotAt(After(h), k) = SlotAt(h, k + 1)
  <1>1. After(h) \in Slots /\ After(h) = IF h = Capacity - 1 THEN 0 ELSE h + 1
    BY AfterWraps
  <1>2. k \in 1 .. Capacity /\ k + 1 \in 1 .. Capacity
    BY CapacityAssumption
  <1>3. SlotAt(h, k + 1) = IF h + (k + 1) - 1 < Capacity THEN h + (k + 1) - 1
                              ELSE h + (k + 1) - 1 - Capacity
    BY <1>2, SlotAtWraps
  <1>4. SlotAt(After(h), k) = IF After(h) + k - 1 < Capacity THEN After(h) + k - 1
                              ELSE After(h) + k - 1 - Capacity
    BY <1>1, <1>2, SlotAtWraps
  <1> QED
    BY <1>1, <1>2, <1>3, <1>4, CapacityAssumption DEF Slots

(* The slots of a window are pairwise different.                               *)
LEMMA SlotAtInjective ==
    ASSUME NEW h \in Slots, NEW j \in 1 .. Capacity, NEW k \in 1 .. Capacity,
           SlotAt(h, j) = SlotAt(h, k)
    PROVE  j = k
  BY SlotAtWraps, CapacityAssumption DEF Slots

LEMMA FirstSlot ==
    ASSUME NEW h \in Slots
    PROVE  SlotAt(h, 1) = h
  <1>1. 1 \in 1 .. Capacity
    BY CapacityAssumption
  <1>2. SlotAt(h, 1) = IF h + 1 - 1 < Capacity THEN h + 1 - 1 ELSE h + 1 - 1 - Capacity
    BY <1>1, SlotAtWraps
  <1> QED
    BY <1>2, CapacityAssumption DEF Slots

(* The last slot of a full window that starts after h is h itself.             *)
LEMMA LastSlot ==
    ASSUME NEW h \in Slots
    PROVE  SlotAt(After(h), Capacity) = h
  <1>1. Capacity \in 1 .. Capacity
    BY CapacityAssumption
  <1>2. After(h) \in Slots /\ After(h) = IF h = Capacity - 1 THEN 0 ELSE h + 1
    BY AfterWraps
  <1>3. SlotAt(After(h), Capacity) =
            IF After(h) + Capacity - 1 < Capacity THEN After(h) + Capacity - 1
                                           ELSE After(h) + Capacity - 1 - Capacity
    BY <1>1, <1>2, SlotAtWraps
  <1> QED
    BY <1>2, <1>3, CapacityAssumption DEF Slots

(* A sequence is the function of its elements.                                 *)
LEMMA SeqElements ==
    ASSUME NEW S, NEW s \in Seq(S), NEW n \in Nat, Len(s) = n
    PROVE  s = [k \in 1 .. n |-> s[k]]
  <1>1. s \in [1 .. n -> S]
    OBVIOUS
  <1> QED
    BY <1>1

LEMMA PushRefines ==
    ASSUME IInv, NEW p \in Payload, Push(p)
    PROVE  Fifo!Push(p)
  <1>0. TypeOK /\ TailFollowsCount /\ TypeOK'
    BY PushType DEF IInv
  <1>1. head \in Slots /\ tail \in Slots /\ count \in 0 .. Capacity
        /\ items \in [Slots -> Payload \cup {NoPayload}]
    BY <1>0 DEF TypeOK
  <1>2. /\ Contents \in Seq(Payload \cup {NoPayload})
        /\ Len(Contents) = count
        /\ \A k \in 1 .. count : Contents[k] = items[SlotAt(head, k)]
    BY <1>0, ContentsSeq
  <1>3. Contents' = [k \in 1 .. count' |-> items'[SlotAt(head', k)]]
    BY DEF Contents, SlotOf
  <1>4. CASE count = Capacity
    <2>1. tail = head
      BY <1>0, <1>1, <1>4, TailWraps, CapacityAssumption DEF Slots
    <2>2. head' = After(head) /\ count' = Capacity
      BY <1>4 DEF Push
    <2>3. ASSUME NEW k \in 1 .. Capacity - 1
          PROVE  items'[SlotAt(head', k)] = Contents[k + 1]
      <3>1. SlotAt(head', k) = SlotAt(head, k + 1)
        BY <1>1, <2>2, SlotAtShift
      <3>2. k + 1 \in 1 .. Capacity /\ 1 \in 1 .. Capacity /\ k + 1 # 1
        BY CapacityAssumption
      <3>3. SlotAt(head, 1) = head
        BY <1>1, FirstSlot
      <3>4. SlotAt(head, k + 1) # head
        BY <1>1, <3>2, <3>3, SlotAtInjective
      <3>5. items'[SlotAt(head, k + 1)] = items[SlotAt(head, k + 1)]
        BY <1>1, <2>1, <3>4 DEF Push
      <3> QED
        BY <1>2, <1>4, <3>1, <3>2, <3>5
    <2>4. items'[SlotAt(head', Capacity)] = p
      <3>1. SlotAt(head', Capacity) = head
        BY <1>1, <2>2, LastSlot
      <3> QED
        BY <1>1, <2>1, <3>1 DEF Push
    <2>5. Contents # << >> /\ Len(Tail(Contents)) = Capacity - 1
          /\ Tail(Contents) \in Seq(Payload \cup {NoPayload})
      BY <1>2, <1>4, CapacityAssumption
    <2>6. Contents' = Append(Tail(Contents), p)
      <3> DEFINE new == Append(Tail(Contents), p)
      <3>1. new \in Seq(Payload \cup {NoPayload}) /\ Len(new) = Capacity
        BY <2>5, CapacityAssumption
      <3>2. \A k \in 1 .. Capacity - 1 : new[k] = Contents[k + 1]
        BY <1>2, <1>4, <2>5, CapacityAssumption
      <3>3. new[Capacity] = p
        BY <2>5, CapacityAssumption
      <3> HIDE DEF new
      <3>4. new = [k \in 1 .. Capacity |-> new[k]]
        BY <3>1, SeqElements, CapacityAssumption
      <3>5. ASSUME NEW k \in 1 .. Capacity
            PROVE  new[k] = items'[SlotAt(head', k)]
        <4>1. CASE k = Capacity
          BY <2>4, <3>3, <4>1
        <4>2. CASE k # Capacity
          <5>1. k \in 1 .. Capacity - 1
            BY <4>2, CapacityAssumption
          <5> QED
            BY <2>3, <3>2, <5>1
        <4> QED
          BY <4>1, <4>2
      <3> QED
        BY <1>3, <2>2, <3>4, <3>5 DEF new
    <2> QED
      BY <1>2, <1>4, <2>6 DEF Fifo!Push, Fifo!Pushed, Push
  <1>5. CASE count # Capacity
    <2>1. count + 1 \in 1 .. Capacity /\ SlotAt(head, count + 1) = tail
      <3>1. count + 1 \in 1 .. Capacity
        BY <1>1, <1>5, CapacityAssumption
      <3>2. SlotAt(head, count + 1) =
                IF head + (count + 1) - 1 < Capacity THEN head + (count + 1) - 1
                                       ELSE head + (count + 1) - 1 - Capacity
        BY <1>1, <3>1, SlotAtWraps
      <3>3. tail = IF head + count < Capacity THEN head + count
                                              ELSE head + count - Capacity
        BY <1>0, TailWraps
      <3> QED
        BY <1>1, <3>1, <3>2, <3>3, CapacityAssumption DEF Slots
    <2>2. head' = head /\ count' = count + 1
      BY <1>5 DEF Push
    <2>3. ASSUME NEW k \in 1 .. count
          PROVE  items'[SlotAt(head', k)] = Contents[k]
      <3>1. k \in 1 .. Capacity /\ k # count + 1
        BY <1>1, CapacityAssumption
      <3>2. SlotAt(head, k) # tail
        BY <1>1, <2>1, <3>1, SlotAtInjective
      <3> QED
        BY <1>1, <1>2, <2>2, <3>2 DEF Push
    <2>4. items'[SlotAt(head', count + 1)] = p
      BY <1>1, <2>1, <2>2 DEF Push
    <2>5. Contents' = Append(Contents, p)
      <3> DEFINE new == Append(Contents, p)
      <3>1. new \in Seq(Payload \cup {NoPayload}) /\ Len(new) = count + 1
        BY <1>2
      <3>2. \A k \in 1 .. count + 1 : new[k] = items'[SlotAt(head', k)]
        BY <1>1, <1>2, <2>3, <2>4
      <3> HIDE DEF new
      <3>3. new = [k \in 1 .. count + 1 |-> new[k]]
        BY <1>1, <3>1, SeqElements, CapacityAssumption
      <3> QED
        BY <1>3, <2>2, <3>2, <3>3 DEF new
    <2> QED
      BY <1>2, <1>5, <2>5 DEF Fifo!Push, Fifo!Pushed, Push
  <1> QED
    BY <1>4, <1>5

LEMMA PopRefines ==
    ASSUME IInv, Pop
    PROVE  Fifo!Pop
  <1>0. TypeOK
    BY DEF IInv
  <1>1. head \in Slots /\ count \in 1 .. Capacity
        /\ items \in [Slots -> Payload \cup {NoPayload}]
    BY <1>0 DEF TypeOK, Pop
  <1>2. /\ Contents \in Seq(Payload \cup {NoPayload})
        /\ Len(Contents) = count
        /\ \A k \in 1 .. count : Contents[k] = items[SlotAt(head, k)]
    BY <1>0, ContentsSeq
  <1>3. Contents' = [k \in 1 .. count - 1 |-> items'[SlotAt(head', k)]]
    BY DEF Contents, SlotOf, Pop
  <1>4. ASSUME NEW k \in 1 .. count - 1
        PROVE  items'[SlotAt(head', k)] = Contents[k + 1]
    <2>1. k \in 1 .. Capacity - 1 /\ k + 1 \in 1 .. count
          /\ k + 1 \in 1 .. Capacity /\ 1 \in 1 .. Capacity /\ k + 1 # 1
      BY <1>1, CapacityAssumption
    <2>2. SlotAt(head', k) = SlotAt(head, k + 1)
      BY <1>1, <2>1, SlotAtShift DEF Pop
    <2>3. SlotAt(head, 1) = head
      BY <1>1, FirstSlot
    <2>4. SlotAt(head, k + 1) # head
      BY <1>1, <2>1, <2>3, SlotAtInjective
    <2> QED
      BY <1>1, <1>2, <2>1, <2>2, <2>4 DEF Pop
  <1>5. Tail(Contents) = [k \in 1 .. count - 1 |-> Contents[k + 1]]
    <2> DEFINE rest == Tail(Contents)
    <2>1. rest \in Seq(Payload \cup {NoPayload}) /\ Len(rest) = count - 1
          /\ count - 1 \in Nat
      BY <1>1, <1>2, CapacityAssumption
    <2>2. \A k \in 1 .. count - 1 : rest[k] = Contents[k + 1]
      BY <1>1, <1>2, CapacityAssumption
    <2> HIDE DEF rest
    <2>3. rest = [k \in 1 .. count - 1 |-> rest[k]]
      BY <2>1, SeqElements
    <2>4. rest = [k \in 1 .. count - 1 |-> Contents[k + 1]]
      BY <2>2, <2>3
    <2> QED
      BY <2>4 DEF rest
  <1>6. Contents # << >>
    BY <1>1, <1>2
  <1> QED
    BY <1>3, <1>4, <1>5, <1>6 DEF Fifo!Pop, Pop

LEMMA PeekRefines ==
    ASSUME IInv, Peek
    PROVE  Fifo!Peek
  <1>0. TypeOK
    BY DEF IInv
  <1>1. head \in Slots /\ count \in 1 .. Capacity /\ 1 \in 1 .. Capacity
    BY <1>0, CapacityAssumption DEF TypeOK, Peek
  <1>2. SlotAt(head, 1) = head
    BY <1>1, FirstSlot
  <1>3. /\ Contents \in Seq(Payload \cup {NoPayload})
        /\ Len(Contents) = count
        /\ \A k \in 1 .. count : Contents[k] = items[SlotAt(head, k)]
    BY <1>0, ContentsSeq
  <1>4. Contents # << >> /\ Head(Contents) = items[head]
    BY <1>1, <1>2, <1>3
  <1>5. Contents' = Contents
    BY DEF Contents, SlotOf, SlotAt, Peek
  <1> QED
    BY <1>4, <1>5 DEF Fifo!Peek, Peek

LEMMA StutterRefines ==
    ASSUME UNCHANGED vars
    PROVE  UNCHANGED Fifo!vars
  BY DEF vars, Fifo!vars, Contents, SlotOf, SlotAt

LEMMA InitRefines == Init => Fifo!Init
  BY DEF Init, Fifo!Init, Contents

LEMMA StepRefines == IInv /\ [Next]_vars => [Fifo!Next]_Fifo!vars
  <1> SUFFICES ASSUME IInv, [Next]_vars PROVE [Fifo!Next]_Fifo!vars
    OBVIOUS
  <1>1. CASE \E p \in Payload : Push(p)
    BY <1>1, PushRefines DEF Fifo!Next
  <1>2. CASE Peek
    BY <1>2, PeekRefines DEF Fifo!Next
  <1>3. CASE Pop
    BY <1>3, PopRefines DEF Fifo!Next
  <1>4. CASE UNCHANGED vars
    BY <1>4, StutterRefines
  <1> QED
    BY <1>1, <1>2, <1>3, <1>4 DEF Next

(* The ring buffer is a bounded drop-oldest FIFO for every capacity: what      *)
(* leaves by peek and pop is what came in by push, in order, minus the oldest  *)
(* payloads a full buffer discarded.                                           *)
THEOREM RingImplementsFifo == Spec => RefinesFifo
  BY BufferInvariant, InitRefines, StepRefines, PTL DEF Spec, Fifo!Spec, RefinesFifo
================================================================================
