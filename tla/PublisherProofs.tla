----------------------------- MODULE PublisherProofs -----------------------------
(* Proofs about the path of a sample to the broker, for every capacity of the  *)
(* buffer, every drain limit and any number of samples and resets, and about   *)
(* the publisher's retry loops, for every width of the clock.                  *)
EXTENDS TelemetryUplink, ReconnectBackoff, Integers, TLAPS

Rising(s) == \A i, j \in DOMAIN s : i < j => Earlier(s[i], s[j])

Before(A, B) == \A s \in A, t \in B : Earlier(s, t)

Lost == dropped \cup vanished \cup wiped

(* The three parts of the trail, apart: each rises, and every sample of one is *)
(* earlier than every sample of the next.                                      *)
PartsInOrder ==
    /\ Rising(received) /\ Rising(wire) /\ Rising(buffer)
    /\ Before(Elements(received), Elements(wire))
    /\ Before(Elements(received), Elements(buffer))
    /\ Before(Elements(wire), Elements(buffer))

OnTheWay == Elements(received) \cup Elements(wire) \cup Elements(buffer)

(* Where every sample is.                                                      *)
Accounted ==
    /\ OnTheWay \cup Lost \subseteq Produced
    /\ \A s \in Produced : s.boot = bootCount => s \in OnTheWay \cup Lost
    /\ OnTheWay \cap Lost = {}

(* Only a live socket has bytes in it.                                         *)
DeadIsEmpty == conn # "up" => wire = << >>

IInv == TypeOK /\ PartsInOrder /\ Accounted /\ DeadIsEmpty /\ BufferIsRecent

--------------------------------------------------------------------------------
(* Sequences of samples.                                                       *)

LEMMA ElementsEmpty == Elements(<< >>) = {} /\ Rising(<< >>)
  BY DEF Elements, Rising

LEMMA ElementsType ==
    ASSUME NEW s \in Seq(Sample)
    PROVE  Elements(s) \subseteq Sample
  BY DEF Elements

LEMMA Appended ==
    ASSUME NEW s \in Seq(Sample), NEW e \in Sample
    PROVE  /\ Append(s, e) \in Seq(Sample)
           /\ Elements(Append(s, e)) = Elements(s) \cup {e}
           /\ Rising(s) /\ Before(Elements(s), {e}) => Rising(Append(s, e))
  <1>1. /\ Append(s, e) \in Seq(Sample) /\ Len(Append(s, e)) = Len(s) + 1
        /\ \A i \in 1 .. Len(s) : Append(s, e)[i] = s[i]
        /\ Append(s, e)[Len(s) + 1] = e
        /\ Len(s) \in Nat
    OBVIOUS
  <1>2. DOMAIN s = 1 .. Len(s) /\ DOMAIN Append(s, e) = 1 .. Len(s) + 1
    BY <1>1
  <1> DEFINE a == Append(s, e)
  <1> HIDE DEF a
  <1>3. \A i \in 1 .. Len(s) + 1 : i \in 1 .. Len(s) \/ i = Len(s) + 1
    BY <1>1
  <1>4. Elements(a) = Elements(s) \cup {e}
    BY <1>1, <1>2, <1>3 DEF Elements, a
  <1>5. ASSUME Rising(s), Before(Elements(s), {e}) PROVE Rising(a)
    <2> SUFFICES ASSUME NEW i \in 1 .. Len(s) + 1, NEW j \in 1 .. Len(s) + 1, i < j
                 PROVE  Earlier(a[i], a[j])
      BY <1>2 DEF Rising, a
    <2>1. i \in 1 .. Len(s) /\ a[i] = s[i]
      BY <1>1 DEF a
    <2>2. CASE j \in 1 .. Len(s)
      BY <1>1, <1>2, <1>5, <2>1, <2>2 DEF Rising, a
    <2>3. CASE j = Len(s) + 1
      <3>1. s[i] \in Elements(s) /\ a[j] = e
        BY <1>1, <1>2, <2>1, <2>3 DEF Elements, a
      <3> QED
        BY <1>5, <2>1, <3>1 DEF Before
    <2> QED
      BY <1>3, <2>2, <2>3
  <1> QED
    BY <1>1, <1>4, <1>5 DEF a

LEMMA Split ==
    ASSUME NEW s \in Seq(Sample), s # << >>
    PROVE  /\ Head(s) \in Sample /\ Tail(s) \in Seq(Sample)
           /\ Elements(s) = {Head(s)} \cup Elements(Tail(s))
           /\ Rising(s) => Rising(Tail(s)) /\ Before({Head(s)}, Elements(Tail(s)))
           /\ Len(Tail(s)) = Len(s) - 1
  <1>1. /\ Tail(s) \in Seq(Sample) /\ Len(Tail(s)) = Len(s) - 1
        /\ \A i \in 1 .. Len(s) - 1 : Tail(s)[i] = s[i + 1]
        /\ Len(s) \in Nat \ {0} /\ Head(s) = s[1]
    OBVIOUS
  <1>2. DOMAIN s = 1 .. Len(s) /\ DOMAIN Tail(s) = 1 .. Len(s) - 1
    BY <1>1
  <1>3. \A i \in 1 .. Len(s) : i = 1 \/ i - 1 \in 1 .. Len(s) - 1
    BY <1>1
  <1>4. \A i \in 1 .. Len(s) - 1 : i + 1 \in 1 .. Len(s)
    BY <1>1
  <1> DEFINE t == Tail(s)
  <1> HIDE DEF t
  <1>5. Elements(s) = {s[1]} \cup Elements(t)
    <2>1. \A i \in DOMAIN s : s[i] = s[1] \/ s[i] \in Elements(t)
      <3> SUFFICES ASSUME NEW i \in 1 .. Len(s), i # 1 PROVE s[i] \in Elements(t)
        BY <1>2
      <3>1. i - 1 \in DOMAIN t /\ t[i - 1] = s[i]
        BY <1>1, <1>2, <1>3 DEF t
      <3> QED
        BY <3>1 DEF Elements
    <2>2. \A i \in DOMAIN t : t[i] \in Elements(s)
      BY <1>1, <1>2, <1>4 DEF Elements, t
    <2>3. 1 \in DOMAIN s
      BY <1>1, <1>2
    <2> QED
      BY <2>1, <2>2, <2>3 DEF Elements
  <1>6. ASSUME Rising(s) PROVE Rising(t)
    <2> SUFFICES ASSUME NEW i \in 1 .. Len(s) - 1, NEW j \in 1 .. Len(s) - 1, i < j
                 PROVE  Earlier(t[i], t[j])
      BY <1>2 DEF Rising, t
    <2>1. i + 1 \in DOMAIN s /\ j + 1 \in DOMAIN s /\ i + 1 < j + 1
      BY <1>1, <1>2
    <2> QED
      BY <1>1, <1>6, <2>1 DEF Rising, t
  <1>7. ASSUME Rising(s) PROVE Before({s[1]}, Elements(t))
    <2> SUFFICES ASSUME NEW j \in 1 .. Len(s) - 1 PROVE Earlier(s[1], t[j])
      BY <1>2 DEF Before, Elements, t
    <2>1. 1 \in DOMAIN s /\ j + 1 \in DOMAIN s /\ 1 < j + 1
      BY <1>1, <1>2
    <2> QED
      BY <1>1, <1>7, <2>1 DEF Rising, t
  <1>8. Head(s) \in Sample
    BY <1>1, <1>2
  <1> QED
    BY <1>1, <1>5, <1>6, <1>7, <1>8 DEF t

LEMMA Concatenated ==
    ASSUME NEW s \in Seq(Sample), NEW t \in Seq(Sample)
    PROVE  /\ s \o t \in Seq(Sample)
           /\ Elements(s \o t) = Elements(s) \cup Elements(t)
           /\ Rising(s) /\ Rising(t) /\ Before(Elements(s), Elements(t)) => Rising(s \o t)
  <1> DEFINE c == s \o t
  <1>1. /\ c \in Seq(Sample) /\ Len(c) = Len(s) + Len(t)
        /\ \A i \in 1 .. Len(s) : c[i] = s[i]
        /\ \A i \in 1 .. Len(t) : c[Len(s) + i] = t[i]
        /\ Len(s) \in Nat /\ Len(t) \in Nat
    OBVIOUS
  <1>2. /\ DOMAIN s = 1 .. Len(s) /\ DOMAIN t = 1 .. Len(t)
        /\ DOMAIN c = 1 .. Len(s) + Len(t)
    BY <1>1
  <1> HIDE DEF c
  <1>3. \A i \in 1 .. Len(s) + Len(t) :
            \/ i \in 1 .. Len(s) /\ c[i] = s[i]
            \/ i > Len(s) /\ i - Len(s) \in 1 .. Len(t) /\ c[i] = t[i - Len(s)]
    <2> SUFFICES ASSUME NEW i \in 1 .. Len(s) + Len(t), i > Len(s)
                 PROVE  i - Len(s) \in 1 .. Len(t) /\ c[i] = t[i - Len(s)]
      BY <1>1
    <2>1. i - Len(s) \in 1 .. Len(t) /\ Len(s) + (i - Len(s)) = i
      BY <1>1
    <2> QED
      BY <1>1, <2>1
  <1>4. /\ \A i \in 1 .. Len(s) : i \in 1 .. Len(s) + Len(t)
        /\ \A i \in 1 .. Len(t) : Len(s) + i \in 1 .. Len(s) + Len(t)
    BY <1>1
  <1>5. Elements(c) = Elements(s) \cup Elements(t)
    <2>1. Elements(c) \subseteq Elements(s) \cup Elements(t)
      BY <1>2, <1>3 DEF Elements
    <2>2. Elements(s) \subseteq Elements(c) /\ Elements(t) \subseteq Elements(c)
      BY <1>1, <1>2, <1>4 DEF Elements
    <2> QED
      BY <2>1, <2>2
  <1>6. ASSUME Rising(s), Rising(t), Before(Elements(s), Elements(t)) PROVE Rising(c)
    <2> SUFFICES ASSUME NEW i \in 1 .. Len(s) + Len(t), NEW j \in 1 .. Len(s) + Len(t), i < j
                 PROVE  Earlier(c[i], c[j])
      BY <1>2 DEF Rising
    <2>1. CASE j \in 1 .. Len(s)
      <3>1. i \in 1 .. Len(s)
        BY <1>1, <2>1
      <3> QED
        BY <1>1, <1>2, <1>6, <2>1, <3>1 DEF Rising
    <2>2. CASE i > Len(s)
      <3>1. /\ i - Len(s) \in DOMAIN t /\ c[i] = t[i - Len(s)]
            /\ j - Len(s) \in DOMAIN t /\ c[j] = t[j - Len(s)]
            /\ i - Len(s) < j - Len(s)
        BY <1>1, <1>2, <1>3, <2>2
      <3> QED
        BY <1>6, <3>1 DEF Rising
    <2>3. CASE i \in 1 .. Len(s) /\ j > Len(s)
      <3>1. i \in DOMAIN s /\ c[i] = s[i]
        BY <1>1, <1>2, <2>3
      <3>2. j - Len(s) \in DOMAIN t /\ c[j] = t[j - Len(s)]
        BY <1>1, <1>2, <1>3, <2>3
      <3>3. s[i] \in Elements(s) /\ t[j - Len(s)] \in Elements(t)
        BY <3>1, <3>2 DEF Elements
      <3> QED
        BY <1>6, <3>1, <3>2, <3>3 DEF Before
    <2> QED
      BY <1>1, <2>1, <2>2, <2>3
  <1> QED
    BY <1>1, <1>5, <1>6 DEF c

--------------------------------------------------------------------------------
(* The order of samples.                                                       *)

LEMMA Apart ==
    ASSUME NEW A, NEW B, A \subseteq Sample, Before(A, B)
    PROVE  A \cap B = {}
  <1> SUFFICES ASSUME NEW s \in A, s \in B PROVE FALSE
    OBVIOUS
  <1>1. Earlier(s, s) /\ s \in Sample
    BY DEF Before
  <1>2. s.boot \in 1 .. MaxBoot /\ s.seq \in 0 .. MaxSeq
    BY <1>1 DEF Sample
  <1> QED
    BY <1>1, <1>2 DEF Earlier

(* The next sample of the boot is later than everything produced.              *)
LEMMA NextSample ==
    ASSUME TypeOK, seqCounter < MaxSeq,
           NEW s, s = [boot |-> bootCount, seq |-> seqCounter],
           seqCounter' = seqCounter + 1, bootCount' = bootCount
    PROVE  /\ s \in Sample /\ s \notin Produced
           /\ Before(Produced, {s})
           /\ Produced' = Produced \cup {s}
  <1> USE UplinkAssumption DEF TypeOK
  <1>1. s \in Sample /\ s.boot = bootCount /\ s.seq = seqCounter
    BY DEF Sample
  <1>2. \A t \in Sample : t.boot \in Nat /\ t.seq \in Nat
    BY DEF Sample
  <1>3. s \notin Produced
    BY <1>1 DEF Produced
  <1>4. Before(Produced, {s})
    BY <1>1 DEF Produced, Before, Earlier
  <1>5. \A t \in Sample : t.boot = bootCount /\ t.seq = seqCounter => t = s
    BY <1>1 DEF Sample
  <1>6. \A t \in Sample : t \in Produced' <=> t \in Produced \/ t = s
    BY <1>1, <1>2, <1>5 DEF Produced
  <1>7. Produced \subseteq Sample /\ Produced' \subseteq Sample
    BY DEF Produced
  <1> QED
    BY <1>1, <1>3, <1>4, <1>6, <1>7

--------------------------------------------------------------------------------
(* What steps have in common.                                                  *)

(* Nothing moves.                                                              *)
LEMMA NothingMoves ==
    ASSUME IInv, UNCHANGED <<bootCount, seqCounter, buffer, received, wire, fates>>
    PROVE  PartsInOrder' /\ Accounted'
  BY DEF IInv, PartsInOrder, Accounted, OnTheWay, Lost, Produced, fates

LEMMA PartTypes ==
    ASSUME TypeOK
    PROVE  /\ Elements(received) \subseteq Sample /\ Elements(wire) \subseteq Sample
           /\ Elements(buffer) \subseteq Sample
  BY ElementsType DEF TypeOK

(* The bytes in the socket die.                                                *)
LEMMA DeathIsCounted ==
    ASSUME IInv, WireDies,
           UNCHANGED <<bootCount, seqCounter, buffer, received, dropped, wiped>>
    PROVE  PartsInOrder' /\ Accounted' /\ wire' = << >>
  <1> USE DEF IInv
  <1>1. /\ wire' = << >> /\ Elements(wire') = {} /\ Rising(wire')
        /\ vanished' = vanished \cup Elements(wire)
    BY ElementsEmpty DEF WireDies
  <1>2. /\ Elements(wire) \cap Elements(received) = {}
        /\ Elements(wire) \cap Elements(buffer) = {}
    BY PartTypes, Apart DEF PartsInOrder
  <1>3. PartsInOrder'
    BY <1>1 DEF PartsInOrder, Before
  <1>4. Produced' = Produced
    BY DEF Produced
  <1>5. /\ OnTheWay' = OnTheWay \ Elements(wire)
        /\ Lost' = Lost \cup Elements(wire)
    BY <1>1, <1>2 DEF OnTheWay, Lost
  <1>6. Accounted'
    BY <1>4, <1>5 DEF Accounted, OnTheWay
  <1> QED
    BY <1>1, <1>3, <1>6

(* A push into the buffer: a full one loses its oldest sample.                 *)
LEMMA PushedBuffer ==
    ASSUME TypeOK, Rising(buffer), NEW s \in Sample, Before(Elements(buffer), {s}),
           NEW q, q = Fifo!Pushed(buffer, s)
    PROVE  /\ q \in Seq(Sample) /\ Len(q) <= Capacity /\ Rising(q)
           /\ Elements(q) \subseteq Elements(buffer) \cup {s} /\ s \in Elements(q)
  <1> USE UplinkAssumption DEF TypeOK
  <1>1. CASE Len(buffer) = Capacity
    <2>1. q = Append(Tail(buffer), s) /\ buffer # << >>
      BY <1>1 DEF Fifo!Pushed
    <2>2. /\ Tail(buffer) \in Seq(Sample) /\ Len(Tail(buffer)) = Len(buffer) - 1
          /\ Elements(Tail(buffer)) \subseteq Elements(buffer) /\ Rising(Tail(buffer))
      BY <2>1, Split
    <2>3. Before(Elements(Tail(buffer)), {s})
      BY <2>2 DEF Before
    <2>4. Len(q) = Len(Tail(buffer)) + 1
      BY <2>1, <2>2
    <2>5. /\ q \in Seq(Sample) /\ Rising(q)
          /\ Elements(q) = Elements(Tail(buffer)) \cup {s}
      <3>1. PICK t : t = Tail(buffer)
        OBVIOUS
      <3>2. t \in Seq(Sample) /\ Rising(t) /\ Before(Elements(t), {s}) /\ q = Append(t, s)
        BY <2>1, <2>2, <2>3, <3>1
      <3> HIDE DEF TypeOK
      <3>3. q \in Seq(Sample) /\ Rising(q) /\ Elements(q) = Elements(t) \cup {s}
        BY <3>2, Appended
      <3> QED
        BY <3>1, <3>3
    <2>6. Len(q) <= Capacity
      BY <1>1, <2>2, <2>4
    <2> QED
      BY <2>2, <2>5, <2>6
  <1>2. CASE Len(buffer) # Capacity
    <2>1. q = Append(buffer, s) /\ Len(q) = Len(buffer) + 1
      BY <1>2 DEF Fifo!Pushed
    <2> QED
      BY <1>2, <2>1, Appended
  <1> QED
    BY <1>1, <1>2

--------------------------------------------------------------------------------
(* The steps that move samples.                                                *)

LEMMA BrokerReceivesStep ==
    ASSUME IInv, BrokerReceives
    PROVE  PartsInOrder' /\ Accounted'
  <1> USE DEF IInv, BrokerReceives
  <1>1. PICK s : s = Head(wire)
    OBVIOUS
  <1>2. /\ s \in Sample /\ wire' \in Seq(Sample) /\ Rising(wire')
        /\ Elements(wire) = {s} \cup Elements(wire') /\ Before({s}, Elements(wire'))
    BY <1>1, Split DEF TypeOK, PartsInOrder
  <1>3. Before(Elements(received), {s})
    BY <1>2 DEF PartsInOrder, Before
  <1>4. /\ Elements(received') = Elements(received) \cup {s} /\ Rising(received')
    BY <1>1, <1>2, <1>3, Appended DEF TypeOK, PartsInOrder
  <1>5. buffer' = buffer /\ OnTheWay' = OnTheWay /\ Lost' = Lost /\ Produced' = Produced
    BY <1>2, <1>4 DEF OnTheWay, Lost, Produced, device, fates
  <1>6. PartsInOrder'
    BY <1>2, <1>4, <1>5 DEF PartsInOrder, Before
  <1>7. Accounted'
    BY <1>5 DEF Accounted, device
  <1> QED
    BY <1>6, <1>7

(* One turn of the drain loop: a live socket takes the oldest sample of the    *)
(* buffer, a dead one loses it.                                                *)
LEMMA DrainOneStep ==
    ASSUME IInv, DrainOne
    PROVE  PartsInOrder' /\ Accounted'
  <1> USE DEF IInv, DrainOne, PublishSucceeds
  <1>1. PICK s : s = Head(buffer)
    OBVIOUS
  <1>2. /\ s \in Sample /\ buffer' \in Seq(Sample) /\ Rising(buffer')
        /\ Elements(buffer) = {s} \cup Elements(buffer')
        /\ Before({s}, Elements(buffer'))
    BY <1>1, Split DEF TypeOK, PartsInOrder
  <1>3. Before(Elements(received), {s}) /\ Before(Elements(wire), {s})
    BY <1>2 DEF PartsInOrder, Before
  <1>4. Produced' = Produced /\ bootCount' = bootCount /\ received' = received
    BY DEF Produced
  <1>5. CASE conn = "up"
    <2>1. Elements(wire') = Elements(wire) \cup {s} /\ Rising(wire')
      BY <1>1, <1>2, <1>3, <1>5, Appended DEF TypeOK, PartsInOrder
    <2>2. OnTheWay' = OnTheWay /\ Lost' = Lost
      BY <1>2, <1>4, <1>5, <2>1 DEF OnTheWay, Lost
    <2>3. PartsInOrder'
      BY <1>2, <1>3, <1>4, <2>1 DEF PartsInOrder, Before
    <2>4. Accounted'
      BY <1>4, <2>2 DEF Accounted
    <2> QED
      BY <2>3, <2>4
  <1>6. CASE conn # "up"
    <2>1. wire' = wire /\ vanished' = vanished \cup {s}
      BY <1>1, <1>6
    <2>2. s \notin Elements(received) /\ s \notin Elements(wire) /\ s \notin Elements(buffer')
      BY <1>2, <1>3, PartTypes, Apart
    <2>3. OnTheWay' = OnTheWay \ {s} /\ Lost' = Lost \cup {s}
      BY <1>2, <1>4, <2>1, <2>2 DEF OnTheWay, Lost
    <2>4. s \in OnTheWay
      BY <1>2 DEF OnTheWay
    <2>5. PartsInOrder'
      BY <1>2, <1>4, <2>1 DEF PartsInOrder, Before
    <2>6. Accounted'
      BY <1>4, <2>3, <2>4 DEF Accounted
    <2> QED
      BY <2>5, <2>6
  <1> QED
    BY <1>5, <1>6

(* A new sample goes out or into the buffer; when its publish fails, what the  *)
(* socket held dies first.                                                     *)
LEMMA TakeSampleStep ==
    ASSUME IInv, TakeSample
    PROVE  PartsInOrder' /\ Accounted'
  <1> USE DEF IInv
  <1>1. PICK s : s = [boot |-> bootCount, seq |-> seqCounter]
    OBVIOUS
  <1>2. /\ seqCounter < MaxSeq /\ seqCounter' = seqCounter + 1
        /\ bootCount' = bootCount /\ received' = received /\ wiped' = wiped
        /\ \/ PublishDirectly(s)
           \/ PublishFails /\ BufferSample(s)
           \/ BufferSample(s) /\ wire' = wire /\ vanished' = vanished
    BY <1>1 DEF TakeSample
  <1>3. /\ s \in Sample /\ s \notin Produced /\ Before(Produced, {s})
        /\ Produced' = Produced \cup {s}
    BY <1>1, <1>2, NextSample
  <1>4. /\ Before(Elements(received), {s}) /\ Before(Elements(wire), {s})
        /\ Before(Elements(buffer), {s})
        /\ s \notin OnTheWay /\ s \notin Lost
    BY <1>3 DEF Accounted, OnTheWay, Before
  <1>5. CASE PublishDirectly(s) /\ conn = "up"
    <2>1. wire' = Append(wire, s) /\ UNCHANGED <<buffer, dropped, vanished>> /\ buffer = << >>
      BY <1>5 DEF PublishDirectly, PublishSucceeds
    <2>2. Elements(wire') = Elements(wire) \cup {s} /\ Rising(wire')
      BY <1>3, <1>4, <2>1, Appended DEF TypeOK, PartsInOrder
    <2>3. Elements(buffer) = {}
      BY <2>1, ElementsEmpty
    <2>4. OnTheWay' = OnTheWay \cup {s} /\ Lost' = Lost
      BY <1>2, <2>1, <2>2 DEF OnTheWay, Lost
    <2>5. PartsInOrder'
      BY <1>2, <1>4, <2>1, <2>2, <2>3 DEF PartsInOrder, Before
    <2>6. Accounted'
      BY <1>2, <1>3, <1>4, <2>4 DEF Accounted
    <2> QED
      BY <2>5, <2>6
  <1>6. CASE PublishDirectly(s) /\ conn # "up"
    <2>1. vanished' = vanished \cup {s} /\ UNCHANGED <<buffer, dropped, wire>>
      BY <1>6 DEF PublishDirectly, PublishSucceeds
    <2>2. OnTheWay' = OnTheWay /\ Lost' = Lost \cup {s}
      BY <1>2, <2>1 DEF OnTheWay, Lost
    <2>3. PartsInOrder'
      BY <1>2, <2>1 DEF PartsInOrder
    <2>4. Accounted'
      BY <1>2, <1>3, <1>4, <2>2 DEF Accounted
    <2> QED
      BY <2>3, <2>4
  <1>7. ASSUME BufferSample(s), Rising(wire'), Elements(wire') \subseteq Elements(wire),
               vanished' = vanished \cup (Elements(wire) \ Elements(wire'))
        PROVE  PartsInOrder' /\ Accounted'
    <2>1. /\ buffer' \in Seq(Sample) /\ Rising(buffer') /\ s \in Elements(buffer')
          /\ Elements(buffer') \subseteq Elements(buffer) \cup {s}
      BY <1>3, <1>4, <1>7, PushedBuffer DEF BufferSample, PartsInOrder
    <2>2. dropped' = dropped \cup (Elements(buffer) \ Elements(buffer'))
      BY <1>7 DEF BufferSample
    <2>3. /\ Elements(received) \cap Elements(wire) = {}
          /\ Elements(received) \cap Elements(buffer) = {}
          /\ Elements(wire) \cap Elements(buffer) = {}
      BY PartTypes, Apart DEF PartsInOrder
    <2>4. PartsInOrder'
      BY <1>2, <1>4, <1>7, <2>1 DEF PartsInOrder, Before
    <2>5. /\ OnTheWay' \cup Lost' = OnTheWay \cup Lost \cup {s}
          /\ OnTheWay' \cap Lost' = {}
      <3>1. /\ OnTheWay' = Elements(received) \cup Elements(wire') \cup Elements(buffer')
            /\ Lost' = dropped' \cup vanished' \cup wiped
        BY <1>2 DEF OnTheWay, Lost
      <3>2. OnTheWay \cap Lost = {}
        BY DEF Accounted
      <3> HIDE DEF IInv
      <3> QED
        BY <1>4, <1>7, <2>1, <2>2, <2>3, <3>1, <3>2 DEF OnTheWay, Lost
    <2>6. Accounted'
      BY <1>2, <1>3, <2>5 DEF Accounted
    <2> QED
      BY <2>4, <2>6
  <1>8. CASE PublishDirectly(s)
    BY <1>5, <1>6, <1>8
  <1>9. CASE PublishFails /\ BufferSample(s)
    <2>1. wire' = << >> /\ vanished' = vanished \cup Elements(wire)
      BY <1>9 DEF PublishFails, WireDies
    <2> QED
      BY <1>7, <1>9, <2>1, ElementsEmpty
  <1>10. CASE BufferSample(s) /\ wire' = wire /\ vanished' = vanished
    <2>1. Elements(wire') = Elements(wire) /\ Rising(wire')
      BY <1>10 DEF PartsInOrder
    <2> QED
      BY <1>7, <1>10, <2>1
  <1> QED
    BY <1>2, <1>8, <1>9, <1>10

(* RAM and socket are lost; what was produced belongs to an earlier boot now.  *)
LEMMA ResetStep ==
    ASSUME IInv, Reset
    PROVE  PartsInOrder' /\ Accounted'
  <1> USE DEF IInv, Reset
  <1>1. /\ Elements(wire') = {} /\ Rising(wire') /\ Elements(buffer') = {}
        /\ Rising(buffer') /\ received' = received
        /\ vanished' = vanished \cup Elements(wire)
        /\ wiped' = wiped \cup Elements(buffer) /\ dropped' = dropped
    BY ElementsEmpty DEF WireDies
  <1>2. /\ Elements(received) \cap Elements(wire) = {}
        /\ Elements(received) \cap Elements(buffer) = {}
    BY PartTypes, Apart DEF PartsInOrder
  <1>3. PartsInOrder'
    BY <1>1 DEF PartsInOrder, Before
  <1>4. /\ OnTheWay' = Elements(received)
        /\ Lost' = Lost \cup Elements(wire) \cup Elements(buffer)
    BY <1>1 DEF OnTheWay, Lost
  <1>5. \A s \in Sample : s.boot \in Nat /\ s.seq \in Nat
    BY UplinkAssumption DEF Sample
  <1>6. bootCount \in Nat
    BY UplinkAssumption DEF TypeOK
  <1>7. Produced \subseteq Produced'
    BY <1>5, <1>6 DEF Produced
  <1>8. \A s \in Produced' : s.boot # bootCount'
    BY <1>5, <1>6 DEF Produced
  <1>9. Accounted'
    BY <1>2, <1>4, <1>7, <1>8 DEF Accounted, OnTheWay
  <1> QED
    BY <1>3, <1>9

--------------------------------------------------------------------------------
(* Types, the socket and the numbers in the buffer.                            *)

(* BufferIsRecent, the numbers counted from the oldest sample.                 *)
LEMMA Numbers ==
    ASSUME TypeOK, NEW first \in Int, first = seqCounter - Len(buffer)
    PROVE  BufferIsRecent <=>
               \A i \in 1 .. Len(buffer) :
                   buffer[i] = [boot |-> bootCount, seq |-> first + i - 1]
  <1>1. DOMAIN buffer = 1 .. Len(buffer)
    BY DEF TypeOK
  <1> QED
    BY <1>1 DEF BufferIsRecent

LEMMA PushedNumbers ==
    ASSUME TypeOK, BufferIsRecent, seqCounter < MaxSeq,
           NEW s, s = [boot |-> bootCount, seq |-> seqCounter], BufferSample(s),
           seqCounter' = seqCounter + 1, bootCount' = bootCount
    PROVE  /\ buffer' \in Seq(Sample) /\ Len(buffer') <= Capacity
           /\ BufferIsRecent'
  <1> USE UplinkAssumption
  <1>1. s \in Sample
    BY DEF Sample, TypeOK
  <1>2. /\ buffer \in Seq(Sample) /\ Len(buffer) \in Nat /\ Len(buffer) <= Capacity
        /\ seqCounter \in Nat
    BY DEF TypeOK
  <1>3. PICK first \in Int : first = seqCounter - Len(buffer)
    BY <1>2
  <1>4. \A i \in 1 .. Len(buffer) : buffer[i] = [boot |-> bootCount, seq |-> first + i - 1]
    BY <1>3, Numbers
  <1>5. CASE Len(buffer) = Capacity
    <2>1. PICK t : t = Tail(buffer)
      OBVIOUS
    <2>2. /\ t \in Seq(Sample) /\ Len(t) = Len(buffer) - 1
          /\ \A i \in 1 .. Len(t) : t[i] = buffer[i + 1]
      BY <1>2, <1>5, <2>1
    <2>3. buffer' = Append(t, s)
      BY <1>5, <2>1 DEF BufferSample, Fifo!Pushed
    <2>4. /\ buffer' \in Seq(Sample) /\ Len(buffer') = Len(buffer)
          /\ \A i \in 1 .. Len(buffer) - 1 : buffer'[i] = buffer[i + 1]
          /\ buffer'[Len(buffer)] = s
      BY <1>1, <1>2, <2>2, <2>3
    <2>5. DOMAIN buffer' = 1 .. Len(buffer)
      BY <2>4
    <2>6. ASSUME NEW i \in DOMAIN buffer'
          PROVE  buffer'[i] =
                   [boot |-> bootCount', seq |-> seqCounter' - Len(buffer') + i - 1]
      <3>0. i \in 1 .. Len(buffer)
        BY <2>5
      <3>1. seqCounter' - Len(buffer') + i - 1 = first + (i + 1) - 1
        BY <1>2, <1>3, <2>4, <3>0
      <3>2. CASE i = Len(buffer)
        <4>1. seqCounter = first + (i + 1) - 1
          BY <1>2, <1>3, <3>2
        <4> QED
          BY <2>4, <3>1, <3>2, <4>1
      <3>3. CASE i # Len(buffer)
        <4>1. i \in 1 .. Len(buffer) - 1 /\ i + 1 \in 1 .. Len(buffer)
          BY <1>2, <3>0, <3>3
        <4> QED
          BY <1>4, <2>4, <3>1, <4>1
      <3> QED
        BY <3>2, <3>3
    <2>7. BufferIsRecent'
      BY <2>6 DEF BufferIsRecent
    <2> QED
      BY <1>2, <2>4, <2>7
  <1>6. CASE Len(buffer) # Capacity
    <2>1. buffer' = Append(buffer, s)
      BY <1>6 DEF BufferSample, Fifo!Pushed
    <2>2. /\ buffer' \in Seq(Sample) /\ Len(buffer') = Len(buffer) + 1
          /\ \A i \in 1 .. Len(buffer) : buffer'[i] = buffer[i]
          /\ buffer'[Len(buffer) + 1] = s
      BY <1>1, <1>2, <2>1
    <2>3. DOMAIN buffer' = 1 .. Len(buffer) + 1
      BY <2>2
    <2>4. ASSUME NEW i \in DOMAIN buffer'
          PROVE  buffer'[i] =
                   [boot |-> bootCount', seq |-> seqCounter' - Len(buffer') + i - 1]
      <3>0. i \in 1 .. Len(buffer) \/ i = Len(buffer) + 1
        BY <1>2, <2>3
      <3>1. seqCounter' - Len(buffer') + i - 1 = first + i - 1
        BY <1>2, <1>3, <2>2, <3>0
      <3>2. CASE i = Len(buffer) + 1
        <4>1. seqCounter = first + i - 1
          BY <1>2, <1>3, <3>2
        <4> QED
          BY <2>2, <3>1, <3>2, <4>1
      <3>3. CASE i \in 1 .. Len(buffer)
        BY <1>4, <2>2, <3>1, <3>3
      <3> QED
        BY <3>0, <3>2, <3>3
    <2>5. BufferIsRecent'
      BY <2>4 DEF BufferIsRecent
    <2> QED
      BY <1>2, <1>6, <2>2, <2>5
  <1> QED
    BY <1>5, <1>6

LEMMA PoppedNumbers ==
    ASSUME TypeOK, BufferIsRecent, buffer # << >>, buffer' = Tail(buffer),
           UNCHANGED <<bootCount, seqCounter>>
    PROVE  /\ buffer' \in Seq(Sample) /\ Len(buffer') <= Capacity
           /\ BufferIsRecent'
  <1> USE UplinkAssumption
  <1>1. /\ buffer \in Seq(Sample) /\ Len(buffer) \in Nat /\ Len(buffer) <= Capacity
        /\ seqCounter \in Nat
    BY DEF TypeOK
  <1>2. /\ buffer' \in Seq(Sample) /\ Len(buffer') = Len(buffer) - 1
        /\ \A i \in 1 .. Len(buffer) - 1 : buffer'[i] = buffer[i + 1]
    BY <1>1
  <1>3. PICK first \in Int : first = seqCounter - Len(buffer)
    BY <1>1
  <1>4. \A i \in 1 .. Len(buffer) : buffer[i] = [boot |-> bootCount, seq |-> first + i - 1]
    BY <1>3, Numbers
  <1>5. ASSUME NEW i \in 1 .. Len(buffer) - 1
        PROVE  buffer'[i] =
                 [boot |-> bootCount, seq |-> seqCounter - (Len(buffer) - 1) + i - 1]
    <2>1. i + 1 \in 1 .. Len(buffer)
      BY <1>1
    <2>2. seqCounter - (Len(buffer) - 1) + i - 1 = first + (i + 1) - 1
      BY <1>1, <1>3
    <2> QED
      BY <1>2, <1>4, <2>1, <2>2
  <1>6. DOMAIN buffer' = 1 .. Len(buffer) - 1
    BY <1>2
  <1>7. BufferIsRecent'
    BY <1>2, <1>5, <1>6 DEF BufferIsRecent
  <1> QED
    BY <1>1, <1>2, <1>7

(* A dead connection keeps nothing, and its death is no matter of types.       *)
LEMMA DeathTypes ==
    ASSUME TypeOK, WireDies
    PROVE  /\ wire' \in Seq(Sample) /\ wire' = << >> /\ metaWire' \in BOOLEAN
           /\ vanished' \subseteq Sample
  <1>1. << >> \in Seq(Sample)
    OBVIOUS
  <1> QED
    BY <1>1, PartTypes DEF WireDies, TypeOK

LEMMA PublishTypes ==
    ASSUME TypeOK, DeadIsEmpty, NEW s \in Sample, PublishSucceeds(s)
    PROVE  /\ wire' \in Seq(Sample) /\ metaWire' \in BOOLEAN /\ vanished' \subseteq Sample
           /\ conn' \in {"down", "up", "dead"} /\ DeadIsEmpty'
  <1>1. wire' \in Seq(Sample)
    BY Appended DEF PublishSucceeds, TypeOK
  <1> QED
    BY <1>1 DEF PublishSucceeds, TypeOK, DeadIsEmpty

LEMMA TakeSampleTypes ==
    ASSUME IInv, TakeSample
    PROVE  TypeOK' /\ DeadIsEmpty' /\ BufferIsRecent'
  <1> USE UplinkAssumption DEF IInv
  <1>1. PICK s : s = [boot |-> bootCount, seq |-> seqCounter]
    OBVIOUS
  <1>2. /\ pc' = "drain" /\ drained' = 0 /\ seqCounter < MaxSeq
        /\ seqCounter' = seqCounter + 1
        /\ UNCHANGED <<bootCount, metaPublished, received, retainedMeta, wiped>>
        /\ \/ PublishDirectly(s)
           \/ PublishFails /\ BufferSample(s)
           \/ BufferSample(s) /\ UNCHANGED <<conn, wire, metaWire, vanished>>
    BY <1>1 DEF TakeSample
  <1>3. s \in Sample
    BY <1>1, <1>2 DEF Sample, TypeOK
  <1>4. /\ seqCounter' \in 0 .. MaxSeq /\ drained' \in 0 .. DrainLimit
        /\ pc' \in {"mqtt", "meta", "sample", "drain"}
    BY <1>2 DEF TypeOK
  <1>5. ASSUME BufferSample(s) PROVE dropped' \subseteq Sample
    BY <1>5, PartTypes DEF BufferSample, TypeOK
  <1>6. CASE PublishDirectly(s)
    <2>1. PublishSucceeds(s) /\ UNCHANGED <<buffer, dropped>> /\ buffer = << >>
      BY <1>6 DEF PublishDirectly
    <2>2. BufferIsRecent'
      BY <2>1 DEF BufferIsRecent
    <2>3. /\ wire' \in Seq(Sample) /\ metaWire' \in BOOLEAN /\ vanished' \subseteq Sample
          /\ conn' \in {"down", "up", "dead"} /\ DeadIsEmpty'
      BY <1>3, <2>1, PublishTypes
    <2> QED
      BY <1>2, <1>4, <2>1, <2>2, <2>3 DEF TypeOK
  <1>7. CASE PublishFails /\ BufferSample(s)
    <2>1. WireDies /\ conn' \in {"down", "up", "dead"}
      BY <1>7 DEF PublishFails
    <2>2. /\ buffer' \in Seq(Sample) /\ Len(buffer') <= Capacity /\ BufferIsRecent'
      BY <1>1, <1>2, <1>7, PushedNumbers
    <2>3. /\ wire' \in Seq(Sample) /\ wire' = << >> /\ metaWire' \in BOOLEAN
          /\ vanished' \subseteq Sample
      BY <2>1, DeathTypes
    <2> QED
      BY <1>2, <1>4, <1>5, <1>7, <2>1, <2>2, <2>3 DEF TypeOK, DeadIsEmpty
  <1>8. CASE BufferSample(s) /\ UNCHANGED <<conn, wire, metaWire, vanished>>
    <2>1. /\ buffer' \in Seq(Sample) /\ Len(buffer') <= Capacity /\ BufferIsRecent'
      BY <1>1, <1>2, <1>8, PushedNumbers
    <2> QED
      BY <1>2, <1>4, <1>5, <1>8, <2>1 DEF TypeOK, DeadIsEmpty
  <1> QED
    BY <1>2, <1>6, <1>7, <1>8

LEMMA DrainOneTypes ==
    ASSUME IInv, DrainOne
    PROVE  TypeOK' /\ DeadIsEmpty' /\ BufferIsRecent'
  <1> USE UplinkAssumption DEF IInv
  <1>1. PICK s : s = Head(buffer)
    OBVIOUS
  <1>2. /\ buffer # << >> /\ buffer' = Tail(buffer) /\ drained < DrainLimit
        /\ drained' = drained + 1 /\ PublishSucceeds(s)
        /\ UNCHANGED <<bootCount, seqCounter, metaPublished, pc, received, retainedMeta,
                       dropped, wiped>>
    BY <1>1 DEF DrainOne
  <1>3. s \in Sample
    BY <1>1, <1>2, Split DEF TypeOK
  <1>4. /\ wire' \in Seq(Sample) /\ metaWire' \in BOOLEAN /\ vanished' \subseteq Sample
        /\ conn' \in {"down", "up", "dead"} /\ DeadIsEmpty'
    BY <1>2, <1>3, PublishTypes
  <1>5. buffer' \in Seq(Sample) /\ Len(buffer') <= Capacity /\ BufferIsRecent'
    BY <1>2, PoppedNumbers
  <1>6. drained' \in 0 .. DrainLimit
    BY <1>2 DEF TypeOK
  <1> QED
    BY <1>2, <1>4, <1>5, <1>6 DEF TypeOK

--------------------------------------------------------------------------------
(* The invariant.                                                              *)

LEMMA Bounds ==
    /\ 1 \in 1 .. MaxBoot /\ 0 \in 0 .. MaxBoot /\ 0 \in 0 .. MaxSeq
    /\ 0 \in 0 .. DrainLimit /\ 0 <= Capacity
    /\ \A b \in 1 .. MaxBoot : b \in 0 .. MaxBoot
  BY UplinkAssumption

LEMMA InitInv == Init => IInv
  <1> SUFFICES ASSUME Init PROVE IInv
    OBVIOUS
  <1> USE UplinkAssumption DEF Init
  <1>1. << >> \in Seq(Sample) /\ Len(<< >>) = 0 /\ DOMAIN << >> = {}
    OBVIOUS
  <1>2. TypeOK
    BY <1>1, Bounds DEF TypeOK
  <1>3. BufferIsRecent /\ DeadIsEmpty
    BY <1>1 DEF BufferIsRecent, DeadIsEmpty
  <1>4. PartsInOrder
    BY ElementsEmpty DEF PartsInOrder, Before
  <1>5. Produced = {}
    BY DEF Produced, Sample
  <1>6. Accounted
    BY <1>5, ElementsEmpty DEF Accounted, OnTheWay, Lost
  <1> QED
    BY <1>2, <1>3, <1>4, <1>6 DEF IInv

(* Steps that move no sample.                                                  *)
LEMMA QuietStep ==
    ASSUME IInv,
           MqttLoop \/ SampleNotDue \/ DrainEnds \/ BrokerRetainsMeta
             \/ (PublishMeta /\ wire' = wire /\ vanished' = vanished)
    PROVE  IInv'
  <1>1. /\ UNCHANGED <<bootCount, seqCounter, buffer, received, wire, fates>>
        /\ metaPublished' \in BOOLEAN /\ metaWire' \in BOOLEAN
        /\ pc' \in {"mqtt", "meta", "sample", "drain"}
        /\ drained' \in {drained, 0} /\ retainedMeta' \in {retainedMeta, bootCount}
        /\ conn' \in {"down", "up", "dead"}
        /\ conn' # "up" => conn # "up" \/ wire = << >>
    <2> USE DEF IInv, TypeOK, DeadIsEmpty, fates, device, network, isConnected
    <2>1. CASE MqttLoop
      BY <2>1 DEF MqttLoop
    <2>2. CASE SampleNotDue
      BY <2>2 DEF SampleNotDue
    <2>3. CASE DrainEnds
      BY <2>3 DEF DrainEnds
    <2>4. CASE BrokerRetainsMeta
      BY <2>4 DEF BrokerRetainsMeta
    <2>5. CASE PublishMeta /\ wire' = wire /\ vanished' = vanished
      BY <2>5 DEF PublishMeta, PublishFails, WireDies
    <2> QED
      BY <2>1, <2>2, <2>3, <2>4, <2>5
  <1>2. PartsInOrder' /\ Accounted'
    BY <1>1, NothingMoves
  <1>3. TypeOK'
    BY <1>1, Bounds DEF IInv, TypeOK, fates
  <1>4. DeadIsEmpty' /\ BufferIsRecent'
    BY <1>1 DEF IInv, DeadIsEmpty, BufferIsRecent
  <1> QED
    BY <1>2, <1>3, <1>4 DEF IInv

(* Steps in which the connection breaks or closes, and no sample is taken.     *)
LEMMA DeathStep ==
    ASSUME IInv,
           LinkBreaks \/ ConnectionCloses \/ DrainBreaks \/ (PublishMeta /\ PublishFails)
    PROVE  IInv'
  <1> USE UplinkAssumption
      DEF IInv, LinkBreaks, ConnectionCloses, DrainBreaks, PublishMeta, PublishFails, device
  <1>1. /\ WireDies
        /\ UNCHANGED <<bootCount, seqCounter, buffer, received, dropped, wiped, retainedMeta>>
        /\ conn' \in {"down", "up", "dead"} /\ metaPublished' \in BOOLEAN
        /\ pc' \in {"mqtt", "meta", "sample", "drain"} /\ drained' = drained
    BY DEF TypeOK
  <1> HIDE DEF LinkBreaks, ConnectionCloses, DrainBreaks, PublishMeta, PublishFails
  <1>2. PartsInOrder' /\ Accounted' /\ wire' = << >>
    BY <1>1, DeathIsCounted
  <1>3. /\ wire' \in Seq(Sample) /\ metaWire' \in BOOLEAN /\ vanished' \subseteq Sample
    BY <1>1, DeathTypes
  <1>4. TypeOK'
    BY <1>1, <1>3 DEF TypeOK
  <1>5. DeadIsEmpty' /\ BufferIsRecent'
    BY <1>1, <1>2 DEF DeadIsEmpty, BufferIsRecent
  <1> QED
    BY <1>2, <1>4, <1>5

LEMMA BrokerReceivesTypes ==
    ASSUME IInv, BrokerReceives
    PROVE  TypeOK' /\ DeadIsEmpty' /\ BufferIsRecent'
  <1> USE DEF IInv, BrokerReceives, device, fates
  <1>1. wire' \in Seq(Sample) /\ Head(wire) \in Sample
    BY Split DEF TypeOK
  <1>2. received' \in Seq(Sample)
    BY <1>1, Appended DEF TypeOK
  <1> QED
    BY <1>1, <1>2 DEF TypeOK, DeadIsEmpty, BufferIsRecent

LEMMA ResetTypes ==
    ASSUME IInv, Reset
    PROVE  TypeOK' /\ DeadIsEmpty' /\ BufferIsRecent'
  <1> USE UplinkAssumption DEF IInv, Reset
  <1>1. << >> \in Seq(Sample) /\ Len(<< >>) = 0 /\ DOMAIN << >> = {}
    OBVIOUS
  <1>2. /\ wire' \in Seq(Sample) /\ wire' = << >> /\ metaWire' \in BOOLEAN
        /\ vanished' \subseteq Sample
    BY DeathTypes
  <1>3. wiped' \subseteq Sample
    BY PartTypes DEF TypeOK
  <1>4. bootCount' \in 1 .. MaxBoot /\ seqCounter' \in 0 .. MaxSeq /\ drained' \in 0 .. DrainLimit
    BY DEF TypeOK
  <1>5. TypeOK'
    BY <1>1, <1>2, <1>3, <1>4, Bounds DEF TypeOK
  <1>6. DeadIsEmpty' /\ BufferIsRecent'
    BY <1>1, <1>2 DEF DeadIsEmpty, BufferIsRecent
  <1> QED
    BY <1>5, <1>6

LEMMA NextInv == IInv /\ [Next]_vars => IInv'
  <1> SUFFICES ASSUME IInv, [Next]_vars PROVE IInv'
    OBVIOUS
  <1>1. CASE MqttLoop \/ SampleNotDue \/ DrainEnds \/ BrokerRetainsMeta
    BY <1>1, QuietStep
  <1>2. CASE PublishMeta
    <2>1. (wire' = wire /\ vanished' = vanished) \/ PublishFails
      BY <1>2 DEF PublishMeta
    <2> QED
      BY <1>2, <2>1, QuietStep, DeathStep
  <1>3. CASE LinkBreaks \/ ConnectionCloses \/ DrainBreaks
    BY <1>3, DeathStep
  <1>4. CASE TakeSample
    BY <1>4, TakeSampleStep, TakeSampleTypes DEF IInv
  <1>5. CASE DrainOne
    BY <1>5, DrainOneStep, DrainOneTypes DEF IInv
  <1>6. CASE BrokerReceives
    BY <1>6, BrokerReceivesStep, BrokerReceivesTypes DEF IInv
  <1>7. CASE Reset
    BY <1>7, ResetStep, ResetTypes DEF IInv
  <1>8. CASE UNCHANGED vars
    BY <1>8
    DEF vars, device, network, fates, IInv, TypeOK, PartsInOrder, Accounted, OnTheWay,
        Lost, Produced, DeadIsEmpty, BufferIsRecent
  <1> QED
    BY <1>1, <1>2, <1>3, <1>4, <1>5, <1>6, <1>7, <1>8 DEF Next, LoopStep, BrokerStep

LEMMA Invariant == Spec => []IInv
  BY InitInv, NextInv, PTL DEF Spec

--------------------------------------------------------------------------------
(* What it says of the trail.                                                  *)

LEMMA TrailJoined ==
    ASSUME IInv
    PROVE  Rising(Trail) /\ Elements(Trail) = OnTheWay
  <1> USE DEF IInv, PartsInOrder
  <1>1. PICK front : front = received \o wire
    OBVIOUS
  <1>2. /\ front \in Seq(Sample) /\ Rising(front)
        /\ Elements(front) = Elements(received) \cup Elements(wire)
    BY <1>1, Concatenated DEF TypeOK
  <1>3. Before(Elements(front), Elements(buffer))
    BY <1>2 DEF Before
  <1>4. Trail = front \o buffer
    BY <1>1 DEF Trail
  <1> QED
    BY <1>2, <1>3, <1>4, Concatenated DEF TypeOK, OnTheWay

(* For every buffer capacity and drain limit: samples never overtake one       *)
(* another and none is sent twice, through outages, failed publishes, a full   *)
(* buffer and resets (loop, PublishTelemetry, the drain loop).                 *)
THEOREM SamplesInOrder == Spec => []InOrder
  <1>1. IInv => InOrder
    BY TrailJoined DEF InOrder, Rising
  <1> QED
    BY Invariant, <1>1, PTL

(* The buffer holds the latest samples of the boot without a gap.              *)
THEOREM BufferRecent == Spec => []BufferIsRecent
  <1>1. IInv => BufferIsRecent
    BY DEF IInv
  <1> QED
    BY Invariant, <1>1, PTL

(* Every sample a boot has produced is at the broker, on its way there, or     *)
(* lost to one of the three causes, and never both.                            *)
THEOREM GapsExplained == Spec => []GapsAreExplained
  <1>1. IInv => GapsAreExplained
    <2> SUFFICES ASSUME IInv PROVE GapsAreExplained
      OBVIOUS
    <2>1. Accounted /\ Elements(Trail) = OnTheWay
      BY TrailJoined DEF IInv
    <2> QED
      BY <2>1 DEF Accounted, Lost, GapsAreExplained
  <1> QED
    BY Invariant, <1>1, PTL

--------------------------------------------------------------------------------
(* The retry loops: ReconnectBackoff.                                          *)

(* The clock reads delay - elapsed units before the deadline, as long as the   *)
(* age of the deadline is still known.                                         *)
Falls(deadline, elapsed, delay) ==
    elapsed < Half => SignedDifference(deadline, now) = delay - elapsed

BackoffInv ==
    /\ BackoffTypeOK
    /\ turn = "mqtt" => wifi = "on"
    /\ \E delay \in 0 .. MaxBackoff : Falls(wifiNextAttempt, wifiElapsed, delay)
    /\ \E delay \in 0 .. MaxBackoff : Falls(mqttNextAttempt, mqttElapsed, delay)
    /\ mqttFailed => ~mqtt /\ Falls(mqttNextAttempt, mqttElapsed, mqttBackoff)

Clock == 0 .. ClockSize - 1

LEMMA ClockFacts ==
    /\ ClockSize \in Nat /\ Half \in Nat /\ ClockSize = 2 * Half
    /\ MaxBackoff \in Nat \ {0} /\ MaxBackoff < Half
    /\ JoinTime \in 0 .. MaxBackoff - 1
    /\ ConnectTime \in Nat /\ ConnectTime < Half
  <1>1. ClockSize \in Nat /\ ClockSize % 2 = 0 /\ Half = ClockSize \div 2
    BY BackoffAssumption DEF Half
  <1>2. Half \in Nat /\ ClockSize = 2 * Half
    BY <1>1, SMTT(30)
  <1> QED
    BY <1>2, BackoffAssumption DEF Half

LEMMA Remainder ==
    ASSUME NEW d \in Int, 0 - ClockSize <= d, d < 2 * ClockSize
    PROVE  d % ClockSize = IF d < 0 THEN (IF d = 0 - ClockSize THEN 0 ELSE d + ClockSize)
                           ELSE IF d < ClockSize THEN d ELSE d - ClockSize
  <1>1. ClockSize \in Nat \ {0}
    BY ClockFacts
  <1> QED
    BY <1>1, SMTT(60)

(* The signed difference of two readings is their difference, give or take a   *)
(* turn of the clock, and it is the one in the signed range.                   *)
LEMMA Signed ==
    ASSUME NEW a \in Clock, NEW b \in Clock
    PROVE  /\ SignedDifference(a, b) \in Int
           /\ 0 - Half <= SignedDifference(a, b) /\ SignedDifference(a, b) < Half
           /\ \/ SignedDifference(a, b) = a - b
              \/ SignedDifference(a, b) = a - b + ClockSize
              \/ SignedDifference(a, b) = a - b - ClockSize
  <1>1. PICK d \in Int : d = a - b
    BY ClockFacts DEF Clock
  <1>2. 0 - ClockSize < d /\ d < ClockSize
    BY <1>1, ClockFacts DEF Clock
  <1>3. d % ClockSize = IF d < 0 THEN d + ClockSize ELSE d
    <2>1. 0 - ClockSize <= d /\ d < 2 * ClockSize /\ d # 0 - ClockSize
      BY <1>2, ClockFacts
    <2>2. d % ClockSize = IF d < 0 THEN (IF d = 0 - ClockSize THEN 0 ELSE d + ClockSize)
                          ELSE IF d < ClockSize THEN d ELSE d - ClockSize
      BY <2>1, Remainder
    <2> QED
      BY <1>2, <2>1, <2>2
  <1>4. SignedDifference(a, b) = IF d % ClockSize < Half THEN d % ClockSize
                                 ELSE (d % ClockSize) - ClockSize
    BY <1>1 DEF SignedDifference
  <1>5. SignedDifference(a, b) =
            LET r == IF d < 0 THEN d + ClockSize ELSE d
            IN  IF r < Half THEN r ELSE r - ClockSize
    BY <1>3, <1>4
  <1> QED
    BY <1>1, <1>2, <1>5, ClockFacts

LEMMA SignedUnique ==
    ASSUME NEW a \in Clock, NEW b \in Clock, NEW x \in Int,
           0 - Half <= x, x < Half,
           \/ x = a - b \/ x = a - b + ClockSize \/ x = a - b - ClockSize
           \/ x = a - b + 2 * ClockSize \/ x = a - b - 2 * ClockSize
    PROVE  SignedDifference(a, b) = x
  <1>1. PICK s \in Int : /\ s = SignedDifference(a, b)
                         /\ 0 - Half <= s /\ s < Half
                         /\ s = a - b \/ s = a - b + ClockSize \/ s = a - b - ClockSize
    BY Signed
  <1>2. a \in Int /\ b \in Int
    BY ClockFacts DEF Clock
  <1> QED
    BY <1>1, <1>2, ClockFacts

(* A reading some units from now. *)
LEMMA Later ==
    ASSUME now \in Clock, NEW units \in Nat, units < ClockSize
    PROVE  /\ After(units) \in Clock
           /\ After(units) = now + units \/ After(units) = now + units - ClockSize
  <1>1. PICK d \in Nat : d = now + units
    BY ClockFacts DEF Clock
  <1>2. d < 2 * ClockSize /\ After(units) = d % ClockSize
    BY <1>1, ClockFacts DEF Clock, After
  <1>3. d % ClockSize = IF d < ClockSize THEN d ELSE d - ClockSize
    BY <1>1, <1>2, Remainder, ClockFacts
  <1> QED
    BY <1>1, <1>2, <1>3, ClockFacts DEF Clock

(* A deadline just set, and the time that passes up to it and past it.         *)
LEMMA JustSet ==
    ASSUME now \in Clock, NEW delay \in Nat, delay < Half, NEW units \in Nat, units < Half
    PROVE  SignedDifference(After(delay), After(units)) = delay - units
  <1>1. units < ClockSize /\ delay < ClockSize
    BY ClockFacts
  <1>2. PICK a \in Clock :
            a = After(delay) /\ (a = now + delay \/ a = now + delay - ClockSize)
    BY <1>1, Later
  <1>3. PICK b \in Clock :
            b = After(units) /\ (b = now + units \/ b = now + units - ClockSize)
    BY <1>1, Later
  <1>4. PICK x \in Int : x = delay - units
    OBVIOUS
  <1>5. 0 - Half <= x /\ x < Half
    BY <1>4, ClockFacts
  <1>6. x = a - b \/ x = a - b + ClockSize \/ x = a - b - ClockSize
    BY <1>2, <1>3, <1>4, ClockFacts DEF Clock
  <1>7. SignedDifference(a, b) = x
    BY <1>5, <1>6, SignedUnique
  <1> QED
    BY <1>2, <1>3, <1>4, <1>7

LEMMA TimePasses ==
    ASSUME now \in Clock, NEW deadline \in Clock, NEW age \in 0 .. Half,
           NEW delay \in 0 .. MaxBackoff, NEW units \in Nat, units < Half,
           Falls(deadline, age, delay), Elapsed(age, units) < Half
    PROVE  SignedDifference(deadline, After(units)) = delay - Elapsed(age, units)
  <1>1. age \in Nat /\ delay \in Nat /\ delay < Half
    BY ClockFacts
  <1>2. Elapsed(age, units) = age + units /\ age + units < Half /\ age < Half
    BY <1>1, ClockFacts DEF Elapsed, Smaller
  <1>3. SignedDifference(deadline, now) = delay - age
    BY <1>2 DEF Falls
  <1>4. \/ delay - age = deadline - now
        \/ delay - age = deadline - now + ClockSize
        \/ delay - age = deadline - now - ClockSize
    BY <1>3, Signed
  <1>5. PICK b \in Clock :
            b = After(units) /\ (b = now + units \/ b = now + units - ClockSize)
    BY Later, ClockFacts
  <1>6. PICK x \in Int : x = delay - age - units
    BY <1>1
  <1>7. 0 - Half <= x /\ x < Half
    BY <1>1, <1>2, <1>6, ClockFacts
  <1>8. now \in Int /\ deadline \in Int /\ b \in Int
    BY ClockFacts DEF Clock
  <1>9. \/ x = deadline - b \/ x = deadline - b + ClockSize \/ x = deadline - b - ClockSize
        \/ x = deadline - b + 2 * ClockSize \/ x = deadline - b - 2 * ClockSize
    BY <1>1, <1>4, <1>5, <1>6, <1>8, ClockFacts
  <1>10. SignedDifference(deadline, b) = x
    BY <1>7, <1>9, SignedUnique
  <1>11. delay - (age + units) = x
    BY <1>1, <1>6
  <1> QED
    BY <1>2, <1>5, <1>10, <1>11

--------------------------------------------------------------------------------
(* The steps.                                                                  *)

(* Every delay a deadline is set with. *)
LEMMA DoubledFacts ==
    ASSUME NEW backoff \in 1 .. MaxBackoff
    PROVE  Doubled(backoff) \in 1 .. MaxBackoff
  BY ClockFacts DEF Doubled, Smaller

LEMMA ElapsedFacts ==
    ASSUME NEW age \in 0 .. Half, NEW units \in Nat
    PROVE  Elapsed(age, units) \in 0 .. Half
  BY ClockFacts DEF Elapsed, Smaller

(* Waiting out a step of the clock keeps what a deadline says. *)
LEMMA KeepsFalling ==
    ASSUME now \in Clock, NEW deadline \in Clock, NEW age \in 0 .. Half,
           NEW delay \in 0 .. MaxBackoff, NEW units \in Nat, units < Half,
           Falls(deadline, age, delay), now' = After(units)
    PROVE  Falls(deadline, Elapsed(age, units), delay)'
  <1>1. CASE Elapsed(age, units) < Half
    BY <1>1, TimePasses DEF Falls
  <1>2. CASE ~(Elapsed(age, units) < Half)
    BY <1>2 DEF Falls
  <1> QED
    BY <1>1, <1>2

LEMMA BackoffStarts == BackoffInit => BackoffInv
  <1> SUFFICES ASSUME BackoffInit PROVE BackoffInv
    OBVIOUS
  <1>1. now = 0 /\ 0 \in Clock /\ now \in Clock
    BY ClockFacts DEF BackoffInit, Clock
  <1>2. After(1) \in Clock /\ SignedDifference(After(1), After(0)) = 1
    <2>1. 1 < ClockSize /\ 1 < Half /\ 0 < Half /\ 1 - 0 = 1
      BY ClockFacts
    <2> QED
      BY <1>1, <2>1, Later, JustSet
  <1>3. After(0) = now /\ SignedDifference(0, now) = 0
    <2>1. 0 < ClockSize /\ 0 < Half /\ 0 - 0 = 0
      BY ClockFacts
    <2>2. After(0) \in Clock /\ (After(0) = now + 0 \/ After(0) = now + 0 - ClockSize)
      BY <1>1, <2>1, Later
    <2>3. After(0) = now
      BY <1>1, <2>2, ClockFacts DEF Clock
    <2> QED
      BY <1>1, <2>1, <2>3, JustSet
  <1>4. BackoffTypeOK
    <2>1. {mqtt, mqttFailed, apUp, brokerUp} \subseteq BOOLEAN
      BY DEF BackoffInit
    <2>2. joinAge \in 0 .. JoinTime /\ 1 \in 1 .. MaxBackoff /\ 0 \in 0 .. Half
      BY ClockFacts DEF BackoffInit
    <2>3. wifiNextAttempt \in Clock /\ mqttNextAttempt \in Clock
      BY <1>1, <1>2 DEF BackoffInit
    <2> QED
      BY <1>1, <2>1, <2>2, <2>3 DEF BackoffInit, BackoffTypeOK, Clock
  <1>5. Falls(wifiNextAttempt, wifiElapsed, 1) /\ 1 \in 0 .. MaxBackoff
    BY <1>2, <1>3, ClockFacts DEF BackoffInit, Falls
  <1>6. Falls(mqttNextAttempt, mqttElapsed, 0) /\ 0 \in 0 .. MaxBackoff
    BY <1>3, ClockFacts DEF BackoffInit, Falls
  <1> QED
    BY <1>4, <1>5, <1>6 DEF BackoffInit, BackoffInv

LEMMA Ticks ==
    ASSUME BackoffInv, Tick
    PROVE  BackoffInv'
  <1>1. /\ now \in Clock /\ wifiNextAttempt \in Clock /\ mqttNextAttempt \in Clock
        /\ wifiElapsed \in 0 .. Half /\ mqttElapsed \in 0 .. Half
        /\ wifiBackoff \in 1 .. MaxBackoff /\ mqttBackoff \in 1 .. MaxBackoff
    BY DEF BackoffInv, BackoffTypeOK, Clock
  <1>2. /\ now' = After(1) /\ wifiElapsed' = Elapsed(wifiElapsed, 1)
        /\ mqttElapsed' = Elapsed(mqttElapsed, 1)
        /\ UNCHANGED <<wifiNextAttempt, mqttNextAttempt, mqttBackoff, mqttFailed, mqtt>>
    BY DEF Tick
  <1>3. 1 \in Nat /\ 1 < Half /\ 1 < ClockSize
    BY ClockFacts
  <1>4. BackoffTypeOK'
    <2>1. now' \in Clock /\ wifiElapsed' \in 0 .. Half /\ mqttElapsed' \in 0 .. Half
      BY <1>1, <1>2, <1>3, Later, ElapsedFacts
    <2>2. joinAge' \in 0 .. JoinTime
      BY ClockFacts DEF Tick, BackoffInv, BackoffTypeOK
    <2> QED
      BY <2>1, <2>2 DEF Tick, BackoffInv, BackoffTypeOK, Clock, world
  <1>5. \E delay \in 0 .. MaxBackoff : Falls(wifiNextAttempt, wifiElapsed, delay)'
    <2>1. PICK delay \in 0 .. MaxBackoff : Falls(wifiNextAttempt, wifiElapsed, delay)
      BY DEF BackoffInv
    <2>2. PICK deadline \in Clock, age \in 0 .. Half :
              deadline = wifiNextAttempt /\ age = wifiElapsed
      BY <1>1
    <2>3. Falls(deadline, Elapsed(age, 1), delay)'
      BY <1>1, <1>2, <1>3, <2>1, <2>2, KeepsFalling
    <2> QED
      BY <1>2, <2>2, <2>3 DEF Falls, Elapsed
  <1>6. ASSUME NEW delay \in 0 .. MaxBackoff, Falls(mqttNextAttempt, mqttElapsed, delay)
        PROVE  Falls(mqttNextAttempt, mqttElapsed, delay)'
    <2>2. PICK deadline \in Clock, age \in 0 .. Half :
              deadline = mqttNextAttempt /\ age = mqttElapsed
      BY <1>1
    <2>3. Falls(deadline, Elapsed(age, 1), delay)'
      BY <1>1, <1>2, <1>3, <1>6, <2>2, KeepsFalling
    <2> QED
      BY <1>2, <2>2, <2>3 DEF Falls, Elapsed
  <1>7. mqttFailed => ~mqtt /\ Falls(mqttNextAttempt, mqttElapsed, mqttBackoff)'
    <2>1. PICK b \in 0 .. MaxBackoff : b = mqttBackoff
      BY <1>1, ClockFacts
    <2> QED
      BY <1>2, <1>6, <2>1 DEF BackoffInv, Falls
  <1> QED
    BY <1>2, <1>4, <1>5, <1>6, <1>7 DEF Tick, BackoffInv

LEMMA Changes ==
    ASSUME BackoffInv, WorldChanges
    PROVE  BackoffInv'
  <1>1. /\ turn = "clock"
        /\ UNCHANGED <<now, turn, wifiNextAttempt, wifiBackoff, wifiElapsed,
                       mqttNextAttempt, mqttBackoff, mqttFailed, mqttElapsed>>
        /\ apUp' \in BOOLEAN /\ brokerUp' \in BOOLEAN
        /\ wifi' = IF apUp' THEN wifi ELSE "joining"
        /\ joinAge' = IF apUp' THEN joinAge ELSE 0
        /\ mqtt' = (mqtt /\ apUp' /\ brokerUp')
    BY DEF WorldChanges
  <1>2. BackoffTypeOK'
    <2>1. mqtt' \in BOOLEAN /\ (mqtt' => wifi' = "on" /\ brokerUp')
      BY <1>1 DEF BackoffInv, BackoffTypeOK
    <2>2. joinAge' \in 0 .. JoinTime /\ wifi' \in {"joining", "on"}
      BY <1>1, ClockFacts DEF BackoffInv, BackoffTypeOK
    <2> QED
      BY <1>1, <2>1, <2>2 DEF BackoffInv, BackoffTypeOK
  <1>3. mqttFailed' => ~mqtt'
    BY <1>1 DEF BackoffInv
  <1> QED
    BY <1>1, <1>2, <1>3 DEF BackoffInv, Falls

LEMMA WifiTurn ==
    ASSUME BackoffInv, EnsureWifi
    PROVE  BackoffInv'
  <1>1. /\ now \in Clock /\ wifiBackoff \in 1 .. MaxBackoff
        /\ UNCHANGED <<now, mqtt, mqttNextAttempt, mqttBackoff, mqttFailed, mqttElapsed,
                       wifi, apUp, brokerUp>>
        /\ turn' \in {"mqtt", "clock"} /\ (turn' = "mqtt" => wifi' = "on")
    BY DEF BackoffInv, BackoffTypeOK, Clock, EnsureWifi, AfterWifi, mqttVars, world, wifiVars
  <1>2. /\ wifiBackoff' \in 1 .. MaxBackoff /\ joinAge' \in 0 .. JoinTime
        /\ \/ UNCHANGED <<wifiNextAttempt, wifiElapsed>>
           \/ wifiNextAttempt' = After(wifiBackoff') /\ wifiElapsed' = 0
    <2>1. CASE Due(wifiNextAttempt) /\ wifi # "on"
      BY <1>1, <2>1, DoubledFacts, ClockFacts DEF EnsureWifi, wifiVars
    <2>2. CASE ~(Due(wifiNextAttempt) /\ wifi # "on")
      BY <1>1, <2>2, ClockFacts DEF EnsureWifi, wifiVars, BackoffInv, BackoffTypeOK
    <2> QED
      BY <2>1, <2>2
  <1>3. /\ wifiNextAttempt' \in Clock /\ wifiElapsed' \in 0 .. Half
        /\ \E delay \in 0 .. MaxBackoff : Falls(wifiNextAttempt, wifiElapsed, delay)'
    <2>1. CASE UNCHANGED <<wifiNextAttempt, wifiElapsed>>
      BY <1>1, <2>1 DEF BackoffInv, BackoffTypeOK, Falls, Clock
    <2>2. CASE wifiNextAttempt' = After(wifiBackoff') /\ wifiElapsed' = 0
      <3>1. PICK delay \in 1 .. MaxBackoff : delay = wifiBackoff'
        BY <1>2
      <3>2. delay \in Nat /\ delay < Half /\ delay < ClockSize /\ 0 < Half /\ 0 < ClockSize
        BY ClockFacts
      <3>3. After(delay) \in Clock /\ SignedDifference(After(delay), After(0)) = delay - 0
        BY <1>1, <3>2, Later, JustSet
      <3>4. After(0) = now
        <4>1. After(0) \in Clock /\ (After(0) = now + 0 \/ After(0) = now + 0 - ClockSize)
          BY <1>1, <3>2, Later
        <4> QED
          BY <1>1, <4>1, ClockFacts DEF Clock
      <3>5. SignedDifference(wifiNextAttempt', now') = delay - wifiElapsed'
        BY <1>1, <2>2, <3>1, <3>3, <3>4
      <3>6. Falls(wifiNextAttempt, wifiElapsed, delay)'
        BY <3>5 DEF Falls, SignedDifference
      <3> QED
        BY <2>2, <3>1, <3>2, <3>3, <3>6, ClockFacts
    <2> QED
      BY <1>2, <2>1, <2>2
  <1>4. BackoffTypeOK'
    BY <1>1, <1>2, <1>3 DEF BackoffInv, BackoffTypeOK, Clock
  <1> QED
    BY <1>1, <1>3, <1>4 DEF BackoffInv, Falls

LEMMA MqttAttempts ==
    ASSUME BackoffInv, turn = "mqtt", turn' = "clock", NEW units \in 0 .. ConnectTime,
           MqttAttempt(units),
           UNCHANGED <<wifi, joinAge, wifiNextAttempt, wifiBackoff, world>>
    PROVE  BackoffInv'
  <1>1. /\ now \in Clock /\ wifiNextAttempt \in Clock /\ mqttNextAttempt \in Clock
        /\ wifiElapsed \in 0 .. Half /\ mqttElapsed \in 0 .. Half
        /\ wifiBackoff \in 1 .. MaxBackoff /\ mqttBackoff \in 1 .. MaxBackoff
        /\ wifi = "on"
    BY DEF BackoffInv, BackoffTypeOK, Clock
  <1>2. now' = After(units) /\ wifiElapsed' = Elapsed(wifiElapsed, units)
    BY DEF MqttAttempt
  <1>3. units \in Nat /\ units < Half /\ units < ClockSize
    BY ClockFacts
  <1>4. now' \in Clock /\ wifiElapsed' \in 0 .. Half
    BY <1>1, <1>2, <1>3, Later, ElapsedFacts
  <1>5. \E delay \in 0 .. MaxBackoff : Falls(wifiNextAttempt, wifiElapsed, delay)'
    <2>1. PICK delay \in 0 .. MaxBackoff : Falls(wifiNextAttempt, wifiElapsed, delay)
      BY DEF BackoffInv
    <2>2. PICK deadline \in Clock, age \in 0 .. Half :
              deadline = wifiNextAttempt /\ age = wifiElapsed
      BY <1>1
    <2>3. Falls(deadline, Elapsed(age, units), delay)'
      BY <1>1, <1>2, <1>3, <2>1, <2>2, KeepsFalling
    <2> QED
      BY <1>2, <2>2, <2>3 DEF Falls, Elapsed
  <1>6. CASE brokerUp
    <2>1. /\ mqtt' = TRUE /\ mqttBackoff' = 1 /\ mqttFailed' = FALSE
          /\ mqttElapsed' = Elapsed(mqttElapsed, units)
          /\ mqttNextAttempt' = mqttNextAttempt
      BY <1>6 DEF MqttAttempt
    <2>2. PICK delay \in 0 .. MaxBackoff : Falls(mqttNextAttempt, mqttElapsed, delay)
      BY DEF BackoffInv
    <2>3. PICK deadline \in Clock, age \in 0 .. Half :
              deadline = mqttNextAttempt /\ age = mqttElapsed
      BY <1>1
    <2>4. Falls(deadline, Elapsed(age, units), delay)'
      BY <1>1, <1>2, <1>3, <2>2, <2>3, KeepsFalling
    <2>5. Falls(mqttNextAttempt, mqttElapsed, delay)'
      BY <2>1, <2>3, <2>4 DEF Falls, Elapsed
    <2>6. mqttElapsed' \in 0 .. Half /\ 1 \in 1 .. MaxBackoff
      BY <1>1, <1>3, <2>1, ElapsedFacts, ClockFacts
    <2>7. BackoffTypeOK'
      BY <1>1, <1>4, <1>6, <2>1, <2>6 DEF BackoffInv, BackoffTypeOK, Clock, world
    <2> QED
      BY <1>1, <1>5, <2>1, <2>5, <2>7 DEF BackoffInv
  <1>7. CASE ~brokerUp
    <2>1. /\ mqttBackoff' = Doubled(mqttBackoff)
          /\ mqttNextAttempt' = After(mqttBackoff')
          /\ mqttElapsed' = units /\ mqttFailed' = TRUE /\ mqtt' = mqtt /\ ~mqtt
      BY <1>7 DEF MqttAttempt
    <2>2. PICK delay \in 1 .. MaxBackoff : delay = mqttBackoff'
      BY <1>1, <2>1, DoubledFacts
    <2>3. delay \in Nat /\ delay < Half /\ delay < ClockSize /\ delay \in 0 .. MaxBackoff
      BY ClockFacts
    <2>4. /\ After(delay) \in Clock
          /\ SignedDifference(After(delay), After(units)) = delay - units
      BY <1>1, <1>3, <2>3, Later, JustSet
    <2>5. SignedDifference(mqttNextAttempt', now') = delay - mqttElapsed'
      BY <1>2, <2>1, <2>2, <2>4
    <2>6. Falls(mqttNextAttempt, mqttElapsed, delay)'
      BY <2>5 DEF Falls, SignedDifference
    <2>7. Falls(mqttNextAttempt, mqttElapsed, mqttBackoff)'
      BY <2>2, <2>5 DEF Falls, SignedDifference
    <2>8. mqttElapsed' \in 0 .. Half
      BY <1>3, <2>1, ClockFacts
    <2>9. BackoffTypeOK'
      BY <1>1, <1>4, <2>1, <2>2, <2>4, <2>8 DEF BackoffInv, BackoffTypeOK, Clock, world
    <2> QED
      BY <1>1, <1>5, <2>1, <2>3, <2>6, <2>7, <2>9 DEF BackoffInv
  <1> QED
    BY <1>6, <1>7

LEMMA MqttTurn ==
    ASSUME BackoffInv, EnsureMqtt
    PROVE  BackoffInv'
  <1>1. /\ turn = "mqtt" /\ turn' = "clock"
        /\ UNCHANGED <<wifi, joinAge, wifiNextAttempt, wifiBackoff, world>>
    BY DEF EnsureMqtt
  <1>2. CASE \E units \in 0 .. ConnectTime : MqttAttempt(units)
    BY <1>1, <1>2, MqttAttempts
  <1>3. CASE /\ UNCHANGED <<now, wifiElapsed, mqtt, mqttNextAttempt, mqttFailed, mqttElapsed>>
             /\ mqttBackoff' = mqttBackoff \/ (mqtt /\ mqttBackoff' = 1)
    <2>1. mqttBackoff' \in 1 .. MaxBackoff
      BY <1>3, ClockFacts DEF BackoffInv, BackoffTypeOK
    <2>2. BackoffTypeOK'
      BY <1>1, <1>3, <2>1 DEF BackoffInv, BackoffTypeOK, world
    <2> QED
      BY <1>1, <1>3, <2>2 DEF BackoffInv, Falls
  <1> QED
    BY <1>2, <1>3 DEF EnsureMqtt, mqttVars

LEMMA BackoffSteps == BackoffInv /\ [BackoffNext]_backoffVars => BackoffInv'
  <1>1. BackoffInv /\ UNCHANGED backoffVars => BackoffInv'
    BY DEF BackoffInv, BackoffTypeOK, Falls, backoffVars, wifiVars, mqttVars, world
  <1> QED
    BY <1>1, Ticks, Changes, WifiTurn, MqttTurn DEF BackoffNext

(* The deadlines of both retry loops stay readable on a clock that wraps, for  *)
(* every width of the clock, every cap and every time connect() may block.     *)
THEOREM BackoffInvariant == BackoffSpec => []BackoffInv
  BY BackoffStarts, BackoffSteps, PTL DEF BackoffSpec

(* No wait is longer than the cap.                                             *)
THEOREM WaitsAreBounded == BackoffSpec => []WaitIsBounded
  <1>1. ASSUME BackoffInv PROVE WaitIsBounded
    <2>1. PICK d \in 0 .. MaxBackoff : Falls(wifiNextAttempt, wifiElapsed, d)
      BY <1>1 DEF BackoffInv
    <2>2. PICK e \in 0 .. MaxBackoff : Falls(mqttNextAttempt, mqttElapsed, e)
      BY <1>1 DEF BackoffInv
    <2>3. wifiElapsed \in Nat /\ mqttElapsed \in Nat
      BY <1>1, ClockFacts DEF BackoffInv, BackoffTypeOK
    <2>4. d \in Nat /\ e \in Nat /\ d <= MaxBackoff /\ e <= MaxBackoff /\ MaxBackoff \in Nat
      BY ClockFacts
    <2>5. d - wifiElapsed <= MaxBackoff /\ e - mqttElapsed <= MaxBackoff
      BY <2>3, <2>4
    <2> QED
      BY <2>1, <2>2, <2>5 DEF Falls, WaitIsBounded
  <1> QED
    BY <1>1, BackoffInvariant, PTL

(* Failed attempts start at least the backoff apart.                           *)
THEOREM BackoffHonoured == BackoffSpec => BackoffIsHonoured
  <1>1. ASSUME BackoffInv, BackoffNext, turn = "mqtt", ~mqtt, mqttVars' # mqttVars, mqttFailed
        PROVE  mqttElapsed >= mqttBackoff
    <2>1. EnsureMqtt
      BY <1>1 DEF BackoffNext, Tick, WorldChanges, EnsureWifi
    <2>2. Due(mqttNextAttempt)
      BY <1>1, <2>1 DEF EnsureMqtt, MqttAttempt
    <2>3. /\ now \in Clock /\ mqttNextAttempt \in Clock /\ mqttElapsed \in 0 .. Half
          /\ mqttBackoff \in 1 .. MaxBackoff /\ Falls(mqttNextAttempt, mqttElapsed, mqttBackoff)
      BY <1>1 DEF BackoffInv, BackoffTypeOK, Clock
    <2>4. CASE mqttElapsed < Half
      <3>1. SignedDifference(mqttNextAttempt, now) = mqttBackoff - mqttElapsed
        BY <2>3, <2>4 DEF Falls
      <3>2. PICK x \in Int : x = mqttElapsed - mqttBackoff
        BY <2>3, ClockFacts
      <3>3. 0 - Half <= x /\ x < Half
        BY <2>3, <2>4, <3>2, ClockFacts
      <3>4. \/ 0 - x = mqttNextAttempt - now
            \/ 0 - x = mqttNextAttempt - now + ClockSize
            \/ 0 - x = mqttNextAttempt - now - ClockSize
        BY <2>3, <3>1, <3>2, Signed
      <3>5. \/ x = now - mqttNextAttempt \/ x = now - mqttNextAttempt + ClockSize
            \/ x = now - mqttNextAttempt - ClockSize
        BY <2>3, <3>4, ClockFacts DEF Clock
      <3>6. SignedDifference(now, mqttNextAttempt) = x
        BY <2>3, <3>3, <3>5, SignedUnique
      <3> QED
        BY <2>2, <2>3, <3>2, <3>6, ClockFacts DEF Due
    <2>5. CASE ~(mqttElapsed < Half)
      BY <2>3, <2>5, ClockFacts
    <2> QED
      BY <2>4, <2>5
  <1>2. BackoffInv /\ [BackoffNext]_backoffVars
            => [turn = "mqtt" /\ ~mqtt /\ mqttVars' # mqttVars /\ mqttFailed
                    => mqttElapsed >= mqttBackoff]_backoffVars
    BY <1>1
  <1> QED
    BY <1>2, BackoffInvariant, PTL DEF BackoffSpec, BackoffIsHonoured
================================================================================
