---------------------------- MODULE TelemetryUplink ----------------------------
(* The path of a telemetry sample from setup()/loop() of the firmware to the   *)
(* broker: main.cpp's loop, the offline buffer and MqttPublisher's publishes,  *)
(* over a TCP connection that may break at any moment and whose death the      *)
(* client learns late.  PubSubClient publishes at QoS 0: publish() is true as  *)
(* soon as the bytes are in the socket.                                        *)
EXTENDS Naturals, Sequences, FiniteSets

CONSTANTS
    Capacity,    \* OFFLINE_BUFFER_SIZE
    DrainLimit,  \* publishes per loop() when draining, 4 in the code
    MaxSeq,      \* bound: samples per boot
    MaxBoot      \* bound: boots

ASSUME UplinkAssumption ==
    /\ Capacity \in Nat \ {0}
    /\ DrainLimit \in Nat \ {0}
    /\ MaxSeq \in Nat
    /\ MaxBoot \in Nat \ {0}

VARIABLES
    bootCount,      \* NVS "boot_count": survives a reset
    seqCounter,     \* number of the next sample of this boot
    buffer,         \* the OfflineBuffer, as the queue it implements
    metaPublished,
    pc,             \* where loop() is
    drained,        \* i of the drain loop
    conn,           \* "down", "up", or "dead": broken, but connected() still true
    wire,           \* samples written to the socket and not yet at the broker
    metaWire,       \* the boot's meta payload is written and not yet at the broker
    received,       \* samples the broker has, in order of arrival
    retainedMeta,   \* boot of the meta payload the broker retains, 0 if none
    dropped,        \* samples a full buffer discarded
    vanished,       \* samples that left the device and died with a connection
    wiped           \* samples a reset erased from RAM

device == <<bootCount, seqCounter, buffer, metaPublished, pc, drained>>
network == <<conn, wire, metaWire, received, retainedMeta>>
fates == <<dropped, vanished, wiped>>
vars == <<device, network, fates>>

Sample == [boot : 1 .. MaxBoot, seq : 0 .. MaxSeq]
NoSample == [boot |-> 0, seq |-> 0]

Fifo == INSTANCE BoundedFifo
          WITH Payload <- Sample, NoPayload <- NoSample, queue <- buffer, out <- NoSample

Elements(s) == {s[i] : i \in DOMAIN s}

(* MqttPublisher::isConnected *)
isConnected == conn # "down"

Init ==
    /\ bootCount = 1 /\ seqCounter = 0 /\ buffer = << >> /\ metaPublished = FALSE
    /\ pc = "mqtt" /\ drained = 0
    /\ conn = "down" /\ wire = << >> /\ metaWire = FALSE
    /\ received = << >> /\ retainedMeta = 0
    /\ dropped = {} /\ vanished = {} /\ wiped = {}

--------------------------------------------------------------------------------
(* The connection.                                                             *)

(* What was written to a socket and not delivered dies with it.                *)
WireDies ==
    /\ vanished' = vanished \cup Elements(wire)
    /\ wire' = << >> /\ metaWire' = FALSE

(* The link goes silent: nobody has told the client yet.                       *)
LinkBreaks ==
    /\ conn = "up" /\ conn' = "dead"
    /\ WireDies
    /\ UNCHANGED <<device, received, retainedMeta, dropped, wiped>>

(* Wi-Fi reports the loss, the broker closes, or the keep-alive expires.       *)
ConnectionCloses ==
    /\ isConnected /\ conn' = "down"
    /\ WireDies
    /\ UNCHANGED <<device, received, retainedMeta, dropped, wiped>>

BrokerReceives ==
    /\ conn = "up" /\ wire # << >>
    /\ received' = Append(received, Head(wire))
    /\ wire' = Tail(wire)
    /\ UNCHANGED <<device, conn, metaWire, retainedMeta, fates>>

BrokerRetainsMeta ==
    /\ conn = "up" /\ metaWire
    /\ metaWire' = FALSE
    /\ retainedMeta' = bootCount
    /\ UNCHANGED <<device, conn, wire, received, fates>>

--------------------------------------------------------------------------------
(* MqttPublisher::publishTelemetry.  A live socket takes the bytes, a dead one *)
(* takes them too and loses them.                                              *)
PublishSucceeds(s) ==
    /\ isConnected
    /\ IF conn = "up"
       THEN wire' = Append(wire, s) /\ UNCHANGED vanished
       ELSE vanished' = vanished \cup {s} /\ UNCHANGED wire
    /\ UNCHANGED <<conn, metaWire>>

(* false: the connection went down under the call, which closes it, or a dead  *)
(* socket's send buffer is full.                                               *)
PublishFails ==
    /\ conn' \in IF conn = "dead" THEN {"dead", "down"} ELSE {"down"}
    /\ WireDies

--------------------------------------------------------------------------------
(* loop(), one action per block of its body.                                   *)

(* mqtt.loop(): ensureMqtt connects when it can; an attempt that fails leaves  *)
(* the state as it is.                                                         *)
MqttLoop ==
    /\ pc = "mqtt" /\ pc' = "meta"
    /\ IF isConnected THEN UNCHANGED conn ELSE conn' \in {"down", "up"}
    /\ UNCHANGED <<bootCount, seqCounter, buffer, metaPublished, drained, wire,
                   metaWire, received, retainedMeta, fates>>

PublishMeta ==
    /\ pc = "meta" /\ pc' = "sample"
    /\ \/ /\ metaPublished \/ ~isConnected
          /\ UNCHANGED <<metaPublished, conn, wire, metaWire, vanished>>
       \/ /\ ~metaPublished /\ isConnected
          /\ metaPublished' = TRUE
          /\ metaWire' = (conn = "up")
          /\ UNCHANGED <<conn, wire, vanished>>
       \/ /\ ~metaPublished /\ isConnected
          /\ PublishFails
          /\ UNCHANGED metaPublished
    /\ UNCHANGED <<bootCount, seqCounter, buffer, drained, received, retainedMeta,
                   dropped, wiped>>

(* TELEMETRY_PERIOD_MS has not elapsed.                                        *)
SampleNotDue ==
    /\ pc = "sample" /\ pc' = "drain" /\ drained' = 0
    /\ UNCHANGED <<bootCount, seqCounter, buffer, metaPublished, network, fates>>

(* Mutant: a buffer that turns new samples away.                             *)
BufferKeepsOldest(s) ==
    IF Len(buffer) < Capacity
    THEN buffer' = Append(buffer, s) /\ UNCHANGED dropped
    ELSE dropped' = dropped \cup {s} /\ UNCHANGED buffer

(* buffer.push: the oldest sample of a full buffer is dropped.                 *)
BufferSample(s) ==
    /\ buffer' = Fifo!Pushed(buffer, s)
    /\ dropped' = dropped \cup (Elements(buffer) \ Elements(buffer'))

(* Mutant: a connected device sends the new sample past the buffered ones.     *)
PublishPastBuffer(s) ==
    /\ PublishSucceeds(s)
    /\ UNCHANGED <<buffer, dropped>>

(* A sample goes straight out only when nothing waits in front of it.          *)
PublishDirectly(s) ==
    /\ buffer = << >>
    /\ PublishSucceeds(s)
    /\ UNCHANGED <<buffer, dropped>>

(* A sample that cannot go out directly is buffered.                           *)
TakeSample ==
    LET s == [boot |-> bootCount, seq |-> seqCounter] IN
    /\ pc = "sample" /\ pc' = "drain" /\ drained' = 0
    /\ seqCounter < MaxSeq
    /\ seqCounter' = seqCounter + 1
    /\ \/ PublishDirectly(s)
       \/ /\ buffer = << >> /\ isConnected
          /\ PublishFails
          /\ BufferSample(s)
       \/ /\ ~isConnected \/ buffer # << >>
          /\ BufferSample(s)
          /\ UNCHANGED <<conn, wire, metaWire, vanished>>
    /\ UNCHANGED <<bootCount, metaPublished, received, retainedMeta, wiped>>

(* Mutants of the drain loop: it may end before its first turn, and a sample   *)
(* leaves the buffer although its publish failed.                              *)
DrainLeavesEarly ==
    /\ pc = "drain" /\ pc' = "mqtt"
    /\ UNCHANGED <<bootCount, seqCounter, buffer, metaPublished, drained, network,
                   fates>>

PopsUnsent ==
    /\ pc = "drain" /\ pc' = "mqtt"
    /\ buffer # << >> /\ drained < DrainLimit /\ isConnected
    /\ PublishFails
    /\ buffer' = Tail(buffer)
    /\ UNCHANGED <<bootCount, seqCounter, metaPublished, drained, received,
                   retainedMeta, dropped, wiped>>

(* One turn of the drain loop: peek, publish, pop.                             *)
DrainOne ==
    /\ pc = "drain" /\ buffer # << >> /\ drained < DrainLimit
    /\ PublishSucceeds(Head(buffer))
    /\ buffer' = Tail(buffer)
    /\ drained' = drained + 1
    /\ UNCHANGED <<bootCount, seqCounter, metaPublished, pc, received, retainedMeta,
                   dropped, wiped>>

DrainBreaks ==
    /\ pc = "drain" /\ pc' = "mqtt"
    /\ buffer # << >> /\ drained < DrainLimit /\ isConnected
    /\ PublishFails
    /\ UNCHANGED <<bootCount, seqCounter, buffer, metaPublished, drained, received,
                   retainedMeta, dropped, wiped>>

DrainEnds ==
    /\ pc = "drain" /\ pc' = "mqtt"
    /\ buffer = << >> \/ drained = DrainLimit \/ ~isConnected
    /\ UNCHANGED <<bootCount, seqCounter, buffer, metaPublished, drained, network,
                   fates>>

(* A reset: RAM is lost, NVS counts the boot, and setup() starts over.         *)
Reset ==
    /\ bootCount < MaxBoot
    /\ bootCount' = bootCount + 1
    /\ wiped' = wiped \cup Elements(buffer)
    /\ seqCounter' = 0 /\ buffer' = << >> /\ metaPublished' = FALSE
    /\ pc' = "mqtt" /\ drained' = 0
    /\ conn' = "down"
    /\ WireDies
    /\ UNCHANGED <<received, retainedMeta, dropped>>

--------------------------------------------------------------------------------

LoopStep ==
    \/ MqttLoop \/ PublishMeta \/ SampleNotDue \/ TakeSample
    \/ DrainOne \/ DrainBreaks \/ DrainEnds

BrokerStep == BrokerReceives \/ BrokerRetainsMeta

Next == LoopStep \/ BrokerStep \/ LinkBreaks \/ ConnectionCloses \/ Reset

(* Arduino calls loop() for ever, and a working TCP connection delivers.       *)
Spec == Init /\ [][Next]_vars /\ WF_vars(LoopStep) /\ WF_vars(BrokerStep)

--------------------------------------------------------------------------------

(* Type invariant: the fields keep their ranges and the buffer its capacity.   *)
TypeOK ==
    /\ bootCount \in 1 .. MaxBoot /\ seqCounter \in 0 .. MaxSeq
    /\ buffer \in Seq(Sample) /\ Len(buffer) <= Capacity
    /\ metaPublished \in BOOLEAN
    /\ pc \in {"mqtt", "meta", "sample", "drain"} /\ drained \in 0 .. DrainLimit
    /\ conn \in {"down", "up", "dead"}
    /\ wire \in Seq(Sample) /\ metaWire \in BOOLEAN
    /\ received \in Seq(Sample) /\ retainedMeta \in 0 .. MaxBoot
    /\ dropped \subseteq Sample /\ vanished \subseteq Sample /\ wiped \subseteq Sample

Earlier(s, t) == s.boot < t.boot \/ (s.boot = t.boot /\ s.seq < t.seq)

(* Everything on its way, oldest first. *)
Trail == received \o wire \o buffer

(* Samples never overtake one another and are never sent twice: what the       *)
(* broker has, what is in the socket and what waits in the buffer is one       *)
(* strictly increasing sequence.  This is what the buffer.empty() test in      *)
(* front of a direct publish and the publish-before-pop order are for.         *)
InOrder ==
    \A i, j \in DOMAIN Trail : i < j => Earlier(Trail[i], Trail[j])

(* The buffer holds the most recent samples of this boot without a gap.        *)
BufferIsRecent ==
    \A i \in DOMAIN buffer :
        buffer[i] = [boot |-> bootCount, seq |-> seqCounter - Len(buffer) + i - 1]

Produced ==
    {s \in Sample : s.boot < bootCount \/ (s.boot = bootCount /\ s.seq < seqCounter)}

(* A gap in the received sequence numbers always has one of the three causes:  *)
(* a full buffer, a connection that died with bytes in it, or a reset.  No     *)
(* path of loop() forgets a sample, and none is both lost and delivered.       *)
GapsAreExplained ==
    LET lost == dropped \cup vanished \cup wiped IN
    /\ \A s \in Elements(Trail) \cup lost : s \in Produced
    /\ \A s \in Produced : s.boot = bootCount =>
            s \in Elements(Trail) \cup lost
    /\ Elements(Trail) \cap lost = {}

(* Once the connection stays up, whatever the outage left in the buffer goes   *)
(* out, four samples per loop().                                               *)
BufferDrains == <>[](conn = "up") => []<>(buffer = << >>)
================================================================================
