-------------------------- MODULE TelemetryIngestProofs --------------------------
(* Proofs about the ingestion pipeline, for any messages, keys and devices,    *)
(* any size of the queue and of the batch, and any number of failures.         *)
EXTENDS TelemetryIngest, FiniteSetTheorems, WellFoundedInduction, TLAPS

Shape ==
    /\ forwarded \in Nat
    /\ retained \in [Device -> {0} \cup Metas] /\ inHand \in {0} \cup Metas
    /\ handoff \in Seq(Message) /\ queue \in Seq(Message)
    /\ batch \in Seq(Rows) /\ remaining \in Seq(Rows)
    /\ lost \in [Causes -> SUBSET Message]
    /\ phase \in {"up", "cancelling", "draining", "down"}

(* The locals of _run and of stop exist one at a time, and none outlives its   *)
(* task or its process.                                                        *)
Locals ==
    /\ phase # "draining" => remaining = << >>
    /\ phase \in {"draining", "down"} => batch = << >>
    /\ task = "dead" => batch = << >>
    /\ phase = "down" => handoff = << >> /\ queue = << >>

RowsRising(s) ==
    \A i, j \in DOMAIN s : i < j /\ s[i] \in Rows /\ s[j] \in Rows => s[i] < s[j]

Ahead(A, B) == \A m \in A \cap Rows, n \in B \cap Rows : m < n

(* Each stage of the pipeline holds its rows in the broker's order, and older  *)
(* rows than the stages before it.                                             *)
StagesInOrder ==
    /\ RowsRising(batch) /\ RowsRising(remaining) /\ RowsRising(queue) /\ RowsRising(handoff)
    /\ Ahead(Range(batch), Range(queue)) /\ Ahead(Range(batch), Range(handoff))
    /\ Ahead(Range(remaining), Range(queue)) /\ Ahead(Range(remaining), Range(handoff))
    /\ Ahead(Range(queue), Range(handoff))

(* The rows on their way.                                                      *)
Waiting ==
    (Range(handoff) \cup Range(queue) \cup Range(batch) \cup Range(remaining)) \cap Rows

(* Where every row is; nothing is known of a row before it is forwarded.       *)
Placed ==
    /\ \A m \in Rows : m <= forwarded => Stored(m) \/ m \in Waiting \/ m \in Lost
    /\ \A m \in Waiting : m <= forwarded
    /\ \A k \in DOMAIN table : table[k] \in Rows /\ table[k] <= forwarded
    /\ \A k \in DOMAIN table : \A m \in Waiting : table[k] < m
    /\ StoredRowsAreSound

IInv == Shape /\ Locals /\ StagesInOrder /\ Placed

--------------------------------------------------------------------------------
(* Sequences.                                                                  *)

LEMMA RowNumbers ==
    /\ Rows \subseteq Message /\ Metas \subseteq Message /\ Message \subseteq Nat \ {0}
    /\ Rows \cap Metas = {} /\ Rows \cap Broken = {} /\ Rows \subseteq Nat
  BY IngestAssumption DEF Message

LEMMA EmptyStage == Range(<< >>) = {} /\ RowsRising(<< >>)
  BY DEF Range, RowsRising

LEMMA StageType ==
    ASSUME NEW S, NEW s \in Seq(S)
    PROVE  Range(s) \subseteq S
  BY DEF Range

LEMMA Appended ==
    ASSUME NEW S, NEW s \in Seq(S), NEW e \in S
    PROVE  /\ Append(s, e) \in Seq(S)
           /\ Range(Append(s, e)) = Range(s) \cup {e}
           /\ RowsRising(s) /\ Ahead(Range(s), {e}) => RowsRising(Append(s, e))
  <1>1. /\ Append(s, e) \in Seq(S) /\ Len(Append(s, e)) = Len(s) + 1
        /\ \A i \in 1 .. Len(s) : Append(s, e)[i] = s[i]
        /\ Append(s, e)[Len(s) + 1] = e
        /\ Len(s) \in Nat
    OBVIOUS
  <1>2. DOMAIN s = 1 .. Len(s) /\ DOMAIN Append(s, e) = 1 .. Len(s) + 1
    BY <1>1
  <1> DEFINE a == Append(s, e)
  <1> HIDE DEF a
  <1>3. \A i \in 1 .. Len(s) + 1 : i \in 1 .. Len(s) \/ i = Len(s) + 1
    BY <1>1
  <1>4. Range(a) = Range(s) \cup {e}
    BY <1>1, <1>2, <1>3 DEF Range, a
  <1>5. ASSUME RowsRising(s), Ahead(Range(s), {e}) PROVE RowsRising(a)
    <2> SUFFICES ASSUME NEW i \in 1 .. Len(s) + 1, NEW j \in 1 .. Len(s) + 1, i < j,
                        a[i] \in Rows, a[j] \in Rows
                 PROVE  a[i] < a[j]
      BY <1>2 DEF RowsRising, a
    <2>1. i \in 1 .. Len(s) /\ a[i] = s[i]
      BY <1>1 DEF a
    <2>2. CASE j \in 1 .. Len(s)
      BY <1>1, <1>2, <1>5, <2>1, <2>2 DEF RowsRising, a
    <2>3. CASE j = Len(s) + 1
      <3>1. s[i] \in Range(s) /\ a[j] = e
        BY <1>1, <1>2, <2>1, <2>3 DEF Range, a
      <3> QED
        BY <1>5, <2>1, <3>1 DEF Ahead
    <2> QED
      BY <1>3, <2>2, <2>3
  <1> QED
    BY <1>1, <1>4, <1>5 DEF a

LEMMA Split ==
    ASSUME NEW S, NEW s \in Seq(S), s # << >>
    PROVE  /\ Head(s) \in S /\ Tail(s) \in Seq(S)
           /\ Range(s) = {Head(s)} \cup Range(Tail(s))
           /\ RowsRising(s) => RowsRising(Tail(s)) /\ Ahead({Head(s)}, Range(Tail(s)))
  <1>1. /\ Tail(s) \in Seq(S) /\ Len(Tail(s)) = Len(s) - 1
        /\ \A i \in 1 .. Len(s) - 1 : Tail(s)[i] = s[i + 1]
        /\ Len(s) \in Nat \ {0} /\ Head(s) = s[1]
    OBVIOUS
  <1>2. DOMAIN s = 1 .. Len(s) /\ DOMAIN Tail(s) = 1 .. Len(s) - 1
    BY <1>1
  <1>3. \A i \in 1 .. Len(s) : i = 1 \/ i - 1 \in 1 .. Len(s) - 1
    BY <1>1
  <1>4. \A i \in 1 .. Len(s) - 1 : i + 1 \in 1 .. Len(s)
    BY <1>1
  <1> DEFINE t == Tail(s)
  <1> HIDE DEF t
  <1>5. Range(s) = {s[1]} \cup Range(t)
    <2>1. \A i \in DOMAIN s : s[i] = s[1] \/ s[i] \in Range(t)
      <3> SUFFICES ASSUME NEW i \in 1 .. Len(s), i # 1 PROVE s[i] \in Range(t)
        BY <1>2
      <3>1. i - 1 \in DOMAIN t /\ t[i - 1] = s[i]
        BY <1>1, <1>2, <1>3 DEF t
      <3> QED
        BY <3>1 DEF Range
    <2>2. \A i \in DOMAIN t : t[i] \in Range(s)
      BY <1>1, <1>2, <1>4 DEF Range, t
    <2>3. 1 \in DOMAIN s
      BY <1>1, <1>2
    <2> QED
      BY <2>1, <2>2, <2>3 DEF Range
  <1>6. ASSUME RowsRising(s) PROVE RowsRising(t)
    <2> SUFFICES ASSUME NEW i \in 1 .. Len(s) - 1, NEW j \in 1 .. Len(s) - 1, i < j,
                        t[i] \in Rows, t[j] \in Rows
                 PROVE  t[i] < t[j]
      BY <1>2 DEF RowsRising, t
    <2>1. i + 1 \in DOMAIN s /\ j + 1 \in DOMAIN s /\ i + 1 < j + 1
      BY <1>1, <1>2
    <2> QED
      BY <1>1, <1>6, <2>1 DEF RowsRising, t
  <1>7. ASSUME RowsRising(s) PROVE Ahead({s[1]}, Range(t))
    <2> SUFFICES ASSUME NEW j \in 1 .. Len(s) - 1, s[1] \in Rows, t[j] \in Rows
                 PROVE  s[1] < t[j]
      BY <1>2 DEF Ahead, Range, t
    <2>1. 1 \in DOMAIN s /\ j + 1 \in DOMAIN s /\ 1 < j + 1
      BY <1>1, <1>2
    <2> QED
      BY <1>1, <1>7, <2>1 DEF RowsRising, t
  <1>8. Head(s) \in S
    BY <1>1, <1>2
  <1> QED
    BY <1>1, <1>5, <1>6, <1>7, <1>8 DEF t

(* Payloads the broker sends again are no rows.                                *)
LEMMA MetasAppended ==
    ASSUME NEW s \in Seq(Message), NEW t \in Seq(Message), Range(t) \cap Rows = {}
    PROVE  /\ s \o t \in Seq(Message)
           /\ Range(s \o t) \cap Rows = Range(s) \cap Rows
           /\ RowsRising(s) => RowsRising(s \o t)
  <1> DEFINE c == s \o t
  <1>1. /\ c \in Seq(Message) /\ Len(c) = Len(s) + Len(t)
        /\ \A i \in 1 .. Len(s) : c[i] = s[i]
        /\ \A i \in 1 .. Len(t) : c[Len(s) + i] = t[i]
        /\ Len(s) \in Nat /\ Len(t) \in Nat
    OBVIOUS
  <1>2. /\ DOMAIN s = 1 .. Len(s) /\ DOMAIN t = 1 .. Len(t)
        /\ DOMAIN c = 1 .. Len(s) + Len(t)
    BY <1>1
  <1> HIDE DEF c
  <1>3. \A i \in 1 .. Len(s) + Len(t) : c[i] \in Rows => i \in 1 .. Len(s) /\ c[i] = s[i]
    <2> SUFFICES ASSUME NEW i \in 1 .. Len(s) + Len(t), i > Len(s) PROVE c[i] \notin Rows
      BY <1>1
    <2>1. i - Len(s) \in 1 .. Len(t) /\ Len(s) + (i - Len(s)) = i
      BY <1>1
    <2>2. c[i] = t[i - Len(s)]
      BY <1>1, <2>1
    <2> QED
      BY <1>2, <2>1, <2>2 DEF Range
  <1>4. \A i \in 1 .. Len(s) : i \in 1 .. Len(s) + Len(t)
    BY <1>1
  <1>5. Range(c) \cap Rows = Range(s) \cap Rows
    BY <1>1, <1>2, <1>3, <1>4 DEF Range
  <1>6. RowsRising(s) => RowsRising(c)
    BY <1>2, <1>3 DEF RowsRising
  <1> QED
    BY <1>1, <1>5, <1>6 DEF c

LEMMA RetainedSent ==
    ASSUME Shape, NEW metas \in SetToSeqs({retained[d] : d \in Device} \ {0})
    PROVE  /\ metas \in Seq(Message) /\ Range(metas) \cap Rows = {}
           /\ Range(metas) \subseteq {retained[d] : d \in Device} \ {0}
  <1>1. PICK S : S = {retained[d] : d \in Device} \ {0}
    OBVIOUS
  <1>2. S \subseteq Metas
    BY <1>1 DEF Shape
  <1>3. IsFiniteSet(Message)
    BY IngestAssumption, FS_Interval DEF Message
  <1>4. Cardinality(S) \in Nat
    BY <1>2, <1>3, RowNumbers, FS_Subset, FS_CardinalityType
  <1>5. metas \in [1 .. Cardinality(S) -> S]
    BY <1>1 DEF SetToSeqs
  <1>6. metas \in Seq(S)
    BY <1>4, <1>5
  <1>7. metas \in Seq(Message)
    <2>1. S \subseteq Message
      BY <1>2, RowNumbers
    <2> QED
      BY <1>4, <1>5, <2>1
  <1>8. Range(metas) \subseteq S
    BY <1>6, StageType
  <1> QED
    BY <1>1, <1>2, <1>7, <1>8, RowNumbers

--------------------------------------------------------------------------------
(* The database.                                                               *)

(* A set of numbers that is not empty has a least one.                         *)
LEMMA Least ==
    ASSUME NEW T, T \subseteq Nat, T # {}
    PROVE  \E x \in T : \A y \in T : x <= y
  <1>1. PICK x \in T : \A y \in T : ~(<<y, x>> \in OpToRel(<, Nat))
    BY NatLessThanWellFounded, WFMin
  <1>2. ASSUME NEW y \in T PROVE x <= y
    <2>1. x \in Nat /\ y \in Nat
      OBVIOUS
    <2>2. ~(y < x)
      BY <1>1, <2>1 DEF OpToRel
    <2>3. x <= y \/ y < x
      BY <2>1
    <2> QED
      BY <2>2, <2>3
  <1> QED
    BY <1>2

(* ON CONFLICT DO NOTHING: a stored row stays, and of a batch's rows with a    *)
(* new key the first one is stored.                                            *)
FirstsStored(t, ms, u) ==
    /\ DOMAIN u = DOMAIN t \cup {Key[m] : m \in Range(ms)}
    /\ \A k \in DOMAIN t : u[k] = t[k]
    /\ \A k \in DOMAIN u \ DOMAIN t :
           /\ u[k] \in Range(ms) /\ Key[u[k]] = k
           /\ \A m \in Range(ms) : Key[m] = k => u[k] <= m

LEMMA InsertedRows ==
    ASSUME NEW t, NEW ms \in Seq(Rows), RowsRising(ms)
    PROVE  FirstsStored(t, ms, Inserted(t, ms))
  <1> DEFINE u == Inserted(t, ms)
  <1> DEFINE First(k, m) ==
        /\ Key[m] = k
        /\ \A i \in DOMAIN ms : Key[ms[i]] = k => \E j \in 1 .. i : ms[j] = m
  <1> HIDE DEF u
  <1>1. u = [k \in DOMAIN t \cup {Key[m] : m \in Range(ms)} |->
                IF k \in DOMAIN t THEN t[k] ELSE CHOOSE m \in Range(ms) : First(k, m)]
    BY DEF Inserted, u
  <1>2. DOMAIN ms = 1 .. Len(ms) /\ Len(ms) \in Nat /\ Range(ms) \subseteq Rows
    BY StageType
  <1>3. ASSUME NEW k \in DOMAIN u \ DOMAIN t
        PROVE  u[k] \in Range(ms) /\ First(k, u[k])
    <2> DEFINE At == {i \in DOMAIN ms : Key[ms[i]] = k}
    <2>1. At # {} /\ At \subseteq Nat
      BY <1>1, <1>2 DEF Range
    <2>2. PICK i \in At : \A j \in At : i <= j
      <3> HIDE DEF At
      <3> QED
        BY <2>1, Least
    <2>3. ms[i] \in Range(ms) /\ Key[ms[i]] = k
      BY DEF Range
    <2>4. ASSUME NEW j \in DOMAIN ms, Key[ms[j]] = k PROVE i \in 1 .. j
      <3>1. j \in At
        BY <2>4
      <3>2. i <= j /\ i \in 1 .. Len(ms) /\ j \in 1 .. Len(ms)
        BY <1>2, <2>2, <3>1
      <3> QED
        BY <1>2, <3>2
    <2>5. First(k, ms[i])
      BY <2>3, <2>4
    <2>6. u[k] = CHOOSE m \in Range(ms) : First(k, m)
      BY <1>1
    <2> HIDE DEF First
    <2> QED
      BY <2>3, <2>5, <2>6
  <1>4. ASSUME NEW k \in DOMAIN u \ DOMAIN t, NEW m \in Range(ms), Key[m] = k
        PROVE  u[k] <= m
    <2>1. PICK i \in DOMAIN ms : ms[i] = m
      BY DEF Range
    <2>2. First(k, u[k])
      BY <1>3
    <2>3. PICK j \in 1 .. i : ms[j] = u[k]
      BY <1>4, <2>1, <2>2
    <2>4. j \in DOMAIN ms /\ i \in Nat /\ j \in Nat /\ j <= i
      BY <1>2, <2>3
    <2>5. m \in Rows /\ u[k] \in Rows /\ m \in Nat /\ u[k] \in Nat
      BY <1>2, <1>3, RowNumbers
    <2>6. CASE j = i
      BY <2>1, <2>3, <2>5, <2>6
    <2>7. CASE j < i
      BY <2>1, <2>3, <2>4, <2>5, <2>7 DEF RowsRising
    <2> QED
      BY <2>4, <2>6, <2>7
  <1>5. DOMAIN u = DOMAIN t \cup {Key[m] : m \in Range(ms)} /\ \A k \in DOMAIN t : u[k] = t[k]
    BY <1>1
  <1> QED
    BY <1>3, <1>4, <1>5 DEF FirstsStored, u

--------------------------------------------------------------------------------
(* Where the rows are.                                                         *)

LEMMA LoseCounts ==
    ASSUME Shape, NEW cause \in Causes, NEW ms \in SUBSET Message, Lose(cause, ms)
    PROVE  lost' \in [Causes -> SUBSET Message] /\ Lost' = Lost \cup ms
  <1>1. lost' = [lost EXCEPT ![cause] = lost[cause] \cup ms]
    BY DEF Lose
  <1>2. lost' \in [Causes -> SUBSET Message]
    BY <1>1 DEF Shape
  <1>3. \A c \in Causes : lost'[c] = IF c = cause THEN lost[c] \cup ms ELSE lost[c]
    BY <1>1 DEF Shape
  <1>4. Lost' = Lost \cup ms
    BY <1>3 DEF Lost
  <1> QED
    BY <1>2, <1>4

(* Rows move between stages or are lost, and the table is left alone.          *)
LEMMA PlacedKept ==
    ASSUME Placed, Waiting' \subseteq Waiting, Waiting \subseteq Waiting' \cup Lost',
           Lost \subseteq Lost', devices \subseteq devices', UNCHANGED <<table, forwarded>>
    PROVE  Placed'
  BY DEF Placed, Stored, StoredRowsAreSound

(* A stage is flushed: its rows are older than what keeps waiting.             *)
LEMMA FlushPlaced ==
    ASSUME Shape, Placed, NEW ms \in Seq(Rows), RowsRising(ms), Range(ms) \subseteq Waiting,
           Flush(ms), forwarded' = forwarded,
           Waiting' \subseteq Waiting, Waiting \ Range(ms) \subseteq Waiting' \cup Lost',
           Lost \subseteq Lost', \A m \in Range(ms), n \in Waiting' : m < n
    PROVE  Placed'
  <1>1. PICK t, u : t = table /\ u = table'
    OBVIOUS
  <1>2. FirstsStored(t, ms, u)
    BY <1>1, InsertedRows DEF Flush
  <1>3. /\ DOMAIN u = DOMAIN t \cup {Key[m] : m \in Range(ms)}
        /\ \A k \in DOMAIN t : u[k] = t[k]
        /\ \A k \in DOMAIN u \ DOMAIN t :
               /\ u[k] \in Range(ms) /\ Key[u[k]] = k
               /\ \A m \in Range(ms) : Key[m] = k => u[k] <= m
    BY <1>2 DEF FirstsStored
  <1>4. Waiting \subseteq Rows /\ Waiting' \subseteq Rows /\ Rows \subseteq Nat
    BY RowNumbers DEF Waiting
  <1>5. /\ devices \subseteq devices'
        /\ \A m \in Range(ms) : DeviceOf[m] \in devices'
    BY DEF Flush
  <1>6. \A m \in Rows : m <= forwarded' => Stored(m)' \/ m \in Waiting' \/ m \in Lost'
    BY <1>1, <1>3 DEF Placed, Stored
  <1>7. \A m \in Waiting' : m <= forwarded'
    BY DEF Placed
  <1>8. \A k \in DOMAIN table' : table'[k] \in Rows /\ table'[k] <= forwarded'
    BY <1>1, <1>3, <1>4 DEF Placed
  <1>9. \A k \in DOMAIN table' : \A m \in Waiting' : table'[k] < m
    BY <1>1, <1>3 DEF Placed
  <1>10. ASSUME NEW k \in DOMAIN u
         PROVE  /\ Key[u[k]] = k /\ DeviceOf[u[k]] \in devices'
                /\ \A m \in Rows : Key[m] = k /\ m < u[k] => m \in Lost'
    <2>1. CASE k \in DOMAIN t
      BY <1>1, <1>3, <1>5, <2>1 DEF Placed, StoredRowsAreSound
    <2>2. CASE k \notin DOMAIN t
      <3>1. u[k] \in Range(ms) /\ Key[u[k]] = k /\ u[k] \in Nat
        BY <1>3, <1>4, <2>2
      <3>2. ASSUME NEW m \in Rows, Key[m] = k, m < u[k] PROVE m \in Lost'
        <4>1. u[k] <= forwarded /\ m \in Nat /\ forwarded \in Nat
          BY <1>4, <3>1 DEF Placed, Shape
        <4>2. m <= forwarded
          BY <3>1, <3>2, <4>1
        <4>3. ~Stored(m)
          BY <1>1, <2>2, <3>2 DEF Stored
        <4>4. m \in Waiting \/ m \in Lost
          BY <4>2, <4>3 DEF Placed
        <4>5. m \notin Range(ms)
          <5>1. m \in Range(ms) => u[k] <= m
            BY <1>3, <2>2, <3>2
          <5> QED
            BY <3>1, <3>2, <4>1, <5>1
        <4>6. m \notin Waiting'
          <5>1. m \in Waiting' => u[k] < m
            BY <3>1
          <5> QED
            BY <3>1, <3>2, <4>1, <5>1
        <4> QED
          BY <4>4, <4>5, <4>6
      <3> QED
        BY <1>5, <3>1, <3>2
    <2> QED
      BY <2>1, <2>2
  <1>11. StoredRowsAreSound'
    BY <1>1, <1>10 DEF StoredRowsAreSound
  <1> QED
    BY <1>6, <1>7, <1>8, <1>9, <1>11 DEF Placed

--------------------------------------------------------------------------------
(* The steps.                                                                  *)

Unmoved == UNCHANGED <<handoff, queue, batch, remaining>>

(* A step that moves no row.                                                   *)
LEMMA QuietKeeps ==
    ASSUME IInv, Unmoved, Shape', Locals', UNCHANGED <<table, forwarded, lost>>,
           devices \subseteq devices'
    PROVE  IInv'
  <1>1. StagesInOrder'
    BY DEF IInv, Unmoved, StagesInOrder
  <1>2. Waiting' = Waiting /\ Lost' = Lost
    BY DEF Unmoved, Waiting, Lost
  <1>3. Placed'
    BY <1>2, PlacedKept DEF IInv
  <1> QED
    BY <1>1, <1>3 DEF IInv

LEMMA LoseConnectionKeeps == ASSUME IInv, LoseConnection PROVE IInv'
  <1>1. Shape' /\ Locals' /\ Unmoved
    BY DEF IInv, LoseConnection, Shape, Locals, Unmoved, server
  <1> QED
    BY <1>1, QuietKeeps DEF LoseConnection, database

LEMMA GetTimesOutKeeps == ASSUME IInv, GetTimesOut PROVE IInv'
  <1>1. Shape' /\ Locals' /\ Unmoved
    BY DEF IInv, GetTimesOut, Shape, Locals, Unmoved
  <1> QED
    BY <1>1, QuietKeeps DEF GetTimesOut, database

LEMMA MetaCommitsKeeps == ASSUME IInv, MetaCommits PROVE IInv'
  <1>1. task' # "dead"
    BY DEF MetaCommits, AfterItem
  <1>2. Shape' /\ Locals' /\ Unmoved
    BY <1>1 DEF IInv, MetaCommits, Shape, Locals, Unmoved
  <1> QED
    BY <1>2, QuietKeeps DEF MetaCommits, UpsertMeta

LEMMA StopWorkerKeeps == ASSUME IInv, StopWorker PROVE IInv'
  <1>1. Shape' /\ Locals' /\ Unmoved
    BY DEF IInv, StopWorker, Shape, Locals, Unmoved, server
  <1> QED
    BY <1>1, QuietKeeps DEF StopWorker, database

LEMMA RestartKeeps == ASSUME IInv, Restart PROVE IInv'
  <1>1. Shape' /\ Locals' /\ Unmoved
    BY DEF IInv, Restart, Shape, Locals, Unmoved
  <1> QED
    BY <1>1, QuietKeeps DEF Restart, database

(* The next message is newer than every row on its way.                        *)
LEMMA NextIsNewest ==
    ASSUME IInv, forwarded + 1 \in Message
    PROVE  /\ Ahead(Waiting, {forwarded + 1})
           /\ \A k \in DOMAIN table : table[k] < forwarded + 1
           /\ \A m \in Rows : m <= forwarded + 1 => m <= forwarded \/ m = forwarded + 1
  <1>1. forwarded \in Nat /\ Rows \subseteq Nat
    BY RowNumbers DEF IInv, Shape
  <1>2. \A m \in Waiting : m \in Nat /\ m <= forwarded
    BY <1>1 DEF IInv, Placed, Waiting
  <1>3. \A k \in DOMAIN table : table[k] \in Nat /\ table[k] <= forwarded
    BY <1>1 DEF IInv, Placed
  <1>4. Ahead(Waiting, {forwarded + 1})
    BY <1>1, <1>2 DEF Ahead
  <1>5. \A k \in DOMAIN table : table[k] < forwarded + 1
    BY <1>1, <1>3
  <1>6. \A m \in Rows : m <= forwarded + 1 => m <= forwarded \/ m = forwarded + 1
    BY <1>1
  <1> QED
    BY <1>4, <1>5, <1>6

LEMMA OnMessageKeeps == ASSUME IInv, OnMessage PROVE IInv'
  <1>1. PICK m : m = forwarded + 1
    OBVIOUS
  <1>2. /\ m \in Message /\ forwarded' = m /\ handoff' = Append(handoff, m)
        /\ UNCHANGED <<phase, queue, task, batch, inHand, remaining, table, devices, lost>>
        /\ retained' \in [Device -> {0} \cup Metas]
    BY <1>1 DEF OnMessage, Forward, database, IInv, Shape
  <1>3. /\ Ahead(Waiting, {m})
        /\ \A k \in DOMAIN table : table[k] < m
        /\ \A n \in Rows : n <= m => n <= forwarded \/ n = m
    BY <1>1, <1>2, NextIsNewest
  <1>4. Ahead(Range(handoff), {m})
    BY <1>3 DEF Ahead, Waiting
  <1>5. /\ handoff' \in Seq(Message) /\ Range(handoff') = Range(handoff) \cup {m}
        /\ RowsRising(handoff')
    <2>1. handoff \in Seq(Message) /\ RowsRising(handoff)
      BY DEF IInv, Shape, StagesInOrder
    <2> QED
      BY <1>2, <1>4, <2>1, Appended
  <1>6. m \in Nat /\ forwarded \in Nat /\ Rows \subseteq Nat
    BY <1>2, RowNumbers DEF IInv, Shape
  <1>7. Shape'
    BY <1>2, <1>5, <1>6 DEF IInv, Shape
  <1>8. Locals'
    BY <1>2 DEF IInv, Locals, OnMessage
  <1>9. StagesInOrder'
    BY <1>2, <1>3, <1>5 DEF IInv, StagesInOrder, Ahead, Waiting
  <1>10. Waiting' = Waiting \cup ({m} \cap Rows) /\ Lost' = Lost
    BY <1>2, <1>5 DEF Waiting, Lost
  <1>11. Placed'
    <2>1. \A n \in Rows : n <= forwarded' => Stored(n)' \/ n \in Waiting' \/ n \in Lost'
      BY <1>2, <1>3, <1>10 DEF IInv, Placed, Stored
    <2>2. \A n \in Waiting' : n <= forwarded'
      <3>1. \A n \in Waiting : n \in Nat /\ n <= forwarded
        BY <1>6 DEF IInv, Placed, Waiting
      <3>2. \A n \in Waiting : n <= m
        BY <1>1, <1>6, <3>1
      <3> QED
        BY <1>2, <1>6, <1>10, <3>2
    <2>3. \A k \in DOMAIN table' : table'[k] \in Rows /\ table'[k] <= forwarded'
      <3>1. \A k \in DOMAIN table : table[k] \in Nat /\ table[k] \in Rows /\ table[k] < m
        BY <1>3, <1>6 DEF IInv, Placed
      <3>2. \A k \in DOMAIN table : table[k] <= m
        BY <1>6, <3>1
      <3> QED
        BY <1>2, <3>1, <3>2
    <2>4. \A k \in DOMAIN table' : \A n \in Waiting' : table'[k] < n
      BY <1>2, <1>3, <1>10 DEF IInv, Placed
    <2>5. StoredRowsAreSound'
      BY <1>2, <1>10 DEF IInv, Placed, StoredRowsAreSound
    <2> QED
      BY <2>1, <2>2, <2>3, <2>4, <2>5 DEF Placed
  <1> QED
    BY <1>7, <1>8, <1>9, <1>11 DEF IInv

LEMMA MissMessageKeeps == ASSUME IInv, MissMessage PROVE IInv'
  <1>1. PICK m : m = forwarded + 1
    OBVIOUS
  <1>2. /\ m \in Message /\ forwarded' = m /\ Lose("missed", {m})
        /\ UNCHANGED <<phase, handoff, queue, task, batch, inHand, remaining, table, devices>>
        /\ retained' \in [Device -> {0} \cup Metas]
    BY <1>1 DEF MissMessage, Forward, server, database, IInv, Shape
  <1>3. /\ \A k \in DOMAIN table : table[k] < m
        /\ \A n \in Rows : n <= m => n <= forwarded \/ n = m
    BY <1>1, <1>2, NextIsNewest
  <1>4. lost' \in [Causes -> SUBSET Message] /\ Lost' = Lost \cup {m}
    <2>1. "missed" \in Causes /\ {m} \in SUBSET Message /\ Shape
      BY <1>2 DEF Causes, IInv
    <2> QED
      BY <1>2, <2>1, LoseCounts
  <1>5. m \in Nat /\ forwarded \in Nat /\ Rows \subseteq Nat
    BY <1>2, RowNumbers DEF IInv, Shape
  <1>6. Shape'
    BY <1>2, <1>4, <1>5 DEF IInv, Shape
  <1>7. Locals' /\ StagesInOrder'
    BY <1>2 DEF IInv, Locals, StagesInOrder
  <1>8. Waiting' = Waiting
    BY <1>2 DEF Waiting
  <1>9. Placed'
    <2>1. \A n \in Rows : n <= forwarded' => Stored(n)' \/ n \in Waiting' \/ n \in Lost'
      BY <1>2, <1>3, <1>4, <1>8 DEF IInv, Placed, Stored
    <2>2. \A n \in Waiting' : n <= forwarded'
      <3>1. \A n \in Waiting : n \in Nat /\ n <= forwarded
        BY <1>5 DEF IInv, Placed, Waiting
      <3>2. \A n \in Waiting : n <= m
        BY <1>1, <1>5, <3>1
      <3> QED
        BY <1>2, <1>8, <3>2
    <2>3. \A k \in DOMAIN table' : table'[k] \in Rows /\ table'[k] <= forwarded'
      <3>1. \A k \in DOMAIN table : table[k] \in Nat /\ table[k] \in Rows /\ table[k] < m
        BY <1>3, <1>5 DEF IInv, Placed
      <3>2. \A k \in DOMAIN table : table[k] <= m
        BY <1>5, <3>1
      <3> QED
        BY <1>2, <3>1, <3>2
    <2>4. \A k \in DOMAIN table' : \A n \in Waiting' : table'[k] < n
      BY <1>2, <1>8 DEF IInv, Placed
    <2>5. StoredRowsAreSound'
      BY <1>2, <1>4 DEF IInv, Placed, StoredRowsAreSound
    <2> QED
      BY <2>1, <2>2, <2>3, <2>4, <2>5 DEF Placed
  <1> QED
    BY <1>6, <1>7, <1>9 DEF IInv

LEMMA OnConnectKeeps == ASSUME IInv, OnConnect PROVE IInv'
  <1>1. PICK metas \in SetToSeqs({retained[d] : d \in Device} \ {0}) :
            handoff' = handoff \o metas
    BY DEF OnConnect
  <1>2. metas \in Seq(Message) /\ Range(metas) \cap Rows = {}
    BY <1>1, RetainedSent DEF IInv
  <1>3. handoff \in Seq(Message) /\ RowsRising(handoff)
    BY DEF IInv, Shape, StagesInOrder
  <1>4. /\ handoff' \in Seq(Message) /\ Range(handoff') \cap Rows = Range(handoff) \cap Rows
        /\ RowsRising(handoff')
    BY <1>1, <1>2, <1>3, MetasAppended
  <1>5. /\ UNCHANGED <<phase, queue, task, batch, inHand, remaining, table, devices, lost>>
        /\ UNCHANGED <<forwarded, retained>> /\ phase = "up"
    BY DEF OnConnect, database
  <1>6. Shape' /\ Locals'
    BY <1>4, <1>5 DEF IInv, Shape, Locals
  <1>7. StagesInOrder'
    BY <1>4, <1>5 DEF IInv, StagesInOrder, Ahead
  <1>8. Waiting' = Waiting /\ Lost' = Lost
    BY <1>4, <1>5 DEF Waiting, Lost
  <1>9. Placed'
    BY <1>5, <1>8, PlacedKept DEF IInv
  <1> QED
    BY <1>6, <1>7, <1>9 DEF IInv

LEMMA PutNowaitKeeps == ASSUME IInv, PutNowait PROVE IInv'
  <1>1. PICK e, r : e = Head(handoff) /\ r = Tail(handoff)
    OBVIOUS
  <1>2. handoff \in Seq(Message) /\ handoff # << >> /\ RowsRising(handoff)
    BY DEF PutNowait, IInv, Shape, StagesInOrder
  <1>3. /\ e \in Message /\ r \in Seq(Message) /\ Range(handoff) = {e} \cup Range(r)
        /\ RowsRising(r) /\ Ahead({e}, Range(r))
    BY <1>1, <1>2, Split
  <1>4. /\ handoff' = r /\ phase # "down"
        /\ UNCHANGED <<phase, task, batch, inHand, remaining, table, devices>>
        /\ UNCHANGED <<forwarded, retained>>
    BY <1>1 DEF PutNowait, database
  <1>5. CASE queue' = Append(queue, e) /\ lost' = lost
    <2>1. queue \in Seq(Message) /\ RowsRising(queue) /\ Ahead(Range(queue), {e})
      BY <1>3 DEF IInv, Shape, StagesInOrder, Ahead
    <2>2. /\ queue' \in Seq(Message) /\ Range(queue') = Range(queue) \cup {e}
          /\ RowsRising(queue')
      BY <1>3, <1>5, <2>1, Appended
    <2>3. Shape' /\ Locals'
      BY <1>3, <1>4, <1>5, <2>2 DEF IInv, Shape, Locals
    <2>4. StagesInOrder'
      BY <1>3, <1>4, <2>2 DEF IInv, StagesInOrder, Ahead
    <2>5. Waiting' = Waiting /\ Lost' = Lost
      BY <1>3, <1>4, <1>5, <2>2 DEF Waiting, Lost
    <2>6. Placed'
      BY <1>4, <2>5, PlacedKept DEF IInv
    <2> QED
      BY <2>3, <2>4, <2>6 DEF IInv
  <1>6. CASE queue' = queue /\ Lose("overflow", {e})
    <2>1. lost' \in [Causes -> SUBSET Message] /\ Lost' = Lost \cup {e}
      <3>1. "overflow" \in Causes /\ {e} \in SUBSET Message /\ Shape
        BY <1>3 DEF Causes, IInv
      <3> QED
        BY <1>6, <3>1, LoseCounts
    <2>2. Shape' /\ Locals'
      BY <1>3, <1>4, <1>6, <2>1 DEF IInv, Shape, Locals
    <2>3. StagesInOrder'
      BY <1>3, <1>4, <1>6 DEF IInv, StagesInOrder, Ahead
    <2>4. Waiting' \subseteq Waiting /\ Waiting \subseteq Waiting' \cup Lost' /\ Lost \subseteq Lost'
      BY <1>3, <1>4, <1>6, <2>1 DEF Waiting
    <2>5. Placed'
      BY <1>4, <2>4, PlacedKept DEF IInv
    <2> QED
      BY <2>2, <2>3, <2>5 DEF IInv
  <1> QED
    BY <1>1, <1>5, <1>6 DEF PutNowait

LEMMA GetItemKeeps == ASSUME IInv, GetItem PROVE IInv'
  <1>1. PICK e, r : e = Head(queue) /\ r = Tail(queue)
    OBVIOUS
  <1>2. queue \in Seq(Message) /\ queue # << >> /\ RowsRising(queue)
    BY DEF GetItem, IInv, Shape, StagesInOrder
  <1>3. /\ e \in Message /\ r \in Seq(Message) /\ Range(queue) = {e} \cup Range(r)
        /\ RowsRising(r) /\ Ahead({e}, Range(r))
    BY <1>1, <1>2, Split
  <1>4. /\ queue' = r /\ phase = "up" /\ task' # "dead"
        /\ UNCHANGED <<phase, handoff, remaining, table, devices, lost>>
        /\ UNCHANGED <<forwarded, retained>>
    BY <1>1 DEF GetItem, AfterItem, database
  <1>5. /\ batch' \in Seq(Rows) /\ RowsRising(batch')
        /\ Range(batch') = Range(batch) \cup ({e} \cap Rows)
    <2>1. batch \in Seq(Rows) /\ RowsRising(batch) /\ Ahead(Range(batch), {e})
      BY <1>3 DEF IInv, Shape, StagesInOrder, Ahead
    <2>2. CASE e \in Rows
      <3>1. batch' = Append(batch, e)
        BY <1>1, <2>2, RowNumbers DEF GetItem
      <3> QED
        BY <2>1, <2>2, <3>1, Appended
    <2>3. CASE e \notin Rows
      <3>1. batch' = batch
        BY <1>1, <2>3 DEF GetItem
      <3> QED
        BY <2>1, <2>3, <3>1
    <2> QED
      BY <2>2, <2>3
  <1>6. inHand' \in {0} \cup Metas
    BY <1>1 DEF GetItem, IInv, Shape
  <1>7. Shape' /\ Locals'
    BY <1>3, <1>4, <1>5, <1>6 DEF IInv, Shape, Locals
  <1>8. StagesInOrder'
    <2>1. remaining = << >>
      BY <1>4 DEF IInv, Locals
    <2>2. Range(remaining) = {}
      BY <2>1, EmptyStage
    <2> QED
      BY <1>3, <1>4, <1>5, <2>2 DEF IInv, StagesInOrder, Ahead
  <1>9. Waiting' = Waiting /\ Lost' = Lost
    BY <1>3, <1>4, <1>5 DEF Waiting, Lost
  <1>10. Placed'
    BY <1>4, <1>9, PlacedKept DEF IInv
  <1> QED
    BY <1>7, <1>8, <1>10 DEF IInv

LEMMA FlushCommitsKeeps == ASSUME IInv, FlushCommits PROVE IInv'
  <1>1. PICK b : b = batch
    OBVIOUS
  <1>2. /\ Flush(b) /\ batch' = << >> /\ task' # "dead" /\ phase = "up"
        /\ UNCHANGED <<phase, handoff, queue, inHand, remaining, lost, forwarded, retained>>
    BY <1>1 DEF FlushCommits
  <1>3. /\ b \in Seq(Rows) /\ RowsRising(b)
        /\ Ahead(Range(b), Range(queue)) /\ Ahead(Range(b), Range(handoff))
    BY <1>1 DEF IInv, Shape, StagesInOrder
  <1>4. Shape' /\ Locals'
    BY <1>2 DEF IInv, Shape, Locals
  <1>5. Range(batch') = {} /\ RowsRising(batch')
    BY <1>2, EmptyStage
  <1>6. StagesInOrder'
    BY <1>2, <1>5 DEF IInv, StagesInOrder, Ahead
  <1>7. /\ Range(b) \subseteq Waiting /\ Waiting' \subseteq Waiting
        /\ Waiting \ Range(b) \subseteq Waiting' \cup Lost' /\ Lost \subseteq Lost'
    <2>1. Range(b) \subseteq Rows
      BY <1>3, StageType
    <2> QED
      BY <1>1, <1>2, <1>5, <2>1 DEF Waiting, Lost
  <1>8. \A m \in Range(b), n \in Waiting' : m < n
    <2>1. Range(b) \subseteq Rows
      BY <1>3, StageType
    <2>2. Range(remaining) = {}
      <3>1. remaining = << >>
        BY <1>2 DEF IInv, Locals
      <3> QED
        BY <3>1, EmptyStage
    <2> QED
      BY <1>2, <1>3, <1>5, <2>1, <2>2 DEF Waiting, Ahead
  <1>9. Placed'
    <2>1. Shape /\ Placed /\ forwarded' = forwarded
      BY <1>2 DEF IInv
    <2> QED
      BY <1>2, <1>3, <1>7, <1>8, <2>1, FlushPlaced
  <1> QED
    BY <1>4, <1>6, <1>9 DEF IInv

(* The loss of a stage's rows, under any cause.                                *)
LEMMA LostStages ==
    ASSUME Shape, NEW cause \in Causes, NEW A,
           A \subseteq Gone, Lose(cause, A)
    PROVE  lost' \in [Causes -> SUBSET Message] /\ Lost' = Lost \cup A
  <1>1. Gone \subseteq Message
    <2>1. /\ Range(handoff) \subseteq Message /\ Range(queue) \subseteq Message
          /\ Range(batch) \subseteq Rows /\ Range(remaining) \subseteq Rows
      BY StageType DEF Shape
    <2> QED
      BY <2>1, RowNumbers DEF Gone, Shape
  <1>2. A \in SUBSET Message
    BY <1>1
  <1> QED
    BY <1>2, LoseCounts

LEMMA TaskDiesKeeps == ASSUME IInv, TaskDies PROVE IInv'
  <1>1. /\ phase = "up" /\ task' = "dead" /\ batch' = << >> /\ inHand' = 0
        /\ UNCHANGED <<forwarded, retained, phase, handoff, remaining, table, devices>>
    BY DEF TaskDies, DatabaseFails, database
  <1>2. Range(batch') = {} /\ RowsRising(batch')
    BY <1>1, EmptyStage
  <1>3. CASE queue' = queue /\ Lose("failed", Range(batch) \cup ({inHand} \ {0}))
    <2>1. PICK A : A = Range(batch) \cup ({inHand} \ {0})
      OBVIOUS
    <2>2. lost' \in [Causes -> SUBSET Message] /\ Lost' = Lost \cup A
      <3>1. "failed" \in Causes /\ A \subseteq Gone /\ Shape /\ Lose("failed", A)
        BY <1>3, <2>1 DEF Causes, Gone, IInv
      <3> QED
        BY <3>1, LostStages
    <2>3. Shape' /\ Locals'
      BY <1>1, <1>3, <2>2 DEF IInv, Shape, Locals
    <2>4. StagesInOrder'
      BY <1>1, <1>2, <1>3 DEF IInv, StagesInOrder, Ahead
    <2>5. Waiting' \subseteq Waiting /\ Waiting \subseteq Waiting' \cup Lost' /\ Lost \subseteq Lost'
      BY <1>1, <1>2, <1>3, <2>1, <2>2 DEF Waiting
    <2>6. Placed'
      BY <1>1, <2>5, PlacedKept DEF IInv
    <2> QED
      BY <2>3, <2>4, <2>6 DEF IInv
  <1>4. CASE /\ queue # << >> /\ queue' = Tail(queue)
             /\ Lose("broken", Range(batch) \cup {Head(queue)})
    <2>1. PICK e, r, A : e = Head(queue) /\ r = Tail(queue) /\ A = Range(batch) \cup {e}
      OBVIOUS
    <2>2. /\ e \in Message /\ r \in Seq(Message) /\ Range(queue) = {e} \cup Range(r)
          /\ RowsRising(r)
      <3>1. queue \in Seq(Message) /\ RowsRising(queue)
        BY DEF IInv, Shape, StagesInOrder
      <3> QED
        BY <1>4, <2>1, <3>1, Split
    <2>3. lost' \in [Causes -> SUBSET Message] /\ Lost' = Lost \cup A
      <3>1. "broken" \in Causes /\ A \subseteq Gone /\ Shape /\ Lose("broken", A)
        BY <1>4, <2>1, <2>2 DEF Causes, Gone, IInv
      <3> QED
        BY <3>1, LostStages
    <2>4. Shape' /\ Locals'
      BY <1>1, <1>4, <2>1, <2>2, <2>3 DEF IInv, Shape, Locals
    <2>5. StagesInOrder'
      BY <1>1, <1>2, <1>4, <2>1, <2>2 DEF IInv, StagesInOrder, Ahead
    <2>6. Waiting' \subseteq Waiting /\ Waiting \subseteq Waiting' \cup Lost' /\ Lost \subseteq Lost'
      BY <1>1, <1>2, <1>4, <2>1, <2>2, <2>3 DEF Waiting
    <2>7. Placed'
      BY <1>1, <2>6, PlacedKept DEF IInv
    <2> QED
      BY <2>4, <2>5, <2>7 DEF IInv
  <1> QED
    BY <1>3, <1>4 DEF TaskDies

LEMMA CancelTaskKeeps == ASSUME IInv, CancelTask PROVE IInv'
  <1>1. /\ phase = "cancelling"
        /\ UNCHANGED <<forwarded, retained, task, remaining, table, devices>>
    BY DEF CancelTask, database
  <1>2. remaining = << >>
    BY <1>1 DEF IInv, Locals
  <1>3. CASE task = "dead"
    <2>1. PICK A : A = Range(handoff) \cup Range(queue)
      OBVIOUS
    <2>2. /\ phase' = "down" /\ Lose("undrained", A) /\ handoff' = << >> /\ queue' = << >>
          /\ UNCHANGED <<batch, inHand>>
      BY <1>3, <2>1 DEF CancelTask
    <2>3. lost' \in [Causes -> SUBSET Message] /\ Lost' = Lost \cup A
      <3>1. "undrained" \in Causes /\ A \subseteq Gone /\ Shape
        BY <2>1 DEF Causes, Gone, IInv
      <3> QED
        BY <2>2, <3>1, LostStages
    <2>4. Range(<< >>) = {} /\ RowsRising(<< >>)
      BY EmptyStage
    <2>5. Shape' /\ Locals'
      BY <1>1, <1>2, <1>3, <2>2, <2>3 DEF IInv, Shape, Locals
    <2>6. StagesInOrder'
      BY <1>1, <2>2, <2>4 DEF IInv, StagesInOrder, Ahead
    <2>7. Waiting' \subseteq Waiting /\ Waiting \subseteq Waiting' \cup Lost' /\ Lost \subseteq Lost'
      BY <1>1, <2>1, <2>2, <2>3, <2>4 DEF Waiting
    <2>8. Placed'
      BY <1>1, <2>7, PlacedKept DEF IInv
    <2> QED
      BY <2>5, <2>6, <2>8 DEF IInv
  <1>4. CASE task # "dead"
    <2>1. PICK A : A = Range(batch) \cup ({inHand} \ {0})
      OBVIOUS
    <2>2. /\ phase' = "draining" /\ Lose("cancelled", A) /\ batch' = << >> /\ inHand' = 0
          /\ UNCHANGED <<handoff, queue>>
      BY <1>4, <2>1 DEF CancelTask
    <2>3. lost' \in [Causes -> SUBSET Message] /\ Lost' = Lost \cup A
      <3>1. "cancelled" \in Causes /\ A \subseteq Gone /\ Shape
        BY <2>1 DEF Causes, Gone, IInv
      <3> QED
        BY <2>2, <3>1, LostStages
    <2>4. Range(<< >>) = {} /\ RowsRising(<< >>)
      BY EmptyStage
    <2>5. Shape' /\ Locals'
      BY <1>1, <1>2, <2>2, <2>3 DEF IInv, Shape, Locals
    <2>6. StagesInOrder'
      BY <1>1, <2>2, <2>4 DEF IInv, StagesInOrder, Ahead
    <2>7. Waiting' \subseteq Waiting /\ Waiting \subseteq Waiting' \cup Lost' /\ Lost \subseteq Lost'
      BY <1>1, <2>1, <2>2, <2>3, <2>4 DEF Waiting
    <2>8. Placed'
      BY <1>1, <2>7, PlacedKept DEF IInv
    <2> QED
      BY <2>5, <2>6, <2>8 DEF IInv
  <1> QED
    BY <1>3, <1>4

(* One turn of the drain takes the queue's head; a row joins the rest.         *)
LEMMA DrainTurns ==
    ASSUME IInv, phase = "draining", queue # << >>, queue' = Tail(queue),
           remaining' = IF Head(queue) \in Rows THEN Append(remaining, Head(queue))
                                                ELSE remaining,
           UNCHANGED <<forwarded, retained, phase, handoff, task, batch, inHand, table, lost>>,
           devices \subseteq devices'
    PROVE  IInv'
  <1>1. PICK e, r : e = Head(queue) /\ r = Tail(queue)
    OBVIOUS
  <1>2. /\ e \in Message /\ r \in Seq(Message) /\ Range(queue) = {e} \cup Range(r)
        /\ RowsRising(r) /\ Ahead({e}, Range(r))
    <2>1. queue \in Seq(Message) /\ RowsRising(queue)
      BY DEF IInv, Shape, StagesInOrder
    <2> QED
      BY <1>1, <2>1, Split
  <1>3. /\ remaining' \in Seq(Rows) /\ RowsRising(remaining')
        /\ Range(remaining') = Range(remaining) \cup ({e} \cap Rows)
    <2>1. remaining \in Seq(Rows) /\ RowsRising(remaining) /\ Ahead(Range(remaining), {e})
      BY <1>2 DEF IInv, Shape, StagesInOrder, Ahead
    <2>2. CASE e \in Rows
      <3>1. remaining' = Append(remaining, e)
        BY <1>1, <2>2
      <3> QED
        BY <2>1, <2>2, <3>1, Appended
    <2>3. CASE e \notin Rows
      <3>1. remaining' = remaining
        BY <1>1, <2>3
      <3> QED
        BY <2>1, <2>3, <3>1
    <2> QED
      BY <2>2, <2>3
  <1>4. Shape' /\ Locals'
    BY <1>1, <1>2, <1>3 DEF IInv, Shape, Locals
  <1>5. StagesInOrder'
    <2>1. batch = << >>
      BY DEF IInv, Locals
    <2>2. Range(batch) = {}
      BY <2>1, EmptyStage
    <2> QED
      BY <1>1, <1>2, <1>3, <2>2 DEF IInv, StagesInOrder, Ahead
  <1>6. Waiting' = Waiting /\ Lost' = Lost
    BY <1>1, <1>2, <1>3 DEF Waiting, Lost
  <1>7. Placed'
    BY <1>6, PlacedKept DEF IInv
  <1> QED
    BY <1>4, <1>5, <1>7 DEF IInv

LEMMA DrainItemKeeps == ASSUME IInv, DrainItem PROVE IInv'
  BY DrainTurns DEF DrainItem, database

LEMMA DrainMetaKeeps == ASSUME IInv, DrainMeta PROVE IInv'
  <1>1. Head(queue) \notin Rows
    BY RowNumbers DEF DrainMeta
  <1> QED
    BY <1>1, DrainTurns DEF DrainMeta, UpsertMeta

(* The process ends: every stage is gone with it.                              *)
LEMMA StagesGone ==
    ASSUME IInv, ProcessEnds
    PROVE  /\ UNCHANGED <<forwarded, retained, task>> /\ inHand' = 0 /\ phase' = "down"
           /\ handoff' = << >> /\ queue' = << >> /\ batch' = << >> /\ remaining' = << >>
           /\ Locals' /\ StagesInOrder' /\ Waiting' = {}
  <1>1. /\ handoff' = << >> /\ queue' = << >> /\ batch' = << >> /\ remaining' = << >>
        /\ phase' = "down"
    BY DEF ProcessEnds
  <1>2. Range(<< >>) = {} /\ RowsRising(<< >>)
    BY EmptyStage
  <1>3. Locals' /\ StagesInOrder' /\ Waiting' = {}
    BY <1>1, <1>2 DEF Locals, StagesInOrder, Ahead, Waiting
  <1> QED
    BY <1>1, <1>3 DEF ProcessEnds

LEMMA EndKeeps ==
    ASSUME IInv, ProcessEnds, NEW cause \in Causes, Lose(cause, Gone), UNCHANGED database
    PROVE  IInv'
  <1>1. /\ UNCHANGED <<forwarded, retained, task>> /\ inHand' = 0 /\ phase' = "down"
        /\ handoff' = << >> /\ queue' = << >> /\ batch' = << >> /\ remaining' = << >>
        /\ Locals' /\ StagesInOrder' /\ Waiting' = {}
    BY StagesGone
  <1>2. PICK A : A = Gone
    OBVIOUS
  <1>3. lost' \in [Causes -> SUBSET Message] /\ Lost' = Lost \cup A
    <2>1. Shape /\ A \subseteq Gone /\ Lose(cause, A)
      BY <1>2 DEF IInv
    <2> QED
      BY <2>1, LostStages
  <1>4. Shape'
    BY <1>1, <1>3 DEF IInv, Shape
  <1>5. Waiting \subseteq Gone
    BY DEF Waiting, Gone
  <1>6. Placed'
    BY <1>1, <1>2, <1>3, <1>5, PlacedKept DEF IInv, database
  <1> QED
    BY <1>1, <1>4, <1>6 DEF IInv

LEMMA DrainFailsKeeps == ASSUME IInv, DrainFails PROVE IInv'
  <1>1. ProcessEnds /\ UNCHANGED database
    BY DEF DrainFails, DatabaseFails
  <1>2. "failed" \in Causes /\ "broken" \in Causes
    BY DEF Causes
  <1>3. Lose("failed", Gone) \/ Lose("broken", Gone)
    BY DEF DrainFails
  <1> QED
    BY <1>1, <1>2, <1>3, EndKeeps

LEMMA CrashKeeps == ASSUME IInv, Crash PROVE IInv'
  <1>1. ProcessEnds /\ Lose("crashed", Gone) /\ UNCHANGED database
    BY DEF Crash
  <1>2. "crashed" \in Causes
    BY DEF Causes
  <1> QED
    BY <1>1, <1>2, EndKeeps

LEMMA LastFlushKeeps == ASSUME IInv, LastFlush PROVE IInv'
  <1>1. PICK b, A : b = remaining /\ A = Range(handoff)
    OBVIOUS
  <1>2. /\ phase = "draining" /\ queue = << >> /\ Flush(b) /\ Lose("undrained", A) /\ ProcessEnds
    BY <1>1 DEF LastFlush
  <1>3. /\ UNCHANGED <<forwarded, retained, task>> /\ inHand' = 0 /\ phase' = "down"
        /\ handoff' = << >> /\ queue' = << >> /\ batch' = << >> /\ remaining' = << >>
        /\ Locals' /\ StagesInOrder' /\ Waiting' = {}
    BY <1>2, StagesGone
  <1>4. lost' \in [Causes -> SUBSET Message] /\ Lost' = Lost \cup A
    <2>1. "undrained" \in Causes /\ Shape /\ A \subseteq Gone
      BY <1>1 DEF Causes, IInv, Gone
    <2> QED
      BY <1>2, <2>1, LostStages
  <1>5. Shape'
    BY <1>3, <1>4 DEF IInv, Shape
  <1>6. Range(b) \subseteq Waiting /\ Waiting \ Range(b) \subseteq Lost'
    <2>1. batch = << >> /\ queue = << >> /\ Range(<< >>) = {}
      BY <1>2, EmptyStage DEF IInv, Locals
    <2>2. b \in Seq(Rows) /\ Range(b) \subseteq Rows
      BY <1>1, StageType DEF IInv, Shape
    <2> QED
      BY <1>1, <1>4, <2>1, <2>2 DEF Waiting
  <1>7. Placed'
    <2>1. Shape /\ Placed /\ forwarded' = forwarded /\ b \in Seq(Rows) /\ RowsRising(b)
      BY <1>1, <1>3 DEF IInv, Shape, StagesInOrder
    <2>2. /\ Waiting' \subseteq Waiting /\ Waiting \ Range(b) \subseteq Waiting' \cup Lost'
          /\ Lost \subseteq Lost' /\ \A m \in Range(b), n \in Waiting' : m < n
      BY <1>3, <1>4, <1>6
    <2> QED
      BY <1>2, <1>6, <2>1, <2>2, FlushPlaced
  <1> QED
    BY <1>3, <1>5, <1>7 DEF IInv

--------------------------------------------------------------------------------
(* The specification.                                                          *)

LEMMA InitInv == Init => IInv
  <1> SUFFICES ASSUME Init PROVE IInv
    OBVIOUS
  <1>1. /\ handoff = << >> /\ queue = << >> /\ batch = << >> /\ remaining = << >>
        /\ table = << >> /\ forwarded = 0 /\ task = "get" /\ phase = "up"
    BY DEF Init
  <1>2. Range(<< >>) = {} /\ RowsRising(<< >>)
    BY EmptyStage
  <1>3. Shape
    BY <1>1 DEF Init, Shape
  <1>4. Locals /\ StagesInOrder /\ Waiting = {}
    BY <1>1, <1>2 DEF Locals, StagesInOrder, Ahead, Waiting
  <1>5. DOMAIN table = {}
    BY <1>1
  <1>6. \A m \in Rows : ~(m <= forwarded)
    BY <1>1, RowNumbers
  <1> QED
    BY <1>3, <1>4, <1>5, <1>6 DEF IInv, Placed, StoredRowsAreSound

LEMMA NextInv == IInv /\ [Next]_vars => IInv'
  <1> SUFFICES ASSUME IInv, [Next]_vars PROVE IInv'
    OBVIOUS
  <1>1. CASE Next
    BY <1>1, OnMessageKeeps, MissMessageKeeps, LoseConnectionKeeps, OnConnectKeeps,
       PutNowaitKeeps, GetItemKeeps, GetTimesOutKeeps, FlushCommitsKeeps, MetaCommitsKeeps,
       TaskDiesKeeps, StopWorkerKeeps, CancelTaskKeeps, DrainItemKeeps, DrainMetaKeeps,
       LastFlushKeeps, DrainFailsKeeps, CrashKeeps, RestartKeeps
       DEF Next, Ingest, Shutdown
  <1>2. CASE UNCHANGED vars
    <2>1. Shape' /\ Locals' /\ Unmoved
      BY <1>2 DEF IInv, Shape, Locals, Unmoved, vars, server
    <2>2. UNCHANGED <<table, forwarded, lost>> /\ devices \subseteq devices'
      BY <1>2 DEF vars, database
    <2> QED
      BY <2>1, <2>2, QuietKeeps
  <1> QED
    BY <1>1, <1>2

LEMMA Invariant == Spec => []IInv
  BY InitInv, NextInv, PTL DEF Spec

LEMMA WaitingIsPending == IInv => Pending \cap Rows = Waiting
  <1> SUFFICES ASSUME IInv PROVE Pending \cap Rows = Waiting
    OBVIOUS
  <1>1. inHand \in {0} \cup Metas
    BY DEF IInv, Shape
  <1>2. ({inHand} \ {0}) \cap Rows = {}
    BY <1>1, RowNumbers
  <1> QED
    BY <1>2 DEF Pending, Gone, Waiting

(* However the batches, the timeouts, the drain, the failures and the restarts *)
(* of TelemetryIngestor interleave, a forwarded row is stored, waits in a      *)
(* stage, or is lost to a cause with a name.                                   *)
THEOREM RowsAccounted == Spec => []EveryRowIsAccounted
  <1>1. IInv => EveryRowIsAccounted
    BY WaitingIsPending DEF IInv, Placed, EveryRowIsAccounted
  <1> QED
    BY <1>1, Invariant, PTL

(* A stored row is under its own key, its device is registered, and an older   *)
(* row of the same key can only have been lost: ON CONFLICT DO NOTHING keeps   *)
(* the first.                                                                  *)
THEOREM RowsSound == Spec => []StoredRowsAreSound
  <1>1. IInv => StoredRowsAreSound
    BY DEF IInv, Placed
  <1> QED
    BY <1>1, Invariant, PTL

(* No row is stored while an older one still waits in the hand-off, the queue, *)
(* the batch or the drain.                                                     *)
THEOREM RowsInOrder == Spec => []StoredInOrder
  <1>1. IInv => StoredInOrder
    BY WaitingIsPending DEF IInv, Placed, StoredInOrder
  <1> QED
    BY <1>1, Invariant, PTL

--------------------------------------------------------------------------------
(* The payloads of the meta topics.                                            *)

(* A stage holds a device's payloads in the order the device sent them.        *)
MetasRising(s) ==
    \A i, j \in DOMAIN s :
        /\ i < j /\ s[i] \in Metas /\ s[j] \in Metas /\ DeviceOf[s[i]] = DeviceOf[s[j]]
        => s[i] <= s[j]

(* No payload of A is newer than one of B of the same device.                  *)
NotAfter(A, B) ==
    \A m \in A \cap Metas, n \in B \cap Metas : DeviceOf[m] = DeviceOf[n] => m <= n

(* The payloads on their way to device_meta.                                   *)
MetasWaiting == (Range(handoff) \cup Range(queue) \cup {inHand}) \cap Metas

(* The payload in hand is there as long as _run is about to store it.          *)
MetaInHand ==
    /\ phase = "up" /\ task = "meta" => inHand \in Metas
    /\ phase = "draining" => inHand = 0

(* Each stage holds a device's payloads in the order of their boots, the same  *)
(* payload perhaps twice, none older than those of the stages behind it, and   *)
(* none newer than what the broker retains.                                    *)
MetasInOrder ==
    /\ deviceMeta \in [Device -> {0} \cup Metas]
    /\ \A d \in Device : /\ deviceMeta[d] <= retained[d] /\ retained[d] <= forwarded
                         /\ retained[d] # 0 => DeviceOf[retained[d]] = d
    /\ MetasRising(handoff) /\ MetasRising(queue)
    /\ NotAfter({inHand}, Range(queue)) /\ NotAfter({inHand}, Range(handoff))
    /\ NotAfter(Range(queue), Range(handoff))
    /\ \A m \in MetasWaiting :
           deviceMeta[DeviceOf[m]] <= m /\ m <= retained[DeviceOf[m]]

MetaInv == MetaInHand /\ MetasInOrder

LEMMA MetaNumbers ==
    /\ Metas \subseteq Message /\ Metas \subseteq Nat \ {0} /\ 0 \notin Metas
    /\ \A m \in Message : DeviceOf[m] \in Device
    /\ Rows \cap Metas = {} /\ Rows \subseteq Message
  BY RowNumbers, IngestAssumption

LEMMA Payloads ==
    \A f \in [Device -> {0} \cup Metas] : \A d \in Device :
        f[d] \in Nat /\ (f[d] # 0 => f[d] \in Metas)
  <1> SUFFICES ASSUME NEW f \in [Device -> {0} \cup Metas], NEW d \in Device
               PROVE  f[d] \in Nat /\ (f[d] # 0 => f[d] \in Metas)
    OBVIOUS
  <1>1. PICK x : x = f[d]
    OBVIOUS
  <1>2. x \in {0} \cup Metas
    BY <1>1
  <1>3. CASE x = 0
    BY <1>1, <1>3
  <1>4. CASE x \in Metas
    BY <1>1, <1>4, MetaNumbers
  <1> QED
    BY <1>2, <1>3, <1>4

LEMMA StoredNumbers ==
    ASSUME IInv, MetasInOrder
    PROVE  /\ retained \in [Device -> {0} \cup Metas]
           /\ deviceMeta \in [Device -> {0} \cup Metas]
           /\ \A d \in Device :
                  /\ retained[d] \in Nat /\ deviceMeta[d] \in Nat
                  /\ deviceMeta[d] <= retained[d] /\ retained[d] <= forwarded
                  /\ retained[d] # 0 => retained[d] \in Metas /\ DeviceOf[retained[d]] = d
  <1>1. /\ retained \in [Device -> {0} \cup Metas]
        /\ deviceMeta \in [Device -> {0} \cup Metas]
    BY DEF IInv, Shape, MetasInOrder
  <1>2. \A d \in Device : /\ retained[d] \in Nat /\ deviceMeta[d] \in Nat
                          /\ retained[d] # 0 => retained[d] \in Metas
    BY <1>1, Payloads
  <1> QED
    BY <1>1, <1>2 DEF MetasInOrder

LEMMA EmptyMetas == Range(<< >>) = {} /\ MetasRising(<< >>)
  BY DEF Range, MetasRising

LEMMA MetaAppended ==
    ASSUME NEW S, NEW s \in Seq(S), NEW e \in S, MetasRising(s), NotAfter(Range(s), {e})
    PROVE  MetasRising(Append(s, e)) /\ Range(Append(s, e)) = Range(s) \cup {e}
  <1>0. Range(Append(s, e)) = Range(s) \cup {e}
    BY Appended
  <1>1. /\ Len(Append(s, e)) = Len(s) + 1
        /\ \A i \in 1 .. Len(s) : Append(s, e)[i] = s[i]
        /\ Append(s, e)[Len(s) + 1] = e
        /\ Len(s) \in Nat
    OBVIOUS
  <1>2. DOMAIN s = 1 .. Len(s) /\ DOMAIN Append(s, e) = 1 .. Len(s) + 1
    OBVIOUS
  <1> DEFINE a == Append(s, e)
  <1> HIDE DEF a
  <1> SUFFICES ASSUME NEW i \in 1 .. Len(s) + 1, NEW j \in 1 .. Len(s) + 1, i < j,
                      a[i] \in Metas, a[j] \in Metas, DeviceOf[a[i]] = DeviceOf[a[j]]
               PROVE  a[i] <= a[j]
    BY <1>0, <1>2 DEF MetasRising, a
  <1>3. i \in 1 .. Len(s) /\ a[i] = s[i] /\ (j \in 1 .. Len(s) \/ j = Len(s) + 1)
    BY <1>1 DEF a
  <1>4. CASE j \in 1 .. Len(s)
    BY <1>1, <1>2, <1>3, <1>4 DEF MetasRising, a
  <1>5. CASE j = Len(s) + 1
    <2>1. s[i] \in Range(s) /\ a[j] = e
      BY <1>1, <1>2, <1>3, <1>5 DEF Range, a
    <2> QED
      BY <1>3, <2>1 DEF NotAfter
  <1> QED
    BY <1>3, <1>4, <1>5

LEMMA MetaSplit ==
    ASSUME NEW S, NEW s \in Seq(S), s # << >>, MetasRising(s)
    PROVE  MetasRising(Tail(s)) /\ NotAfter({Head(s)}, Range(Tail(s)))
  <1>1. /\ Len(Tail(s)) = Len(s) - 1
        /\ \A i \in 1 .. Len(s) - 1 : Tail(s)[i] = s[i + 1]
        /\ Len(s) \in Nat \ {0} /\ Head(s) = s[1]
    OBVIOUS
  <1>2. DOMAIN s = 1 .. Len(s) /\ DOMAIN Tail(s) = 1 .. Len(s) - 1
    BY <1>1
  <1> DEFINE t == Tail(s)
  <1> HIDE DEF t
  <1>3. MetasRising(t)
    <2> SUFFICES ASSUME NEW i \in 1 .. Len(s) - 1, NEW j \in 1 .. Len(s) - 1, i < j,
                        t[i] \in Metas, t[j] \in Metas, DeviceOf[t[i]] = DeviceOf[t[j]]
                 PROVE  t[i] <= t[j]
      BY <1>2 DEF MetasRising, t
    <2>1. i + 1 \in DOMAIN s /\ j + 1 \in DOMAIN s /\ i + 1 < j + 1
      BY <1>1, <1>2
    <2> QED
      BY <1>1, <2>1 DEF MetasRising, t
  <1>4. NotAfter({s[1]}, Range(t))
    <2> SUFFICES ASSUME NEW j \in 1 .. Len(s) - 1, s[1] \in Metas, t[j] \in Metas,
                        DeviceOf[s[1]] = DeviceOf[t[j]]
                 PROVE  s[1] <= t[j]
      BY <1>2 DEF NotAfter, Range, t
    <2>1. 1 \in DOMAIN s /\ j + 1 \in DOMAIN s /\ 1 < j + 1
      BY <1>1, <1>2
    <2> QED
      BY <1>1, <2>1 DEF MetasRising, t
  <1> QED
    BY <1>1, <1>3, <1>4 DEF t

LEMMA MetaJoined ==
    ASSUME NEW s \in Seq(Message), NEW t \in Seq(Message), MetasRising(s), MetasRising(t),
           NotAfter(Range(s), Range(t))
    PROVE  MetasRising(s \o t) /\ Range(s \o t) = Range(s) \cup Range(t)
  <1> DEFINE c == s \o t
  <1>1. /\ Len(c) = Len(s) + Len(t)
        /\ \A i \in 1 .. Len(s) : c[i] = s[i]
        /\ \A i \in 1 .. Len(t) : c[Len(s) + i] = t[i]
        /\ Len(s) \in Nat /\ Len(t) \in Nat
    OBVIOUS
  <1>2. /\ DOMAIN s = 1 .. Len(s) /\ DOMAIN t = 1 .. Len(t)
        /\ DOMAIN c = 1 .. Len(s) + Len(t)
    BY <1>1
  <1> HIDE DEF c
  <1>3. ASSUME NEW i \in 1 .. Len(s) + Len(t), i \notin 1 .. Len(s)
        PROVE  i - Len(s) \in 1 .. Len(t) /\ c[i] = t[i - Len(s)]
    <2>1. i - Len(s) \in 1 .. Len(t) /\ Len(s) + (i - Len(s)) = i
      BY <1>1, <1>3
    <2> QED
      BY <1>1, <2>1
  <1>4. MetasRising(c)
    <2> SUFFICES ASSUME NEW i \in 1 .. Len(s) + Len(t), NEW j \in 1 .. Len(s) + Len(t), i < j,
                        c[i] \in Metas, c[j] \in Metas, DeviceOf[c[i]] = DeviceOf[c[j]]
                 PROVE  c[i] <= c[j]
      BY <1>2 DEF MetasRising
    <2>1. CASE j \in 1 .. Len(s)
      <3>1. i \in 1 .. Len(s)
        BY <1>1, <2>1
      <3> QED
        BY <1>1, <1>2, <2>1, <3>1 DEF MetasRising
    <2>2. CASE i \in 1 .. Len(s) /\ j \notin 1 .. Len(s)
      <3>1. c[i] \in Range(s) /\ c[j] \in Range(t)
        BY <1>1, <1>2, <1>3, <2>2 DEF Range
      <3> QED
        BY <3>1 DEF NotAfter
    <2>3. CASE i \notin 1 .. Len(s) /\ j \notin 1 .. Len(s)
      <3>1. /\ i - Len(s) \in 1 .. Len(t) /\ c[i] = t[i - Len(s)]
            /\ j - Len(s) \in 1 .. Len(t) /\ c[j] = t[j - Len(s)]
        BY <1>3, <2>3
      <3>2. i - Len(s) < j - Len(s)
        BY <1>1
      <3> QED
        BY <1>2, <3>1, <3>2 DEF MetasRising
    <2> QED
      BY <1>1, <2>1, <2>2, <2>3
  <1>5. Range(c) = Range(s) \cup Range(t)
    <2>1. \A i \in DOMAIN c : c[i] \in Range(s) \cup Range(t)
      BY <1>1, <1>2, <1>3 DEF Range
    <2>2. \A i \in DOMAIN s : i \in DOMAIN c /\ c[i] = s[i]
      BY <1>1, <1>2
    <2>3. \A i \in DOMAIN t : Len(s) + i \in DOMAIN c /\ c[Len(s) + i] = t[i]
      BY <1>1, <1>2
    <2> QED
      BY <2>1, <2>2, <2>3 DEF Range
  <1> QED
    BY <1>4, <1>5 DEF c

(* What leaves a stage without being stored leaves the rest in order.          *)
LEMMA MetasLeave ==
    ASSUME MetasInOrder, UNCHANGED <<deviceMeta, retained, forwarded>>,
           MetasRising(handoff'), MetasRising(queue'),
           Range(handoff') \subseteq Range(handoff), Range(queue') \subseteq Range(queue),
           inHand' \in {0, inHand}
    PROVE  MetasInOrder'
  <1>1. MetasWaiting' \subseteq MetasWaiting
    BY MetaNumbers DEF MetasWaiting
  <1>2. /\ NotAfter({inHand'}, Range(queue')) /\ NotAfter({inHand'}, Range(handoff'))
        /\ NotAfter(Range(queue'), Range(handoff'))
    BY MetaNumbers DEF MetasInOrder, NotAfter
  <1>3. \A m \in MetasWaiting' : deviceMeta[DeviceOf[m]] <= m /\ m <= retained[DeviceOf[m]]
    BY <1>1 DEF MetasInOrder
  <1> QED
    BY <1>2, <1>3 DEF MetasInOrder, NotAfter

LEMMA StagesStay ==
    ASSUME MetasInOrder, UNCHANGED <<deviceMeta, retained, forwarded, handoff, queue>>,
           inHand' \in {0, inHand}
    PROVE  MetasInOrder'
  BY MetasLeave DEF MetasInOrder

LEMMA StagesEmpty ==
    ASSUME MetasInOrder, UNCHANGED <<deviceMeta, retained, forwarded>>,
           handoff' = << >>, queue' = << >>, inHand' \in {0, inHand}
    PROVE  MetasInOrder'
  BY MetasLeave, EmptyMetas

(* The broker retains the newest payload of a device. *)
LEMMA Forwarded ==
    ASSUME IInv, MetasInOrder, NEW m, Forward(m)
    PROVE  /\ m \in Message /\ forwarded' = m
           /\ retained' \in [Device -> {0} \cup Metas]
           /\ \A d \in Device : /\ retained[d] <= retained'[d] /\ retained'[d] <= m
                                /\ retained'[d] # 0 => DeviceOf[retained'[d]] = d
           /\ m \in Metas => retained'[DeviceOf[m]] = m
           /\ \A d \in Device : retained[d] <= m
  <1>1. /\ m \in Message /\ m = forwarded + 1 /\ forwarded' = m
        /\ retained' = IF m \in Metas THEN [retained EXCEPT ![DeviceOf[m]] = m] ELSE retained
    BY DEF Forward
  <1>2. /\ forwarded \in Nat /\ retained \in [Device -> {0} \cup Metas]
    BY DEF IInv, Shape
  <1>3. ASSUME NEW d \in Device
        PROVE  retained[d] \in Nat /\ retained[d] <= forwarded /\ retained[d] <= m
    <2>1. retained[d] \in Nat /\ retained[d] <= forwarded
      BY StoredNumbers
    <2> QED
      BY <1>1, <1>2, <2>1
  <1>4. DeviceOf[m] \in Device /\ m \in Nat /\ m <= m
    BY <1>1, <1>2, MetaNumbers
  <1>5. retained' \in [Device -> {0} \cup Metas]
    BY <1>1, <1>2, <1>4
  <1>6. m \in Metas => retained'[DeviceOf[m]] = m
    BY <1>1, <1>2, <1>4
  <1>7. ASSUME NEW d \in Device
        PROVE  /\ retained[d] <= retained'[d] /\ retained'[d] <= m
               /\ retained'[d] # 0 => DeviceOf[retained'[d]] = d
    <2>1. CASE m \in Metas /\ d = DeviceOf[m]
      BY <1>3, <1>4, <1>6, <2>1
    <2>2. CASE ~(m \in Metas /\ d = DeviceOf[m])
      <3>1. retained'[d] = retained[d]
        BY <1>1, <1>2, <2>2
      <3> QED
        BY <1>3, <3>1 DEF MetasInOrder
    <2> QED
      BY <2>1, <2>2
  <1> QED
    BY <1>1, <1>3, <1>5, <1>6, <1>7

(* Numbers of the payloads on their way. *)
LEMMA WaitingNumbers ==
    ASSUME IInv, MetasInOrder, NEW m \in MetasWaiting
    PROVE  /\ m \in Metas /\ m \in Nat /\ DeviceOf[m] \in Device
           /\ deviceMeta[DeviceOf[m]] \in Nat /\ retained[DeviceOf[m]] \in Nat
           /\ deviceMeta[DeviceOf[m]] <= m /\ m <= retained[DeviceOf[m]]
  <1>1. /\ m \in Metas /\ deviceMeta[DeviceOf[m]] <= m /\ m <= retained[DeviceOf[m]]
    BY DEF MetasInOrder, MetasWaiting
  <1>2. m \in Nat /\ DeviceOf[m] \in Device
    BY <1>1, MetaNumbers
  <1> QED
    BY <1>1, <1>2, StoredNumbers

LEMMA MissMessageMetas == ASSUME IInv, MetasInOrder, MissMessage PROVE MetasInOrder'
  <1>1. PICK m : Forward(m)
    BY DEF MissMessage
  <1>2. UNCHANGED <<handoff, queue, inHand, deviceMeta>>
    BY DEF MissMessage, server, database
  <1>3. /\ forwarded' = m /\ retained' \in [Device -> {0} \cup Metas]
        /\ \A d \in Device : /\ retained[d] <= retained'[d] /\ retained'[d] <= m
                             /\ retained'[d] # 0 => DeviceOf[retained'[d]] = d
    BY <1>1, Forwarded
  <1>4. ASSUME NEW d \in Device PROVE deviceMeta[d] <= retained'[d]
    <2>1. deviceMeta[d] \in Nat /\ retained[d] \in Nat /\ retained'[d] \in Nat
      BY <1>3, StoredNumbers, Payloads
    <2> QED
      BY <1>3, <2>1 DEF MetasInOrder
  <1>5. ASSUME NEW n \in MetasWaiting
        PROVE  deviceMeta[DeviceOf[n]] <= n /\ n <= retained'[DeviceOf[n]]
    <2>1. /\ n \in Nat /\ DeviceOf[n] \in Device /\ retained[DeviceOf[n]] \in Nat
          /\ deviceMeta[DeviceOf[n]] <= n /\ n <= retained[DeviceOf[n]]
      BY WaitingNumbers
    <2>2. retained'[DeviceOf[n]] \in Nat /\ retained[DeviceOf[n]] <= retained'[DeviceOf[n]]
      BY <1>3, <2>1, Payloads
    <2> QED
      BY <2>1, <2>2
  <1>6. MetasWaiting' = MetasWaiting
    BY <1>2 DEF MetasWaiting
  <1> QED
    BY <1>2, <1>3, <1>4, <1>5, <1>6 DEF MetasInOrder, NotAfter

LEMMA OnMessageMetas == ASSUME IInv, MetasInOrder, OnMessage PROVE MetasInOrder'
  <1>1. PICK m : m = forwarded + 1 /\ Forward(m) /\ handoff' = Append(handoff, m)
    BY DEF OnMessage
  <1>2. UNCHANGED <<queue, inHand, deviceMeta>>
    BY DEF OnMessage, database
  <1>3. /\ forwarded' = m /\ m \in Message /\ retained' \in [Device -> {0} \cup Metas]
        /\ \A d \in Device : /\ retained[d] <= retained'[d] /\ retained'[d] <= m
                             /\ retained'[d] # 0 => DeviceOf[retained'[d]] = d
        /\ m \in Metas => retained'[DeviceOf[m]] = m
        /\ \A d \in Device : retained[d] <= m
    BY <1>1, Forwarded
  <1>4. m \in Nat /\ DeviceOf[m] \in Device /\ m <= m
    BY <1>3, RowNumbers, MetaNumbers
  <1>5. ASSUME NEW n \in MetasWaiting PROVE n <= m
    <2>1. /\ n \in Nat /\ DeviceOf[n] \in Device /\ retained[DeviceOf[n]] \in Nat
          /\ n <= retained[DeviceOf[n]]
      BY WaitingNumbers
    <2> QED
      BY <1>3, <1>4, <2>1
  <1>6. NotAfter(MetasWaiting, {m})
    BY <1>5 DEF NotAfter
  <1>7. /\ MetasRising(handoff') /\ Range(handoff') = Range(handoff) \cup {m}
    <2>1. handoff \in Seq(Message) /\ MetasRising(handoff)
      BY DEF IInv, Shape, MetasInOrder
    <2>2. NotAfter(Range(handoff), {m})
      BY <1>6 DEF NotAfter, MetasWaiting
    <2>3. MetasRising(handoff')
      BY <1>1, <1>3, <2>1, <2>2, MetaAppended
    <2>4. Range(handoff') = Range(handoff) \cup {m}
      BY <1>1, <1>3, <2>1, <2>2, MetaAppended
    <2> QED
      BY <2>3, <2>4
  <1>8. NotAfter({inHand}, Range(handoff')) /\ NotAfter(Range(queue), Range(handoff'))
    BY <1>6, <1>7 DEF NotAfter, MetasWaiting, MetasInOrder
  <1>9. MetasWaiting' = MetasWaiting \cup ({m} \cap Metas)
    BY <1>2, <1>7 DEF MetasWaiting
  <1>10. ASSUME NEW d \in Device PROVE deviceMeta[d] <= retained'[d] /\ deviceMeta[d] <= m
    <2>1. /\ deviceMeta[d] \in Nat /\ retained[d] \in Nat /\ retained'[d] \in Nat
          /\ deviceMeta[d] <= retained[d]
      BY <1>3, StoredNumbers, Payloads
    <2> QED
      BY <1>3, <1>4, <2>1
  <1>11. ASSUME NEW n \in MetasWaiting'
         PROVE  deviceMeta[DeviceOf[n]] <= n /\ n <= retained'[DeviceOf[n]]
    <2>1. CASE n \in MetasWaiting
      <3>1. /\ n \in Nat /\ DeviceOf[n] \in Device /\ retained[DeviceOf[n]] \in Nat
            /\ deviceMeta[DeviceOf[n]] <= n /\ n <= retained[DeviceOf[n]]
        BY <2>1, WaitingNumbers
      <3>2. retained'[DeviceOf[n]] \in Nat /\ retained[DeviceOf[n]] <= retained'[DeviceOf[n]]
        BY <1>3, <3>1, Payloads
      <3> QED
        BY <3>1, <3>2
    <2>2. CASE n = m /\ m \in Metas
      BY <1>3, <1>4, <1>10, <2>2
    <2> QED
      BY <1>9, <2>1, <2>2
  <1> QED
    BY <1>2, <1>3, <1>7, <1>8, <1>10, <1>11 DEF MetasInOrder, NotAfter

(* What the broker sends again is no older than what is on its way. *)
LEMMA OnConnectMetas == ASSUME IInv, MetasInOrder, OnConnect PROVE MetasInOrder'
  <1>1. PICK metas \in SetToSeqs({retained[d] : d \in Device} \ {0}) :
            handoff' = handoff \o metas
    BY DEF OnConnect
  <1>2. UNCHANGED <<queue, inHand, deviceMeta, retained, forwarded>>
    BY DEF OnConnect, database
  <1>3. metas \in Seq(Message) /\ Range(metas) \subseteq {retained[d] : d \in Device} \ {0}
    BY <1>1, RetainedSent DEF IInv
  <1>4. ASSUME NEW n \in Range(metas)
        PROVE  /\ n \in Metas /\ n \in Nat /\ DeviceOf[n] \in Device
               /\ retained[DeviceOf[n]] = n
    <2>1. PICK d \in Device : n = retained[d] /\ n # 0
      BY <1>3
    <2>2. n \in Metas /\ DeviceOf[n] = d
      BY <2>1, StoredNumbers
    <2> QED
      BY <2>1, <2>2, MetaNumbers
  <1>5. ASSUME NEW m \in MetasWaiting, NEW n \in Range(metas), DeviceOf[m] = DeviceOf[n]
        PROVE  m <= n
    <2>1. m <= retained[DeviceOf[m]]
      BY WaitingNumbers
    <2> QED
      BY <1>4, <1>5, <2>1
  <1>6. MetasRising(metas)
    <2> SUFFICES ASSUME NEW i \in DOMAIN metas, NEW j \in DOMAIN metas,
                        DeviceOf[metas[i]] = DeviceOf[metas[j]]
                 PROVE  metas[i] <= metas[j]
      BY DEF MetasRising
    <2>1. metas[i] \in Range(metas) /\ metas[j] \in Range(metas)
      BY DEF Range
    <2>2. metas[i] = metas[j] /\ metas[i] \in Nat
      BY <1>4, <2>1
    <2> QED
      BY <2>2
  <1>7. MetasRising(handoff') /\ Range(handoff') = Range(handoff) \cup Range(metas)
    <2>1. handoff \in Seq(Message) /\ MetasRising(handoff)
      BY DEF IInv, Shape, MetasInOrder
    <2>2. NotAfter(Range(handoff), Range(metas))
      BY <1>5 DEF NotAfter, MetasWaiting
    <2> QED
      BY <1>1, <1>3, <1>6, <2>1, <2>2, MetaJoined
  <1>8. NotAfter({inHand}, Range(handoff')) /\ NotAfter(Range(queue), Range(handoff'))
    BY <1>5, <1>7 DEF NotAfter, MetasWaiting, MetasInOrder
  <1>9. ASSUME NEW n \in MetasWaiting'
        PROVE  deviceMeta[DeviceOf[n]] <= n /\ n <= retained[DeviceOf[n]]
    <2>1. CASE n \in MetasWaiting
      BY <2>1, WaitingNumbers
    <2>2. CASE n \in Range(metas)
      <3>1. n \in Nat /\ DeviceOf[n] \in Device /\ retained[DeviceOf[n]] = n
        BY <1>4, <2>2
      <3> QED
        BY <3>1 DEF MetasInOrder
    <2> QED
      BY <1>2, <1>7, <2>1, <2>2 DEF MetasWaiting
  <1> QED
    BY <1>2, <1>7, <1>8, <1>9 DEF MetasInOrder, NotAfter

LEMMA PutNowaitMetas == ASSUME IInv, MetasInOrder, PutNowait PROVE MetasInOrder'
  <1>1. PICK e, r : e = Head(handoff) /\ r = Tail(handoff)
    OBVIOUS
  <1>2. /\ handoff \in Seq(Message) /\ handoff # << >> /\ MetasRising(handoff)
        /\ queue \in Seq(Message) /\ MetasRising(queue)
    BY DEF PutNowait, IInv, Shape, MetasInOrder
  <1>3. /\ e \in Message /\ Range(handoff) = {e} \cup Range(r)
        /\ MetasRising(r) /\ NotAfter({e}, Range(r))
    BY <1>1, <1>2, Split, MetaSplit
  <1>4. handoff' = r /\ UNCHANGED <<inHand, deviceMeta, retained, forwarded>>
    BY <1>1 DEF PutNowait, database
  <1>5. CASE queue' = Append(queue, e)
    <2>1. NotAfter(Range(queue), {e})
      BY <1>3 DEF MetasInOrder, NotAfter
    <2>2. MetasRising(queue') /\ Range(queue') = Range(queue) \cup {e}
      <3>1. MetasRising(queue')
        BY <1>2, <1>3, <1>5, <2>1, MetaAppended
      <3>2. Range(queue') = Range(queue) \cup {e}
        BY <1>2, <1>3, <1>5, <2>1, MetaAppended
      <3> QED
        BY <3>1, <3>2
    <2>3. /\ NotAfter({inHand}, Range(queue')) /\ NotAfter({inHand}, Range(handoff'))
          /\ NotAfter(Range(queue'), Range(handoff'))
      BY <1>3, <1>4, <2>2 DEF MetasInOrder, NotAfter
    <2>4. MetasWaiting' = MetasWaiting
      BY <1>3, <1>4, <2>2 DEF MetasWaiting
    <2> QED
      BY <1>3, <1>4, <2>2, <2>3, <2>4 DEF MetasInOrder, NotAfter
  <1>6. CASE queue' = queue
    BY <1>2, <1>3, <1>4, <1>6, MetasLeave
  <1> QED
    BY <1>1, <1>5, <1>6 DEF PutNowait

(* The first message of the queue goes. *)
LEMMA QueueTurns ==
    ASSUME IInv, MetasInOrder, queue # << >>
    PROVE  /\ Head(queue) \in Message /\ Range(queue) = {Head(queue)} \cup Range(Tail(queue))
           /\ MetasRising(Tail(queue)) /\ NotAfter({Head(queue)}, Range(Tail(queue)))
  <1>1. queue \in Seq(Message) /\ MetasRising(queue)
    BY DEF IInv, Shape, MetasInOrder
  <1> QED
    BY <1>1, Split, MetaSplit

LEMMA QueueLoses ==
    ASSUME IInv, MetasInOrder, queue # << >>, queue' = Tail(queue), inHand' \in {0, inHand},
           UNCHANGED <<deviceMeta, retained, forwarded, handoff>>
    PROVE  MetasInOrder'
  <1>1. MetasRising(handoff)
    BY DEF MetasInOrder
  <1> QED
    BY <1>1, QueueTurns, MetasLeave

LEMMA GetItemMetas == ASSUME IInv, MetasInOrder, GetItem PROVE MetasInOrder'
  <1>1. PICK m, r : m = Head(queue) /\ r = Tail(queue)
    OBVIOUS
  <1>2. /\ queue # << >> /\ queue' = r
        /\ UNCHANGED <<deviceMeta, retained, forwarded, handoff>>
    BY <1>1 DEF GetItem, database
  <1>3. CASE m \in Metas
    <2>1. inHand' = m
      BY <1>1, <1>3 DEF GetItem
    <2>2. Range(queue) = {m} \cup Range(r) /\ MetasRising(r) /\ NotAfter({m}, Range(r))
      BY <1>1, <1>2, QueueTurns
    <2>3. /\ NotAfter({m}, Range(r)) /\ NotAfter({m}, Range(handoff))
          /\ NotAfter(Range(r), Range(handoff))
      BY <2>2 DEF MetasInOrder, NotAfter
    <2>4. MetasWaiting' \subseteq MetasWaiting
      BY <1>2, <2>1, <2>2 DEF MetasWaiting
    <2> QED
      BY <1>2, <2>1, <2>2, <2>3, <2>4 DEF MetasInOrder, NotAfter
  <1>4. CASE m \notin Metas
    <2>1. inHand' = inHand
      BY <1>1, <1>4 DEF GetItem
    <2> QED
      BY <1>1, <1>2, <2>1, QueueLoses
  <1> QED
    BY <1>3, <1>4

(* The upsert of the oldest payload on its way. *)
LEMMA Upserted ==
    ASSUME IInv, MetasInOrder, NEW m \in MetasWaiting,
           deviceMeta' = [deviceMeta EXCEPT ![DeviceOf[m]] = m],
           UNCHANGED <<retained, forwarded, handoff>>, inHand' = 0,
           MetasRising(queue'), Range(queue') \subseteq Range(queue),
           NotAfter({m}, Range(queue')), NotAfter({m}, Range(handoff))
    PROVE  /\ MetasInOrder'
           /\ \A d \in Device : deviceMeta'[d] >= deviceMeta[d]
  <1>1. /\ m \in Metas /\ m \in Nat /\ DeviceOf[m] \in Device
        /\ deviceMeta[DeviceOf[m]] <= m /\ m <= retained[DeviceOf[m]]
    BY WaitingNumbers
  <1>2. /\ deviceMeta \in [Device -> {0} \cup Metas] /\ retained \in [Device -> {0} \cup Metas]
        /\ forwarded \in Nat
    BY DEF IInv, Shape, MetasInOrder
  <1>3. deviceMeta' \in [Device -> {0} \cup Metas]
    BY <1>1, <1>2
  <1>4. ASSUME NEW d \in Device
        PROVE  deviceMeta'[d] <= retained[d] /\ deviceMeta'[d] >= deviceMeta[d]
    <2>1. deviceMeta[d] \in Nat /\ deviceMeta[d] <= retained[d] /\ retained[d] \in Nat
      BY StoredNumbers
    <2>2. CASE d = DeviceOf[m]
      BY <1>1, <1>2, <2>1, <2>2
    <2>3. CASE d # DeviceOf[m]
      BY <1>2, <2>1, <2>3
    <2> QED
      BY <2>2, <2>3
  <1>5. MetasWaiting' \subseteq MetasWaiting /\ MetasWaiting' = (Range(handoff) \cup Range(queue')) \cap Metas
    BY MetaNumbers DEF MetasWaiting
  <1>6. ASSUME NEW n \in MetasWaiting'
        PROVE  deviceMeta'[DeviceOf[n]] <= n /\ n <= retained[DeviceOf[n]]
    <2>1. /\ n \in Metas /\ n \in Nat /\ DeviceOf[n] \in Device
          /\ deviceMeta[DeviceOf[n]] <= n /\ n <= retained[DeviceOf[n]]
      BY <1>5, WaitingNumbers
    <2>2. CASE DeviceOf[n] = DeviceOf[m]
      <3>1. m <= n
        BY <1>1, <1>5, <2>1, <2>2 DEF NotAfter
      <3> QED
        BY <1>1, <1>2, <2>1, <2>2, <3>1
    <2>3. CASE DeviceOf[n] # DeviceOf[m]
      BY <1>2, <2>1, <2>3
    <2> QED
      BY <2>2, <2>3
  <1>7. /\ NotAfter({inHand'}, Range(queue')) /\ NotAfter({inHand'}, Range(handoff'))
        /\ NotAfter(Range(queue'), Range(handoff'))
    BY MetaNumbers DEF MetasInOrder, NotAfter
  <1> QED
    BY <1>3, <1>4, <1>6, <1>7 DEF MetasInOrder, NotAfter

LEMMA MetaCommitsMetas ==
    ASSUME IInv, MetaInv, MetaCommits
    PROVE  MetasInOrder' /\ \A d \in Device : deviceMeta'[d] >= deviceMeta[d]
  <1>1. PICK m : m = inHand
    OBVIOUS
  <1>2. m \in MetasWaiting
    BY <1>1 DEF MetaInv, MetaInHand, MetaCommits, MetasWaiting
  <1>3. /\ deviceMeta' = [deviceMeta EXCEPT ![DeviceOf[m]] = m] /\ inHand' = 0
        /\ UNCHANGED <<retained, forwarded, handoff, queue>>
    BY <1>1 DEF MetaCommits, UpsertMeta
  <1>4. /\ MetasInOrder /\ MetasRising(queue)
        /\ NotAfter({m}, Range(queue)) /\ NotAfter({m}, Range(handoff))
    BY <1>1 DEF MetaInv, MetasInOrder
  <1> QED
    BY <1>2, <1>3, <1>4, Upserted

LEMMA DrainMetaMetas ==
    ASSUME IInv, MetaInv, DrainMeta
    PROVE  MetasInOrder' /\ \A d \in Device : deviceMeta'[d] >= deviceMeta[d]
  <1>1. PICK m, r : m = Head(queue) /\ r = Tail(queue)
    OBVIOUS
  <1>2. /\ queue # << >> /\ m \in Metas /\ queue' = r
        /\ deviceMeta' = [deviceMeta EXCEPT ![DeviceOf[m]] = m]
        /\ UNCHANGED <<retained, forwarded, handoff>> /\ inHand' = inHand /\ inHand = 0
    BY <1>1 DEF DrainMeta, UpsertMeta, MetaInv, MetaInHand
  <1>3. MetasInOrder
    BY DEF MetaInv
  <1>4. Range(queue) = {m} \cup Range(r) /\ MetasRising(r) /\ NotAfter({m}, Range(r))
    BY <1>1, <1>2, <1>3, QueueTurns
  <1>5. m \in MetasWaiting /\ NotAfter({m}, Range(handoff))
    BY <1>2, <1>3, <1>4 DEF MetasWaiting, MetasInOrder, NotAfter
  <1> QED
    BY <1>2, <1>3, <1>4, <1>5, Upserted

LEMMA MetaInHandStep == ASSUME IInv, MetaInHand, [Next]_vars PROVE MetaInHand'
  <1> USE DEF MetaInHand
  <1>1. CASE OnMessage \/ MissMessage \/ LoseConnection \/ OnConnect \/ PutNowait \/ StopWorker
    BY <1>1 DEF OnMessage, MissMessage, LoseConnection, OnConnect, PutNowait, StopWorker, server
  <1>2. CASE GetItem
    BY <1>2 DEF GetItem, AfterItem
  <1>3. CASE GetTimesOut \/ FlushCommits \/ TaskDies
    BY <1>3 DEF GetTimesOut, FlushCommits, TaskDies
  <1>4. CASE MetaCommits
    BY <1>4 DEF MetaCommits, AfterItem
  <1>5. CASE CancelTask
    BY <1>5 DEF CancelTask
  <1>6. CASE DrainItem \/ DrainMeta
    BY <1>6 DEF DrainItem, DrainMeta
  <1>7. CASE LastFlush \/ DrainFails \/ Crash
    BY <1>7 DEF LastFlush, DrainFails, Crash, ProcessEnds
  <1>8. CASE Restart
    BY <1>8 DEF Restart
  <1>9. CASE UNCHANGED vars
    BY <1>9 DEF vars, server
  <1> QED
    BY <1>1, <1>2, <1>3, <1>4, <1>5, <1>6, <1>7, <1>8, <1>9 DEF Next, Ingest, Shutdown

LEMMA MetaStep ==
    ASSUME IInv, MetaInv, [Next]_vars
    PROVE  /\ MetaInv'
           /\ \A d \in Device : deviceMeta'[d] >= deviceMeta[d]
  <1>1. MetaInHand' /\ MetasInOrder
    BY MetaInHandStep DEF MetaInv
  <1>2. CASE MetaCommits \/ DrainMeta
    BY <1>1, <1>2, MetaCommitsMetas, DrainMetaMetas DEF MetaInv
  <1>3. ASSUME deviceMeta' = deviceMeta PROVE \A d \in Device : deviceMeta'[d] >= deviceMeta[d]
    <2>1. \A d \in Device : deviceMeta[d] \in Nat
      BY <1>1, StoredNumbers
    <2> QED
      BY <1>3, <2>1
  <1>4. CASE OnMessage \/ MissMessage \/ OnConnect \/ PutNowait \/ GetItem
    <2>1. deviceMeta' = deviceMeta
      BY <1>4 DEF OnMessage, MissMessage, OnConnect, PutNowait, GetItem, database
    <2> QED
      BY <1>1, <1>3, <1>4, <2>1, OnMessageMetas, MissMessageMetas, OnConnectMetas,
         PutNowaitMetas, GetItemMetas DEF MetaInv
  <1>5. CASE LoseConnection \/ GetTimesOut \/ FlushCommits \/ StopWorker \/ Restart
               \/ UNCHANGED vars
    <2>1. UNCHANGED <<deviceMeta, retained, forwarded, handoff, queue, inHand>>
      BY <1>5 DEF LoseConnection, GetTimesOut, FlushCommits, Flush, StopWorker, Restart, vars,
                  server, database
    <2> QED
      BY <1>1, <1>3, <2>1, StagesStay DEF MetaInv
  <1>6. CASE TaskDies
    <2>1. /\ UNCHANGED <<deviceMeta, retained, forwarded, handoff>> /\ inHand' = 0
          /\ \/ queue' = queue
             \/ queue # << >> /\ queue' = Tail(queue)
      BY <1>6 DEF TaskDies, DatabaseFails, database
    <2> QED
      BY <1>1, <1>3, <2>1, StagesStay, QueueLoses DEF MetaInv
  <1>7. CASE CancelTask
    <2>1. /\ UNCHANGED <<deviceMeta, retained, forwarded>> /\ inHand' \in {0, inHand}
          /\ \/ UNCHANGED <<handoff, queue>>
             \/ handoff' = << >> /\ queue' = << >>
      BY <1>7 DEF CancelTask, database
    <2> QED
      BY <1>1, <1>3, <2>1, StagesStay, StagesEmpty DEF MetaInv
  <1>8. CASE DrainItem
    <2>1. /\ UNCHANGED <<deviceMeta, retained, forwarded, handoff>> /\ inHand' = inHand
          /\ queue # << >> /\ queue' = Tail(queue)
      BY <1>8 DEF DrainItem, database
    <2> QED
      BY <1>1, <1>3, <2>1, QueueLoses DEF MetaInv
  <1>9. CASE LastFlush \/ DrainFails \/ Crash
    <2>1. /\ UNCHANGED <<deviceMeta, retained, forwarded>> /\ inHand' = 0
          /\ handoff' = << >> /\ queue' = << >>
      BY <1>9 DEF LastFlush, DrainFails, DatabaseFails, Crash, ProcessEnds, Flush, database
    <2> QED
      BY <1>1, <1>3, <2>1, StagesEmpty DEF MetaInv
  <1> QED
    BY <1>2, <1>4, <1>5, <1>6, <1>7, <1>8, <1>9 DEF Next, Ingest, Shutdown

LEMMA MetaStarts == Init => MetaInv
  <1> SUFFICES ASSUME Init PROVE MetaInv
    OBVIOUS
  <1>1. /\ handoff = << >> /\ queue = << >> /\ inHand = 0 /\ forwarded = 0
        /\ retained = [d \in Device |-> 0] /\ deviceMeta = [d \in Device |-> 0]
        /\ task = "get" /\ phase = "up"
    BY DEF Init
  <1>2. MetasWaiting = {}
    BY <1>1, EmptyMetas, MetaNumbers DEF MetasWaiting
  <1>3. MetasInOrder
    BY <1>1, <1>2, EmptyMetas DEF MetasInOrder, NotAfter
  <1> QED
    BY <1>1, <1>3 DEF MetaInv, MetaInHand

(* No interleaving of the broker's retained payloads, the queue, the drain,    *)
(* failures and restarts stores an older payload over a newer one.             *)
THEOREM MetaNeverReturns == Spec => MetaNeverGoesBack
  <1>1. IInv /\ MetaInv /\ [Next]_vars => MetaInv'
    BY MetaStep
  <1>2. Spec => []MetaInv
    BY <1>1, MetaStarts, Invariant, PTL DEF Spec
  <1>3. IInv /\ MetaInv /\ [Next]_vars
            => [\A d \in Device : deviceMeta'[d] >= deviceMeta[d]]_vars
    BY MetaStep
  <1> QED
    BY <1>2, <1>3, Invariant, PTL DEF Spec, MetaNeverGoesBack
================================================================================
