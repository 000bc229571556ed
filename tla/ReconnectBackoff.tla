---------------------------- MODULE ReconnectBackoff ----------------------------
(* MqttPublisher's two retry loops, ensureWifi and ensureMqtt, on a 32-bit     *)
(* millisecond clock that wraps.  One unit of the model's clock is the initial *)
(* backoff (1000 ms); the clock has ClockSize values instead of 2^32.          *)
EXTENDS Integers

CONSTANTS
    ClockSize,   \* values of millis(), even
    MaxBackoff,  \* BACKOFF_MAX_MS
    JoinTime,    \* clock units an association with the access point takes
    ConnectTime  \* clock units PubSubClient::connect may block

ASSUME BackoffAssumption ==
    /\ ClockSize \in Nat /\ ClockSize % 2 = 0
    /\ MaxBackoff \in Nat \ {0} /\ 2 * MaxBackoff < ClockSize
    /\ JoinTime \in 0 .. MaxBackoff - 1
    /\ ConnectTime \in Nat /\ ConnectTime < ClockSize \div 2

VARIABLES
    now,             \* millis()
    turn,            \* what MqttPublisher::loop does next
    wifi,            \* "joining" or "on"
    joinAge,         \* units since the last WiFi.begin or loss of the network
    wifiNextAttempt, wifiBackoff,
    mqtt,            \* PubSubClient::connected()
    mqttNextAttempt, mqttBackoff,
    mqttFailed,      \* the last connection attempt failed
    wifiElapsed,     \* units since wifiNextAttempt was set, up to Half
    mqttElapsed,     \* units since mqttNextAttempt was set, up to Half
    apUp, brokerUp   \* the access point and the broker answer

wifiVars == <<wifi, joinAge, wifiNextAttempt, wifiBackoff, wifiElapsed>>
mqttVars == <<mqtt, mqttNextAttempt, mqttBackoff, mqttFailed, mqttElapsed>>
world == <<apUp, brokerUp>>
backoffVars == <<now, turn, wifiVars, mqttVars, world>>

Half == ClockSize \div 2

Smaller(a, b) == IF a < b THEN a ELSE b

(* (long)(a - b): the unsigned difference read as a signed number. *)
SignedDifference(a, b) ==
    LET d == (a - b) % ClockSize IN IF d < Half THEN d ELSE d - ClockSize

(* Mutants: deadlines compared as unsigned numbers, a backoff without its cap, *)
(* and one that does not grow.                                                 *)
DueUnsigned(deadline) == now >= deadline
DoubledForEver(backoff) == backoff * 2
KeptBackoff(backoff) == backoff

(* (long)(now - deadline) < 0 is the early return of both functions. *)
Due(deadline) == SignedDifference(now, deadline) >= 0

After(delay) == (now + delay) % ClockSize

Doubled(backoff) == Smaller(backoff * 2, MaxBackoff)

(* begin() at boot. *)
BackoffInit ==
    /\ now = 0 /\ turn = "clock"
    /\ wifi = "joining" /\ joinAge = 0
    /\ wifiBackoff = 1 /\ wifiNextAttempt = After(1) /\ wifiElapsed = 0
    /\ mqtt = FALSE /\ mqttBackoff = 1 /\ mqttNextAttempt = 0 /\ mqttElapsed = 0
    /\ mqttFailed = FALSE
    /\ apUp \in BOOLEAN /\ brokerUp \in BOOLEAN

--------------------------------------------------------------------------------

Elapsed(age, units) == Smaller(age + units, Half)

(* Time passes and the station's own association makes progress.               *)
Tick ==
    /\ turn = "clock" /\ turn' = "wifi"
    /\ now' = After(1)
    /\ wifiElapsed' = Elapsed(wifiElapsed, 1)
    /\ mqttElapsed' = Elapsed(mqttElapsed, 1)
    /\ LET associated == wifi = "joining" /\ apUp /\ joinAge >= JoinTime IN
       /\ wifi' = IF associated THEN "on" ELSE wifi
       /\ joinAge' = IF wifi = "joining" /\ apUp /\ ~associated THEN joinAge + 1 ELSE 0
    /\ UNCHANGED <<wifiNextAttempt, wifiBackoff, mqtt, mqttNextAttempt, mqttBackoff,
                   mqttFailed, world>>

(* The access point or the broker goes or comes back; the station and the      *)
(* MQTT client notice a loss at once.                                          *)
WorldChanges ==
    /\ turn = "clock"
    /\ apUp' \in BOOLEAN /\ brokerUp' \in BOOLEAN
    /\ wifi' = IF apUp' THEN wifi ELSE "joining"
    /\ joinAge' = IF apUp' THEN joinAge ELSE 0
    /\ mqtt' = (mqtt /\ apUp' /\ brokerUp')
    /\ UNCHANGED <<now, turn, wifiNextAttempt, wifiBackoff, wifiElapsed,
                   mqttNextAttempt, mqttBackoff, mqttFailed, mqttElapsed>>

AfterWifi == IF wifi = "on" THEN "mqtt" ELSE "clock"

(* ensureWifi: every attempt restarts the association from scratch.            *)
EnsureWifi ==
    /\ turn = "wifi" /\ turn' = AfterWifi
    /\ \/ /\ wifi = "on"
          /\ wifiBackoff' = 1
          /\ UNCHANGED <<wifi, joinAge, wifiNextAttempt, wifiElapsed>>
       \/ /\ wifi # "on" /\ ~Due(wifiNextAttempt)
          /\ UNCHANGED wifiVars
       \/ /\ wifi # "on" /\ Due(wifiNextAttempt)
          /\ joinAge' = 0
          /\ wifiBackoff' = Doubled(wifiBackoff)
          /\ wifiNextAttempt' = After(wifiBackoff')
          /\ wifiElapsed' = 0
          /\ UNCHANGED wifi
    /\ UNCHANGED <<now, mqttVars, world>>

(* ensureMqtt, reached only with Wi-Fi: nothing moves mqttNextAttempt while    *)
(* the client is connected.  connect() blocks, and the next deadline counts    *)
(* from the time read before it.                                               *)
MqttAttempt(units) ==
    /\ ~mqtt /\ Due(mqttNextAttempt)
    /\ now' = After(units)
    /\ wifiElapsed' = Elapsed(wifiElapsed, units)
    /\ IF brokerUp
       THEN /\ mqtt' = TRUE /\ mqttBackoff' = 1 /\ mqttFailed' = FALSE
            /\ mqttElapsed' = Elapsed(mqttElapsed, units)
            /\ UNCHANGED mqttNextAttempt
       ELSE /\ mqttBackoff' = Doubled(mqttBackoff)
            /\ mqttNextAttempt' = After(mqttBackoff')
            /\ mqttElapsed' = units /\ mqttFailed' = TRUE
            /\ UNCHANGED mqtt

EnsureMqtt ==
    /\ turn = "mqtt" /\ turn' = "clock"
    /\ \/ /\ mqtt /\ mqttBackoff' = 1
          /\ UNCHANGED <<now, wifiElapsed, mqtt, mqttNextAttempt, mqttFailed, mqttElapsed>>
       \/ ~mqtt /\ ~Due(mqttNextAttempt) /\ UNCHANGED <<now, wifiElapsed, mqttVars>>
       \/ \E units \in 0 .. ConnectTime : MqttAttempt(units)
    /\ UNCHANGED <<wifi, joinAge, wifiNextAttempt, wifiBackoff, world>>

BackoffNext == Tick \/ WorldChanges \/ EnsureWifi \/ EnsureMqtt

(* loop() and the clock never stop; the world owes nothing.                    *)
BackoffSpec ==
    /\ BackoffInit /\ [][BackoffNext]_backoffVars
    /\ WF_backoffVars(Tick \/ EnsureWifi \/ EnsureMqtt)

--------------------------------------------------------------------------------

(* Type invariant.                                                             *)
BackoffTypeOK ==
    /\ now \in 0 .. ClockSize - 1 /\ turn \in {"clock", "wifi", "mqtt"}
    /\ wifi \in {"joining", "on"} /\ joinAge \in 0 .. JoinTime
    /\ wifiNextAttempt \in 0 .. ClockSize - 1 /\ wifiBackoff \in 1 .. MaxBackoff
    /\ mqttNextAttempt \in 0 .. ClockSize - 1 /\ mqttBackoff \in 1 .. MaxBackoff
    /\ {mqtt, mqttFailed, apUp, brokerUp} \subseteq BOOLEAN
    /\ {wifiElapsed, mqttElapsed} \subseteq 0 .. Half
    /\ mqtt => wifi = "on" /\ brokerUp

(* Whoever waits for a retry waits at most the cap, across the wrap of the     *)
(* clock.  The proviso is the code's: a failed attempt alone writes a          *)
(* deadline, so a connection that lasts longer than half the clock (24.8 days) *)
(* leaves one that reads as the future, up to 24.8 days away.                  *)
WaitIsBounded ==
    /\ wifiElapsed < Half => SignedDifference(wifiNextAttempt, now) <= MaxBackoff
    /\ mqttElapsed < Half => SignedDifference(mqttNextAttempt, now) <= MaxBackoff

(* Attempts that fail start at least the backoff apart, also when the clock    *)
(* wraps in between and however long connect() blocks.                         *)
BackoffIsHonoured ==
    [][turn = "mqtt" /\ ~mqtt /\ mqttVars' # mqttVars /\ mqttFailed
           => mqttElapsed >= mqttBackoff]_backoffVars

(* What a retry loop is for.  With an access point that stays, the station     *)
(* joins, although every attempt restarts the association: the growth of the   *)
(* backoff is what lets a slow one finish.  With a broker that stays too, MQTT *)
(* comes back.                                                                 *)
Reconnects ==
    /\ <>[]apUp => <>[](wifi = "on")
    /\ <>[](apUp /\ brokerUp) => <>[]mqtt
================================================================================
