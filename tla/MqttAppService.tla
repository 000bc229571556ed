---------------------------- MODULE MqttAppService ----------------------------
(* The app's MqttService and its lifecycle observer.  connect and the token    *)
(* refresh are asynchronous: each waits for credentials, then for its client   *)
(* to dial, and nothing keeps two of them from being under way together.  An   *)
(* MqttServerClient is named by a slot; the user has at least one device.      *)
EXTENDS Naturals, FiniteSets

CONSTANTS
    Client,    \* bound: clients in use at a time
    MaxWork    \* bound on Work: connections, calls and timers at a time

None == "none"

ASSUME ServiceAssumption ==
    IsFiniteSet(Client) /\ None \notin Client /\ MaxWork \in 1 .. Cardinality(Client)

VARIABLES
    client,         \* "off", "dialing", "up", "stale": broken, status still connected
    current,        \* _client
    listening,      \* the client _updatesSubscription listens to
    intentional,    \* _intentionalDisconnect
    fetching,       \* connect calls waiting for credentials
    renewing,       \* token refreshes waiting for credentials
    dialing,        \* [client, by]: calls waiting for their client
    held,           \* the timer of _reconnectTimer is pending
    orphans,        \* reconnect timers that are pending and no longer referenced
    arming,         \* _scheduleTokenRefresh waits for the storage
    refreshTimer,   \* the timer of _refreshTimer is pending
    disconnectTimer,
    foreground, netUp,
    replaced,       \* clients in use that connect has put another in the place of
    deafened        \* one of them has dropped since a client was listened to last

calls == <<fetching, renewing, dialing>>
timers == <<held, orphans, arming, refreshTimer, disconnectTimer>>
world == <<foreground, netUp>>
observer == <<replaced, deafened>>
vars == <<client, current, listening, intentional, calls, timers, world, observer>>

Connected(c) == c # None /\ client[c] \in {"up", "stale"}

Dial == [client : Client, by : {"connect", "refresh"}]

(* What is under way or may still come of what is: a refresh counts twice, its *)
(* disconnect may arm a reconnect timer, and so may the drop of a connection.  *)
Work ==
    fetching + 2 * renewing + Cardinality(dialing) + orphans + (IF held THEN 1 ELSE 0)
        + Cardinality({c \in Client : Connected(c)})

(* _postLoginSetup has called connect.                                         *)
Init ==
    /\ client = [c \in Client |-> "off"] /\ current = None /\ listening = None
    /\ intentional = FALSE
    /\ fetching = 1 /\ renewing = 0 /\ dialing = {}
    /\ held = FALSE /\ orphans = 0 /\ arming = FALSE /\ refreshTimer = FALSE
    /\ disconnectTimer = FALSE
    /\ foreground = TRUE /\ netUp \in BOOLEAN
    /\ replaced = {} /\ deafened = FALSE

--------------------------------------------------------------------------------

(* _scheduleReconnect: a timer that is pending is not cancelled, only lost.    *)
ScheduleReconnect ==
    /\ held' = TRUE
    /\ orphans' = IF held THEN orphans + 1 ELSE orphans

(* connect, up to its first await: a no-op when _client is connected.          *)
Connect ==
    IF Connected(current)
    THEN UNCHANGED <<intentional, fetching>>
    ELSE intentional' = FALSE /\ fetching' = fetching + 1

(* _onDisconnected, of whichever client: it cancels the one subscription.      *)
OnDisconnected ==
    /\ listening' = None
    /\ IF intentional THEN UNCHANGED <<held, orphans>> ELSE ScheduleReconnect

Free(c) == client[c] = "off" /\ \A d \in dialing : d.client # c

(* _connectWithCredentials: the new client becomes _client before it dials.    *)
DialWith(c, by, clients) ==
    /\ client' = [clients EXCEPT ![c] = "dialing"]
    /\ current' = c
    /\ dialing' = dialing \cup {[client |-> c, by |-> by]}

--------------------------------------------------------------------------------
(* connect.                                                                    *)

(* Nothing looks at _client after the await: the client of another call, or of *)
(* a token refresh that has got ahead, stays connected or goes on dialling.    *)
CredentialsArrive ==
    /\ fetching > 0 /\ netUp
    /\ fetching' = fetching - 1
    /\ \E c \in Client : Free(c) /\ DialWith(c, "connect", client)
    /\ replaced' = replaced \cup {c \in Client : c = current /\ client[c] # "off"}
    /\ UNCHANGED <<listening, intentional, renewing, timers, world, deafened>>

(* Mutant: nothing is scheduled when the backend cannot be reached.            *)
CredentialsFailQuietly ==
    /\ fetching > 0 /\ ~netUp
    /\ fetching' = fetching - 1
    /\ UNCHANGED <<client, current, listening, intentional, renewing, dialing, timers,
                   world, observer>>

CredentialsFail ==
    /\ fetching > 0 /\ ~netUp
    /\ fetching' = fetching - 1
    /\ ScheduleReconnect
    /\ UNCHANGED <<client, current, listening, intentional, renewing, dialing, arming,
                   refreshTimer, disconnectTimer, world, observer>>

--------------------------------------------------------------------------------
(* _doTokenRefresh.                                                            *)

(* Mutant: the old client is left alone.                                       *)
RenewalKeepsClient ==
    /\ renewing > 0 /\ netUp
    /\ renewing' = renewing - 1
    /\ \E c \in Client : Free(c) /\ DialWith(c, "refresh", client)
    /\ UNCHANGED <<listening, intentional, fetching, timers, world, observer>>

(* The old client is disconnected, and its callback arms the reconnect timer.  *)
RenewalArrives ==
    /\ renewing > 0 /\ netUp
    /\ renewing' = renewing - 1
    /\ \/ /\ current # None
          /\ OnDisconnected
          /\ \E c \in Client :
                 Free(c) /\ DialWith(c, "refresh", [client EXCEPT ![current] = "off"])
       \/ /\ current = None
          /\ \E c \in Client : Free(c) /\ DialWith(c, "refresh", client)
          /\ UNCHANGED <<listening, held, orphans>>
    /\ UNCHANGED <<intentional, fetching, arming, refreshTimer, disconnectTimer, world,
                   observer>>

RenewalFails ==
    /\ renewing > 0 /\ ~netUp
    /\ renewing' = renewing - 1
    /\ UNCHANGED <<client, current, listening, intentional, fetching, dialing, timers,
                   world, observer>>

(* _scheduleTokenRefresh after its await; two that overlap count as one.       *)
ArmRefresh ==
    /\ arming /\ arming' = FALSE
    /\ refreshTimer' = TRUE
    /\ UNCHANGED <<client, current, listening, intentional, calls, held, orphans,
                   disconnectTimer, world, observer>>

RefreshFires ==
    /\ refreshTimer /\ Work + 2 <= MaxWork
    /\ refreshTimer' = FALSE
    /\ renewing' = renewing + 1
    /\ UNCHANGED <<client, current, listening, intentional, fetching, dialing, held,
                   orphans, arming, disconnectTimer, world, observer>>

--------------------------------------------------------------------------------
(* MqttServerClient.                                                           *)

(* CONNACK.  _onConnected works on _client, which need not be the client that  *)
(* has connected: subscribing throws on one that is not, and on null.          *)
DialSucceeds(d) ==
    /\ d \in dialing /\ client[d.client] = "dialing" /\ netUp
    /\ client' = [client EXCEPT ![d.client] = "up"]
    /\ dialing' = dialing \ {d}
    /\ IF current = d.client \/ Connected(current)
       THEN /\ listening' = current /\ deafened' = FALSE
            /\ arming' = TRUE /\ refreshTimer' = FALSE
       ELSE UNCHANGED <<listening, deafened, arming, refreshTimer>>
    /\ UNCHANGED <<current, intentional, fetching, renewing, held, orphans,
                   disconnectTimer, world, replaced>>

(* No connection, or a client that was disconnected while it dialled.  connect *)
(* schedules the next attempt whatever _intentionalDisconnect says.            *)
DialFails(d) ==
    /\ d \in dialing
    /\ client[d.client] = "off" \/ ~netUp
    /\ client' = [client EXCEPT ![d.client] = "off"]
    /\ dialing' = dialing \ {d}
    /\ IF d.by = "connect" THEN ScheduleReconnect ELSE UNCHANGED <<held, orphans>>
    /\ replaced' = replaced \ {d.client}
    /\ UNCHANGED <<current, listening, intentional, fetching, renewing, arming,
                   refreshTimer, disconnectTimer, world, deafened>>

(* The client is in use no more.                                               *)
Ends(c) ==
    /\ client' = [client EXCEPT ![c] = "off"]
    /\ replaced' = replaced \ {c}
    /\ deafened' = (deafened \/ c \in replaced)

(* Mutants: the callback keeps the subscription, or schedules nothing.         *)
DropKeepsListening(c) ==
    /\ client[c] = "stale" /\ Ends(c)
    /\ IF intentional THEN UNCHANGED <<held, orphans>> ELSE ScheduleReconnect
    /\ UNCHANGED <<current, listening, intentional, calls, arming, refreshTimer,
                   disconnectTimer, world>>

DropsQuietly(c) ==
    /\ client[c] = "stale" /\ Ends(c)
    /\ listening' = None
    /\ UNCHANGED <<current, intentional, calls, timers, world>>

(* A broken connection is noticed.                                             *)
Drop(c) ==
    /\ client[c] = "stale" /\ Ends(c)
    /\ OnDisconnected
    /\ UNCHANGED <<current, intentional, calls, arming, refreshTimer, disconnectTimer,
                   world>>

NetworkFails ==
    /\ netUp /\ netUp' = FALSE
    /\ client' = [c \in Client |-> IF client[c] = "up" THEN "stale" ELSE client[c]]
    /\ UNCHANGED <<current, listening, intentional, calls, timers, foreground, observer>>

NetworkReturns ==
    /\ ~netUp /\ netUp' = TRUE
    /\ UNCHANGED <<client, current, listening, intentional, calls, timers, foreground,
                   observer>>

--------------------------------------------------------------------------------
(* The reconnect timers and the lifecycle observer.                            *)

TimerFires ==
    /\ held /\ held' = FALSE /\ Connect
    /\ UNCHANGED <<client, current, listening, renewing, dialing, orphans, arming,
                   refreshTimer, disconnectTimer, world, observer>>

(* connect cancels the timer it knows of.                                      *)
OrphanFires ==
    /\ orphans > 0 /\ orphans' = orphans - 1
    /\ Connect
    /\ held' = (held /\ Connected(current))
    /\ UNCHANGED <<client, current, listening, renewing, dialing, arming, refreshTimer,
                   disconnectTimer, world, observer>>

(* paused: scheduleBackgroundDisconnect.                                       *)
Pause ==
    /\ foreground /\ foreground' = FALSE
    /\ disconnectTimer' = TRUE
    /\ UNCHANGED <<client, current, listening, intentional, calls, held, orphans, arming,
                   refreshTimer, netUp, observer>>

(* resumed: cancelBackgroundDisconnect and connect.                            *)
Resume ==
    /\ ~foreground /\ foreground' = TRUE
    /\ Connected(current) \/ Work < MaxWork
    /\ disconnectTimer' = FALSE
    /\ Connect
    /\ held' = (held /\ Connected(current))
    /\ UNCHANGED <<client, current, listening, renewing, dialing, orphans, arming,
                   refreshTimer, netUp, observer>>

(* disconnect, 30 s after the app was paused.                                  *)
Disconnect ==
    /\ disconnectTimer /\ disconnectTimer' = FALSE
    /\ intentional' = TRUE
    /\ refreshTimer' = FALSE /\ held' = FALSE
    /\ listening' = None /\ current' = None
    /\ client' = [c \in Client |-> IF c = current THEN "off" ELSE client[c]]
    /\ UNCHANGED <<calls, orphans, arming, world, observer>>

--------------------------------------------------------------------------------

FetchEnds == CredentialsArrive \/ CredentialsFail
DialEnds == \E d \in dialing : DialSucceeds(d) \/ DialFails(d)

Next ==
    \/ FetchEnds \/ RenewalArrives \/ RenewalFails \/ ArmRefresh \/ RefreshFires
    \/ DialEnds \/ \E c \in Client : Drop(c)
    \/ NetworkFails \/ NetworkReturns
    \/ TimerFires \/ OrphanFires \/ Pause \/ Resume \/ Disconnect

(* Calls end, timers fire and a broken connection is noticed; the user and the *)
(* network owe nothing.                                                        *)
Spec ==
    /\ Init /\ [][Next]_vars
    /\ WF_vars(FetchEnds) /\ WF_vars(RenewalArrives \/ RenewalFails)
    /\ WF_vars(DialEnds) /\ WF_vars(TimerFires) /\ WF_vars(OrphanFires)
    /\ \A c \in Client : WF_vars(Drop(c))

--------------------------------------------------------------------------------

(* Type invariant.  A client dials for exactly one call.                       *)
TypeOK ==
    /\ client \in [Client -> {"off", "dialing", "up", "stale"}]
    /\ {current, listening} \subseteq Client \cup {None}
    /\ {intentional, held, arming, refreshTimer, disconnectTimer, foreground, netUp,
        deafened} \subseteq BOOLEAN
    /\ replaced \subseteq Client
    /\ Work \in 0 .. MaxWork
    /\ dialing \subseteq Dial
    /\ \A c \in Client : client[c] = "dialing" => \E d \in dialing : d.client = c
    /\ \A d, e \in dialing : d.client = e.client => d = e

(* The service never ends up with nothing to do and no connection: unless it   *)
(* was told to disconnect, it is connected, a call of connect is under way, or *)
(* a reconnect timer is pending.                                               *)
NeverIdle ==
    ~intentional =>
        \/ Connected(current) \/ fetching > 0 \/ held \/ orphans > 0
        \/ \E d \in dialing : d.by = "connect"

(* The subscription never outlives its client's connection.                    *)
ListenerIsLive == listening # None => Connected(listening)

(* Beside _client only clients are in use that a call of connect has replaced, *)
(* one that another call of connect had dialled or one that a token refresh    *)
(* had: a refresh, a drop and a background disconnect leave none behind.  And  *)
(* a connected _client is listened to, unless one of those has dropped since.  *)
SingleConnection ==
    /\ \A c \in Client : client[c] # "off" => c = current \/ c \in replaced
    /\ Connected(current) => listening = current \/ deafened

(* With the network back for good and the app in the foreground, the service   *)
(* is connected in the end, unless it still thinks it should not be.           *)
Reconnects ==
    <>[](netUp /\ foreground /\ ~intentional) => []<>(Connected(current) /\ client[current] = "up")
================================================================================
