------------------------------ MODULE Provisioning ------------------------------
(* Provisioning a device over BLE: the app's pairing wizard, the NimBLE task   *)
(* of the firmware that saves the credentials and hands them to loop(), setup  *)
(* after a reset, and everything that tells the Wi-Fi station what to join.    *)
(* The k-th BLE write carries k as its ssid, psk and jwt; 0 stands for the     *)
(* compile-time network and for a key that is missing.                         *)
EXTENDS Naturals

CONSTANTS
    MaxWrites,   \* bound: BLE writes
    MaxResets    \* bound: resets of the device

ASSUME ProvisioningAssumption == MaxWrites \in Nat /\ MaxResets \in Nat

VARIABLES
    nvs,          \* [ssid, psk, jwt] of WifiProvisioner, token of NvsJwt
    task,         \* the NimBLE task: number of its next step, 0 when idle
    write,        \* the write it handles or has handled last
    creds,        \* pendingCreds
    pending,      \* pendingProvision
    pc,           \* where setup() or loop() is
    reading,      \* the ssid it has read from pendingCreds
    station,      \* [ssid, psk] of the last WiFi.begin
    up,           \* WiFi.status() == WL_CONNECTED
    jwt,          \* MqttPublisher::_jwtCredential
    provisioned,  \* wifiProvisioned
    was,          \* wifiWasConnected
    shown,        \* wifi_status: connected
    wizard,       \* PairingStep, with the calls of submitProvisioning
    linked,       \* the app's BLE connection
    works,        \* credentials that are right, of networks in reach
    taken,        \* [ssid, psk] the provisioning block has used last
    sent,         \* the last write this boot has handed to loop()
    resets

flash == <<nvs>>
nimble == <<task, write, creds>>
main == <<pc, reading, jwt, provisioned, was, shown, taken>>
radio == <<station, up>>
app == <<wizard, linked>>
vars == <<flash, nimble, pending, main, radio, app, works, sent, resets>>

Write == 1 .. MaxWrites
Torn == MaxWrites + 1
Network(n) == [ssid |-> n, psk |-> n]
CompileTime == Network(0)

Init ==
    /\ nvs = [ssid |-> 0, psk |-> 0, jwt |-> 0, token |-> 0]
    /\ task = 0 /\ write = 0 /\ creds = [ssid |-> 0, psk |-> 0, jwt |-> 0]
    /\ pending = FALSE
    /\ pc = "wait" /\ reading = 0 /\ station = CompileTime /\ up = FALSE
    /\ jwt = 0 /\ provisioned = FALSE /\ was = FALSE /\ shown = FALSE
    /\ wizard = "scan" /\ linked = FALSE
    /\ works \in SUBSET (0 .. MaxWrites)
    /\ taken = CompileTime /\ sent = 0 /\ resets = 0

--------------------------------------------------------------------------------
(* onWrite and onProvisionReceived, in the NimBLE task.  The app's form admits *)
(* what onWrite accepts.                                                       *)

Assigns == <<"none", "none", "none", "none", "ssid", "psk", "jwt", "none">>

(* saveCredentials commits key by key; nvs_store_jwt keeps a copy.             *)
SaveKey ==
    /\ task \in 1 .. 4 /\ task' = task + 1
    /\ nvs' = [nvs EXCEPT ![<<"ssid", "psk", "jwt", "token">>[task]] = write]
    /\ UNCHANGED <<write, creds, pending, main, radio, app, works, sent, resets>>

(* pendingCreds = creds, member by member.                                     *)
AssignCreds ==
    /\ task \in 5 .. 7 /\ task' = task + 1
    /\ creds' = [creds EXCEPT ![Assigns[task]] = write]
    /\ UNCHANGED <<flash, write, pending, main, radio, app, works, sent, resets>>

SetPending ==
    /\ task = 8 /\ task' = 0
    /\ pending' = TRUE /\ sent' = write
    /\ UNCHANGED <<flash, write, creds, main, radio, app, works, resets>>

--------------------------------------------------------------------------------
(* The Wi-Fi station.                                                          *)

(* WiFi.begin keeps a connection it finds with the same configuration.         *)
WiFiBegin(network) ==
    /\ station' = network
    /\ up' = (up /\ station = network)

StationJoins ==
    /\ ~up /\ pc \notin {"ssid", "psk"}
    /\ station.ssid = station.psk /\ station.ssid \in works
    /\ up' = TRUE
    /\ UNCHANGED <<flash, nimble, pending, main, station, app, works, sent, resets>>

StationDrops ==
    /\ up /\ up' = FALSE
    /\ UNCHANGED <<flash, nimble, pending, main, station, app, works, sent, resets>>

--------------------------------------------------------------------------------
(* loop().  The NimBLE task may run between any two of its reads; one that     *)
(* meets an assignment under way reads anything.                               *)

Reads(field) == {creds[field]} \cup (IF task # 0 /\ Assigns[task] = field THEN {Torn} ELSE {})

(* The radio is switched off before the credentials are read.                  *)
TakeFlag ==
    /\ pc = "flag" /\ pending' = FALSE
    /\ pc' = IF pending THEN "ssid" ELSE "edge"
    /\ up' = (up /\ ~pending)
    /\ UNCHANGED <<flash, nimble, reading, station, jwt, provisioned, was, shown, taken, app,
                   works, sent, resets>>

ReadSsid ==
    /\ pc = "ssid" /\ pc' = "psk"
    /\ reading' \in Reads("ssid")
    /\ UNCHANGED <<flash, nimble, pending, radio, jwt, provisioned, was, shown, taken, app,
                   works, sent, resets>>

ReadPsk ==
    /\ pc = "psk" /\ pc' = "jwt"
    /\ \E psk \in Reads("psk") :
           /\ taken' = [ssid |-> reading, psk |-> psk]
           /\ station' = taken'
    /\ UNCHANGED <<flash, nimble, pending, reading, up, jwt, provisioned, was, shown, app,
                   works, sent, resets>>

(* Mutant: the flag is cleared once more when the credentials have been read.  *)
ClearsFlagAgain ==
    /\ pc = "jwt" /\ pc' = "edge"
    /\ jwt' \in Reads("jwt")
    /\ provisioned' = TRUE /\ pending' = FALSE
    /\ UNCHANGED <<flash, nimble, reading, radio, was, shown, taken, app, works, sent, resets>>

ReadJwt ==
    /\ pc = "jwt" /\ pc' = "edge"
    /\ jwt' \in Reads("jwt")
    /\ provisioned' = TRUE
    /\ UNCHANGED <<flash, nimble, pending, reading, radio, was, shown, taken, app, works, sent,
                   resets>>

(* The Wi-Fi edges: wifi_status follows, and the first edge of a provisioned   *)
(* device calls MqttPublisher::begin.                                          *)
WifiEdge ==
    /\ pc = "edge" /\ pc' = "mqtt"
    /\ was' = up /\ shown' = IF up = was THEN shown ELSE up
    /\ IF up /\ ~was /\ provisioned THEN WiFiBegin(CompileTime) ELSE UNCHANGED radio
    /\ UNCHANGED <<flash, nimble, pending, reading, jwt, provisioned, taken, app, works, sent,
                   resets>>

(* MqttPublisher::ensureWifi, when its deadline has come and before.           *)
EnsureWifi ==
    /\ pc = "mqtt" /\ pc' = "flag"
    /\ \/ UNCHANGED radio
       \/ ~up /\ WiFiBegin(CompileTime)
    /\ UNCHANGED <<flash, nimble, pending, reading, jwt, provisioned, was, shown, taken, app,
                   works, sent, resets>>

--------------------------------------------------------------------------------
(* setup().                                                                    *)

(* A reset, up to the wait for Wi-Fi: stored credentials are given to the      *)
(* station, and MqttPublisher::begin follows.                                  *)
Reset ==
    /\ resets < MaxResets /\ resets' = resets + 1
    /\ task' = 0 /\ creds' = [ssid |-> 0, psk |-> 0, jwt |-> 0] /\ pending' = FALSE
    /\ pc' = "wait" /\ reading' = 0
    /\ station' = CompileTime /\ up' = FALSE
    /\ provisioned' = (nvs.ssid # 0)
    /\ jwt' = IF nvs.ssid # 0 THEN nvs.jwt ELSE nvs.token
    /\ was' = FALSE /\ shown' = FALSE
    /\ taken' = CompileTime /\ sent' = 0
    /\ linked' = FALSE
    /\ UNCHANGED <<flash, write, wizard, works>>

(* The wait has ended: wifi_status is set from one look at the station, and    *)
(* wifiWasConnected from another.                                              *)
SetupShowsWifi ==
    /\ pc = "wait" /\ pc' = "shown"
    /\ shown' = up
    /\ UNCHANGED <<flash, nimble, pending, reading, radio, jwt, provisioned, was, taken, app,
                   works, sent, resets>>

SetupEnds ==
    /\ pc = "shown" /\ pc' = "flag"
    /\ was' = up
    /\ UNCHANGED <<flash, nimble, pending, reading, radio, jwt, provisioned, shown, taken, app,
                   works, sent, resets>>

--------------------------------------------------------------------------------
(* The pairing wizard.                                                         *)

Step(from, to) == wizard \in from /\ wizard' = to

Unchanged == UNCHANGED <<flash, pending, main, radio, works, sent, resets>>

(* selectDevice connects and skips the form when the device says it is online. *)
SelectDevice ==
    /\ Step({"scan", "error"}, IF shown THEN "claiming" ELSE "form")
    /\ linked' = TRUE
    /\ Unchanged /\ UNCHANGED nimble

LinkLost ==
    /\ linked /\ linked' = FALSE
    /\ Unchanged /\ UNCHANGED <<nimble, wizard>>

(* submitProvisioning: POST /devices/provision first.                          *)
SubmitProvisioning ==
    /\ Step({"form"}, "posting")
    /\ Unchanged /\ UNCHANGED <<nimble, linked>>

ProvisionAnswered ==
    /\ Step({"posting"}, "token") \/ Step({"posting"}, "error")
    /\ Unchanged /\ UNCHANGED <<nimble, linked>>

(* provisionWifi: the write arrives, or fails on its way.                      *)
WriteArrives ==
    /\ Step({"token"}, "writing")
    /\ linked /\ task = 0 /\ write < MaxWrites
    /\ write' = write + 1 /\ task' = 1
    /\ Unchanged /\ UNCHANGED <<creds, linked>>

WriteFails ==
    /\ Step({"token", "writing"}, "error")
    /\ Unchanged /\ UNCHANGED <<nimble, linked>>

(* Mutant: a write without response.                                           *)
WriteReturns ==
    /\ Step({"writing"}, "polling")
    /\ linked
    /\ Unchanged /\ UNCHANGED <<nimble, linked>>

(* NimBLE responds when onWrite has returned.                                  *)
WriteResponse ==
    /\ Step({"writing"}, "polling")
    /\ linked /\ task = 0
    /\ Unchanged /\ UNCHANGED <<nimble, linked>>

PollSeesWifi ==
    /\ Step({"polling"}, "joined")
    /\ linked /\ shown
    /\ Unchanged /\ UNCHANGED <<nimble, linked>>

PollTimesOut ==
    /\ Step({"polling"}, "error")
    /\ Unchanged /\ UNCHANGED <<nimble, linked>>

(* _doClaim after a poll, at once, or by skipProvisioning.                     *)
Claim ==
    /\ \/ Step({"form"}, "claiming")
       \/ Step({"joined", "claiming"}, "error")
       \/ Step({"claiming"}, "named")
       \/ Step({"joined"}, "ready")
    /\ Unchanged /\ UNCHANGED <<nimble, linked>>

--------------------------------------------------------------------------------

Firmware ==
    \/ SaveKey \/ AssignCreds \/ SetPending
    \/ TakeFlag \/ ReadSsid \/ ReadPsk \/ ReadJwt \/ WifiEdge \/ EnsureWifi
    \/ SetupShowsWifi \/ SetupEnds \/ Reset

App ==
    \/ SelectDevice \/ LinkLost \/ SubmitProvisioning \/ ProvisionAnswered
    \/ WriteArrives \/ WriteFails \/ WriteResponse
    \/ PollSeesWifi \/ PollTimesOut \/ Claim

Next == Firmware \/ App \/ StationJoins \/ StationDrops

Spec == Init /\ [][Next]_vars

--------------------------------------------------------------------------------

Value == 0 .. Torn

(* Type invariant.  Nothing torn ever reaches the flash.                       *)
TypeOK ==
    /\ nvs \in [{"ssid", "psk", "jwt", "token"} -> 0 .. MaxWrites]
    /\ task \in 0 .. 8 /\ write \in 0 .. MaxWrites
    /\ creds \in [{"ssid", "psk", "jwt"} -> 0 .. MaxWrites]
    /\ pc \in {"wait", "shown", "flag", "ssid", "psk", "jwt", "edge", "mqtt"}
    /\ reading \in Value /\ jwt \in Value
    /\ {station, taken} \subseteq [{"ssid", "psk"} -> Value]
    /\ {pending, up, provisioned, was, shown, linked} \subseteq BOOLEAN
    /\ wizard \in {"scan", "form", "posting", "token", "writing", "polling", "joined",
                   "claiming", "ready", "named", "error"}
    /\ up => station.ssid = station.psk /\ station.ssid \in works
    /\ works \subseteq 0 .. MaxWrites /\ sent \in 0 .. write /\ resets \in 0 .. MaxResets

(* The hand-over without a lock settles on the last write: whatever mixture of *)
(* two writes, or torn string, loop() may have read on the way, once the       *)
(* NimBLE task rests and no write waits, the network and the token it used     *)
(* last are those of the last write, whole.                                    *)
LastWriteIsTaken ==
    task = 0 /\ ~pending /\ pc \notin {"ssid", "psk", "jwt"} /\ sent # 0 =>
        taken = Network(sent) /\ jwt = sent

(* When the wizard goes on after the write, and when it ends, the flash holds  *)
(* that write in all four keys, through resets of the device and responses of  *)
(* earlier writes that were lost: what the user is told is set up survives.    *)
WizardMeansStored ==
    wizard \in {"polling", "joined", "ready"} =>
        \A key \in DOMAIN nvs : nvs[key] = write
================================================================================
