--------------------------- MODULE ProvisioningProofs ---------------------------
(* Proofs about the hand-over of the credentials from the NimBLE task to the   *)
(* flash, to loop() and to the app's wizard, for any number of writes and      *)
(* resets.                                                                     *)
EXTENDS Provisioning, TLAPS

Key == {"ssid", "psk", "jwt", "token"}
Field == {"ssid", "psk", "jwt"}

(* The two stores keep their keys, and the task is at one of its steps.        *)
Shape ==
    /\ DOMAIN nvs = Key /\ DOMAIN creds = Field
    /\ nvs = [k \in Key |-> nvs[k]] /\ creds = [f \in Field |-> creds[f]]
    /\ task \in 0 .. 8

(* What the task has done of the write it handles.                             *)
TaskProgress ==
    /\ task > 1 => nvs["ssid"] = write
    /\ task > 2 => nvs["psk"] = write
    /\ task > 3 => nvs["jwt"] = write
    /\ task > 4 => nvs["token"] = write
    /\ task > 5 => creds["ssid"] = write
    /\ task > 6 => creds["psk"] = write
    /\ task > 7 => creds["jwt"] = write

AllStored == \A k \in Key : nvs[k] = write

(* While the link that carried the write lasts, a task at rest has stored it;  *)
(* past the response no task is under way.                                     *)
WizardWaits ==
    /\ wizard = "writing" /\ linked /\ task = 0 => AllStored
    /\ wizard \in {"polling", "joined", "ready"} => task = 0 /\ AllStored

(* A task at rest leaves the last write in pendingCreds, and what loop() has   *)
(* read of it since it took the flag is of that write.                         *)
HandOver ==
    task = 0 /\ sent # 0 =>
        /\ \A f \in Field : creds[f] = sent
        /\ ~pending =>
             /\ pc = "psk" => reading = sent
             /\ pc \notin {"ssid", "psk"} => taken = Network(sent)
             /\ pc \notin {"ssid", "psk", "jwt"} => jwt = sent

IInv == Shape /\ TaskProgress /\ WizardWaits /\ HandOver

--------------------------------------------------------------------------------
(* The NimBLE task.                                                            *)

LEMMA StoreUpdated ==
    ASSUME NEW S, NEW old, old = [x \in S |-> old[x]], NEW key, NEW value,
           NEW new, new = [old EXCEPT ![key] = value]
    PROVE  DOMAIN new = S /\ new = [x \in S |-> new[x]]
  OBVIOUS

LEMMA KeyNames ==
    LET names == <<"ssid", "psk", "jwt", "token">> IN
    names[1] = "ssid" /\ names[2] = "psk" /\ names[3] = "jwt" /\ names[4] = "token"
  OBVIOUS

LEMMA FieldNames == Assigns[5] = "ssid" /\ Assigns[6] = "psk" /\ Assigns[7] = "jwt"
  BY DEF Assigns

LEMMA SaveKeyStep == IInv /\ SaveKey => IInv'
  <1> SUFFICES ASSUME IInv, SaveKey PROVE IInv'
    OBVIOUS
  <1> USE DEF IInv, Shape, Key, Field, SaveKey, main, radio, app
  <1>1. task \in {1, 2, 3, 4} /\ task' = task + 1 /\ write' = write /\ creds' = creds
    OBVIOUS
  <1>2. /\ task = 1 => nvs' = [nvs EXCEPT !["ssid"] = write]
        /\ task = 2 => nvs' = [nvs EXCEPT !["psk"] = write]
        /\ task = 3 => nvs' = [nvs EXCEPT !["jwt"] = write]
        /\ task = 4 => nvs' = [nvs EXCEPT !["token"] = write]
    BY KeyNames
  <1>3. Shape'
    <2>1. DOMAIN nvs' = Key /\ nvs' = [k \in Key |-> nvs'[k]]
      <3>1. PICK key : nvs' = [nvs EXCEPT ![key] = write]
        BY <1>1, <1>2
      <3>2. nvs = [k \in Key |-> nvs[k]]
        OBVIOUS
      <3> HIDE DEF Key, IInv, Shape
      <3> QED
        BY <3>1, <3>2, StoreUpdated
    <2> QED
      BY <1>1, <2>1
  <1>4. TaskProgress'
    <2>1. CASE task = 1
      BY <1>1, <2>1 DEF TaskProgress
    <2>2. CASE task = 2
      BY <1>1, <2>2 DEF TaskProgress
    <2>3. CASE task = 3
      BY <1>1, <2>3 DEF TaskProgress
    <2>4. CASE task = 4
      BY <1>1, <2>4 DEF TaskProgress
    <2> QED
      BY <1>1, <2>1, <2>2, <2>3, <2>4
  <1>5. WizardWaits'
    BY <1>1 DEF WizardWaits
  <1>6. HandOver'
    BY <1>1 DEF HandOver
  <1> QED
    BY <1>3, <1>4, <1>5, <1>6

LEMMA AssignCredsStep == IInv /\ AssignCreds => IInv'
  <1> SUFFICES ASSUME IInv, AssignCreds PROVE IInv'
    OBVIOUS
  <1> USE DEF IInv, Shape, Key, Field, AssignCreds, flash, main, radio, app
  <1>1. task \in {5, 6, 7} /\ task' = task + 1 /\ write' = write /\ nvs' = nvs
    OBVIOUS
  <1>2. /\ task = 5 => creds' = [creds EXCEPT !["ssid"] = write]
        /\ task = 6 => creds' = [creds EXCEPT !["psk"] = write]
        /\ task = 7 => creds' = [creds EXCEPT !["jwt"] = write]
    BY FieldNames
  <1>3. Shape'
    <2>1. DOMAIN creds' = Field /\ creds' = [f \in Field |-> creds'[f]]
      <3>1. PICK key : creds' = [creds EXCEPT ![key] = write]
        BY <1>1, <1>2
      <3>2. creds = [f \in Field |-> creds[f]]
        OBVIOUS
      <3> HIDE DEF Field, IInv, Shape
      <3> QED
        BY <3>1, <3>2, StoreUpdated
    <2> QED
      BY <1>1, <2>1
  <1>4. TaskProgress'
    BY <1>1, <1>2 DEF TaskProgress
  <1>5. WizardWaits'
    BY <1>1 DEF WizardWaits
  <1>6. HandOver'
    BY <1>1 DEF HandOver
  <1> QED
    BY <1>3, <1>4, <1>5, <1>6

(* The task comes to rest: everything is stored, assigned and announced.       *)
LEMMA SetPendingStep == IInv /\ SetPending => IInv'
  <1> SUFFICES ASSUME IInv, SetPending PROVE IInv'
    OBVIOUS
  <1> USE DEF IInv, Shape, SetPending, flash, main, radio, app
  <1>1. AllStored /\ \A f \in Field : creds[f] = write
    BY DEF TaskProgress, AllStored, Key, Field
  <1>2. Shape'
    OBVIOUS
  <1>3. TaskProgress'
    BY DEF TaskProgress
  <1>4. WizardWaits'
    BY <1>1 DEF WizardWaits, AllStored
  <1>5. HandOver'
    BY <1>1 DEF HandOver
  <1> QED
    BY <1>2, <1>3, <1>4, <1>5

--------------------------------------------------------------------------------
(* loop(), setup() and the station.                                            *)

(* What they leave alone keeps all of the invariant but the hand-over.         *)
LEMMA LoopKeeps ==
    ASSUME IInv, UNCHANGED <<flash, nimble, app, sent>>
    PROVE  Shape' /\ TaskProgress' /\ WizardWaits'
  BY DEF IInv, Shape, TaskProgress, WizardWaits, AllStored, flash, nimble, app

LEMMA LoopHandOver ==
    ASSUME IInv,
           TakeFlag \/ ReadSsid \/ ReadPsk \/ ReadJwt \/ WifiEdge \/ EnsureWifi
             \/ SetupShowsWifi \/ SetupEnds \/ StationJoins \/ StationDrops
    PROVE  HandOver' /\ UNCHANGED <<flash, nimble, app, sent>>
  <1> USE DEF IInv, HandOver, flash, nimble, radio, app, main
  <1>1. CASE TakeFlag
    BY <1>1 DEF TakeFlag
  <1>2. CASE ReadSsid
    BY <1>2 DEF ReadSsid, Reads, Field
  <1>3. CASE ReadPsk
    BY <1>3 DEF ReadPsk, Reads, Field, Network
  <1>4. CASE ReadJwt
    BY <1>4 DEF ReadJwt, Reads, Field
  <1>5. CASE WifiEdge
    BY <1>5 DEF WifiEdge
  <1>6. CASE EnsureWifi
    BY <1>6 DEF EnsureWifi
  <1>7. CASE SetupShowsWifi
    BY <1>7 DEF SetupShowsWifi
  <1>8. CASE SetupEnds
    BY <1>8 DEF SetupEnds
  <1>9. CASE StationJoins
    BY <1>9 DEF StationJoins
  <1>10. CASE StationDrops
    BY <1>10 DEF StationDrops
  <1> QED
    BY <1>1, <1>2, <1>3, <1>4, <1>5, <1>6, <1>7, <1>8, <1>9, <1>10

(* A reset drops the link, the task and the hand-over, and keeps the flash.    *)
LEMMA ResetStep == IInv /\ Reset => IInv'
  <1> SUFFICES ASSUME IInv, Reset PROVE IInv'
    OBVIOUS
  <1> USE DEF IInv, Reset, flash
  <1>1. Shape'
    BY DEF Shape, Field
  <1>2. TaskProgress'
    BY DEF TaskProgress
  <1>3. WizardWaits'
    BY DEF WizardWaits, AllStored
  <1>4. HandOver'
    BY DEF HandOver
  <1> QED
    BY <1>1, <1>2, <1>3, <1>4

--------------------------------------------------------------------------------
(* The wizard.                                                                 *)

LEMMA AppStep == IInv /\ App => IInv'
  <1> SUFFICES ASSUME IInv, App PROVE IInv'
    OBVIOUS
  <1> USE DEF IInv, Step, Unchanged, flash, nimble, main, radio
  <1> DEFINE AppActs ==
        SelectDevice \/ LinkLost \/ SubmitProvisioning \/ ProvisionAnswered
          \/ WriteFails \/ WriteResponse \/ PollSeesWifi \/ PollTimesOut \/ Claim
  <1>1. CASE AppActs
    <2>1. UNCHANGED <<nvs, task, write, creds, pending, pc, reading, jwt, taken, sent>>
      BY <1>1
      DEF SelectDevice, LinkLost, SubmitProvisioning, ProvisionAnswered, WriteFails,
          WriteResponse, PollSeesWifi, PollTimesOut, Claim
    <2>2. Shape' /\ TaskProgress' /\ HandOver'
      BY <2>1 DEF Shape, TaskProgress, HandOver
    <2>3. WizardWaits'
      <3> USE DEF WizardWaits, AllStored
      <3>1. CASE SelectDevice
        BY <2>1, <3>1 DEF SelectDevice
      <3>2. CASE LinkLost
        BY <2>1, <3>2 DEF LinkLost
      <3>3. CASE WriteResponse
        BY <2>1, <3>3 DEF WriteResponse
      <3>4. CASE PollSeesWifi
        BY <2>1, <3>4 DEF PollSeesWifi
      <3>5. CASE Claim
        BY <2>1, <3>5 DEF Claim
      <3>6. CASE SubmitProvisioning \/ ProvisionAnswered \/ WriteFails \/ PollTimesOut
        BY <2>1, <3>6 DEF SubmitProvisioning, ProvisionAnswered, WriteFails, PollTimesOut
      <3> QED
        BY <1>1, <3>1, <3>2, <3>3, <3>4, <3>5, <3>6
    <2> QED
      BY <2>2, <2>3
  <1>2. CASE WriteArrives
    <2> USE <1>2 DEF WriteArrives
    <2>1. Shape'
      BY DEF Shape
    <2>2. TaskProgress'
      BY DEF TaskProgress
    <2>3. WizardWaits'
      BY DEF WizardWaits
    <2>4. HandOver'
      BY DEF HandOver
    <2> QED
      BY <2>1, <2>2, <2>3, <2>4
  <1> QED
    BY <1>1, <1>2 DEF App

--------------------------------------------------------------------------------
(* The invariant.                                                              *)

LEMMA InitInv == Init => IInv
  <1> SUFFICES ASSUME Init PROVE IInv
    OBVIOUS
  <1> USE DEF Init
  <1>1. Shape
    BY DEF Shape, Key, Field
  <1>2. TaskProgress /\ WizardWaits /\ HandOver
    BY DEF TaskProgress, WizardWaits, HandOver
  <1> QED
    BY <1>1, <1>2 DEF IInv

LEMMA NextInv == IInv /\ [Next]_vars => IInv'
  <1> SUFFICES ASSUME IInv, [Next]_vars PROVE IInv'
    OBVIOUS
  <1>1. CASE SaveKey \/ AssignCreds \/ SetPending \/ Reset \/ App
    BY <1>1, SaveKeyStep, AssignCredsStep, SetPendingStep, ResetStep, AppStep
  <1>2. CASE TakeFlag \/ ReadSsid \/ ReadPsk \/ ReadJwt \/ WifiEdge \/ EnsureWifi
               \/ SetupShowsWifi \/ SetupEnds \/ StationJoins \/ StationDrops
    BY <1>2, LoopHandOver, LoopKeeps DEF IInv
  <1>3. CASE UNCHANGED vars
    BY <1>3
    DEF vars, flash, nimble, main, radio, app, IInv, Shape, TaskProgress, WizardWaits,
        AllStored, HandOver
  <1> QED
    BY <1>1, <1>2, <1>3 DEF Next, Firmware

LEMMA Invariant == Spec => []IInv
  BY InitInv, NextInv, PTL DEF Spec

(* For any number of writes and resets: once the NimBLE task rests and no      *)
(* write waits, the network and the token loop() used last are those of the    *)
(* last write, whole, although the hand-over of pendingCreds takes no lock.    *)
THEOREM LastWritesTaken == Spec => []LastWriteIsTaken
  <1>1. IInv => LastWriteIsTaken
    BY DEF IInv, HandOver, LastWriteIsTaken
  <1> QED
    BY Invariant, <1>1, PTL

(* Past the write's response the pairing wizard speaks of credentials that are *)
(* in the flash under all four keys, through lost links and resets.            *)
THEOREM WizardStored == Spec => []WizardMeansStored
  <1>1. IInv => WizardMeansStored
    BY DEF IInv, Shape, WizardWaits, AllStored, WizardMeansStored
  <1> QED
    BY Invariant, <1>1, PTL
================================================================================
