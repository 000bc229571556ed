------------------------------- MODULE OutboxSync -------------------------------
(* The app's offline-first writes: DeviceActions queues claims and renames in  *)
(* the outbox table, OutboxWorker replays them against the backend's device    *)
(* service, DeviceSyncService pulls the server's list over the local table.    *)
(* A batch is one activation of _processBatch; activations may overlap.        *)
EXTENDS Naturals, Sequences, SequencesExt

CONSTANTS
    Device, Alias, NoAlias,
    Slots,        \* bound: activations of _processBatch at a time
    MaxItems,     \* bound: outbox rows
    MaxTimeouts   \* bound: calls that time out

ASSUME OutboxAssumption ==
    /\ NoAlias \notin Alias /\ 0 \notin Slots
    /\ MaxItems \in Nat /\ MaxTimeouts \in Nat

Absent == "absent"
NoCall == "none"

VARIABLES
    outbox,      \* rows in order of creation: [action, device, alias, code, synced]
    local,       \* the local devices table: alias or Absent
    renaming,    \* renameDevice between its two writes
    owned,       \* server: devices of this user
    serverAlias, \* server: user_devices.alias
    seen,        \* server: devices with a last_seen_at
    applied,     \* rows the server has executed at least once
    emission,    \* the watchPending stream has a new list to deliver
    processing,  \* _processing
    todo,        \* rows of its list left to each activation
    call,        \* its call: "none", "sent", "ok", "error"
    flying,      \* requests on their way: [slot, row, raced]; 0 has given up
    timer,       \* _retryTimer "armed", its callback "querying" for the list
    pulled,      \* syncDeviceList: the list it has yet to write
    timeouts

db == <<outbox, local, renaming>>
serverVars == <<owned, serverAlias, seen, applied>>
worker == <<emission, processing, todo, call, timer>>
outboxVars == <<db, serverVars, worker, flying, pulled, timeouts>>

Row == [action : {"claim", "rename"}, device : Device, alias : Alias \cup {NoAlias},
        code : BOOLEAN, synced : BOOLEAN]

Rows == 1 .. Len(outbox)

(* watchPending: the rows with synced = false...                               *)
Pending == {i \in Rows : ~outbox[i].synced}

(* Mutant: newest first. *)
Newest(rows) == {i \in rows : \A j \in rows : j <= i}

(* ... of which an activation takes the oldest next.                           *)
Oldest(rows) == {i \in rows : \A j \in rows : i <= j}

OutboxInit ==
    /\ outbox = << >> /\ renaming = << >>
    /\ owned \in SUBSET Device /\ seen = {} /\ applied = {}
    /\ serverAlias = [d \in Device |-> NoAlias]
    /\ local \in [Device -> {NoAlias, Absent}]
    /\ emission = TRUE /\ processing = FALSE /\ timer = {}
    /\ todo = [b \in Slots |-> {}] /\ call = [b \in Slots |-> NoCall]
    /\ flying = {} /\ pulled = << >> /\ timeouts = 0

--------------------------------------------------------------------------------
(* DeviceActions.                                                              *)

InsertAction(row) ==
    /\ Len(outbox) < MaxItems
    /\ outbox' = Append(outbox, row)
    /\ emission' = TRUE
    /\ UNCHANGED <<processing, todo, call, timer>>

(* renameDevice: the local row first, the outbox row after an await.           *)
RenameLocally(d, a) ==
    /\ renaming = << >> /\ Len(outbox) < MaxItems /\ local[d] # Absent
    /\ local' = [local EXCEPT ![d] = a]
    /\ renaming' = <<d, a>>
    /\ UNCHANGED <<outbox, serverVars, worker, flying, pulled, timeouts>>

QueueRename ==
    /\ renaming # << >> /\ renaming' = << >>
    /\ InsertAction([action |-> "rename", device |-> renaming[1], alias |-> renaming[2],
                     code |-> TRUE, synced |-> FALSE])
    /\ UNCHANGED <<local, serverVars, flying, pulled, timeouts>>

QueueClaim(d, code) ==
    /\ renaming = << >>
    /\ InsertAction([action |-> "claim", device |-> d, alias |-> NoAlias,
                     code |-> code, synced |-> FALSE])
    /\ UNCHANGED <<local, renaming, serverVars, flying, pulled, timeouts>>

--------------------------------------------------------------------------------
(* OutboxWorker.                                                               *)

Idle(b) == todo[b] = {} /\ call[b] = NoCall

(* _processBatch with the list it was called with.                             *)
Begin(b) ==
    /\ Idle(b)
    /\ todo' = [todo EXCEPT ![b] = Pending]
    /\ processing' = TRUE

(* The stream's listener: a list that arrives during an activation is ignored. *)
Emit ==
    /\ emission /\ emission' = FALSE
    /\ IF Pending # {} /\ ~processing
       THEN \E b \in Slots : Begin(b)
       ELSE UNCHANGED <<processing, todo>>
    /\ UNCHANGED <<db, serverVars, call, flying, timer, pulled, timeouts>>

Execute(b) ==
    /\ call[b] = NoCall
    /\ call' = [call EXCEPT ![b] = "sent"]
    /\ \E i \in Oldest(todo[b]) :
           flying' = flying \cup {[slot |-> b, row |-> i, raced |-> FALSE]}
    /\ UNCHANGED <<db, serverVars, emission, processing, todo, timer, pulled, timeouts>>

(* Mutant: _processing stays set.                                              *)
SucceedStaysBusy(b) ==
    /\ call[b] = "ok"
    /\ \E i \in Oldest(todo[b]) :
           /\ outbox' = [outbox EXCEPT ![i].synced = TRUE]
           /\ todo' = [todo EXCEPT ![b] = @ \ {i}]
    /\ emission' = TRUE
    /\ call' = [call EXCEPT ![b] = NoCall]
    /\ UNCHANGED <<local, renaming, serverVars, processing, flying, timer, pulled, timeouts>>

(* markSynced; after the last row the activation ends.                         *)
Succeed(b) ==
    /\ call[b] = "ok"
    /\ \E i \in Oldest(todo[b]) :
           /\ outbox' = [outbox EXCEPT ![i].synced = TRUE]
           /\ todo' = [todo EXCEPT ![b] = @ \ {i}]
    /\ emission' = TRUE
    /\ call' = [call EXCEPT ![b] = NoCall]
    /\ processing' = IF todo'[b] = {} THEN FALSE ELSE processing
    /\ UNCHANGED <<local, renaming, serverVars, flying, timer, pulled, timeouts>>

(* Mutants: an error resolves the row, and an error arms no timer.             *)
GiveUpResolves(b) ==
    /\ call[b] = "error"
    /\ \E i \in Oldest(todo[b]) : outbox' = [outbox EXCEPT ![i].synced = TRUE]
    /\ todo' = [todo EXCEPT ![b] = {}]
    /\ call' = [call EXCEPT ![b] = NoCall]
    /\ processing' = FALSE /\ emission' = TRUE
    /\ UNCHANGED <<local, renaming, serverVars, timer, flying, pulled, timeouts>>

GiveUpForGood(b) ==
    /\ call[b] = "error"
    /\ todo' = [todo EXCEPT ![b] = {}]
    /\ call' = [call EXCEPT ![b] = NoCall]
    /\ processing' = FALSE
    /\ UNCHANGED <<db, serverVars, emission, timer, flying, pulled, timeouts>>

(* Any failure but a 409, which this backend never answers, ends the           *)
(* activation and arms the timer.                                              *)
GiveUp(b) ==
    /\ call[b] = "error"
    /\ todo' = [todo EXCEPT ![b] = {}]
    /\ call' = [call EXCEPT ![b] = NoCall]
    /\ processing' = FALSE
    /\ timer' = timer \cup {"armed"}
    /\ UNCHANGED <<db, serverVars, emission, flying, pulled, timeouts>>

TimerFires ==
    /\ timer = {"armed"} /\ timer' = {"querying"}
    /\ UNCHANGED <<db, serverVars, emission, processing, todo, call, flying, pulled,
                   timeouts>>

(* The timer's callback does not look at _processing.                          *)
TimerBegins ==
    /\ "querying" \in timer /\ timer' = timer \ {"querying"}
    /\ IF Pending # {} THEN \E b \in Slots : Begin(b)
                          ELSE UNCHANGED <<processing, todo>>
    /\ UNCHANGED <<db, serverVars, emission, call, flying, pulled, timeouts>>

--------------------------------------------------------------------------------
(* The network and the backend's device service.                               *)

(* A call times out: the request is lost, or it is still on its way.           *)
CallTimesOut(m) ==
    /\ m.slot # 0 /\ timeouts < MaxTimeouts /\ timeouts' = timeouts + 1
    /\ call' = [call EXCEPT ![m.slot] = "error"]
    /\ flying' \in {flying \ {m}, (flying \ {m}) \cup {[m EXCEPT !.slot = 0]}}
    /\ UNCHANGED <<db, serverVars, emission, processing, todo, timer, pulled>>

Answered(m, result, losers) ==
    /\ flying' = (flying \ ({m} \cup losers)) \cup {[n EXCEPT !.raced = TRUE] : n \in losers}
    /\ call' = IF m.slot = 0 THEN call ELSE [call EXCEPT ![m.slot] = result]

RivalsOf(m) ==
    {n \in flying \ {m} : /\ outbox[n.row].action = "claim"
                          /\ outbox[n.row].device = outbox[m.row].device}

(* claim_device: idempotent for the owner, 403 for a wrong code.  The SELECT   *)
(* takes no lock: a rival that has looked before this commit fails on the      *)
(* primary key, and its answer is a 500.                                       *)
ServeClaim(m) ==
    /\ outbox[m.row].action = "claim"
    /\ LET row == outbox[m.row] IN
       \/ /\ ~row.code \/ m.raced
          /\ Answered(m, "error", {})
          /\ UNCHANGED <<owned, applied>>
       \/ /\ row.code /\ ~m.raced
          /\ owned' = owned \cup {row.device}
          /\ applied' = applied \cup {m.row}
          /\ \E losers \in SUBSET IF row.device \in owned THEN {} ELSE RivalsOf(m) :
                 Answered(m, "ok", losers)
    /\ UNCHANGED <<db, serverAlias, seen, emission, processing, todo, timer, pulled,
                   timeouts>>

(* update_device_alias: 403 for a device that is not the user's.               *)
ServeRename(m) ==
    /\ outbox[m.row].action = "rename"
    /\ LET row == outbox[m.row] IN
       IF row.device \in owned
       THEN /\ serverAlias' = [serverAlias EXCEPT ![row.device] = row.alias]
            /\ applied' = applied \cup {m.row}
            /\ Answered(m, "ok", {})
       ELSE Answered(m, "error", {}) /\ UNCHANGED <<serverAlias, applied>>
    /\ UNCHANGED <<db, owned, seen, emission, processing, todo, timer, pulled, timeouts>>

(* Ingestion sets last_seen_at.                                                *)
DeviceSeen(d) ==
    /\ d \notin seen /\ seen' = seen \cup {d}
    /\ UNCHANGED <<db, owned, serverAlias, applied, worker, flying, pulled, timeouts>>

--------------------------------------------------------------------------------
(* DeviceSyncService.syncDeviceList.                                           *)

(* The whole list is decoded first, and DeviceDto.fromJson throws on a device  *)
(* with a last_seen_at: the server sends a date where it reads an integer.     *)
PullList ==
    /\ pulled = << >>
    /\ owned # {} /\ owned \cap seen = {}
    /\ pulled' \in SetToSeqs({<<d, serverAlias[d]>> : d \in owned})
    /\ UNCHANGED <<db, serverVars, worker, flying, timeouts>>

UpsertNext ==
    /\ pulled # << >>
    /\ local' = [local EXCEPT ![Head(pulled)[1]] = Head(pulled)[2]]
    /\ pulled' = Tail(pulled)
    /\ UNCHANGED <<outbox, renaming, serverVars, worker, flying, timeouts>>

--------------------------------------------------------------------------------

Work ==
    \/ QueueRename \/ Emit \/ TimerFires \/ TimerBegins \/ UpsertNext
    \/ \E b \in Slots : Execute(b) \/ Succeed(b) \/ GiveUp(b)
    \/ \E m \in flying : ServeClaim(m) \/ ServeRename(m)

OutboxNext ==
    \/ Work
    \/ \E d \in Device, a \in Alias : RenameLocally(d, a)
    \/ \E d \in Device : \E code \in BOOLEAN : QueueClaim(d, code)
    \/ \E m \in flying : CallTimesOut(m)
    \/ \E d \in Device : DeviceSeen(d)
    \/ PullList

(* Each part of the app's event loop, the timer and the server keep going; the *)
(* user, the telemetry and the pull-to-refresh owe nothing.                    *)
OutboxSpec ==
    /\ OutboxInit /\ [][OutboxNext]_outboxVars
    /\ WF_outboxVars(QueueRename) /\ WF_outboxVars(Emit)
    /\ WF_outboxVars(TimerFires) /\ WF_outboxVars(TimerBegins)
    /\ WF_outboxVars(\E b \in Slots : Execute(b) \/ Succeed(b) \/ GiveUp(b))
    /\ WF_outboxVars(\E m \in flying : ServeClaim(m) \/ ServeRename(m))

--------------------------------------------------------------------------------

Running == {b \in Slots : ~Idle(b)}

(* Type invariant.                                                             *)
OutboxTypeOK ==
    /\ outbox \in Seq(Row) /\ Len(outbox) <= MaxItems
    /\ local \in [Device -> Alias \cup {NoAlias, Absent}]
    /\ owned \subseteq Device /\ seen \subseteq Device /\ applied \subseteq Rows
    /\ serverAlias \in [Device -> Alias \cup {NoAlias}]
    /\ {emission, processing} \subseteq BOOLEAN
    /\ call \in [Slots -> {NoCall, "sent", "ok", "error"}]
    /\ \A b \in Slots : todo[b] \subseteq Rows /\ (call[b] # NoCall => todo[b] # {})
    /\ flying \subseteq [slot : Slots \cup {0}, row : Rows, raced : BOOLEAN]
    /\ timer \subseteq {"armed", "querying"} /\ timeouts \in 0 .. MaxTimeouts

(* A row is marked synced only after the server has executed it: no overlap of *)
(* activations, timeout or late answer marks an unexecuted one.                *)
SyncedWasApplied == \A i \in Rows : outbox[i].synced => i \in applied

(* The first executions of the rows follow their creation: an activation that  *)
(* overlaps another never gets ahead of it, nor does a row whose call failed   *)
(* let a later one pass.                                                       *)
FirstExecutionsInOrder ==
    \A i, j \in Rows : i < j /\ j \in applied => i \in applied

(* No pending row is ever forgotten: there is an emission to come, an          *)
(* activation that runs, or a timer.  This is what the ignored lists and the   *)
(* early exits of the worker put at risk.                                      *)
PendingIsWatched == Pending # {} => emission \/ Running # {} \/ timer # {}

(* The server refuses a claim with a wrong code, and the rename of a device it *)
(* does not know as this user's, which an account that used the app before may *)
(* have left in the local table.                                               *)
Acceptable(i) ==
    IF outbox[i].action = "claim" THEN outbox[i].code ELSE outbox[i].device \in owned

(* A row is synced in the end, however calls time out and activations overlap, *)
(* unless it or a row before it is one the server refuses: the worker gives up *)
(* the batch at the first refusal and meets the same row first next time.      *)
PendingDrains == \A i \in 1 .. MaxItems :
    (i \in Rows /\ \A j \in 1 .. i : Acceptable(j)) ~> (i \in Rows /\ outbox[i].synced)
================================================================================
