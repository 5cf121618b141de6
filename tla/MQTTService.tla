---------------------------- MODULE MQTTService ----------------------------
(***************************************************************************)
(* The MQTT half of the server (mqtt.go) with the actors that call into    *)
(* it: the broker connection manager (autopaho, external), one onConnect   *)
(* goroutine per connection, the publisher loop Run, the polling thread    *)
(* that delivers readings and availability changes, and run() of main.go,  *)
(* which cancels the loops and finally disconnects.                        *)
(*                                                                         *)
(* A critical section of s.mu is one action; a publish is another one, as  *)
(* the lock is released before client.Publish.  A configuration reading is *)
(* abstracted to its battery type, the one field this component reads; a   *)
(* status reading carries nothing the component looks at.  All the topics  *)
(* of one map are published in one step.                                   *)
(*                                                                         *)
(* The operators named Broken... are no part of the specification: each is *)
(* a plausible mistake in the definition after it, put in its place to see *)
(* that a property notices.                                                *)
(***************************************************************************)
EXTENDS Naturals

CONSTANTS
    Batteries,        \* the battery types a configuration reading can hold
    NoBattery,        \* "", the value of batteryType before the first config
    Rounds,           \* the sets of operations that may come due together
    Faults,           \* what may go wrong, of the kinds below
    MaxConnectionID   \* bound on connectionID, which the code never resets

Operations == {"config", "task", "status"} \* task: time sync or a write

\* The broker connection breaks, the inverter stops answering for a while,
\* the service is told to stop or an operation fails for good.
FaultKinds == {"link", "inverter", "stop"}

ASSUME BatteriesAssumption == NoBattery \notin Batteries
ASSUME RoundsAssumption == Rounds \subseteq (SUBSET Operations) \ {{}}
ASSUME FaultsAssumption == Faults \subseteq FaultKinds
ASSUME MaxConnectionIDAssumption == MaxConnectionID \in Nat

VARIABLES
    \* --- MQTTService fields, guarded by s.mu
    client,                  \* s.client # nil
    connectionID, connected,
    initialConfigPublished, initialStatusPublished, onlinePublished,
    discoveryPending, batteryType, lastPublishedConfig,
    pendingConfig, statusDirty, configDirty, updatesPending,
    updateWake,              \* the one-slot channel holds a token
    pollingEnabled,          \* PollingService.pollingEnabled
    \* --- threads
    setup,                   \* where each onConnect goroutine is
    pc, job,                 \* the publisher: its program point and locals
    poll, due,               \* the polling thread: its point, operations left
    ctxDone,                 \* the context of run() is cancelled
    \* --- environment
    link,                    \* the broker connection
    inverterUp,              \* the inverter answers (no recovery under way)
    latestConfig,            \* the last config reading handed to the sink
    broker                   \* retained topics, and what arrived on this link

connection == <<connected, initialConfigPublished, initialStatusPublished,
                onlinePublished, pollingEnabled>>
discovery  == <<discoveryPending, batteryType, lastPublishedConfig>>
inbox      == <<pendingConfig, statusDirty, configDirty, updatesPending>>
locked     == <<client, connectionID, connection, discovery, inbox>>
publisher  == <<pc, job>>
poller     == <<poll, due, inverterUp, latestConfig>>
vars       == <<locked, updateWake, setup, publisher, poller, ctxDone, link,
                broker>>

-----------------------------------------------------------------------------
ConnectionIDs == 1..MaxConnectionID
Config        == Batteries \cup {NoBattery}   \* NoBattery: no reading

NoJob == [status |-> FALSE, config |-> NoBattery, conn |-> 0,
          discovery |-> FALSE, online |-> FALSE]

Init ==
    /\ client = FALSE /\ connectionID = 0 /\ connected = FALSE
    /\ initialConfigPublished = FALSE /\ initialStatusPublished = FALSE
    /\ onlinePublished = FALSE /\ discoveryPending = FALSE
    /\ batteryType = NoBattery /\ lastPublishedConfig = NoBattery
    /\ pendingConfig = NoBattery /\ statusDirty = FALSE /\ configDirty = FALSE
    /\ updatesPending = FALSE /\ updateWake = FALSE /\ pollingEnabled = FALSE
    /\ setup = [c \in ConnectionIDs |-> "none"]
    /\ pc = "boot" /\ job = NoJob
    /\ poll = "boot" /\ due = {} /\ inverterUp = TRUE
    /\ latestConfig = NoBattery /\ ctxDone = FALSE /\ link = "down"
    /\ broker = [availability |-> "offline", discovery |-> NoBattery,
                 config |-> NoBattery, received |-> {}]  \* nothing retained

-----------------------------------------------------------------------------
(* publish: QoS 0 through the connection manager.  A publish on a link     *)
(* that is down or already broken is lost; the error is logged, never      *)
(* retried.                                                                *)
Deliverable == client /\ link = "up"

Publish(b) == broker' = IF Deliverable THEN b ELSE broker

\* The check onConnect, subscribeCommands and the publisher make under s.mu.
Current(c) == c = connectionID

BrokenSignal == UNCHANGED updateWake   \* no token is left

\* select { case updateWake <- struct{}{}: default: }
signalUpdatePublisher == updateWake' = TRUE

SetPollingEnabled(enabled) == pollingEnabled' = enabled

-----------------------------------------------------------------------------
(* The broker connection (external).                                       *)

\* Start returns and runServiceLoops starts both loops.  autopaho connects
\* in the background, so the first connection may come up before this.
Start ==
    /\ pc = "boot"
    /\ client' = TRUE
    /\ pc' = "run" /\ poll' = "idle"
    /\ UNCHANGED <<connectionID, connection, discovery, inbox, updateWake,
                   setup, job, due, inverterUp, latestConfig, ctxDone, link,
                   broker>>

\* OnConnectionUp: number the connection and start its onConnect goroutine.
ConnectionUp ==
    /\ link = "down"
    /\ connectionID < MaxConnectionID
    /\ link' = "up"
    /\ connectionID' = connectionID + 1
    /\ setup' = [setup EXCEPT ![connectionID + 1] = "start"]
    /\ broker' = [broker EXCEPT !.received = {}]
    /\ UNCHANGED <<client, connection, discovery, inbox, updateWake,
                   publisher, poller, ctxDone>>

\* The connection is gone, the client has not noticed.  The bound leaves a
\* number for the loss; after an even one the link stays down for good.
LinkBreaks ==
    /\ "link" \in Faults
    /\ link = "up" /\ connectionID < MaxConnectionID
    /\ link' = "broken"
    /\ UNCHANGED <<locked, updateWake, setup, publisher, poller, ctxDone,
                   broker>>

\* OnConnectionDown reported again for a link that is already down.
BrokenConnectionLost ==
    /\ link \in {"broken", "down"}
    /\ link' = "down"
    /\ connectionID' = connectionID + 1
    /\ connected' = FALSE
    /\ UNCHANGED <<client, discovery, inbox, updateWake, setup, publisher,
                   poller, ctxDone, broker, initialConfigPublished,
                   initialStatusPublished, onlinePublished, pollingEnabled>>

\* onConnectionLost, called by OnConnectionDown before any reconnect.
onConnectionLost ==
    /\ link = "broken"
    /\ link' = "down"
    /\ connectionID' = connectionID + 1
    /\ connected' = FALSE
    /\ initialConfigPublished' = FALSE
    /\ initialStatusPublished' = FALSE
    /\ onlinePublished' = FALSE
    /\ SetPollingEnabled(FALSE)
    /\ UNCHANGED <<client, discovery, inbox, updateWake, setup, publisher,
                   poller, ctxDone, broker>>

\* The broker publishes the retained will once the connection is lost for
\* the will delay, or the service disconnected "with will message".
WillFires ==
    /\ link # "up" /\ connectionID > 0
    /\ broker.availability = "online"
    /\ broker' = [broker EXCEPT !.availability = "offline"]
    /\ UNCHANGED <<locked, updateWake, setup, publisher, poller, ctxDone,
                   link>>

-----------------------------------------------------------------------------
(* onConnect, one goroutine per connection.                                *)

SetupAt(c, stage) == setup[c] = stage /\ link # "closed"

SetupTo(c, stage) == setup' = [setup EXCEPT ![c] = stage]

\* Lines 224-230: a stale callback returns, else it installs the client.
OnConnectBegin(c) ==
    /\ SetupAt(c, "start")
    /\ SetupTo(c, IF Current(c) THEN "check" ELSE "done")
    /\ client' = (client \/ Current(c))
    /\ UNCHANGED <<connectionID, connection, discovery, inbox, updateWake,
                   publisher, poller, ctxDone, link, broker>>

\* One round of subscribeCommands: the check, then the request.
SubscribeCheck(c) ==
    /\ SetupAt(c, "check")
    /\ SetupTo(c, IF Current(c) THEN "subscribe" ELSE "done")
    /\ UNCHANGED <<locked, updateWake, publisher, poller, ctxDone, link,
                   broker>>

SubscribeOk(c) ==
    /\ SetupAt(c, "subscribe")
    /\ link = "up"
    /\ SetupTo(c, "commit")
    /\ UNCHANGED <<locked, updateWake, publisher, poller, ctxDone, link,
                   broker>>

\* Refused, timed out or disconnected: sleep and check again.
SubscribeFails(c) ==
    /\ SetupAt(c, "subscribe")
    /\ SetupTo(c, "check")
    /\ UNCHANGED <<locked, updateWake, publisher, poller, ctxDone, link,
                   broker>>

\* Without the second check of connectionID.
BrokenCommit(c) ==
    /\ SetupAt(c, "commit")
    /\ SetupTo(c, "request")
    /\ connected' = TRUE
    /\ UNCHANGED <<client, connectionID, initialConfigPublished,
                   initialStatusPublished, onlinePublished, pollingEnabled,
                   discovery, inbox, updateWake, publisher, poller, ctxDone,
                   link, broker>>

\* Lines 238-248: the connection is in service unless it changed meanwhile.
OnConnectCommit(c) ==
    /\ SetupAt(c, "commit")
    /\ IF Current(c)
       THEN /\ SetupTo(c, "request")
            /\ connected' = TRUE
            /\ initialConfigPublished' = FALSE
            /\ initialStatusPublished' = FALSE
            /\ onlinePublished' = FALSE
            /\ SetPollingEnabled(TRUE)
       ELSE /\ SetupTo(c, "done")
            /\ UNCHANGED <<connected, initialConfigPublished, pollingEnabled,
                           initialStatusPublished, onlinePublished>>
    /\ UNCHANGED <<client, connectionID, discovery, inbox, updateWake,
                   publisher, poller, ctxDone, link, broker>>

\* requestUpdatePublish: mark, unlock, then signal.
RequestUpdatePublish(c) ==
    /\ SetupAt(c, "request")
    /\ SetupTo(c, "signal")
    /\ updatesPending' = TRUE
    /\ UNCHANGED <<client, connectionID, connection, discovery, pendingConfig,
                   statusDirty, configDirty, updateWake, publisher, poller,
                   ctxDone, link, broker>>

SetupSignal(c) ==
    /\ SetupAt(c, "signal")
    /\ SetupTo(c, "done")
    /\ signalUpdatePublisher
    /\ UNCHANGED <<locked, publisher, poller, ctxDone, link, broker>>

-----------------------------------------------------------------------------
(* The publisher: Run, runPending, publishUpdates.                         *)

Dirty == statusDirty \/ configDirty

\* runPending, lines 500-510; with nothing to publish Run blocks in select.
RunPending ==
    /\ pc = "run"
    /\ pc' = IF updatesPending \/ Dirty THEN "update" ELSE "select"
    /\ updatesPending' = FALSE
    /\ UNCHANGED <<client, connectionID, connection, discovery, pendingConfig,
                   statusDirty, configDirty, updateWake, setup, job, poller,
                   ctxDone, link, broker>>

\* publishUpdates without a connection: keep the updates, re-arm, return.
PublishDeferred ==
    /\ pc = "update" /\ ~connected
    /\ pc' = "run"
    /\ updatesPending' = (updatesPending \/ Dirty)
    /\ UNCHANGED <<client, connectionID, connection, discovery, pendingConfig,
                   statusDirty, configDirty, updateWake, setup, job, poller,
                   ctxDone, link, broker>>

\* publishUpdates, lines 444-449: take the pending updates and the number of
\* the connection they are published on.
TakeUpdates ==
    /\ pc = "update" /\ connected
    /\ pc' = CASE statusDirty -> "status"
               [] ~statusDirty /\ configDirty -> "config"
               [] OTHER -> "ready"
    /\ job' = [NoJob EXCEPT !.status = statusDirty,
                            !.config = pendingConfig,
                            !.conn = connectionID]
    /\ pendingConfig' = NoBattery
    /\ statusDirty' = FALSE /\ configDirty' = FALSE
    /\ UNCHANGED <<client, connectionID, connection, discovery,
                   updatesPending, updateWake, setup, poller, ctxDone, link,
                   broker>>

publishStatus ==
    /\ pc = "status"
    /\ Publish([broker EXCEPT !.received = @ \cup {"status"}])
    /\ pc' = IF job.config # NoBattery THEN "config" ELSE "ready"
    /\ UNCHANGED <<locked, updateWake, setup, job, poller, ctxDone, link>>

\* publishConfig: the topics first, then the battery type, then the copy
\* that command validation reads.
publishConfig ==
    /\ pc = "config"
    /\ Publish([broker EXCEPT !.received = @ \cup {"config"},
                              !.config = job.config])
    /\ pc' = "battery"
    /\ UNCHANGED <<locked, updateWake, setup, job, poller, ctxDone, link>>

updateBatteryType ==
    /\ pc = "battery"
    /\ batteryType' = job.config
    /\ discoveryPending' = (discoveryPending \/ job.config # batteryType)
    /\ pc' = "remember"
    /\ UNCHANGED <<client, connectionID, connection, lastPublishedConfig,
                   inbox, updateWake, setup, job, poller, ctxDone, link,
                   broker>>

\* The connection is noted after the publishing instead of before.
BrokenRememberConfig ==
    /\ pc = "remember"
    /\ lastPublishedConfig' = job.config
    /\ job' = [job EXCEPT !.conn = connectionID]
    /\ pc' = "ready"
    /\ UNCHANGED <<client, connectionID, connection, discoveryPending,
                   batteryType, inbox, updateWake, setup, poller, ctxDone,
                   link, broker>>

RememberConfig ==
    /\ pc = "remember"
    /\ lastPublishedConfig' = job.config
    /\ pc' = "ready"
    /\ UNCHANGED <<client, connectionID, connection, discoveryPending,
                   batteryType, inbox, updateWake, setup, job, poller,
                   ctxDone, link, broker>>

\* publishReadyAfterInitialState, lines 467-484.  Once this connection has
\* carried a config and a status, decide on discovery and "online".
PublishReady ==
    /\ pc = "ready"
    /\ LET current   == connected /\ Current(job.conn)
           config    == initialConfigPublished \/ job.config # NoBattery
           status    == initialStatusPublished \/ job.status
           ready     == current /\ config /\ status
           discover  == ready /\ discoveryPending
           online    == ready /\ ~onlinePublished
       IN  /\ initialConfigPublished' = IF current THEN config
                                        ELSE initialConfigPublished
           /\ initialStatusPublished' = IF current THEN status
                                        ELSE initialStatusPublished
           /\ discoveryPending' = (discoveryPending /\ ~ready)
           /\ onlinePublished' = (onlinePublished \/ ready)
           /\ job' = IF discover \/ online
                     THEN [job EXCEPT !.discovery = discover, !.online = online]
                     ELSE NoJob
           /\ pc' = CASE discover -> "discovery"
                      [] ~discover /\ online -> "online"
                      [] OTHER -> "run"
    /\ UNCHANGED <<client, connectionID, connected, pollingEnabled,
                   batteryType, lastPublishedConfig, inbox, updateWake, setup,
                   poller, ctxDone, link, broker>>

\* The discovery document depends on the battery type of the moment.
publishDeviceDiscovery ==
    /\ pc = "discovery"
    /\ Publish([broker EXCEPT !.discovery = batteryType])
    /\ pc' = IF job.online THEN "online" ELSE "run"
    /\ job' = IF job.online THEN job ELSE NoJob
    /\ UNCHANGED <<locked, updateWake, setup, poller, ctxDone, link>>

PublishOnline ==
    /\ pc = "online"
    /\ Publish([broker EXCEPT !.availability = "online"])
    /\ pc' = "run" /\ job' = NoJob
    /\ UNCHANGED <<locked, updateWake, setup, poller, ctxDone, link>>

\* The select of Run; both cases ready, Go picks either.
SelectWake ==
    /\ pc = "select" /\ updateWake
    /\ updateWake' = FALSE
    /\ pc' = "run"
    /\ UNCHANGED <<locked, setup, job, poller, ctxDone, link, broker>>

\* A break that leaves the select and not the loop.
BrokenSelectDone ==
    /\ pc = "select" /\ ctxDone
    /\ pc' = "run"
    /\ UNCHANGED <<locked, updateWake, setup, job, poller, ctxDone, link,
                   broker>>

SelectDone ==
    /\ pc = "select" /\ ctxDone
    /\ pc' = "stopped"
    /\ UNCHANGED <<locked, updateWake, setup, job, poller, ctxDone, link,
                   broker>>

-----------------------------------------------------------------------------
(* The polling thread as this component sees it: rounds of operations in   *)
(* the order of PollingService.runPending.  Readings are only started      *)
(* while polling is enabled, but one under way is delivered whenever it    *)
(* ends.  A fatal Modbus error starts recovery (RecoveringInverter), which *)
(* reports the inverter unavailable, then available again or never.        *)

NextOperation(ops) == CASE "config" \in ops -> "config"
                        [] "config" \notin ops /\ "task" \in ops -> "task"
                        [] OTHER -> "status"

BeginRound(ops) ==
    /\ poll = "idle" /\ ~ctxDone
    /\ (ops \subseteq {"task"} \/ pollingEnabled)
    /\ poll' = "reading" /\ due' = ops
    /\ UNCHANGED <<locked, updateWake, setup, publisher, inverterUp,
                   latestConfig, ctxDone, link, broker>>

\* The operation returned without error, at once or after recovery.
OperationDone(op) ==
    /\ poll \in {"reading", "recovered"}
    /\ op = NextOperation(due)

StatusUpdated ==
    /\ OperationDone("status")
    /\ statusDirty' = TRUE /\ updatesPending' = TRUE
    /\ poll' = "signal"
    /\ UNCHANGED <<client, connectionID, connection, discovery, pendingConfig,
                   configDirty, updateWake, setup, publisher, due, inverterUp,
                   latestConfig, ctxDone, link, broker>>

\* A reading that is still pending is not replaced.
BrokenConfigUpdated(config) ==
    /\ OperationDone("config")
    /\ pendingConfig' = IF configDirty THEN pendingConfig ELSE config
    /\ latestConfig' = config
    /\ configDirty' = TRUE /\ updatesPending' = TRUE
    /\ poll' = "signal"
    /\ UNCHANGED <<client, connectionID, connection, discovery, statusDirty,
                   updateWake, setup, publisher, due, inverterUp, ctxDone,
                   link, broker>>

ConfigUpdated(config) ==
    /\ OperationDone("config")
    /\ pendingConfig' = config /\ latestConfig' = config
    /\ configDirty' = TRUE /\ updatesPending' = TRUE
    /\ poll' = "signal"
    /\ UNCHANGED <<client, connectionID, connection, discovery, statusDirty,
                   updateWake, setup, publisher, due, inverterUp, ctxDone,
                   link, broker>>

EndOperation ==
    /\ due' = due \ {NextOperation(due)}
    /\ poll' = IF due' = {} THEN "idle" ELSE "reading"

\* signalUpdatePublisher, after StatusUpdated or ConfigUpdated unlocked.
PollSignal ==
    /\ poll = "signal"
    /\ signalUpdatePublisher
    /\ EndOperation
    /\ UNCHANGED <<locked, setup, publisher, inverterUp, latestConfig,
                   ctxDone, link, broker>>

TaskDone ==
    /\ OperationDone("task")
    /\ EndOperation
    /\ UNCHANGED <<locked, updateWake, setup, publisher, inverterUp,
                   latestConfig, ctxDone, link, broker>>

\* InverterAvailabilityChanged, lines 382-388; the publish comes after the
\* unlock, and only if the connection was up.
InverterAvailabilityChanged(available) ==
    /\ "inverter" \in Faults
    /\ poll = IF available THEN "recovering" ELSE "reading"
    /\ inverterUp' = available
    /\ onlinePublished' = (available /\ connected)
    /\ poll' = CASE connected /\ ~available -> "offline"
                 [] connected /\ available -> "online"
                 [] ~connected /\ ~available -> "recovering"
                 [] OTHER -> "recovered"
    /\ UNCHANGED <<client, connectionID, connected, initialConfigPublished,
                   initialStatusPublished, pollingEnabled, discovery, inbox,
                   updateWake, setup, publisher, due, latestConfig, ctxDone,
                   link, broker>>

\* The offline payload on both branches.
BrokenAnnounce ==
    /\ poll \in {"offline", "online"}
    /\ Publish([broker EXCEPT !.availability = "offline"])
    /\ poll' = IF poll = "offline" THEN "recovering" ELSE "recovered"
    /\ UNCHANGED <<locked, updateWake, setup, publisher, due, inverterUp,
                   latestConfig, ctxDone, link>>

AnnounceAvailability ==
    /\ poll \in {"offline", "online"}
    /\ Publish([broker EXCEPT !.availability = poll])
    /\ poll' = IF poll = "offline" THEN "recovering" ELSE "recovered"
    /\ UNCHANGED <<locked, updateWake, setup, publisher, due, inverterUp,
                   latestConfig, ctxDone, link>>

\* The operation fails for good, or the loop sees the cancelled context.
PollStops ==
    /\ \/ poll \in {"reading", "recovering"} /\ "stop" \in Faults
       \/ poll = "idle" /\ ctxDone
    /\ poll' = "stopped"
    /\ UNCHANGED <<locked, updateWake, setup, publisher, due, inverterUp,
                   latestConfig, ctxDone, link, broker>>

-----------------------------------------------------------------------------
(* run() and runServiceLoops of main.go.                                   *)

\* SIGINT or SIGTERM.
Signal ==
    /\ "stop" \in Faults /\ ~ctxDone
    /\ ctxDone' = TRUE
    /\ UNCHANGED <<locked, updateWake, setup, publisher, poller, link, broker>>

\* The first loop to return makes runServiceLoops stop the other one.
LoopReturned ==
    /\ ~ctxDone
    /\ poll = "stopped"
    /\ ctxDone' = TRUE
    /\ UNCHANGED <<locked, updateWake, setup, publisher, poller, link, broker>>

\* Both loops have returned: the deferred Stop disconnects, the process ends.
Stop ==
    /\ poll = "stopped" /\ pc = "stopped" /\ link # "closed"
    /\ link' = "closed"
    /\ UNCHANGED <<locked, updateWake, setup, publisher, poller, ctxDone,
                   broker>>

Terminated == link = "closed" /\ UNCHANGED vars

-----------------------------------------------------------------------------
Setup(c) ==
    \/ OnConnectBegin(c) \/ SubscribeCheck(c) \/ SubscribeOk(c)
    \/ SubscribeFails(c) \/ OnConnectCommit(c) \/ RequestUpdatePublish(c)
    \/ SetupSignal(c)

Publisher ==
    \/ RunPending \/ PublishDeferred \/ TakeUpdates \/ publishStatus
    \/ publishConfig \/ updateBatteryType \/ RememberConfig \/ PublishReady
    \/ publishDeviceDiscovery \/ PublishOnline \/ SelectWake \/ SelectDone

\* The polling thread once it has begun an operation or must stop.
Operation ==
    \/ StatusUpdated \/ PollSignal \/ TaskDone \/ AnnounceAvailability
    \/ \E config \in Batteries : ConfigUpdated(config)
    \/ \E available \in BOOLEAN : InverterAvailabilityChanged(available)
    \/ PollStops

Link == ConnectionUp \/ LinkBreaks \/ onConnectionLost \/ WillFires

Main == Start \/ Signal \/ LoopReturned \/ Stop

Next ==
    \/ Link
    \/ \E c \in ConnectionIDs : Setup(c)
    \/ Publisher
    \/ \E ops \in Rounds : BeginRound(ops)
    \/ Operation
    \/ Main
    \/ Terminated

Spec == Init /\ [][Next]_vars

\* Every thread that can run does, and the scheduler serves both cases of a
\* select.  The broker grants a subscription retried forever, and while
\* polling is enabled both kinds of reading come due again and again.  The
\* link, the inverter and the signal owe nothing.
Fairness ==
    /\ WF_vars(Start \/ LoopReturned \/ Stop)
    /\ WF_vars(Publisher) /\ SF_vars(SelectDone)
    /\ WF_vars(Operation)
    /\ \A op \in {"config", "status"} :
           SF_vars(\E ops \in Rounds : op \in ops /\ BeginRound(ops))
    /\ WF_vars(\E c \in ConnectionIDs : Setup(c))
    /\ SF_vars(\E c \in ConnectionIDs : Current(c) /\ SubscribeOk(c))

FairSpec == Spec /\ Fairness

-----------------------------------------------------------------------------
SetupStages == {"none", "start", "check", "subscribe", "commit", "request",
                "signal", "done"}
PublisherStages == {"boot", "run", "update", "status", "config", "battery",
                    "remember", "ready", "discovery", "online", "select",
                    "stopped"}
PollStages == {"boot", "idle", "reading", "offline", "recovering", "online",
               "recovered", "signal", "stopped"}

ServiceTypeOK ==
    /\ client \in BOOLEAN /\ connectionID \in 0..MaxConnectionID
    /\ connected \in BOOLEAN /\ initialConfigPublished \in BOOLEAN
    /\ initialStatusPublished \in BOOLEAN /\ onlinePublished \in BOOLEAN
    /\ pollingEnabled \in BOOLEAN /\ discoveryPending \in BOOLEAN
    /\ batteryType \in Config /\ lastPublishedConfig \in Config
    /\ pendingConfig \in Config /\ statusDirty \in BOOLEAN
    /\ configDirty \in BOOLEAN /\ updatesPending \in BOOLEAN
    /\ updateWake \in BOOLEAN

Jobs == [status : BOOLEAN, config : Config, conn : 0..MaxConnectionID,
         discovery : BOOLEAN, online : BOOLEAN]

ThreadsTypeOK ==
    /\ setup \in [ConnectionIDs -> SetupStages]
    /\ pc \in PublisherStages /\ job \in Jobs
    /\ poll \in PollStages /\ due \in SUBSET Operations
    /\ ctxDone \in BOOLEAN

Brokers == [availability : {"online", "offline"}, discovery : Config,
            config : Config, received : SUBSET {"status", "config"}]

EnvironmentTypeOK ==
    /\ link \in {"down", "up", "broken", "closed"}
    /\ inverterUp \in BOOLEAN /\ latestConfig \in Config
    /\ broker \in Brokers

\* Every variable keeps its type; connectionID never passes its bound.
TypeOK == ServiceTypeOK /\ ThreadsTypeOK /\ EnvironmentTypeOK

\* The service takes itself for connected only on the strength of the setup
\* of the current connection: an onConnect goroutine overtaken by a
\* connection loss never puts the service back in service (the checks of
\* connectionID in onConnect).
ConnectedIsCurrent ==
    connected => /\ link # "down"
                 /\ connectionID \in ConnectionIDs
                 /\ setup[connectionID] \in {"request", "signal", "done"}

\* The publisher never sleeps on work: while Run is blocked in its select
\* with an update pending, a wake-up token is there or its sender is about
\* to send it (the mark-unlock-signal order of StatusUpdated, ConfigUpdated
\* and requestUpdatePublish against the check-then-select of Run).
NoLostWakeup ==
    pc = "select" /\ (updatesPending \/ Dirty) =>
        \/ updateWake
        \/ poll = "signal"
        \/ \E c \in ConnectionIDs : setup[c] = "signal"

\* initialConfigPublished and initialStatusPublished speak of the present
\* connection: on a live link, what they say was published did arrive at
\* the broker on this very connection (publishReadyAfterInitialState
\* against a reconnect during publishUpdates).
InitialFlagsTruthful ==
    link = "up" /\ connected =>
        /\ initialConfigPublished => "config" \in broker.received
        /\ initialStatusPublished => "status" \in broker.received

\* Once a connection has carried a config, the newest reading is on the
\* broker or still on its way in the publisher: no reading is lost or
\* overwritten by an older one (the take-and-clear of publishUpdates
\* against ConfigUpdated, across reconnects).
LatestConfigNotLost ==
    link = "up" /\ connected /\ initialConfigPublished =>
        \/ broker.config = latestConfig
        \/ configDirty /\ pendingConfig = latestConfig
        \/ pc \in {"status", "config"} /\ job.config = latestConfig

\* When the service believes it has announced the inverter, nothing is in
\* flight and the link is live, the broker does show it online (the two
\* writers of onlinePublished, publishReadyAfterInitialState and
\* InverterAvailabilityChanged, both publishing after they unlock).
AvailabilityAgrees ==
    /\ link = "up" /\ connected /\ inverterUp /\ onlinePublished
    /\ poll # "online" /\ ~(pc \in {"discovery", "online"} /\ job.online)
    => broker.availability = "online"

\* A connection that stays up with a healthy inverter ends up announced:
\* the availability topic is eventually online for good.
EventuallyOnline ==
    <>[](link = "up" /\ inverterUp /\ ~ctxDone)
        => <>[](broker.availability = "online")

\* After a cancellation the service shuts down, provided it is connected or
\* has nothing left to publish from some point on.
ShutdownWhenDrained ==
    <>[](ctxDone /\ (connected \/ ~Dirty)) => <>(link = "closed")

\* A cancelled service stops (README.md:39, main_test.go:32): whatever is
\* pending, Run returns after ctx is done.
ShutdownCompletes == ctxDone ~> link = "closed"

\* Home Assistant discovery is provided (README.md:4): on a live, fully
\* announced connection with an idle publisher and no discovery pending, the
\* discovery document on the broker is the one of the current battery type.
DiscoveryProvided ==
    /\ link = "up" /\ connected /\ pc = "select"
    /\ initialConfigPublished /\ initialStatusPublished /\ ~discoveryPending
    => broker.discovery = batteryType
=============================================================================
