------------------------- MODULE MQTTServiceProofs -------------------------
(* Proofs about MQTTService, for every value of its constants.             *)
EXTENDS MQTTService, TLAPS

\* The connection numbers: a broken link leaves room for the number of its
\* loss, no goroutine exists for a number not given out yet, and the number
\* given out at a loss never has one.
Numbering ==
    /\ link \in {"up", "broken"} => connectionID \in ConnectionIDs
    /\ link = "broken" => connectionID < MaxConnectionID
    /\ \A c \in ConnectionIDs : c > connectionID => setup[c] = "none"
    /\ \A c \in ConnectionIDs : link = "down" /\ c = connectionID =>
                                    setup[c] = "none"

\* Every initial state has the types and the numbering.
LEMMA InitTyped == Init => TypeOK /\ Numbering /\ ConnectedIsCurrent
  <1> SUFFICES ASSUME Init PROVE TypeOK /\ Numbering /\ ConnectedIsCurrent
    OBVIOUS
  <1>0. 0 \in 0..MaxConnectionID
    BY MaxConnectionIDAssumption
  <1>1. ServiceTypeOK
    BY <1>0 DEF Init, ServiceTypeOK, Config
  <1>2. ThreadsTypeOK
    <2>1. job \in Jobs
      BY <1>0 DEF Init, NoJob, Jobs, Config
    <2>2. setup \in [ConnectionIDs -> SetupStages]
      BY DEF Init, SetupStages
    <2> QED BY <2>1, <2>2 DEF Init, ThreadsTypeOK, PublisherStages, PollStages
  <1>3. EnvironmentTypeOK
    BY DEF Init, EnvironmentTypeOK, Brokers, Config
  <1>4. Numbering
    BY DEF Init, Numbering
  <1>5. ConnectedIsCurrent
    BY DEF Init, ConnectedIsCurrent
  <1> QED BY <1>1, <1>2, <1>3, <1>4, <1>5 DEF TypeOK

\* NoJob is a job.
LEMMA NoJobTyped == NoJob \in Jobs
  BY MaxConnectionIDAssumption DEF NoJob, Jobs, Config

\* Every step keeps the types.
LEMMA StepTyped == ASSUME TypeOK, Numbering, [Next]_vars PROVE TypeOK'
  <1> USE DEF TypeOK, ServiceTypeOK, ThreadsTypeOK, EnvironmentTypeOK, Jobs,
          Brokers, Config, SetupStages, PublisherStages, PollStages,
          locked, connection, discovery, inbox, publisher, poller
  <1>1. ASSUME ConnectionUp PROVE TypeOK'
    <2>1. ServiceTypeOK'
      <3>1. connectionID' \in 0..MaxConnectionID
        BY <1>1, MaxConnectionIDAssumption DEF ConnectionUp, Numbering,
           ConnectionIDs
      <3> QED
        BY <1>1, <3>1 DEF ConnectionUp
    <2>2. ThreadsTypeOK'
      BY <1>1, ZenonT(60) DEF ConnectionUp
    <2>3. EnvironmentTypeOK'
      BY <1>1 DEF ConnectionUp
    <2> QED BY <2>1, <2>2, <2>3 DEF TypeOK
  <1>2. ASSUME LinkBreaks PROVE TypeOK'
    BY <1>2 DEF LinkBreaks
  <1>3. ASSUME onConnectionLost PROVE TypeOK'
    <2>1. ServiceTypeOK'
      <3>1. connectionID' \in 0..MaxConnectionID
        BY <1>3, MaxConnectionIDAssumption DEF onConnectionLost, Numbering,
           ConnectionIDs
      <3> QED
        BY <1>3, <3>1 DEF onConnectionLost, SetPollingEnabled
    <2>2. ThreadsTypeOK'
      BY <1>3 DEF onConnectionLost, SetPollingEnabled
    <2>3. EnvironmentTypeOK'
      BY <1>3 DEF onConnectionLost, SetPollingEnabled
    <2> QED BY <2>1, <2>2, <2>3 DEF TypeOK
  <1>4. ASSUME WillFires PROVE TypeOK'
    BY <1>4 DEF WillFires
  <1>5. ASSUME RunPending PROVE TypeOK'
    <2>1. ServiceTypeOK'
      <3> HIDE DEF ThreadsTypeOK, EnvironmentTypeOK, SetupStages
      <3> QED BY <1>5, ZenonT(60) DEF RunPending, Dirty
    <2>2. ThreadsTypeOK'
      BY <1>5 DEF RunPending, Dirty
    <2>3. EnvironmentTypeOK'
      BY <1>5 DEF RunPending, Dirty
    <2> QED BY <2>1, <2>2, <2>3 DEF TypeOK
  <1>6. ASSUME PublishDeferred PROVE TypeOK'
    BY <1>6 DEF PublishDeferred, Dirty
  <1>7. ASSUME TakeUpdates PROVE TypeOK'
    <2>1. ServiceTypeOK'
      BY <1>7 DEF TakeUpdates, NoJob
    <2>2. ThreadsTypeOK'
      BY <1>7 DEF TakeUpdates, NoJob
    <2>3. EnvironmentTypeOK'
      BY <1>7 DEF TakeUpdates, NoJob
    <2> QED BY <2>1, <2>2, <2>3 DEF TypeOK
  <1>8. ASSUME publishStatus PROVE TypeOK'
    BY <1>8 DEF publishStatus, Publish
  <1>9. ASSUME publishConfig PROVE TypeOK'
    <2>1. ServiceTypeOK'
      BY <1>9 DEF publishConfig, Publish
    <2>2. ThreadsTypeOK'
      BY <1>9 DEF publishConfig, Publish
    <2>3. EnvironmentTypeOK'
      BY <1>9 DEF publishConfig, Publish
    <2> QED BY <2>1, <2>2, <2>3 DEF TypeOK
  <1>10. ASSUME updateBatteryType PROVE TypeOK'
    BY <1>10 DEF updateBatteryType
  <1>11. ASSUME RememberConfig PROVE TypeOK'
    BY <1>11 DEF RememberConfig
  <1>12. ASSUME PublishReady PROVE TypeOK'
    <2>1. ServiceTypeOK'
      BY <1>12 DEF PublishReady
    <2>2. ThreadsTypeOK'
      BY <1>12, NoJobTyped DEF PublishReady
    <2>3. EnvironmentTypeOK'
      BY <1>12 DEF PublishReady
    <2> QED BY <2>1, <2>2, <2>3 DEF TypeOK
  <1>13. ASSUME publishDeviceDiscovery PROVE TypeOK'
    <2>1. ServiceTypeOK'
      BY <1>13 DEF publishDeviceDiscovery, Publish
    <2>2. ThreadsTypeOK'
      BY <1>13, NoJobTyped DEF publishDeviceDiscovery, Publish
    <2>3. EnvironmentTypeOK'
      BY <1>13 DEF publishDeviceDiscovery, Publish
    <2> QED BY <2>1, <2>2, <2>3 DEF TypeOK
  <1>14. ASSUME PublishOnline PROVE TypeOK'
    <2>1. ServiceTypeOK'
      BY <1>14 DEF PublishOnline, Publish
    <2>2. ThreadsTypeOK'
      BY <1>14, NoJobTyped DEF PublishOnline, Publish
    <2>3. EnvironmentTypeOK'
      BY <1>14 DEF PublishOnline, Publish
    <2> QED BY <2>1, <2>2, <2>3 DEF TypeOK
  <1>15. ASSUME SelectWake PROVE TypeOK'
    <2>1. ServiceTypeOK'
      <3> HIDE DEF ThreadsTypeOK, EnvironmentTypeOK, SetupStages
      <3> QED BY <1>15, ZenonT(60) DEF SelectWake
    <2>2. ThreadsTypeOK'
      BY <1>15 DEF SelectWake
    <2>3. EnvironmentTypeOK'
      BY <1>15 DEF SelectWake
    <2> QED BY <2>1, <2>2, <2>3 DEF TypeOK
  <1>16. ASSUME SelectDone PROVE TypeOK'
    BY <1>16 DEF SelectDone
  <1>17. ASSUME StatusUpdated PROVE TypeOK'
    BY <1>17 DEF StatusUpdated
  <1>18. ASSUME PollSignal PROVE TypeOK'
    <2>1. ServiceTypeOK'
      BY <1>18 DEF PollSignal, EndOperation, signalUpdatePublisher
    <2>2. ThreadsTypeOK'
      BY <1>18 DEF PollSignal, EndOperation, signalUpdatePublisher
    <2>3. EnvironmentTypeOK'
      BY <1>18 DEF PollSignal, EndOperation, signalUpdatePublisher
    <2> QED BY <2>1, <2>2, <2>3 DEF TypeOK
  <1>19. ASSUME TaskDone PROVE TypeOK'
    <2>1. ServiceTypeOK'
      BY <1>19 DEF TaskDone, EndOperation
    <2>2. ThreadsTypeOK'
      BY <1>19 DEF TaskDone, EndOperation
    <2>3. EnvironmentTypeOK'
      BY <1>19 DEF TaskDone, EndOperation
    <2> QED BY <2>1, <2>2, <2>3 DEF TypeOK
  <1>20. ASSUME AnnounceAvailability PROVE TypeOK'
    BY <1>20 DEF AnnounceAvailability, Publish
  <1>21. ASSUME PollStops PROVE TypeOK'
    BY <1>21 DEF PollStops
  <1>22. ASSUME Start PROVE TypeOK'
    BY <1>22 DEF Start
  <1>23. ASSUME Signal PROVE TypeOK'
    BY <1>23 DEF Signal
  <1>24. ASSUME LoopReturned PROVE TypeOK'
    BY <1>24 DEF LoopReturned
  <1>25. ASSUME Stop PROVE TypeOK'
    BY <1>25 DEF Stop
  <1>26. ASSUME NEW c \in ConnectionIDs, OnConnectBegin(c) PROVE TypeOK'
    BY <1>26 DEF OnConnectBegin, SetupTo
  <1>27. ASSUME NEW c \in ConnectionIDs, SubscribeCheck(c) PROVE TypeOK'
    BY <1>27 DEF SubscribeCheck, SetupTo
  <1>28. ASSUME NEW c \in ConnectionIDs, SubscribeOk(c) PROVE TypeOK'
    BY <1>28 DEF SubscribeOk, SetupTo
  <1>29. ASSUME NEW c \in ConnectionIDs, SubscribeFails(c) PROVE TypeOK'
    BY <1>29 DEF SubscribeFails, SetupTo
  <1>30. ASSUME NEW c \in ConnectionIDs, OnConnectCommit(c) PROVE TypeOK'
    <2>1. ServiceTypeOK'
      <3> HIDE DEF ThreadsTypeOK, EnvironmentTypeOK, SetupStages
      <3>1. CASE Current(c)
        BY <1>30, <3>1 DEF OnConnectCommit, SetPollingEnabled
      <3>2. CASE ~Current(c)
        BY <1>30, <3>2 DEF OnConnectCommit, SetPollingEnabled
      <3> QED BY <3>1, <3>2
    <2>2. ThreadsTypeOK'
      BY <1>30 DEF OnConnectCommit, SetupTo, SetPollingEnabled
    <2>3. EnvironmentTypeOK'
      BY <1>30 DEF OnConnectCommit, SetupTo, SetPollingEnabled
    <2> QED BY <2>1, <2>2, <2>3 DEF TypeOK
  <1>31. ASSUME NEW c \in ConnectionIDs, RequestUpdatePublish(c) PROVE TypeOK'
    BY <1>31 DEF RequestUpdatePublish, SetupTo
  <1>32. ASSUME NEW c \in ConnectionIDs, SetupSignal(c) PROVE TypeOK'
    BY <1>32 DEF SetupSignal, SetupTo, signalUpdatePublisher
  <1>33. ASSUME NEW ops \in Rounds, BeginRound(ops) PROVE TypeOK'
    BY <1>33, RoundsAssumption DEF BeginRound
  <1>34. ASSUME NEW b \in Batteries, ConfigUpdated(b) PROVE TypeOK'
    BY <1>34 DEF ConfigUpdated
  <1>35. ASSUME NEW available \in BOOLEAN,
                InverterAvailabilityChanged(available)
         PROVE  TypeOK'
    <2>1. ServiceTypeOK'
      BY <1>35 DEF InverterAvailabilityChanged
    <2>2. ThreadsTypeOK'
      BY <1>35 DEF InverterAvailabilityChanged
    <2>3. EnvironmentTypeOK'
      BY <1>35 DEF InverterAvailabilityChanged
    <2> QED BY <2>1, <2>2, <2>3 DEF TypeOK
  <1>36. ASSUME UNCHANGED vars PROVE TypeOK'
    BY <1>36 DEF vars
  <1> HIDE DEF TypeOK
  <1> QED
    BY <1>1, <1>2, <1>3, <1>4, <1>5, <1>6, <1>7, <1>8, <1>9, <1>10, <1>11,
       <1>12, <1>13, <1>14, <1>15, <1>16, <1>17, <1>18, <1>19, <1>20, <1>21,
       <1>22, <1>23, <1>24, <1>25, <1>26, <1>27, <1>28, <1>29, <1>30, <1>31,
       <1>32, <1>33, <1>34, <1>35, <1>36 DEF Next, Link, Setup, Publisher,
       Operation, Main, Terminated

-----------------------------------------------------------------------------
\* The steps of the publisher, of the polling thread and of main, and the
\* will, leave the connection bookkeeping alone.
LEMMA QuietSteps ==
    ASSUME \/ Publisher \/ Operation \/ WillFires
           \/ \E ops \in Rounds : BeginRound(ops)
           \/ Start \/ Signal \/ LoopReturned \/ Terminated \/ UNCHANGED vars
    PROVE  UNCHANGED <<connectionID, connected, setup>>
           /\ (UNCHANGED link)
  <1> USE DEF vars, locked, connection, discovery, inbox, publisher, poller
  <1>1. CASE Publisher
    BY <1>1 DEF Publisher, RunPending, PublishDeferred, TakeUpdates,
       publishStatus, publishConfig, updateBatteryType, RememberConfig,
       PublishReady, publishDeviceDiscovery, PublishOnline, SelectWake,
       SelectDone
  <1>2. CASE Operation
    BY <1>2 DEF Operation, StatusUpdated, PollSignal, TaskDone,
       AnnounceAvailability, ConfigUpdated, InverterAvailabilityChanged,
       PollStops
  <1>3. CASE WillFires \/ Terminated \/ UNCHANGED vars
    BY <1>3 DEF WillFires, Terminated
  <1>4. CASE \E ops \in Rounds : BeginRound(ops)
    BY <1>4 DEF BeginRound
  <1>5. CASE Start \/ Signal \/ LoopReturned
    BY <1>5 DEF Start, Signal, LoopReturned
  <1> QED BY <1>1, <1>2, <1>3, <1>4, <1>5

\* Every step keeps the numbering, and puts the service in service only for
\* the current connection.
LEMMA StepConnection ==
    ASSUME TypeOK, Numbering, ConnectedIsCurrent, [Next]_vars
    PROVE  Numbering' /\ ConnectedIsCurrent'
  <1> USE MaxConnectionIDAssumption
      DEF Numbering, ConnectedIsCurrent, ConnectionIDs, TypeOK, ServiceTypeOK,
          ThreadsTypeOK, EnvironmentTypeOK
  <1>1. CASE UNCHANGED <<connectionID, connected, setup>> /\ UNCHANGED link
    BY <1>1
  <1>2. CASE ConnectionUp
    BY <1>2 DEF ConnectionUp, connection, SetupStages
  <1>3. CASE LinkBreaks
    BY <1>3 DEF LinkBreaks, locked, connection
  <1>4. CASE onConnectionLost
    BY <1>4 DEF onConnectionLost, SetPollingEnabled
  <1>5. CASE Stop
    BY <1>5 DEF Stop, locked, connection
  <1>6. ASSUME NEW c \in ConnectionIDs, Setup(c)
        PROVE  Numbering' /\ ConnectedIsCurrent'
    <2>0. setup[c] # "none"
      <3> HIDE MaxConnectionIDAssumption DEF TypeOK, Numbering,
               ConnectedIsCurrent
      <3> QED
        BY <1>6 DEF Setup, SetupAt, OnConnectBegin, SubscribeCheck,
           SubscribeOk, SubscribeFails, OnConnectCommit,
           RequestUpdatePublish, SetupSignal
    <2>1. setup[c] # "none" /\ c <= connectionID
      BY <2>0
    <2>2. CASE OnConnectBegin(c) \/ SubscribeCheck(c) \/ SubscribeOk(c)
               \/ SubscribeFails(c)
      BY <2>1, <2>2 DEF OnConnectBegin, SubscribeCheck, SubscribeOk,
         SubscribeFails, SetupAt, SetupTo, locked, connection
    <2>3. CASE OnConnectCommit(c)
      BY <2>1, <2>3 DEF OnConnectCommit, SetupAt, SetupTo, Current
    <2>4. CASE RequestUpdatePublish(c) \/ SetupSignal(c)
      BY <2>1, <2>4 DEF RequestUpdatePublish, SetupSignal, SetupAt, SetupTo,
         locked, connection
    <2> QED BY <1>6, <2>2, <2>3, <2>4 DEF Setup
  <1> HIDE DEF Numbering, ConnectedIsCurrent
  <1> QED BY <1>1, <1>2, <1>3, <1>4, <1>5, <1>6, QuietSteps
          DEF Next, Link, Main

-----------------------------------------------------------------------------
\* The publisher sleeps only on an empty inbox, and whoever fills the inbox
\* still owes, or has left, a wake-up token.
LEMMA StepWakeup ==
    ASSUME TypeOK, Numbering, NoLostWakeup, [Next]_vars
    PROVE  NoLostWakeup'
  <1> USE DEF NoLostWakeup, Dirty, locked, inbox, publisher, poller
  <1>1. CASE UNCHANGED <<pc, updatesPending, statusDirty, configDirty,
                         updateWake, poll, setup>>
    BY <1>1
  <1>2. CASE Publisher
    BY <1>2 DEF Publisher, RunPending, PublishDeferred, TakeUpdates,
       publishStatus, publishConfig, updateBatteryType, RememberConfig,
       PublishReady, publishDeviceDiscovery, PublishOnline, SelectWake,
       SelectDone
  <1>3. CASE StatusUpdated \/ (\E b \in Batteries : ConfigUpdated(b))
    BY <1>3 DEF StatusUpdated, ConfigUpdated
  <1>4. CASE PollSignal \/ (\E c \in ConnectionIDs : SetupSignal(c))
    BY <1>4 DEF PollSignal, SetupSignal, signalUpdatePublisher
  <1>5. CASE TaskDone \/ AnnounceAvailability \/ PollStops
             \/ (\E ops \in Rounds : BeginRound(ops))
             \/ (\E a \in BOOLEAN : InverterAvailabilityChanged(a))
    BY <1>5 DEF TaskDone, AnnounceAvailability, PollStops, BeginRound,
       InverterAvailabilityChanged, OperationDone
  <1>6. CASE Start
    BY <1>6 DEF Start
  <1>7. CASE ConnectionUp
    <2>1. \A c \in ConnectionIDs : setup[c] = "signal" => setup'[c] = "signal"
      BY <1>7, MaxConnectionIDAssumption DEF ConnectionUp, Numbering, TypeOK,
         ServiceTypeOK, ThreadsTypeOK, ConnectionIDs
    <2> QED BY <1>7, <2>1 DEF ConnectionUp
  <1>8. ASSUME NEW c \in ConnectionIDs,
               \/ OnConnectBegin(c) \/ SubscribeCheck(c) \/ SubscribeOk(c)
               \/ SubscribeFails(c) \/ OnConnectCommit(c)
        PROVE  NoLostWakeup'
    <2>1. \A d \in ConnectionIDs : setup[d] = "signal" => setup'[d] = "signal"
      BY <1>8 DEF OnConnectBegin, SubscribeCheck, SubscribeOk, SubscribeFails,
         OnConnectCommit, SetupAt, SetupTo, TypeOK, ThreadsTypeOK
    <2>2. UNCHANGED <<pc, updatesPending, statusDirty, configDirty,
                      updateWake, poll>>
      BY <1>8 DEF OnConnectBegin, SubscribeCheck, SubscribeOk, SubscribeFails,
         OnConnectCommit
    <2> QED BY <2>1, <2>2
  <1>9. ASSUME NEW c \in ConnectionIDs, RequestUpdatePublish(c)
        PROVE  NoLostWakeup'
    BY <1>9 DEF RequestUpdatePublish, SetupTo, TypeOK, ThreadsTypeOK
  <1>10. CASE LinkBreaks \/ onConnectionLost \/ WillFires \/ Signal
              \/ LoopReturned \/ Stop \/ Terminated \/ UNCHANGED vars
    BY <1>1, <1>10 DEF LinkBreaks, onConnectionLost, WillFires, Signal,
       LoopReturned, Stop, Terminated, vars
  <1> HIDE DEF NoLostWakeup
  <1> QED BY <1>2, <1>3, <1>4, <1>5, <1>6, <1>7, <1>8, <1>9, <1>10
          DEF Next, Link, Setup, Operation, Main

-----------------------------------------------------------------------------
\* A connection that is being or has been set up, and a publisher that has
\* taken updates, have a client to publish with.
HasClient ==
    /\ connected => client
    /\ \A c \in ConnectionIDs :
           setup[c] \in {"check", "subscribe", "commit"} => client
    /\ pc \in {"status", "config", "battery", "remember", "ready"} => client

\* Every step keeps HasClient: the client is installed before the first
\* subscription and never removed.
LEMMA StepClient == ASSUME TypeOK, HasClient, [Next]_vars PROVE HasClient'
  <1> USE DEF HasClient, locked, connection, publisher, poller
  <1>0. setup \in [ConnectionIDs -> SetupStages]
    BY DEF TypeOK, ThreadsTypeOK
  <1>1. CASE UNCHANGED <<connected, setup, pc>> /\ (client => client')
    BY <1>1
  <1>2. CASE ConnectionUp
    BY <1>0, <1>2 DEF ConnectionUp
  <1>3. CASE LinkBreaks \/ WillFires \/ Stop \/ Signal \/ LoopReturned
             \/ Terminated \/ UNCHANGED vars
    BY <1>1, <1>3 DEF LinkBreaks, WillFires, Stop, Signal, LoopReturned,
       Terminated, vars
  <1>4. CASE onConnectionLost
    BY <1>4 DEF onConnectionLost
  <1>5. CASE Publisher
    <2>1. UNCHANGED <<connected, setup, client>>
      BY <1>5 DEF Publisher, RunPending, PublishDeferred, TakeUpdates,
         publishStatus, publishConfig, updateBatteryType, RememberConfig,
         PublishReady, publishDeviceDiscovery, PublishOnline, SelectWake,
         SelectDone
    <2>2. pc' \in {"status", "config", "battery", "remember", "ready"}
            => pc \in {"status", "config", "battery", "remember"}
               \/ (pc = "update" /\ connected)
      BY <1>5 DEF Publisher, RunPending, PublishDeferred, TakeUpdates,
         publishStatus, publishConfig, updateBatteryType, RememberConfig,
         PublishReady, publishDeviceDiscovery, PublishOnline, SelectWake,
         SelectDone
    <2> QED BY <2>1, <2>2
  <1>6. CASE Operation \/ (\E ops \in Rounds : BeginRound(ops))
    BY <1>1, <1>6 DEF Operation, BeginRound, StatusUpdated, PollSignal,
       TaskDone, AnnounceAvailability, ConfigUpdated,
       InverterAvailabilityChanged, PollStops
  <1>7. CASE Start
    BY <1>7 DEF Start
  <1>8. ASSUME NEW c \in ConnectionIDs, Setup(c) PROVE HasClient'
    <2>1. CASE OnConnectBegin(c)
      <3>1. CASE Current(c)
        BY <2>1, <3>1 DEF OnConnectBegin
      <3>2. CASE ~Current(c)
        <4>1. setup' = [setup EXCEPT ![c] = "done"]
              /\ (client => client')
              /\ UNCHANGED <<connected, pc>>
          BY <2>1, <3>2 DEF OnConnectBegin, SetupTo
        <4> QED BY <1>0, <4>1
      <3> QED BY <3>1, <3>2
    <2>2. CASE SubscribeCheck(c) \/ SubscribeOk(c) \/ SubscribeFails(c)
      BY <1>0, <2>2 DEF SubscribeCheck, SubscribeOk, SubscribeFails, SetupAt,
         SetupTo
    <2>3. CASE OnConnectCommit(c)
      BY <1>0, <2>3 DEF OnConnectCommit, SetupAt, SetupTo
    <2>4. CASE RequestUpdatePublish(c) \/ SetupSignal(c)
      BY <1>0, <2>4 DEF RequestUpdatePublish, SetupSignal, SetupAt, SetupTo
    <2> QED BY <1>8, <2>1, <2>2, <2>3, <2>4 DEF Setup
  <1> HIDE DEF HasClient
  <1> QED BY <1>2, <1>3, <1>4, <1>5, <1>6, <1>7, <1>8 DEF Next, Link, Main

\* What the publisher carries: a taken config is a reading, its connection
\* number is never ahead, and as long as that connection lives, what it has
\* published has arrived.
Delivery ==
    /\ configDirty <=> pendingConfig # NoBattery
    /\ job.conn <= connectionID
    /\ link = "up" /\ job.conn = connectionID =>
        /\ pc \in {"config", "battery", "remember", "ready"} /\ job.status
              => "status" \in broker.received
        /\ pc \in {"battery", "remember", "ready"} /\ job.config # NoBattery
              => "config" \in broker.received

\* Initially nothing is carried and nothing is claimed.
LEMMA InitDelivery == Init => HasClient /\ Delivery /\ InitialFlagsTruthful
  BY DEF Init, HasClient, Delivery, InitialFlagsTruthful, NoJob

\* Every step keeps Delivery, and with it the truth of the initial flags.
LEMMA StepDelivery ==
    ASSUME TypeOK, Numbering, ConnectedIsCurrent, HasClient, Delivery,
           InitialFlagsTruthful, [Next]_vars
    PROVE  Delivery' /\ InitialFlagsTruthful'
  <1> USE DEF HasClient, Delivery, InitialFlagsTruthful, locked, connection,
          discovery, inbox, publisher, poller
  <1> DEFINE Typed == /\ connectionID \in Nat /\ job.conn \in Nat
                      /\ job \in Jobs /\ broker \in Brokers
                      /\ connected => link # "down"
  <1>0. Typed
    BY MaxConnectionIDAssumption DEF TypeOK, ServiceTypeOK, ThreadsTypeOK,
       EnvironmentTypeOK, ConnectedIsCurrent, Jobs
  <1>1. CASE UNCHANGED <<connected, client, pc, configDirty, pendingConfig,
                         job, connectionID, link, broker,
                         initialConfigPublished, initialStatusPublished>>
    BY <1>1
  <1>2. CASE ConnectionUp
    BY <1>0, <1>2 DEF ConnectionUp, Brokers
  <1>3. CASE LinkBreaks \/ Stop
    BY <1>3 DEF LinkBreaks, Stop
  <1>4. CASE onConnectionLost
    BY <1>0, <1>4 DEF onConnectionLost
  <1>5. CASE WillFires
    BY <1>0, <1>5 DEF WillFires, Brokers
  <1>6. CASE TakeUpdates
    BY <1>0, <1>6 DEF TakeUpdates, NoJob, Jobs
  <1>7. CASE publishStatus
    BY <1>0, <1>7 DEF publishStatus, Publish, Deliverable, Brokers
  <1>8. CASE publishConfig
    BY <1>0, <1>8 DEF publishConfig, Publish, Deliverable, Brokers
  <1>9. CASE RunPending \/ PublishDeferred \/ updateBatteryType
             \/ RememberConfig \/ SelectWake \/ SelectDone
    BY <1>9 DEF RunPending, PublishDeferred, updateBatteryType,
       RememberConfig, SelectWake, SelectDone
  <1>10. CASE PublishReady
    <2>1. job'.conn = job.conn \/ job'.conn = 0
      BY <1>0, <1>10 DEF PublishReady, NoJob, Jobs
    <2>2. pc' \in {"discovery", "online", "run"}
      BY <1>10 DEF PublishReady
    <2>3. UNCHANGED <<connected, client, configDirty, pendingConfig,
                      connectionID, link, broker>>
      BY <1>10 DEF PublishReady
    <2>4. /\ initialConfigPublished' => initialConfigPublished
                \/ (connected /\ Current(job.conn) /\ job.config # NoBattery)
          /\ initialStatusPublished' => initialStatusPublished
                \/ (connected /\ Current(job.conn) /\ job.status)
      BY <1>10 DEF PublishReady
    <2>5. job'.conn <= connectionID'
      BY <1>0, <2>1, <2>3
    <2>6. Delivery'
      BY <2>2, <2>3, <2>5
    <2>7. InitialFlagsTruthful'
      BY <1>10, <2>3, <2>4 DEF PublishReady, Current
    <2> QED BY <2>6, <2>7
  <1>11. CASE publishDeviceDiscovery \/ PublishOnline
    BY <1>0, <1>11 DEF publishDeviceDiscovery, PublishOnline, Publish, NoJob,
       Brokers, Jobs
  <1>12. CASE AnnounceAvailability
    BY <1>0, <1>12 DEF AnnounceAvailability, Publish, Brokers
  <1>13. ASSUME NEW b \in Batteries, ConfigUpdated(b)
         PROVE  Delivery' /\ InitialFlagsTruthful'
    BY <1>13, BatteriesAssumption DEF ConfigUpdated
  <1>14. CASE StatusUpdated \/ PollSignal \/ TaskDone \/ PollStops
              \/ (\E ops \in Rounds : BeginRound(ops))
              \/ (\E a \in BOOLEAN : InverterAvailabilityChanged(a))
    BY <1>1, <1>14 DEF StatusUpdated, PollSignal, TaskDone, PollStops,
       BeginRound, InverterAvailabilityChanged
  <1>15. CASE Start
    BY <1>15 DEF Start
  <1>16. CASE Signal \/ LoopReturned \/ Terminated \/ UNCHANGED vars
    BY <1>1, <1>16 DEF Signal, LoopReturned, Terminated, vars
  <1>17. ASSUME NEW c \in ConnectionIDs,
                \/ SubscribeCheck(c) \/ SubscribeOk(c) \/ SubscribeFails(c)
                \/ RequestUpdatePublish(c) \/ SetupSignal(c)
         PROVE  Delivery' /\ InitialFlagsTruthful'
    BY <1>1, <1>17 DEF SubscribeCheck, SubscribeOk, SubscribeFails,
       RequestUpdatePublish, SetupSignal
  <1>18. ASSUME NEW c \in ConnectionIDs, OnConnectBegin(c)
         PROVE  Delivery' /\ InitialFlagsTruthful'
    BY <1>18 DEF OnConnectBegin
  <1>19. ASSUME NEW c \in ConnectionIDs, OnConnectCommit(c)
         PROVE  Delivery' /\ InitialFlagsTruthful'
    BY <1>0, <1>19 DEF OnConnectCommit
  <1> HIDE DEF Delivery, InitialFlagsTruthful
  <1> QED
    BY <1>2, <1>3, <1>4, <1>5, <1>6, <1>7, <1>8, <1>9, <1>10, <1>11, <1>12,
       <1>13, <1>14, <1>15, <1>16, <1>17, <1>18, <1>19
       DEF Next, Link, Setup, Publisher, Operation, Main

-----------------------------------------------------------------------------
\* Where the newest reading is.  A pending one is the newest; one that was
\* taken is, unless a newer one is pending; and as long as the connection it
\* was taken for lives, it is on the broker once it has been published.
Newest ==
    /\ latestConfig = NoBattery =>
           broker.config = NoBattery /\ job.config = NoBattery
    /\ configDirty => pendingConfig = latestConfig
    /\ pc \in {"config", "battery", "remember"} => job.config # NoBattery
    /\ job.config # NoBattery /\ ~configDirty =>
           /\ pc \in {"status", "config"} => job.config = latestConfig
           /\ link = "up" /\ job.conn = connectionID
              /\ pc \in {"battery", "remember", "ready"}
              => broker.config = latestConfig

\* No reading has come yet, and none is claimed.
LEMMA InitNewest == Init => Newest /\ LatestConfigNotLost
  BY DEF Init, Newest, LatestConfigNotLost, NoJob

\* Every step keeps the newest reading pending, taken or on the broker.
LEMMA StepNewest ==
    ASSUME TypeOK, ConnectedIsCurrent, HasClient, Delivery, Newest,
           LatestConfigNotLost, [Next]_vars
    PROVE  Newest' /\ LatestConfigNotLost'
  <1> USE DEF Newest, LatestConfigNotLost, locked, connection, discovery,
          inbox, publisher, poller
  <1>0. /\ connectionID \in Nat /\ job.conn \in Nat
        /\ job \in Jobs /\ broker \in Brokers
        /\ connected => link # "down" /\ client
        /\ job.conn <= connectionID
        /\ configDirty <=> pendingConfig # NoBattery
        /\ pc \in {"status", "config", "battery", "remember", "ready"} => client
    BY MaxConnectionIDAssumption DEF TypeOK, ServiceTypeOK, ThreadsTypeOK,
       EnvironmentTypeOK, ConnectedIsCurrent, HasClient, Delivery, Jobs
  <1>1. CASE UNCHANGED <<connected, pc, configDirty, pendingConfig, job,
                         connectionID, link, broker, initialConfigPublished,
                         latestConfig>>
    BY <1>1
  <1>2. CASE ConnectionUp
    BY <1>0, <1>2 DEF ConnectionUp, Brokers
  <1>3. CASE LinkBreaks \/ Stop
    BY <1>3 DEF LinkBreaks, Stop
  <1>4. CASE onConnectionLost
    BY <1>4 DEF onConnectionLost
  <1>5. CASE WillFires
    BY <1>0, <1>5 DEF WillFires, Brokers
  <1>6. CASE TakeUpdates
    BY <1>0, <1>6 DEF TakeUpdates, NoJob, Jobs
  <1>7. CASE publishStatus
    BY <1>0, <1>7 DEF publishStatus, Publish, Deliverable, Brokers
  <1>8. CASE publishConfig
    BY <1>0, <1>8 DEF publishConfig, Publish, Deliverable, Brokers
  <1>9. CASE RunPending \/ PublishDeferred \/ updateBatteryType
             \/ RememberConfig \/ SelectWake \/ SelectDone
    BY <1>9 DEF RunPending, PublishDeferred, updateBatteryType,
       RememberConfig, SelectWake, SelectDone
  <1>10. CASE PublishReady
    <2>1. job'.config \in {job.config, NoBattery}
      BY <1>0, <1>10 DEF PublishReady, NoJob, Jobs
    <2>2. pc' \in {"discovery", "online", "run"} /\ pc = "ready"
      BY <1>10 DEF PublishReady
    <2>3. UNCHANGED <<connected, configDirty, pendingConfig, connectionID,
                      link, broker, latestConfig>>
      BY <1>10 DEF PublishReady
    <2>4. initialConfigPublished' => initialConfigPublished
              \/ (Current(job.conn) /\ job.config # NoBattery)
      BY <1>10 DEF PublishReady
    <2> QED BY <2>1, <2>2, <2>3, <2>4 DEF Current
  <1>11. CASE publishDeviceDiscovery \/ PublishOnline
    BY <1>0, <1>11 DEF publishDeviceDiscovery, PublishOnline, Publish, NoJob,
       Brokers, Jobs
  <1>12. CASE AnnounceAvailability
    BY <1>0, <1>12 DEF AnnounceAvailability, Publish, Brokers
  <1>13. ASSUME NEW b \in Batteries, ConfigUpdated(b)
         PROVE  Newest' /\ LatestConfigNotLost'
    BY <1>13, BatteriesAssumption DEF ConfigUpdated
  <1>14. CASE StatusUpdated \/ PollSignal \/ TaskDone \/ PollStops
              \/ (\E ops \in Rounds : BeginRound(ops))
              \/ (\E a \in BOOLEAN : InverterAvailabilityChanged(a))
    BY <1>1, <1>14 DEF StatusUpdated, PollSignal, TaskDone, PollStops,
       BeginRound, InverterAvailabilityChanged
  <1>15. CASE Start
    BY <1>15 DEF Start
  <1>16. CASE Signal \/ LoopReturned \/ Terminated \/ UNCHANGED vars
    BY <1>1, <1>16 DEF Signal, LoopReturned, Terminated, vars
  <1>17. ASSUME NEW c \in ConnectionIDs,
                \/ OnConnectBegin(c) \/ SubscribeCheck(c) \/ SubscribeOk(c)
                \/ SubscribeFails(c) \/ RequestUpdatePublish(c)
                \/ SetupSignal(c)
         PROVE  Newest' /\ LatestConfigNotLost'
    BY <1>1, <1>17 DEF OnConnectBegin, SubscribeCheck, SubscribeOk,
       SubscribeFails, RequestUpdatePublish, SetupSignal
  <1>18. ASSUME NEW c \in ConnectionIDs, OnConnectCommit(c)
         PROVE  Newest' /\ LatestConfigNotLost'
    BY <1>18 DEF OnConnectCommit
  <1> HIDE DEF Newest, LatestConfigNotLost
  <1> QED
    BY <1>2, <1>3, <1>4, <1>5, <1>6, <1>7, <1>8, <1>9, <1>10, <1>11, <1>12,
       <1>13, <1>14, <1>15, <1>16, <1>17, <1>18
       DEF Next, Link, Setup, Publisher, Operation, Main

-----------------------------------------------------------------------------
\* "offline" is on its way only while the inverter is down, and nothing is
\* before the loops have started.
OfflineWhileDown ==
    /\ poll = "offline" => ~inverterUp
    /\ pc = "boot" => poll = "boot"

\* Nothing is announced yet.
LEMMA InitAvailability == Init => OfflineWhileDown /\ AvailabilityAgrees
  BY DEF Init, OfflineWhileDown, AvailabilityAgrees

\* Every step keeps the announced availability and what the service believes
\* of it together: each writer of onlinePublished still has its publish ahead
\* of it, and only a fallen inverter or a lost link takes "online" back.
LEMMA StepAvailability ==
    ASSUME TypeOK, ConnectedIsCurrent, HasClient, OfflineWhileDown,
           AvailabilityAgrees, [Next]_vars
    PROVE  OfflineWhileDown' /\ AvailabilityAgrees'
  <1> USE DEF OfflineWhileDown, AvailabilityAgrees, locked, connection,
          discovery, inbox, publisher, poller
  <1>0. /\ job \in Jobs /\ broker \in Brokers
        /\ connected => link # "down" /\ client
    BY DEF TypeOK, ThreadsTypeOK, EnvironmentTypeOK, ConnectedIsCurrent,
       HasClient
  <1>1. CASE UNCHANGED <<connected, pc, job, link, broker, onlinePublished,
                         inverterUp, poll>>
    BY <1>1
  <1>2. CASE ConnectionUp
    BY <1>0, <1>2 DEF ConnectionUp, Brokers
  <1>3. CASE LinkBreaks \/ Stop
    BY <1>3 DEF LinkBreaks, Stop
  <1>4. CASE onConnectionLost
    BY <1>4 DEF onConnectionLost
  <1>5. CASE WillFires
    BY <1>5 DEF WillFires
  <1>6. CASE TakeUpdates \/ RunPending \/ PublishDeferred
             \/ updateBatteryType \/ RememberConfig \/ SelectWake
             \/ SelectDone
    <2>1. /\ pc \notin {"discovery", "online"} /\ pc' # "boot"
          /\ UNCHANGED <<connected, link, broker, onlinePublished, inverterUp,
                         poll>>
      BY <1>6 DEF TakeUpdates, RunPending, PublishDeferred, updateBatteryType,
         RememberConfig, SelectWake, SelectDone
    <2> QED BY <2>1
  <1>7. CASE publishStatus
    BY <1>0, <1>7 DEF publishStatus, Publish, Brokers
  <1>8. CASE publishConfig
    BY <1>0, <1>8 DEF publishConfig, Publish, Brokers
  <1>9. CASE PublishReady
    <2>1. CASE onlinePublished
      BY <1>9, <2>1 DEF PublishReady
    <2>2. CASE ~onlinePublished /\ onlinePublished'
      <3>1. pc' \in {"discovery", "online"} /\ job'.online
        BY <1>0, <1>9, <2>2 DEF PublishReady, Jobs
      <3>2. UNCHANGED <<poll, inverterUp>>
        BY <1>9 DEF PublishReady
      <3> QED BY <3>1, <3>2
    <2>3. CASE ~onlinePublished'
      BY <1>9, <2>3 DEF PublishReady
    <2> QED BY <2>1, <2>2, <2>3
  <1>10. CASE publishDeviceDiscovery
    BY <1>0, <1>10 DEF publishDeviceDiscovery, Publish, Brokers
  <1>11. CASE PublishOnline
    BY <1>0, <1>11 DEF PublishOnline, Publish, Deliverable, Brokers
  <1>12. CASE AnnounceAvailability
    BY <1>0, <1>12 DEF AnnounceAvailability, Publish, Deliverable, Brokers
  <1>13. ASSUME NEW a \in BOOLEAN, InverterAvailabilityChanged(a)
         PROVE  OfflineWhileDown' /\ AvailabilityAgrees'
    <2>1. CASE a
      BY <1>13, <2>1 DEF InverterAvailabilityChanged
    <2>2. CASE ~a
      BY <1>13, <2>2 DEF InverterAvailabilityChanged
    <2> QED BY <2>1, <2>2
  <1>14. CASE StatusUpdated \/ PollSignal \/ TaskDone \/ PollStops
              \/ (\E b \in Batteries : ConfigUpdated(b))
              \/ (\E ops \in Rounds : BeginRound(ops))
    <2>1. UNCHANGED <<connected, link, broker, onlinePublished, inverterUp, pc,
                      job>>
      BY <1>14 DEF StatusUpdated, PollSignal, TaskDone, PollStops,
         ConfigUpdated, BeginRound
    <2>2. poll \notin {"online", "boot"}
      BY <1>14 DEF StatusUpdated, PollSignal, TaskDone, PollStops,
         ConfigUpdated, BeginRound, OperationDone
    <2>3. poll' \notin {"offline", "online"}
      BY <1>14 DEF StatusUpdated, PollSignal, TaskDone, PollStops,
         ConfigUpdated, BeginRound, EndOperation
    <2> QED BY <2>1, <2>2, <2>3
  <1>15. CASE Signal \/ LoopReturned \/ Terminated \/ UNCHANGED vars
    BY <1>1, <1>15 DEF Signal, LoopReturned, Terminated, vars
  <1>16. ASSUME NEW c \in ConnectionIDs,
                \/ OnConnectBegin(c) \/ SubscribeCheck(c) \/ SubscribeOk(c)
                \/ SubscribeFails(c) \/ RequestUpdatePublish(c)
                \/ SetupSignal(c)
         PROVE  OfflineWhileDown' /\ AvailabilityAgrees'
    BY <1>1, <1>16 DEF OnConnectBegin, SubscribeCheck, SubscribeOk,
       SubscribeFails, RequestUpdatePublish, SetupSignal
  <1>17. ASSUME NEW c \in ConnectionIDs, OnConnectCommit(c)
         PROVE  OfflineWhileDown' /\ AvailabilityAgrees'
    BY <1>17 DEF OnConnectCommit
  <1>18. CASE Start
    BY <1>18 DEF Start
  <1> HIDE DEF OfflineWhileDown, AvailabilityAgrees
  <1> QED
    BY <1>2, <1>3, <1>4, <1>5, <1>6, <1>7, <1>8, <1>9, <1>10, <1>11, <1>12,
       <1>13, <1>14, <1>15, <1>16, <1>17, <1>18
       DEF Next, Link, Setup, Publisher, Operation, Main

-----------------------------------------------------------------------------
\* The inductive invariant: the properties proved below and the parts that
\* carry them through a step.
Invariant ==
    /\ TypeOK /\ Numbering /\ ConnectedIsCurrent
    /\ NoLostWakeup
    /\ HasClient /\ Delivery /\ InitialFlagsTruthful
    /\ Newest /\ LatestConfigNotLost
    /\ OfflineWhileDown /\ AvailabilityAgrees

\* Invariant holds initially and no step breaks it.
THEOREM InvariantHolds == Spec => []Invariant
  <1>1. Init => NoLostWakeup
    BY DEF Init, NoLostWakeup
  <1>2. Init => Invariant
    BY <1>1, InitTyped, InitDelivery, InitNewest, InitAvailability
       DEF Invariant
  <1>3. Invariant /\ [Next]_vars => Invariant'
    <2> SUFFICES ASSUME Invariant, [Next]_vars PROVE Invariant'
      OBVIOUS
    <2> USE DEF Invariant
    <2>1. TypeOK' /\ Numbering' /\ ConnectedIsCurrent'
      BY StepTyped, StepConnection
    <2>2. NoLostWakeup'
      BY StepWakeup
    <2>3. HasClient' /\ Delivery' /\ InitialFlagsTruthful'
      BY StepClient, StepDelivery
    <2>4. Newest' /\ LatestConfigNotLost'
      BY StepNewest
    <2>5. OfflineWhileDown' /\ AvailabilityAgrees'
      BY StepAvailability
    <2> QED BY <2>1, <2>2, <2>3, <2>4, <2>5
  <1> QED BY <1>2, <1>3, PTL DEF Spec

\* Every behaviour keeps the types of the MQTTService fields, of the threads
\* and of the broker; connectionID in particular stays within its bound.
THEOREM TypeCorrect == Spec => []TypeOK
  <1>1. Invariant => TypeOK
    BY DEF Invariant
  <1> QED BY <1>1, InvariantHolds, PTL

\* connected is only ever set for the current connection (the two checks of
\* connectionID in onConnect): however often the link is lost and however
\* late the goroutine of an old connection runs, an old one never puts the
\* service back in service.
THEOREM ConnectionCorrect == Spec => []ConnectedIsCurrent
  <1>1. Invariant => ConnectedIsCurrent
    BY DEF Invariant
  <1> QED BY <1>1, InvariantHolds, PTL

\* The publisher never sleeps on pending work without a token or a sender
\* about to leave one, however many connections are being set up at once
\* (signalUpdatePublisher after every mark, runPending before every select).
THEOREM WakeupCorrect == Spec => []NoLostWakeup
  <1>1. Invariant => NoLostWakeup
    BY DEF Invariant
  <1> QED BY <1>1, InvariantHolds, PTL

\* What the initial flags of the current connection claim did arrive on it:
\* the connection number that publishUpdates takes with the updates, checked
\* again by publishReadyAfterInitialState, is enough.
THEOREM InitialStateCorrect == Spec => []InitialFlagsTruthful
  <1>1. Invariant => InitialFlagsTruthful
    BY DEF Invariant
  <1> QED BY <1>1, InvariantHolds, PTL

\* No reading of the configuration is lost or overtaken by an older one (the
\* take-and-clear of publishUpdates against ConfigUpdated): on a connection
\* that has carried one, the newest is on the broker or on its way there,
\* however many connections came before.
THEOREM LatestConfigCorrect == Spec => []LatestConfigNotLost
  <1>1. Invariant => LatestConfigNotLost
    BY DEF Invariant
  <1> QED BY <1>1, InvariantHolds, PTL

\* What onlinePublished claims, the broker shows, whichever of the publisher
\* and the polling thread wrote it and in whatever order their publishes and
\* the losses of the link come.
THEOREM AvailabilityCorrect == Spec => []AvailabilityAgrees
  <1>1. Invariant => AvailabilityAgrees
    BY DEF Invariant
  <1> QED BY <1>1, InvariantHolds, PTL
=============================================================================
