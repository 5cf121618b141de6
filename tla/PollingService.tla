--------------------------- MODULE PollingService ---------------------------
(***************************************************************************)
(* The polling thread (polling.go) with the threads that send it work: the *)
(* MQTT message handler (QueueConfigWrite, RequestTimeSync), the MQTT      *)
(* connection callbacks, serialised by the lock of MQTTService             *)
(* (SetPollingEnabled), the clock, and the inverter behind                 *)
(* RecoveringInverter with its front panel (external).                     *)
(*                                                                         *)
(* Time is abstracted to which deadlines have passed: a deadline that is   *)
(* set lies in the future, and Expire lets it pass.  The loads and the     *)
(* two steps of a send (channel, then wake) interleave as in the code.     *)
(*                                                                         *)
(* The operators named Broken... are plausible mistakes in the definitions *)
(* after them, put in their place to see that a property notices.          *)
(***************************************************************************)
EXTENDS Naturals, FiniteSets, Sequences

CONSTANTS
    Keys,            \* configuration registers
    Values, None,    \* their values, and no value
    Invalid,         \* the values WriteConfig refuses before any I/O
    PanelKeys,       \* registers also changed at the inverter's front panel
    QueueSize,       \* pollCommandQueueSize
    Inputs,          \* the calls that are made, of the kinds below
    Timers,          \* deadlines that may pass again once set
    MaxVersion       \* bound on pollingVersion, which the code never resets

Deadlines == {"config", "watchdog", "timeSync", "status"}

\* SetPollingEnabled, RequestTimeSync and QueueConfigWrite as handleCommand
\* calls them (it parses and checks the value first), and a cancelled ctx.
InputKinds == {"polling", "timeSync", "config", "cancel"}

ASSUME ValuesAssumption == None \notin Values /\ Invalid \subseteq Values
ASSUME PanelAssumption == PanelKeys \subseteq Keys
ASSUME TimersAssumption == Timers \subseteq Deadlines
ASSUME InputsAssumption == Inputs \subseteq InputKinds
ASSUME BoundsAssumption == QueueSize \in Nat \ {0} /\ MaxVersion \in Nat

Command == [key : Keys, value : Values]
NoWrites == [k \in Keys |-> None]

VARIABLES
    \* --- PollingService fields
    commands,          \* the channel of configWriteCommand, oldest first
    pendingWrites,     \* value written since the last config poll, or None
    timeSyncRequests, wake,          \* one-slot channels
    pollingEnabled, pollingVersion,  \* atomics
    observedVersion,
    expired,           \* the deadlines that have passed
    readback,          \* configDeadline is the one set after a write
    \* --- locals of the polling thread
    pc, enabled, version, due, wroteConfig,
    taking, batch,     \* commands still to receive, and those in hand
    \* --- the callers: what SetPollingEnabled and the handler still have to do
    setter, handler,
    ctxDone,
    \* --- the inverter, and ghosts
    device,
    syncOwed,          \* a requested time sync has not begun
    readsOwed          \* readings this connection has not been given yet

shared   == <<commands, timeSyncRequests, wake, pollingEnabled, pollingVersion>>
deadline == <<expired, readback>>
drain    == <<taking, batch>>
local    == <<pc, enabled, version, due, drain, wroteConfig,
              observedVersion>>
callers  == <<setter, handler>>
ghosts   == <<syncOwed, readsOwed>>
vars     == <<shared, pendingWrites, deadline, local, callers, ctxDone, device,
              ghosts>>

-----------------------------------------------------------------------------
\* Start: config, status and time sync are due at once, the watchdog later.
Init ==
    /\ commands = <<>> /\ pendingWrites = NoWrites
    /\ timeSyncRequests = FALSE /\ wake = FALSE
    /\ pollingEnabled = FALSE /\ pollingVersion = 0 /\ observedVersion = 0
    /\ expired = Deadlines \ {"watchdog"} /\ readback = FALSE
    /\ pc = "load" /\ enabled = FALSE /\ version = 0 /\ due = {}
    /\ taking = 0 /\ batch = <<>> /\ wroteConfig = FALSE
    /\ setter = "idle" /\ handler = "idle" /\ ctxDone = FALSE
    /\ device \in [Keys -> Values \ Invalid]
    /\ syncOwed = FALSE /\ readsOwed = {}

BrokenSignalWake == UNCHANGED wake   \* no token is left

signalWake == wake' = TRUE

-----------------------------------------------------------------------------
(* The callers.                                                            *)

\* SetPollingEnabled: Swap, Add(1) on a change to true, signalWake.
SetPollingSwap(on) ==
    /\ "polling" \in Inputs
    /\ setter = "idle"
    /\ on /\ ~pollingEnabled => pollingVersion < MaxVersion
    /\ pollingEnabled' = on
    /\ setter' = IF on /\ ~pollingEnabled THEN "bump" ELSE "wake"
    /\ readsOwed' = CASE ~on -> {}
                      [] on /\ ~pollingEnabled -> {"config", "status"}
                      [] OTHER -> readsOwed
    /\ UNCHANGED <<commands, timeSyncRequests, wake, pollingVersion,
                   pendingWrites, deadline, local, handler, ctxDone, device,
                   syncOwed>>

\* No Add(1): a reconnection looks like the old connection.
BrokenBump ==
    /\ setter = "bump"
    /\ setter' = "wake"
    /\ UNCHANGED <<shared, pendingWrites, deadline, local, handler, ctxDone,
                   device, ghosts>>

SetPollingBump ==
    /\ setter = "bump"
    /\ pollingVersion' = pollingVersion + 1
    /\ setter' = "wake"
    /\ UNCHANGED <<commands, timeSyncRequests, wake, pollingEnabled,
                   pendingWrites, deadline, local, handler, ctxDone, device,
                   ghosts>>

SetPollingWake ==
    /\ setter = "wake"
    /\ setter' = "idle"
    /\ signalWake
    /\ UNCHANGED <<commands, timeSyncRequests, pollingEnabled, pollingVersion,
                   pendingWrites, deadline, local, handler, ctxDone, device,
                   ghosts>>

RequestTimeSync ==
    /\ "timeSync" \in Inputs
    /\ handler = "idle"
    /\ timeSyncRequests' = TRUE      \* already full: the request coalesces
    /\ syncOwed' = TRUE
    /\ handler' = "wake"
    /\ UNCHANGED <<commands, wake, pollingEnabled, pollingVersion,
                   pendingWrites, deadline, local, setter, ctxDone, device,
                   readsOwed>>

\* The queue grows without bound.
BrokenQueue(command) ==
    /\ "config" \in Inputs
    /\ handler = "idle"
    /\ commands' = Append(commands, command)
    /\ handler' = "wake"
    /\ UNCHANGED <<timeSyncRequests, wake, pollingEnabled, pollingVersion,
                   pendingWrites, deadline, local, setter, ctxDone, device,
                   ghosts>>

\* A full queue refuses the command and changes nothing.
QueueConfigWrite(command) ==
    /\ "config" \in Inputs
    /\ handler = "idle"
    /\ Len(commands) < QueueSize
    /\ commands' = Append(commands, command)
    /\ handler' = "wake"
    /\ UNCHANGED <<timeSyncRequests, wake, pollingEnabled, pollingVersion,
                   pendingWrites, deadline, local, setter, ctxDone, device,
                   ghosts>>

HandlerWake ==
    /\ handler = "wake"
    /\ handler' = "idle"
    /\ signalWake
    /\ UNCHANGED <<commands, timeSyncRequests, pollingEnabled, pollingVersion,
                   pendingWrites, deadline, local, setter, ctxDone, device,
                   ghosts>>

Expire(d) ==
    /\ d \in Timers /\ d \notin expired
    /\ expired' = expired \cup {d}
    /\ UNCHANGED <<shared, pendingWrites, readback, local, callers, ctxDone,
                   device, ghosts>>

\* Somebody changes a setting at the front panel.
Panel(k, v) ==
    /\ k \in PanelKeys /\ v \notin Invalid /\ device[k] # v
    /\ device' = [device EXCEPT ![k] = v]
    /\ UNCHANGED <<shared, pendingWrites, deadline, local, callers, ctxDone,
                   ghosts>>

Cancel ==
    /\ "cancel" \in Inputs /\ ~ctxDone
    /\ ctxDone' = TRUE
    /\ UNCHANGED <<shared, pendingWrites, deadline, local, callers, device,
                   ghosts>>

-----------------------------------------------------------------------------
(* Run and the head of runPending.                                         *)

LoadEnabled ==
    /\ pc = "load" /\ ~ctxDone
    /\ enabled' = pollingEnabled
    /\ pc' = "version"
    /\ UNCHANGED <<shared, pendingWrites, deadline, version, due, drain,
                   wroteConfig, observedVersion, callers, ctxDone, device,
                   ghosts>>

LoadVersion ==
    /\ pc = "version"
    /\ version' = pollingVersion
    /\ pc' = "decide"
    /\ UNCHANGED <<shared, pendingWrites, deadline, enabled, due, drain,
                   wroteConfig, observedVersion, callers, ctxDone, device,
                   ghosts>>

\* A version not seen before makes both readings due, whatever the deadlines.
NewConnection == enabled /\ version # observedVersion

WorkDue ==
    (IF commands # <<>> THEN {"commands"} ELSE {})
    \cup (IF enabled THEN expired \cap {"config", "status"} ELSE {})
    \cup (IF NewConnection THEN {"config", "status"} ELSE {})
    \cup (expired \cap {"watchdog", "timeSync"})
    \cup (IF timeSyncRequests THEN {"timeSync"} ELSE {})

\* Lines 140-156: what is due; the time sync request is taken either way.
Decide ==
    /\ pc = "decide"
    /\ due' = WorkDue
    /\ observedVersion' = IF NewConnection THEN version ELSE observedVersion
    /\ timeSyncRequests' = FALSE
    /\ version' = 0                                   \* not used again
    /\ pc' = IF WorkDue = {} THEN "wait" ELSE "work"
    /\ UNCHANGED <<commands, wake, pollingEnabled, pollingVersion,
                   pendingWrites, deadline, enabled, drain, wroteConfig,
                   callers, ctxDone, device, ghosts>>

\* The timer is set to the earliest deadline the loaded enabled looks at.
TimerFires ==
    expired \cap (IF enabled THEN Deadlines ELSE {"watchdog", "timeSync"}) # {}

Wait ==
    /\ pc = "wait"
    /\ \/ wake /\ wake' = FALSE
       \/ TimerFires /\ UNCHANGED wake
    /\ pc' = "load"
    /\ UNCHANGED <<commands, timeSyncRequests, pollingEnabled, pollingVersion,
                   pendingWrites, deadline, enabled, version, due, drain,
                   wroteConfig, observedVersion, callers, ctxDone, device,
                   ghosts>>

\* ctx.Err() at the head of Run, or ctx.Done() in the select.
Cancelled ==
    /\ pc \in {"load", "wait"} /\ ctxDone
    /\ pc' = "stopped"
    /\ UNCHANGED <<shared, pendingWrites, deadline, enabled, version, due,
                   drain, wroteConfig, observedVersion, callers, ctxDone,
                   device, ghosts>>

-----------------------------------------------------------------------------
(* The work of one round, in the order of runPending.                      *)

Earlier == [commands |-> {}, config |-> {"commands"},
            watchdog |-> {"commands", "config"},
            timeSync |-> {"commands", "config", "watchdog"},
            status   |-> {"commands", "config", "watchdog", "timeSync"}]

Stage(s) == /\ pc = "work" /\ batch = <<>>
            /\ s \in due /\ due \cap Earlier[s] = {}

Continue(rest) == due' = rest /\ pc' = IF rest = {} THEN "load" ELSE "work"

\* takeLatestConfigCommands: receive as many commands as there are now.
BeginDrain ==
    /\ Stage("commands")
    /\ taking' = Len(commands)
    /\ due' = due \ {"commands"}
    /\ pc' = "take"
    /\ UNCHANGED <<shared, pendingWrites, deadline, enabled, version, batch,
                   wroteConfig, observedVersion, callers, ctxDone, device,
                   ghosts>>

\* Each key with the value of its first command.
BrokenMerge(list, c) ==
    IF \E i \in DOMAIN list : list[i].key = c.key THEN list ELSE Append(list, c)

\* Each key once, in the order of its first command, with the value of its
\* last.
Merge(list, c) ==
    IF \E i \in DOMAIN list : list[i].key = c.key
    THEN [i \in DOMAIN list |-> IF list[i].key = c.key THEN c ELSE list[i]]
    ELSE Append(list, c)

TakeCommand ==
    /\ pc = "take"
    /\ batch' = Merge(batch, Head(commands))
    /\ commands' = Tail(commands)
    /\ taking' = taking - 1
    /\ pc' = IF taking = 1 THEN "work" ELSE "take"
    /\ UNCHANGED <<timeSyncRequests, wake, pollingEnabled, pollingVersion,
                   pendingWrites, deadline, due, enabled, version, wroteConfig,
                   observedVersion, callers, ctxDone, device, ghosts>>

\* The end of an iteration of drainCommands; after the last one a round that
\* wrote something postpones the config poll to the read-back delay.
EndCommand(wrote) ==
    LET last == Len(batch) = 1
        postpone == last /\ (wroteConfig \/ wrote)
    IN  /\ batch' = Tail(batch)
        /\ wroteConfig' = (~last /\ (wroteConfig \/ wrote))
        /\ readback' = (readback \/ postpone)
        /\ expired' = IF postpone THEN expired \ {"config"} ELSE expired
        /\ LET rest == IF postpone THEN due \ {"config"} ELSE due
           IN  due' = rest /\ pc' = IF last /\ rest = {} THEN "load" ELSE "work"

\* drainCommands, line 255: the value was already written.
AlreadyWritten(c) == pendingWrites[c.key] = c.value

SkipCommand ==
    /\ pc = "work" /\ batch # <<>>
    /\ AlreadyWritten(Head(batch))
    /\ EndCommand(FALSE)
    /\ UNCHANGED <<shared, pendingWrites, enabled, version, taking,
                   observedVersion, callers, ctxDone, device, ghosts>>

\* A configCommandError: the command is dropped, nothing was sent.
RejectCommand ==
    /\ pc = "work" /\ batch # <<>>
    /\ ~AlreadyWritten(Head(batch)) /\ Head(batch).value \in Invalid
    /\ EndCommand(FALSE)
    /\ UNCHANGED <<shared, pendingWrites, enabled, version, taking,
                   observedVersion, callers, ctxDone, device, ghosts>>

\* A value remembered for the register is not replaced.
BrokenWriteConfig ==
    /\ pc = "work" /\ batch # <<>>
    /\ ~AlreadyWritten(Head(batch)) /\ Head(batch).value \notin Invalid
    /\ device' = [device EXCEPT ![Head(batch).key] = Head(batch).value]
    /\ pendingWrites' = [pendingWrites EXCEPT ![Head(batch).key] =
                             IF @ = None THEN Head(batch).value ELSE @]
    /\ EndCommand(TRUE)
    /\ UNCHANGED <<shared, enabled, version, taking, observedVersion, callers,
                   ctxDone, ghosts>>

WriteConfig ==
    /\ pc = "work" /\ batch # <<>>
    /\ ~AlreadyWritten(Head(batch)) /\ Head(batch).value \notin Invalid
    /\ device' = [device EXCEPT ![Head(batch).key] = Head(batch).value]
    /\ pendingWrites' = [pendingWrites EXCEPT
                            ![Head(batch).key] = Head(batch).value]
    /\ EndCommand(TRUE)
    /\ UNCHANGED <<shared, enabled, version, taking, observedVersion, callers,
                   ctxDone, ghosts>>

\* Any other error of Inverter.WriteConfig, the request's or that of decoding
\* what was written, ends the loop; the register may have been written.
WriteFails ==
    /\ pc = "work" /\ batch # <<>>
    /\ ~AlreadyWritten(Head(batch)) /\ Head(batch).value \notin Invalid
    /\ device' \in {device,
                    [device EXCEPT ![Head(batch).key] = Head(batch).value]}
    /\ pc' = "stopped"
    /\ UNCHANGED <<shared, pendingWrites, deadline, enabled, version, due,
                   drain, wroteConfig, observedVersion, callers, ctxDone,
                   ghosts>>

\* pendingWrites is not cleared.
BrokenPollConfig ==
    /\ Stage("config")
    /\ expired' = expired \ {"config"} /\ readback' = FALSE
    /\ readsOwed' = readsOwed \ {"config"}
    /\ Continue(due \ {"config"})
    /\ UNCHANGED <<shared, pendingWrites, enabled, version, drain,
                   wroteConfig, observedVersion, callers, ctxDone, device,
                   syncOwed>>

\* Read and hand to the sink; what was written is no longer remembered.
PollConfig ==
    /\ Stage("config")
    /\ pendingWrites' = NoWrites
    /\ expired' = expired \ {"config"} /\ readback' = FALSE
    /\ readsOwed' = readsOwed \ {"config"}
    /\ Continue(due \ {"config"})
    /\ UNCHANGED <<shared, enabled, version, drain, wroteConfig,
                   observedVersion, callers, ctxDone, device, syncOwed>>

\* A clock change cancels this round's time sync and requests no other.
BrokenWatchdog(changed) ==
    /\ Stage("watchdog")
    /\ expired' = expired \ {"watchdog"}
    /\ syncOwed' = (syncOwed \/ changed)
    /\ Continue(due \ (IF changed THEN {"watchdog", "timeSync"}
                                  ELSE {"watchdog"}))
    /\ UNCHANGED <<shared, pendingWrites, readback, enabled, version, drain,
                   wroteConfig, observedVersion, callers, ctxDone, device,
                   readsOwed>>

\* A clock or time zone change is handed to RequestTimeSync: this round's
\* time sync, if any, is left to the next one.
Watchdog(changed) ==
    /\ Stage("watchdog")
    /\ expired' = expired \ {"watchdog"}
    /\ timeSyncRequests' = (timeSyncRequests \/ changed)
    /\ wake' = (wake \/ changed)
    /\ syncOwed' = (syncOwed \/ changed)
    /\ Continue(due \ (IF changed THEN {"watchdog", "timeSync"}
                                  ELSE {"watchdog"}))
    /\ UNCHANGED <<commands, pollingEnabled, pollingVersion, pendingWrites,
                   readback, enabled, version, drain, wroteConfig,
                   observedVersion, callers, ctxDone, device, readsOwed>>

\* Lines 209-214: a request that came meanwhile is answered by this sync.
TimeSyncBegin ==
    /\ Stage("timeSync")
    /\ timeSyncRequests' = FALSE
    /\ syncOwed' = FALSE
    /\ pc' = "syncing"
    /\ UNCHANGED <<commands, wake, pollingEnabled, pollingVersion,
                   pendingWrites, deadline, enabled, version, due, drain,
                   wroteConfig, observedVersion, callers, ctxDone, device,
                   readsOwed>>

TimeSyncEnd ==
    /\ pc = "syncing"
    /\ expired' = expired \ {"timeSync"}
    /\ Continue(due \ {"timeSync"})
    /\ UNCHANGED <<shared, pendingWrites, readback, enabled, version, drain,
                   wroteConfig, observedVersion, callers, ctxDone, device,
                   ghosts>>

PollStatus ==
    /\ Stage("status")
    /\ expired' = expired \ {"status"}
    /\ readsOwed' = readsOwed \ {"status"}
    /\ Continue(due \ {"status"})
    /\ UNCHANGED <<shared, pendingWrites, readback, enabled, version, drain,
                   wroteConfig, observedVersion, callers, ctxDone, device,
                   syncOwed>>

\* An inverter operation fails for good: Run returns its error.
OperationFails ==
    /\ Stage("config") \/ Stage("status") \/ pc = "syncing"
    /\ pc' = "stopped"
    /\ pendingWrites' = IF Stage("config") THEN NoWrites ELSE pendingWrites
    /\ UNCHANGED <<shared, deadline, enabled, version, due, drain, wroteConfig,
                   observedVersion, callers, ctxDone, device, ghosts>>

Terminated == pc = "stopped" /\ UNCHANGED vars

-----------------------------------------------------------------------------
Poller ==
    \/ LoadEnabled \/ LoadVersion \/ Decide \/ Wait \/ Cancelled
    \/ BeginDrain \/ TakeCommand
    \/ SkipCommand \/ RejectCommand \/ WriteConfig \/ WriteFails
    \/ PollConfig \/ TimeSyncBegin \/ TimeSyncEnd \/ PollStatus
    \/ OperationFails \/ \E changed \in BOOLEAN : Watchdog(changed)

Setter == SetPollingBump \/ SetPollingWake

Next ==
    \/ Poller \/ Setter \/ HandlerWake
    \/ \E on \in BOOLEAN : SetPollingSwap(on)
    \/ RequestTimeSync
    \/ \E command \in Command : QueueConfigWrite(command)
    \/ \E d \in Deadlines : Expire(d)
    \/ \E k \in Keys, v \in Values : Panel(k, v)
    \/ Cancel
    \/ Terminated

Spec == Init /\ [][Next]_vars

\* A thread that can run does and time passes.  That includes every inverter
\* operation, which ends, well or not: Modbus requests time out and recovery
\* makes a bounded number of attempts.  It is an assumption of the reset that
\* recovery may ask systemd for (RecoveringInverter): no time-out ends it.
Fairness == /\ WF_vars(Poller) /\ WF_vars(Setter) /\ WF_vars(HandlerWake)
            /\ \A d \in Timers : WF_vars(Expire(d))

-----------------------------------------------------------------------------
QueueTypeOK ==
    /\ commands \in Seq(Command) /\ Len(commands) <= QueueSize
    /\ taking \in Nat /\ batch \in Seq(Command)

RegistersTypeOK ==
    /\ pendingWrites \in [Keys -> Values \cup {None}]
    /\ device \in [Keys -> Values]

VersionsTypeOK ==
    /\ pollingVersion \in 0..MaxVersion /\ version \in 0..MaxVersion
    /\ observedVersion \in 0..MaxVersion

StagesTypeOK ==
    /\ pc \in {"load", "version", "decide", "wait", "take", "work", "syncing",
               "stopped"}
    /\ setter \in {"idle", "bump", "wake"} /\ handler \in {"idle", "wake"}
    /\ expired \subseteq Deadlines /\ due \subseteq Deadlines \cup {"commands"}
    /\ readsOwed \subseteq {"config", "status"}

FlagsTypeOK ==
    /\ timeSyncRequests \in BOOLEAN /\ wake \in BOOLEAN
    /\ pollingEnabled \in BOOLEAN /\ enabled \in BOOLEAN
    /\ readback \in BOOLEAN /\ wroteConfig \in BOOLEAN
    /\ ctxDone \in BOOLEAN /\ syncOwed \in BOOLEAN

\* Every variable keeps its type; the command queue never exceeds its size.
TypeOK == /\ QueueTypeOK /\ RegistersTypeOK /\ VersionsTypeOK /\ StagesTypeOK
          /\ FlagsTypeOK

\* The thread never sleeps on work: while it waits, a command, a time sync
\* request or a change of the polling state it has not seen comes with a
\* wake-up token or with a caller about to send it (loads and channel checks
\* of runPending against the two-step sends of its callers).
WakeNotLost ==
    /\ pc = "wait"
    /\ \/ commands # <<>> \/ timeSyncRequests
       \/ pollingEnabled # enabled
       \/ pollingEnabled /\ pollingVersion # observedVersion
    => wake \/ setter # "idle" \/ handler # "idle"

\* A requested time sync is never lost: until one begins, the request is in
\* its channel or due in this round (the request taken at the head of
\* runPending, handed back by the watchdog and drained again before SyncTime).
TimeSyncNotLost ==
    syncOwed /\ pc # "stopped" =>
        timeSyncRequests \/ (pc \in {"take", "work"} /\ "timeSync" \in due)

\* After every reconnection the new connection is owed a config and a status
\* reading, and the debt is not forgotten: the new version is still to be
\* seen, or the reading is due, or a write has postponed the config to the
\* read-back (atomic Swap, Add and Loads in any interleaving).
ReadsNotForgotten ==
    pc # "stopped" /\ setter # "bump" /\ pollingVersion = observedVersion =>
        readsOwed \subseteq due \cup (IF readback THEN {"config"} ELSE {})

\* pendingWrites is a faithful memory: what it says was written is what the
\* inverter holds as long as the loop runs, for a register nobody changes at
\* the front panel.
PendingWritesHeld ==
    pc # "stopped" =>
        \A k \in Keys \ PanelKeys :
            pendingWrites[k] # None => device[k] = pendingWrites[k]

\* A written value is checked soon: while any is remembered outside the
\* drain loop, the next config poll is the read-back, never a whole
\* configuration interval away.
WritesAwaitReadback ==
    batch = <<>> /\ pendingWrites # NoWrites /\ pc # "stopped" => readback

\* After a reconnection a status reading is delivered, unless the connection
\* goes again or the service stops.
StatusServed ==
    "status" \in readsOwed ~> ("status" \notin readsOwed \/ pc = "stopped")

\* The same for the config reading, once commands stop coming: each round
\* that writes postpones it.
ConfigServed ==
    <>[](commands = <<>> /\ batch = <<>>) =>
        ("config" \in readsOwed ~> ("config" \notin readsOwed \/ pc = "stopped"))

\* The elements of a finite set of numbers, from the least to the greatest.
InOrder(S) == [i \in 1..Cardinality(S) |->
                  CHOOSE x \in S : Cardinality({y \in S : y <= x}) = i]

\* The values of the commands for a register, oldest first.
PlacesOf(list, k) == {i \in DOMAIN list : list[i].key = k}
ValuesFor(list, k) ==
    LET place == InOrder(PlacesOf(list, k))
    IN  [i \in DOMAIN place |-> list[place[i]].value]

\* The registers only commands change; the values on their way, and what the
\* inverter holds.
CommandKeys == Keys \ PanelKeys
Waiting == [k \in CommandKeys |-> ValuesFor(batch \o commands, k)]
Commanded == [k \in CommandKeys |-> device[k]]

Mailbox == INSTANCE ConfigMailbox
              WITH Keys <- CommandKeys, waiting <- Waiting, device <- Commanded

\* The queue, its coalescing, the memory of pendingWrites and the drain loop
\* implement the mailbox that QueueConfigWrite promises its caller, for every
\* register that is not also changed at the front panel.
ImplementsMailbox == Mailbox!Spec

\* The set topic "accepts supported configuration changes" (README.md:77): a
\* command is passed over only if the inverter already holds its value.
SkipOnlyWhenHeld ==
    [][SkipCommand => device[Head(batch).key] = Head(batch).value]_vars
=============================================================================
