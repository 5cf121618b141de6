------------------------ MODULE PollingServiceProofs ------------------------
(* Proofs about PollingService, for every set of registers and values and  *)
(* every size of the queue.                                                *)
EXTENDS PollingService, SequenceTheorems, TLAPS

\* The two loads at the head of runPending and the wait: if what was loaded is
\* no longer so, a token is there or its sender still has to send it.
Notified == wake \/ setter # "idle"

Loads ==
    /\ pc \in {"version", "decide", "wait"} /\ pollingEnabled # enabled
           => Notified
    /\ pc = "decide" /\ version # pollingVersion => Notified

\* Versions only grow, and leave room for the increment that is coming.
Versions ==
    /\ observedVersion <= pollingVersion
    /\ pc = "decide" => version <= pollingVersion
    /\ setter = "bump" => pollingVersion < MaxVersion

\* Where the loop is tells what it still has to do: nothing is due at the
\* head of runPending, and while commands are received they are there.
Rounds ==
    /\ pc \in {"load", "version", "decide", "wait"} => due = {}
    /\ pc = "take" => taking >= 1 /\ taking <= Len(commands) /\ ~wroteConfig
    /\ "commands" \in due => commands # <<>> /\ pc # "take"
    /\ wroteConfig => batch # <<>>

\* In the drain loop it is wroteConfig that will arm the read-back.
Remembered ==
    pendingWrites # NoWrites /\ pc # "stopped" => readback \/ wroteConfig

Invariant ==
    /\ TypeOK /\ Loads /\ Versions /\ Rounds /\ Remembered
    /\ WakeNotLost /\ TimeSyncNotLost /\ ReadsNotForgotten /\ PendingWritesHeld

-----------------------------------------------------------------------------
(* The queue and the batch.                                                *)

\* Merging a command into a batch gives a batch, and one with a command in it.
LEMMA Merged ==
    ASSUME NEW list \in Seq(Command), NEW c \in Command
    PROVE  Merge(list, c) \in Seq(Command) /\ Merge(list, c) # <<>>
  <1>1. CASE \E i \in DOMAIN list : list[i].key = c.key
    <2> DEFINE L == [i \in DOMAIN list |->
                        IF list[i].key = c.key THEN c ELSE list[i]]
    <2>1. L \in [1..Len(list) -> Command] /\ Len(list) \in Nat
      OBVIOUS
    <2>2. L \in Seq(Command)
      BY <2>1
    <2>3. DOMAIN L # {}
      BY <1>1
    <2>4. L # <<>>
      BY <2>3
    <2> QED BY <1>1, <2>2, <2>4 DEF Merge
  <1>2. CASE ~ \E i \in DOMAIN list : list[i].key = c.key
    BY <1>2 DEF Merge
  <1> QED BY <1>1, <1>2

\* What is left of a sequence that is not empty.
LEMMA Rest ==
    ASSUME NEW S, NEW s \in Seq(S), s # <<>>
    PROVE  /\ Head(s) \in S /\ Tail(s) \in Seq(S) /\ Len(s) \in Nat
           /\ Len(s) >= 1 /\ Len(Tail(s)) = Len(s) - 1
           /\ Tail(s) = <<>> <=> Len(s) = 1
  <1>1. Head(s) \in S /\ Tail(s) \in Seq(S) /\ Len(Tail(s)) = Len(s) - 1
    BY HeadTailProperties
  <1>2. Len(s) \in Nat \ {0}
    BY EmptySeq
  <1>3. Tail(s) = <<>> <=> Len(Tail(s)) = 0
    BY <1>1, EmptySeq
  <1> QED BY <1>1, <1>2, <1>3

\* The end of an iteration of drainCommands: the batch is one shorter, a write
\* is remembered by wroteConfig until the last one arms the read-back, and
\* only a postponed config reading leaves what is due.
LEMMA IterationEnds ==
    ASSUME TypeOK, NEW wrote \in BOOLEAN, batch # <<>>, EndCommand(wrote)
    PROVE  /\ batch' \in Seq(Command)
           /\ wroteConfig' \in BOOLEAN /\ readback' \in BOOLEAN
           /\ wroteConfig' => batch' # <<>>
           /\ wroteConfig \/ wrote => wroteConfig' \/ readback'
           /\ readback => readback'
           /\ expired' \subseteq expired /\ due' \subseteq due
           /\ due \ {"config"} \subseteq due'
           /\ "config" \in due => "config" \in due' \/ readback'
           /\ pc' = "work" \/ (pc' = "load" /\ due' = {})
  <1> USE DEF TypeOK, QueueTypeOK, FlagsTypeOK
  <1> DEFINE last == Len(batch) = 1
             postpone == last /\ (wroteConfig \/ wrote)
  <1>1. batch' \in Seq(Command) /\ (batch' = <<>> <=> last)
    BY Rest DEF EndCommand
  <1>2. /\ wroteConfig' = (~last /\ (wroteConfig \/ wrote))
        /\ readback' = (readback \/ postpone)
        /\ expired' = IF postpone THEN expired \ {"config"} ELSE expired
        /\ due' = IF postpone THEN due \ {"config"} ELSE due
        /\ pc' = IF last /\ due' = {} THEN "load" ELSE "work"
    BY Zenon DEF EndCommand
  <1> HIDE DEF last
  <1>3. CASE postpone
    BY <1>1, <1>2, <1>3
  <1>4. CASE ~postpone
    BY <1>1, <1>2, <1>4
  <1> QED BY <1>3, <1>4

-----------------------------------------------------------------------------
(* Types.                                                                  *)

\* Every initial state satisfies the invariant.
LEMMA InitInvariant == Init => Invariant
  <1> SUFFICES ASSUME Init PROVE Invariant
    OBVIOUS
  <1>1. TypeOK
    <2>1. QueueTypeOK
      BY BoundsAssumption DEF Init, QueueTypeOK
    <2>2. RegistersTypeOK
      BY DEF Init, RegistersTypeOK, NoWrites
    <2>3. VersionsTypeOK
      BY BoundsAssumption DEF Init, VersionsTypeOK
    <2>4. StagesTypeOK
      BY DEF Init, StagesTypeOK, Deadlines
    <2>5. FlagsTypeOK
      BY DEF Init, FlagsTypeOK
    <2> QED BY <2>1, <2>2, <2>3, <2>4, <2>5 DEF TypeOK
  <1>2. Loads /\ Rounds /\ Remembered
    BY DEF Init, Loads, Rounds, Remembered
  <1>3. Versions
    BY BoundsAssumption DEF Init, Versions
  <1>4. WakeNotLost /\ TimeSyncNotLost /\ ReadsNotForgotten
    BY DEF Init, WakeNotLost, TimeSyncNotLost, ReadsNotForgotten
  <1>5. PendingWritesHeld
    BY DEF Init, PendingWritesHeld, NoWrites
  <1> QED BY <1>1, <1>2, <1>3, <1>4, <1>5 DEF Invariant

\* A step of the callers, of the clock, of the front panel, or none.
CallerStep ==
    \/ Setter \/ HandlerWake \/ RequestTimeSync \/ Cancel \/ UNCHANGED vars
    \/ \E on \in BOOLEAN : SetPollingSwap(on)
    \/ \E command \in Command : QueueConfigWrite(command)
    \/ \E d \in Deadlines : Expire(d)
    \/ \E k \in Keys, v \in Values : Panel(k, v)

\* An iteration of drainCommands that goes on.
Iteration(wrote) ==
    /\ pc = "work" /\ batch # <<>> /\ EndCommand(wrote)
    /\ UNCHANGED <<shared, enabled, version, taking, observedVersion, callers,
                   ctxDone, ghosts>>

\* The steps in the groups the proofs distinguish.
LEMMA Steps ==
    ASSUME [Next]_vars
    PROVE  \/ CallerStep
           \/ LoadEnabled \/ LoadVersion \/ Decide \/ Wait \/ Cancelled
           \/ BeginDrain \/ TakeCommand
           \/ SkipCommand \/ RejectCommand \/ WriteConfig \/ WriteFails
           \/ PollConfig \/ TimeSyncBegin \/ TimeSyncEnd \/ PollStatus
           \/ OperationFails \/ \E changed \in BOOLEAN : Watchdog(changed)
  BY DEF Next, Poller, Terminated, CallerStep

\* The ways to get through an iteration.
LEMMA Iterates ==
    /\ SkipCommand \/ RejectCommand =>
           Iteration(FALSE) /\ UNCHANGED <<pendingWrites, device>>
    /\ WriteConfig => Iteration(TRUE)
  BY DEF SkipCommand, RejectCommand, WriteConfig, Iteration

\* The queue, and the batch taken from it.
LEMMA StepQueue == ASSUME Invariant, [Next]_vars PROVE QueueTypeOK'
  <1>0. QueueTypeOK /\ TypeOK /\ Rounds
    BY DEF Invariant, TypeOK
  <1> USE <1>0 DEF QueueTypeOK, shared, drain, local
  <1>1. CASE CallerStep
    <2>1. ASSUME NEW command \in Command, QueueConfigWrite(command)
          PROVE  QueueTypeOK'
      BY <2>1, BoundsAssumption DEF QueueConfigWrite
    <2>2. CASE Setter \/ HandlerWake \/ RequestTimeSync \/ Cancel
               \/ UNCHANGED vars
      BY <2>2 DEF Setter, SetPollingBump, SetPollingWake, HandlerWake,
         RequestTimeSync, Cancel, vars
    <2>3. ASSUME NEW on \in BOOLEAN, SetPollingSwap(on) PROVE QueueTypeOK'
      BY <2>3 DEF SetPollingSwap
    <2>4. ASSUME NEW d \in Deadlines, Expire(d) PROVE QueueTypeOK'
      BY <2>4 DEF Expire
    <2>5. ASSUME NEW k \in Keys, NEW v \in Values, Panel(k, v)
          PROVE  QueueTypeOK'
      BY <2>5 DEF Panel
    <2> QED BY <1>1, <2>1, <2>2, <2>3, <2>4, <2>5 DEF CallerStep
  <1>2. CASE LoadEnabled \/ LoadVersion \/ Decide \/ Wait \/ Cancelled
             \/ WriteFails \/ PollConfig \/ TimeSyncBegin \/ TimeSyncEnd
             \/ PollStatus \/ OperationFails
    BY <1>2 DEF LoadEnabled, LoadVersion, Decide, Wait, Cancelled, WriteFails,
       PollConfig, TimeSyncBegin, TimeSyncEnd, PollStatus, OperationFails
  <1>3. ASSUME NEW changed \in BOOLEAN, Watchdog(changed) PROVE QueueTypeOK'
    BY <1>3 DEF Watchdog
  <1>4. CASE BeginDrain
    BY <1>4 DEF BeginDrain
  <1>5. CASE TakeCommand
    <2>1. commands # <<>> /\ taking >= 1
      BY <1>5 DEF TakeCommand, Rounds
    <2>2. Head(commands) \in Command /\ commands' \in Seq(Command)
          /\ Len(commands') <= QueueSize
      BY <1>5, <2>1, Rest, BoundsAssumption DEF TakeCommand
    <2>3. batch' \in Seq(Command)
      BY <1>5, <2>2, Merged DEF TakeCommand
    <2>4. taking' \in Nat
      BY <1>5, <2>1 DEF TakeCommand
    <2> QED BY <2>2, <2>3, <2>4
  <1>6. ASSUME NEW wrote \in BOOLEAN, Iteration(wrote) PROVE QueueTypeOK'
    BY <1>6, IterationEnds DEF Iteration
  <1> QED BY <1>1, <1>2, <1>3, <1>4, <1>5, <1>6, Steps, Iterates

\* The registers of the inverter and the memory of what was written.
LEMMA StepRegisters == ASSUME Invariant, [Next]_vars PROVE RegistersTypeOK'
  <1>0. RegistersTypeOK /\ batch \in Seq(Command)
    BY DEF Invariant, TypeOK, QueueTypeOK
  <1> USE <1>0 DEF RegistersTypeOK
  <1>1. CASE CallerStep
    <2>1. ASSUME NEW command \in Command, QueueConfigWrite(command)
          PROVE  RegistersTypeOK'
      BY <2>1 DEF QueueConfigWrite
    <2>2. CASE Setter \/ HandlerWake \/ RequestTimeSync \/ Cancel
               \/ UNCHANGED vars
      BY <2>2 DEF Setter, SetPollingBump, SetPollingWake, HandlerWake,
         RequestTimeSync, Cancel, vars
    <2>3. ASSUME NEW on \in BOOLEAN, SetPollingSwap(on) PROVE RegistersTypeOK'
      BY <2>3 DEF SetPollingSwap
    <2>4. ASSUME NEW d \in Deadlines, Expire(d) PROVE RegistersTypeOK'
      BY <2>4 DEF Expire
    <2>5. ASSUME NEW k \in Keys, NEW v \in Values, Panel(k, v)
          PROVE  RegistersTypeOK'
      BY <2>5 DEF Panel
    <2> QED BY <1>1, <2>1, <2>2, <2>3, <2>4, <2>5 DEF CallerStep
  <1>2. CASE LoadEnabled \/ LoadVersion \/ Decide \/ Wait \/ Cancelled
             \/ BeginDrain \/ TakeCommand \/ SkipCommand \/ RejectCommand
             \/ TimeSyncBegin \/ TimeSyncEnd \/ PollStatus
    BY <1>2 DEF LoadEnabled, LoadVersion, Decide, Wait, Cancelled, BeginDrain,
       TakeCommand, SkipCommand, RejectCommand, TimeSyncBegin, TimeSyncEnd,
       PollStatus
  <1>3. ASSUME NEW changed \in BOOLEAN, Watchdog(changed)
        PROVE  RegistersTypeOK'
    BY <1>3 DEF Watchdog
  <1>4. CASE WriteConfig \/ WriteFails
    <2>1. Head(batch) \in Command
      BY <1>4, Rest DEF WriteConfig, WriteFails
    <2>2. Head(batch).key \in Keys /\ Head(batch).value \in Values
      BY <2>1 DEF Command
    <2> QED BY <1>4, <2>2 DEF WriteConfig, WriteFails
  <1>5. NoWrites \in [Keys -> Values \cup {None}]
    BY DEF NoWrites
  <1>6. CASE PollConfig \/ OperationFails
    BY <1>5, <1>6 DEF PollConfig, OperationFails
  <1> QED BY <1>1, <1>2, <1>3, <1>4, <1>6, Steps

\* The versions and their order.
LEMMA StepVersions ==
    ASSUME Invariant, [Next]_vars PROVE VersionsTypeOK' /\ Versions'
  <1>0. VersionsTypeOK /\ Versions /\ MaxVersion \in Nat
    BY BoundsAssumption DEF Invariant, TypeOK
  <1> USE <1>0 DEF VersionsTypeOK, Versions, shared, callers, local
  <1>1. CASE CallerStep
    <2>1. ASSUME NEW command \in Command, QueueConfigWrite(command)
          PROVE  VersionsTypeOK' /\ Versions'
      BY <2>1 DEF QueueConfigWrite
    <2>2. CASE SetPollingBump
      BY <2>2 DEF SetPollingBump
    <2>3. CASE SetPollingWake \/ HandlerWake \/ RequestTimeSync \/ Cancel
               \/ UNCHANGED vars
      BY <2>3 DEF SetPollingWake, HandlerWake, RequestTimeSync, Cancel, vars
    <2>4. ASSUME NEW on \in BOOLEAN, SetPollingSwap(on)
          PROVE  VersionsTypeOK' /\ Versions'
      <3>1. UNCHANGED <<pollingVersion, version, observedVersion, pc>>
        BY <2>4 DEF SetPollingSwap
      <3>2. setter' = "bump" => pollingVersion < MaxVersion
        BY <2>4 DEF SetPollingSwap
      <3> QED BY <3>1, <3>2
    <2>5. ASSUME NEW d \in Deadlines, Expire(d)
          PROVE  VersionsTypeOK' /\ Versions'
      BY <2>5 DEF Expire
    <2>6. ASSUME NEW k \in Keys, NEW v \in Values, Panel(k, v)
          PROVE  VersionsTypeOK' /\ Versions'
      BY <2>6 DEF Panel
    <2> QED
      BY <1>1, <2>1, <2>2, <2>3, <2>4, <2>5, <2>6 DEF CallerStep, Setter
  <1>2. CASE LoadEnabled \/ LoadVersion \/ Wait \/ Cancelled \/ BeginDrain
             \/ WriteFails \/ TimeSyncBegin \/ OperationFails
    BY <1>2 DEF LoadEnabled, LoadVersion, Wait, Cancelled, BeginDrain,
       WriteFails, TimeSyncBegin, OperationFails
  <1>3. CASE Decide
    <2>1. version' = 0 /\ pc' # "decide"
          /\ UNCHANGED <<pollingVersion, setter>>
      BY <1>3 DEF Decide
    <2>2. observedVersion' \in {version, observedVersion} /\ pc = "decide"
      BY <1>3 DEF Decide
    <2> QED BY <2>1, <2>2
  <1>4. CASE TakeCommand
    BY <1>4 DEF TakeCommand
  <1>5. CASE PollConfig \/ TimeSyncEnd \/ PollStatus
    BY <1>5 DEF PollConfig, TimeSyncEnd, PollStatus, Continue
  <1>6. ASSUME NEW changed \in BOOLEAN, Watchdog(changed)
        PROVE  VersionsTypeOK' /\ Versions'
    BY <1>6 DEF Watchdog, Continue
  <1>7. ASSUME NEW wrote \in BOOLEAN, Iteration(wrote)
        PROVE  VersionsTypeOK' /\ Versions'
    <2>1. pc' # "decide"
      BY <1>7 DEF Iteration, EndCommand
    <2> QED BY <1>7, <2>1 DEF Iteration
  <1> QED BY <1>1, <1>2, <1>3, <1>4, <1>5, <1>6, <1>7, Steps, Iterates

\* Where everybody is, and what is due.
LEMMA StepStages == ASSUME Invariant, [Next]_vars PROVE StagesTypeOK'
  <1>0. StagesTypeOK /\ TypeOK
    BY DEF Invariant, TypeOK
  <1> USE <1>0 DEF StagesTypeOK, shared, callers, local, deadline, ghosts
  <1>1. CASE CallerStep
    <2>1. ASSUME NEW command \in Command, QueueConfigWrite(command)
          PROVE  StagesTypeOK'
      BY <2>1 DEF QueueConfigWrite
    <2>2. CASE Setter \/ HandlerWake \/ RequestTimeSync \/ Cancel
               \/ UNCHANGED vars
      BY <2>2 DEF Setter, SetPollingBump, SetPollingWake, HandlerWake,
         RequestTimeSync, Cancel, vars
    <2>3. ASSUME NEW on \in BOOLEAN, SetPollingSwap(on) PROVE StagesTypeOK'
      BY <2>3 DEF SetPollingSwap
    <2>4. ASSUME NEW d \in Deadlines, Expire(d) PROVE StagesTypeOK'
      BY <2>4 DEF Expire
    <2>5. ASSUME NEW k \in Keys, NEW v \in Values, Panel(k, v)
          PROVE  StagesTypeOK'
      BY <2>5 DEF Panel
    <2> QED BY <1>1, <2>1, <2>2, <2>3, <2>4, <2>5 DEF CallerStep
  <1>2. CASE LoadEnabled \/ LoadVersion \/ Wait \/ Cancelled \/ BeginDrain
             \/ TakeCommand \/ WriteFails \/ TimeSyncBegin \/ OperationFails
    BY <1>2 DEF LoadEnabled, LoadVersion, Wait, Cancelled, BeginDrain,
       TakeCommand, WriteFails, TimeSyncBegin, OperationFails
  <1>3. CASE Decide
    <2>1. WorkDue \subseteq Deadlines \cup {"commands"}
      BY DEF WorkDue, Deadlines
    <2> QED BY <1>3, <2>1 DEF Decide
  <1>4. CASE PollConfig \/ TimeSyncEnd \/ PollStatus
    BY <1>4 DEF PollConfig, TimeSyncEnd, PollStatus, Continue
  <1>5. ASSUME NEW changed \in BOOLEAN, Watchdog(changed) PROVE StagesTypeOK'
    BY <1>5 DEF Watchdog, Continue
  <1>6. ASSUME NEW wrote \in BOOLEAN, Iteration(wrote) PROVE StagesTypeOK'
    BY <1>6, IterationEnds DEF Iteration
  <1> QED BY <1>1, <1>2, <1>3, <1>4, <1>5, <1>6, Steps, Iterates

\* The flags.
LEMMA StepFlags == ASSUME Invariant, [Next]_vars PROVE FlagsTypeOK'
  <1>0. FlagsTypeOK /\ TypeOK
    BY DEF Invariant, TypeOK
  <1> USE <1>0 DEF FlagsTypeOK, shared, local, deadline, ghosts
  <1>1. CASE CallerStep
    <2>1. ASSUME NEW command \in Command, QueueConfigWrite(command)
          PROVE  FlagsTypeOK'
      BY <2>1 DEF QueueConfigWrite
    <2>2. CASE Setter \/ HandlerWake \/ RequestTimeSync \/ Cancel
               \/ UNCHANGED vars
      BY <2>2 DEF Setter, SetPollingBump, SetPollingWake, HandlerWake,
         RequestTimeSync, Cancel, vars, signalWake
    <2>3. ASSUME NEW on \in BOOLEAN, SetPollingSwap(on) PROVE FlagsTypeOK'
      BY <2>3 DEF SetPollingSwap
    <2>4. ASSUME NEW d \in Deadlines, Expire(d) PROVE FlagsTypeOK'
      BY <2>4 DEF Expire
    <2>5. ASSUME NEW k \in Keys, NEW v \in Values, Panel(k, v)
          PROVE  FlagsTypeOK'
      BY <2>5 DEF Panel
    <2> QED BY <1>1, <2>1, <2>2, <2>3, <2>4, <2>5 DEF CallerStep
  <1>2. CASE LoadEnabled \/ LoadVersion \/ Decide \/ Wait \/ Cancelled
             \/ BeginDrain \/ TakeCommand \/ WriteFails
    BY <1>2, ZenonT(60) DEF LoadEnabled, LoadVersion, Decide, Wait, Cancelled, BeginDrain,
       TakeCommand, WriteFails
  <1>3. CASE PollConfig \/ TimeSyncBegin \/ TimeSyncEnd \/ PollStatus
             \/ OperationFails
    BY <1>3 DEF PollConfig, TimeSyncBegin, TimeSyncEnd, PollStatus,
       OperationFails
  <1>4. ASSUME NEW changed \in BOOLEAN, Watchdog(changed) PROVE FlagsTypeOK'
    BY <1>4 DEF Watchdog
  <1>5. ASSUME NEW wrote \in BOOLEAN, Iteration(wrote) PROVE FlagsTypeOK'
    BY <1>5, IterationEnds DEF Iteration
  <1> QED BY <1>1, <1>2, <1>3, <1>4, <1>5, Steps, Iterates

-----------------------------------------------------------------------------
(* The properties, one by one.                                             *)

\* Where the loop is and what it has taken.
LEMMA StepRounds == ASSUME Invariant, [Next]_vars PROVE Rounds'
  <1>0. Rounds /\ TypeOK /\ QueueTypeOK /\ FlagsTypeOK
    BY DEF Invariant, TypeOK
  <1> USE <1>0 DEF Rounds, shared, local, drain
  <1>1. CASE CallerStep
    <2>1. ASSUME NEW command \in Command, QueueConfigWrite(command)
          PROVE  Rounds'
      <3>1. Len(commands') = Len(commands) + 1 /\ Len(commands) \in Nat
        BY <2>1 DEF QueueConfigWrite, QueueTypeOK
      <3>2. UNCHANGED <<pc, due, taking, wroteConfig, batch>>
        BY <2>1 DEF QueueConfigWrite
      <3> QED BY <3>1, <3>2 DEF QueueTypeOK
    <2>2. CASE Setter \/ HandlerWake \/ RequestTimeSync \/ Cancel
               \/ UNCHANGED vars
      BY <2>2 DEF Setter, SetPollingBump, SetPollingWake, HandlerWake,
         RequestTimeSync, Cancel, vars
    <2>3. ASSUME NEW on \in BOOLEAN, SetPollingSwap(on) PROVE Rounds'
      BY <2>3 DEF SetPollingSwap
    <2>4. ASSUME NEW d \in Deadlines, Expire(d) PROVE Rounds'
      BY <2>4 DEF Expire
    <2>5. ASSUME NEW k \in Keys, NEW v \in Values, Panel(k, v) PROVE Rounds'
      BY <2>5 DEF Panel
    <2> QED BY <1>1, <2>1, <2>2, <2>3, <2>4, <2>5 DEF CallerStep
  <1>2. CASE LoadEnabled \/ LoadVersion \/ Wait \/ Cancelled \/ WriteFails
             \/ TimeSyncBegin \/ OperationFails
    BY <1>2 DEF LoadEnabled, LoadVersion, Wait, Cancelled, WriteFails,
       TimeSyncBegin, OperationFails
  <1>3. CASE BeginDrain
    <2>1. commands # <<>> /\ batch = <<>> /\ ~wroteConfig
      BY <1>3 DEF BeginDrain, Stage
    <2>2. Len(commands) \in Nat /\ Len(commands) >= 1
      BY <2>1, Rest DEF QueueTypeOK
    <2>3. /\ taking' = Len(commands) /\ pc' = "take" /\ "commands" \notin due'
          /\ UNCHANGED <<commands, batch, wroteConfig>>
      BY <1>3 DEF BeginDrain
    <2> QED BY <2>1, <2>2, <2>3
  <1>4. CASE TakeCommand
    <2>1. pc = "take" /\ taking >= 1 /\ taking <= Len(commands) /\ ~wroteConfig
          /\ "commands" \notin due
      BY <1>4 DEF TakeCommand
    <2>2. commands # <<>>
      BY <2>1, EmptySeq DEF QueueTypeOK
    <2>3. Len(commands) \in Nat /\ Len(commands') = Len(commands) - 1
          /\ Head(commands) \in Command
      BY <1>4, <2>2, Rest DEF TakeCommand, QueueTypeOK
    <2>4. /\ taking' = taking - 1 /\ UNCHANGED <<due, wroteConfig>>
          /\ pc' = IF taking = 1 THEN "work" ELSE "take"
      BY <1>4 DEF TakeCommand
    <2>5. taking \in Nat
      BY DEF QueueTypeOK
    <2> QED BY <2>1, <2>3, <2>4, <2>5
  <1>5. CASE PollConfig \/ TimeSyncEnd \/ PollStatus
    BY <1>5 DEF PollConfig, TimeSyncEnd, PollStatus, Continue
  <1>6. ASSUME NEW changed \in BOOLEAN, Watchdog(changed) PROVE Rounds'
    BY <1>6 DEF Watchdog, Continue
  <1>7. ASSUME NEW wrote \in BOOLEAN, Iteration(wrote) PROVE Rounds'
    BY <1>7, IterationEnds DEF Iteration
  <1>8. CASE Decide
    <2>1. "commands" \in WorkDue => commands # <<>>
      BY DEF WorkDue
    <2>2. /\ due' = WorkDue /\ pc' = IF WorkDue = {} THEN "wait" ELSE "work"
          /\ UNCHANGED <<commands, taking, batch, wroteConfig>>
      BY <1>8 DEF Decide
    <2> QED BY <2>1, <2>2
  <1> QED BY <1>1, <1>2, <1>3, <1>4, <1>5, <1>6, <1>7, <1>8, Steps, Iterates

\* No wake-up is lost.  A caller changes the state before it sends the token
\* and the loop loads the state after it took one, so what the loop has not
\* seen always has a token, or a caller that still owes one.
LEMMA StepWake ==
    ASSUME Invariant, [Next]_vars PROVE Loads' /\ WakeNotLost'
  <1>0. /\ Loads /\ WakeNotLost /\ TypeOK /\ StagesTypeOK /\ FlagsTypeOK
    BY DEF Invariant, TypeOK
  <1> USE <1>0 DEF Loads, Notified, WakeNotLost, shared, callers, local
  <1>1. CASE CallerStep
    <2>1. ASSUME NEW command \in Command, QueueConfigWrite(command)
          PROVE  Loads' /\ WakeNotLost'
      BY <2>1 DEF QueueConfigWrite
    <2>2. CASE SetPollingBump \/ SetPollingWake \/ HandlerWake
               \/ RequestTimeSync
      BY <2>2 DEF SetPollingBump, SetPollingWake, HandlerWake,
         RequestTimeSync, signalWake
    <2>3. CASE Cancel \/ UNCHANGED vars
      BY <2>3 DEF Cancel, vars
    <2>4. ASSUME NEW on \in BOOLEAN, SetPollingSwap(on)
          PROVE  Loads' /\ WakeNotLost'
      <3>1. setter' # "idle"
        BY <2>4 DEF SetPollingSwap
      <3> QED BY <3>1
    <2>5. ASSUME NEW d \in Deadlines, Expire(d) PROVE Loads' /\ WakeNotLost'
      BY <2>5 DEF Expire
    <2>6. ASSUME NEW k \in Keys, NEW v \in Values, Panel(k, v)
          PROVE  Loads' /\ WakeNotLost'
      BY <2>6 DEF Panel
    <2> QED
      BY <1>1, <2>1, <2>2, <2>3, <2>4, <2>5, <2>6 DEF CallerStep, Setter
  <1>2. CASE LoadEnabled
    BY <1>2 DEF LoadEnabled
  <1>3. CASE LoadVersion
    BY <1>3 DEF LoadVersion
  <1>4. CASE Decide
    <2>1. CASE WorkDue = {}
      <3>1. commands = <<>> /\ ~NewConnection
        BY <2>1 DEF WorkDue
      <3>2. /\ ~timeSyncRequests' /\ pc' = "wait" /\ pc = "decide"
            /\ observedVersion' = observedVersion
            /\ UNCHANGED <<commands, wake, pollingEnabled, pollingVersion,
                           enabled, setter, handler>>
        BY <1>4, <2>1, <3>1 DEF Decide
      <3>3. enabled => version = observedVersion
        BY <3>1 DEF NewConnection
      <3>4. Loads'
        BY <3>2
      <3>5. WakeNotLost'
        BY <3>1, <3>2, <3>3
      <3> QED BY <3>4, <3>5
    <2>2. CASE WorkDue # {}
      <3>1. pc' = "work"
        BY <1>4, <2>2 DEF Decide
      <3> QED BY <3>1
    <2> QED BY <2>1, <2>2
  <1>5. CASE Wait \/ Cancelled \/ BeginDrain \/ TakeCommand \/ WriteFails
             \/ TimeSyncBegin \/ OperationFails
    <2>1. pc' \notin {"version", "decide", "wait"}
      BY <1>5 DEF Wait, Cancelled, BeginDrain, TakeCommand, WriteFails,
         TimeSyncBegin, OperationFails
    <2> QED BY <2>1
  <1>6. CASE PollConfig \/ TimeSyncEnd \/ PollStatus
             \/ \E changed \in BOOLEAN : Watchdog(changed)
    <2>1. pc' \notin {"version", "decide", "wait"}
      BY <1>6 DEF PollConfig, TimeSyncEnd, PollStatus, Watchdog, Continue
    <2> QED BY <2>1
  <1>7. ASSUME NEW wrote \in BOOLEAN, Iteration(wrote)
        PROVE  Loads' /\ WakeNotLost'
    <2>1. pc' \notin {"version", "decide", "wait"}
      BY <1>7, IterationEnds DEF Iteration
    <2> QED BY <2>1
  <1> QED
    BY <1>1, <1>2, <1>3, <1>4, <1>5, <1>6, <1>7, Steps, Iterates

\* No requested time sync is lost: the request is taken from its channel into
\* what is due, and leaves that only when the sync begins or when the watchdog
\* puts a request back.
LEMMA StepTimeSync == ASSUME Invariant, [Next]_vars PROVE TimeSyncNotLost'
  <1>0. TimeSyncNotLost /\ TypeOK
    BY DEF Invariant
  <1> USE <1>0 DEF TimeSyncNotLost, shared, local, ghosts
  <1>1. CASE CallerStep
    <2>1. ASSUME NEW command \in Command, QueueConfigWrite(command)
          PROVE  TimeSyncNotLost'
      BY <2>1 DEF QueueConfigWrite
    <2>2. CASE Setter \/ HandlerWake \/ RequestTimeSync \/ Cancel
               \/ UNCHANGED vars
      BY <2>2 DEF Setter, SetPollingBump, SetPollingWake, HandlerWake,
         RequestTimeSync, Cancel, vars
    <2>3. ASSUME NEW on \in BOOLEAN, SetPollingSwap(on)
          PROVE  TimeSyncNotLost'
      BY <2>3 DEF SetPollingSwap
    <2>4. ASSUME NEW d \in Deadlines, Expire(d) PROVE TimeSyncNotLost'
      BY <2>4 DEF Expire
    <2>5. ASSUME NEW k \in Keys, NEW v \in Values, Panel(k, v)
          PROVE  TimeSyncNotLost'
      BY <2>5 DEF Panel
    <2> QED BY <1>1, <2>1, <2>2, <2>3, <2>4, <2>5 DEF CallerStep
  <1>2. CASE LoadEnabled \/ LoadVersion \/ Wait \/ Cancelled \/ BeginDrain
             \/ TakeCommand \/ WriteFails \/ TimeSyncBegin \/ OperationFails
    BY <1>2 DEF LoadEnabled, LoadVersion, Wait, Cancelled, BeginDrain, Stage,
       TakeCommand, WriteFails, TimeSyncBegin, OperationFails
  <1>3. CASE Decide
    <2>1. timeSyncRequests => "timeSync" \in WorkDue
      BY DEF WorkDue
    <2> QED BY <1>3, <2>1 DEF Decide
  <1>4. CASE PollConfig \/ TimeSyncEnd \/ PollStatus
    BY <1>4 DEF PollConfig, TimeSyncEnd, PollStatus, Continue, Stage, Earlier
  <1>5. ASSUME NEW changed \in BOOLEAN, Watchdog(changed)
        PROVE  TimeSyncNotLost'
    <2>1. CASE changed
      BY <1>5, <2>1 DEF Watchdog
    <2>2. CASE ~changed
      BY <1>5, <2>2 DEF Watchdog, Continue, Stage
    <2> QED BY <2>1, <2>2
  <1>6. ASSUME NEW wrote \in BOOLEAN, Iteration(wrote) PROVE TimeSyncNotLost'
    BY <1>6, IterationEnds DEF Iteration
  <1> QED BY <1>1, <1>2, <1>3, <1>4, <1>5, <1>6, Steps, Iterates

\* No reading owed to a connection is forgotten.  A connection comes with a
\* version the loop has not observed; observing it makes both readings due, and
\* they leave what is due by being delivered, or for the read-back.
LEMMA StepReads == ASSUME Invariant, [Next]_vars PROVE ReadsNotForgotten'
  <1>0. /\ ReadsNotForgotten /\ TypeOK /\ StagesTypeOK /\ FlagsTypeOK
        /\ VersionsTypeOK /\ Versions /\ Rounds
    BY DEF Invariant, TypeOK
  <1> USE <1>0 DEF ReadsNotForgotten, shared, callers, local, ghosts, deadline
  <1>1. CASE CallerStep
    <2>1. ASSUME NEW command \in Command, QueueConfigWrite(command)
          PROVE  ReadsNotForgotten'
      BY <2>1 DEF QueueConfigWrite
    <2>2. CASE SetPollingBump
      <3>1. pollingVersion' # observedVersion'
        BY <2>2, BoundsAssumption DEF SetPollingBump, Versions, VersionsTypeOK
      <3> QED BY <3>1
    <2>3. CASE SetPollingWake \/ HandlerWake \/ RequestTimeSync \/ Cancel
               \/ UNCHANGED vars
      BY <2>3 DEF SetPollingWake, HandlerWake, RequestTimeSync, Cancel, vars
    <2>4. ASSUME NEW on \in BOOLEAN, SetPollingSwap(on)
          PROVE  ReadsNotForgotten'
      <3>1. CASE on /\ ~pollingEnabled
        BY <2>4, <3>1 DEF SetPollingSwap
      <3>2. CASE ~(on /\ ~pollingEnabled)
        <4>1. readsOwed' \in {{}, readsOwed}
          BY <2>4, <3>2 DEF SetPollingSwap, FlagsTypeOK
        <4> QED BY <2>4, <4>1 DEF SetPollingSwap
      <3> QED BY <3>1, <3>2
    <2>5. ASSUME NEW d \in Deadlines, Expire(d) PROVE ReadsNotForgotten'
      BY <2>5 DEF Expire
    <2>6. ASSUME NEW k \in Keys, NEW v \in Values, Panel(k, v)
          PROVE  ReadsNotForgotten'
      BY <2>6 DEF Panel
    <2> QED
      BY <1>1, <2>1, <2>2, <2>3, <2>4, <2>5, <2>6 DEF CallerStep, Setter
  <1>2. CASE LoadEnabled \/ LoadVersion \/ Wait \/ Cancelled \/ TakeCommand
             \/ WriteFails \/ TimeSyncBegin \/ OperationFails
    BY <1>2 DEF LoadEnabled, LoadVersion, Wait, Cancelled, TakeCommand,
       WriteFails, TimeSyncBegin, OperationFails, Stage
  <1>3. CASE BeginDrain
    <2>1. /\ due' = due \ {"commands"} /\ pc # "stopped"
          /\ UNCHANGED <<readsOwed, readback, setter, pollingVersion,
                         observedVersion>>
      BY <1>3 DEF BeginDrain, Stage
    <2> QED BY <2>1 DEF StagesTypeOK
  <1>4. CASE Decide
    <2>1. /\ pc = "decide" /\ due = {} /\ due' = WorkDue
          /\ UNCHANGED <<setter, pollingVersion, readsOwed, readback>>
      BY <1>4 DEF Decide, Rounds
    <2>2. CASE NewConnection
      <3>1. {"config", "status"} \subseteq WorkDue
        BY <2>2 DEF WorkDue
      <3> QED BY <2>1, <3>1 DEF StagesTypeOK
    <2>3. CASE ~NewConnection
      <3>1. observedVersion' = observedVersion
        BY <1>4, <2>3 DEF Decide
      <3> QED BY <2>1, <3>1
    <2> QED BY <2>2, <2>3
  <1>5. CASE PollConfig \/ TimeSyncEnd \/ PollStatus
    <2>1. /\ readsOwed' \subseteq readsOwed /\ pc # "stopped"
          /\ UNCHANGED <<setter, pollingVersion, observedVersion>>
      BY <1>5 DEF PollConfig, TimeSyncEnd, PollStatus, Stage
    <2>2. CASE PollConfig
      <3>1. due' = due \ {"config"} /\ readsOwed' = readsOwed \ {"config"}
        BY <2>2 DEF PollConfig, Continue
      <3> QED BY <2>1, <3>1
    <2>3. CASE TimeSyncEnd
      <3>1. /\ due' = due \ {"timeSync"} /\ UNCHANGED <<readsOwed, readback>>
        BY <2>3 DEF TimeSyncEnd, Continue
      <3> QED BY <2>1, <3>1 DEF StagesTypeOK
    <2>4. CASE PollStatus
      <3>1. /\ due' = due \ {"status"} /\ readsOwed' = readsOwed \ {"status"}
            /\ UNCHANGED readback
        BY <2>4 DEF PollStatus, Continue
      <3> QED BY <2>1, <3>1
    <2> QED BY <1>5, <2>2, <2>3, <2>4
  <1>6. ASSUME NEW changed \in BOOLEAN, Watchdog(changed)
        PROVE  ReadsNotForgotten'
    <2>1. /\ due \ {"watchdog", "timeSync"} \subseteq due' /\ pc # "stopped"
          /\ UNCHANGED <<readsOwed, readback, setter, pollingVersion,
                         observedVersion>>
      BY <1>6 DEF Watchdog, Continue, Stage
    <2> QED BY <2>1 DEF StagesTypeOK
  <1>7. ASSUME NEW wrote \in BOOLEAN, Iteration(wrote)
        PROVE  ReadsNotForgotten'
    BY <1>7, IterationEnds DEF Iteration
  <1> QED
    BY <1>1, <1>2, <1>3, <1>4, <1>5, <1>6, <1>7, Steps, Iterates

\* What is remembered as written is in the inverter, and a read-back is armed
\* for it or will be at the end of the drain loop.
LEMMA StepWrites ==
    ASSUME Invariant, [Next]_vars PROVE Remembered' /\ PendingWritesHeld'
  <1>0. /\ Remembered /\ PendingWritesHeld /\ TypeOK /\ QueueTypeOK
        /\ RegistersTypeOK
    BY DEF Invariant, TypeOK
  <1> USE <1>0 DEF Remembered, PendingWritesHeld, local, deadline
  <1>1. CASE CallerStep
    <2>1. ASSUME NEW command \in Command, QueueConfigWrite(command)
          PROVE  Remembered' /\ PendingWritesHeld'
      BY <2>1 DEF QueueConfigWrite
    <2>2. CASE Setter \/ HandlerWake \/ RequestTimeSync \/ Cancel
               \/ UNCHANGED vars
      BY <2>2 DEF Setter, SetPollingBump, SetPollingWake, HandlerWake,
         RequestTimeSync, Cancel, vars
    <2>3. ASSUME NEW on \in BOOLEAN, SetPollingSwap(on)
          PROVE  Remembered' /\ PendingWritesHeld'
      BY <2>3 DEF SetPollingSwap
    <2>4. ASSUME NEW d \in Deadlines, Expire(d)
          PROVE  Remembered' /\ PendingWritesHeld'
      BY <2>4 DEF Expire
    <2>5. ASSUME NEW k \in Keys, NEW v \in Values, Panel(k, v)
          PROVE  Remembered' /\ PendingWritesHeld'
      BY <2>5 DEF Panel, RegistersTypeOK
    <2> QED BY <1>1, <2>1, <2>2, <2>3, <2>4, <2>5 DEF CallerStep
  <1>2. CASE LoadEnabled \/ LoadVersion \/ Decide \/ Wait \/ BeginDrain
             \/ TakeCommand \/ TimeSyncBegin
    BY <1>2 DEF LoadEnabled, LoadVersion, Decide, Wait, BeginDrain,
       TakeCommand, TimeSyncBegin, Stage
  <1>3. CASE Cancelled \/ WriteFails \/ OperationFails
    <2>1. pc' = "stopped"
      BY <1>3 DEF Cancelled, WriteFails, OperationFails
    <2> QED BY <2>1
  <1>4. CASE PollConfig
    <2>1. pendingWrites' = NoWrites
      BY <1>4 DEF PollConfig
    <2> QED BY <2>1 DEF NoWrites
  <1>5. CASE TimeSyncEnd \/ PollStatus
             \/ \E changed \in BOOLEAN : Watchdog(changed)
    BY <1>5 DEF TimeSyncEnd, PollStatus, Watchdog, Stage
  <1>6. CASE SkipCommand \/ RejectCommand
    <2>1. Iteration(FALSE) /\ UNCHANGED <<pendingWrites, device>>
      BY <1>6, Iterates
    <2> QED BY <2>1, IterationEnds DEF Iteration
  <1>7. CASE WriteConfig
    <2>1. Head(batch) \in Command
      BY <1>7, Rest DEF WriteConfig, QueueTypeOK
    <2>2. Head(batch).key \in Keys
      BY <2>1 DEF Command
    <2>3. Remembered'
      BY <1>7, Iterates, IterationEnds DEF Iteration
    <2>4. PendingWritesHeld'
      BY <1>7, <2>2 DEF WriteConfig, RegistersTypeOK
    <2> QED BY <2>3, <2>4
  <1> QED
    BY <1>1, <1>2, <1>3, <1>4, <1>5, <1>6, <1>7, Steps

-----------------------------------------------------------------------------
(* The theorems.                                                           *)

\* Every step preserves the invariant.
LEMMA InvariantStep == ASSUME Invariant, [Next]_vars PROVE Invariant'
  <1>1. TypeOK'
    BY StepQueue, StepRegisters, StepVersions, StepStages, StepFlags DEF TypeOK
  <1> QED
    BY <1>1, StepVersions, StepRounds, StepWake, StepTimeSync, StepReads,
       StepWrites DEF Invariant

\* The inductive invariant holds of the polling thread and its callers, in
\* every interleaving of their steps.
THEOREM InvariantHolds == Spec => []Invariant
  BY InvariantStep, InitInvariant, PTL DEF Spec

\* The types, and the command queue within its size.
THEOREM TypeCorrect == Spec => []TypeOK
  BY InvariantHolds, PTL DEF Invariant

\* The thread never sleeps on work it was sent (the two-step sends of
\* SetPollingEnabled, RequestTimeSync and QueueConfigWrite against the loads
\* and the select of runPending).
THEOREM WakeCorrect == Spec => []WakeNotLost
  BY InvariantHolds, PTL DEF Invariant

\* A requested time sync is never lost before it begins.
THEOREM TimeSyncCorrect == Spec => []TimeSyncNotLost
  BY InvariantHolds, PTL DEF Invariant

\* The readings a new connection is owed are never forgotten.
THEOREM ReadsCorrect == Spec => []ReadsNotForgotten
  BY InvariantHolds, PTL DEF Invariant

\* The memory of written values, for which drainCommands skips a command, is
\* right about every register that only this program writes.
THEOREM PendingWritesCorrect == Spec => []PendingWritesHeld
  BY InvariantHolds, PTL DEF Invariant

\* Whatever was written awaits its read-back.
THEOREM ReadbackCorrect == Spec => []WritesAwaitReadback
  <1>1. Invariant => WritesAwaitReadback
    BY DEF Invariant, Remembered, Rounds, WritesAwaitReadback
  <1> QED BY <1>1, InvariantHolds, PTL

=============================================================================
