---------------------- MODULE RecoveringInverterProofs ----------------------
(* Proofs about RecoveringInverter and the settings it gets from Config,   *)
(* for every set of configuration files and every systemd interval.        *)
EXTENDS RecoveringInverter, TLAPS

-----------------------------------------------------------------------------
(* The settings.                                                           *)

\* A duration read from a file is a natural number of ticks, although a
\* fraction of a tick is cut off.
LEMMA DurationsNatural ==
    ASSUME NEW file \in Files, NEW key, NEW fallback \in Nat
    PROVE  durationSeconds(file, key, fallback) \subseteq Nat
  <1>1. CASE key \notin DOMAIN file
    BY <1>1 DEF durationSeconds
  <1>2. CASE key \in DOMAIN file
    <2>1. Number(file, key) \subseteq Int
      BY <1>2, FilesAssumption
    <2>2. \A n \in {m \in Number(file, key) : 0 < m /\ m <= 10 * MaxDuration} :
              n \div 10 \in Nat
      BY <2>1
    <2> QED BY <1>2, <2>2 DEF durationSeconds
  <1> QED BY <1>1, <1>2

\* What readConfig lets through to RecoveringInverter.
Settled(c) ==
    /\ c.ReconnectAttempts \in 1..20
    /\ c.InitialBackoff \in Nat /\ c.MaxBackoff \in Nat
    /\ c.InitialBackoff <= c.MaxBackoff
    /\ c.ResetCooldown \in Nat

\* Whatever the file says, settings that readConfig accepts let recovery make
\* an attempt, and only so many, and never wait a negative time (the ranges
\* checked at the end of readConfig; durationSeconds cuts to whole ticks).
THEOREM AcceptedSettings ==
    ASSUME NEW file \in Files, NEW app \in readConfig(file)
    PROVE  Settled(app)
  <1>1. app \in Settings(file) /\ Ranges(app)
    BY DEF readConfig
  <1>2. /\ app.InitialBackoff \in durationSeconds(file, "RECOVERY.INITIAL_BACKOFF_SEC", Second)
        /\ app.MaxBackoff \in durationSeconds(file, "RECOVERY.MAX_BACKOFF_SEC", 10 * Second)
        /\ app.ResetCooldown \in durationSeconds(file, "RECOVERY.RESET_COOLDOWN_SEC", 300 * Second)
    BY <1>1 DEF Settings
  <1>3. Second \in Nat /\ 10 * Second \in Nat /\ 300 * Second \in Nat
    BY SecondAssumption
  <1>4. app.InitialBackoff \in Nat /\ app.MaxBackoff \in Nat /\ app.ResetCooldown \in Nat
    BY <1>2, <1>3, DurationsNatural
  <1>5. app.ReconnectAttempts \in 1..20 /\ app.MaxBackoff >= app.InitialBackoff
    BY <1>1 DEF Ranges
  <1> QED BY <1>4, <1>5 DEF Settled

-----------------------------------------------------------------------------
(* The inductive invariant.                                                *)

Configs == [ReconnectAttempts : Nat, InitialBackoff : Nat, MaxBackoff : Nat,
            ResetCooldown : Nat]

\* A process that has not read its file has no settings and a clean slate,
\* one that runs has settings readConfig accepted.
Configured ==
    /\ config \in Configs
    /\ config = NoConfig \/ Settled(config)
    /\ pc = "load" => config = NoConfig /\ tries = 0
    /\ pc \notin {"load", "stopped"} => Settled(config)

\* How often the operation has been executed, by where recovery is.
FirstRound == IF afterReset THEN config.ReconnectAttempts ELSE 0

Budget ==
    /\ pc = "operation" => tries <= 1
    /\ pc \in {"close", "sleep", "connect", "validate"} => attempt >= 1
    /\ pc \in {"close", "sleep", "connect"} => tries <= attempt + FirstRound
    /\ pc = "validate" => tries <= attempt + FirstRound + 1
    /\ pc \in {"exhausted", "reset"} =>
           ~afterReset /\ tries <= config.ReconnectAttempts + 1

\* The cooldown lasts until a reset asked for is ResetCooldown ago.
Spacing ==
    /\ pc = "reset" => asked = sinceAsked
    /\ pc \notin {"load", "reset", "stopped"} =>
           sinceAsked + cooldown >= config.ResetCooldown

\* Recovery starts from an available inverter and validates on an open
\* handle.
Told ==
    /\ pc \in {"load", "operation"} => available
    /\ pc = "validate" => open

Invariant ==
    /\ TypeOK /\ Configured /\ Budget /\ Spacing /\ Told
    /\ SinkToldTruth /\ BackoffSchedule /\ ExecutionsBounded

\* The initial state: no settings, no recovery, no reset so far.
LEMMA InitInvariant == Init => Invariant
  <1> SUFFICES ASSUME Init PROVE Invariant
    OBVIOUS
  <1> USE IntervalsAssumption DEF Init, NoConfig
  <1>1. TypeOK
    <2>1. StagesTypeOK
      BY DEF StagesTypeOK
    <2>2. AttemptsTypeOK
      BY DEF AttemptsTypeOK
    <2>3. ClocksTypeOK
      BY DEF ClocksTypeOK
    <2> QED BY <2>1, <2>2, <2>3 DEF TypeOK
  <1>2. Configured
    BY DEF Configured, Configs
  <1>3. Budget /\ Spacing /\ Told
    BY DEF Budget, Spacing, Told
  <1>4. SinkToldTruth /\ BackoffSchedule /\ ExecutionsBounded
    BY DEF SinkToldTruth, BackoffSchedule, ExecutionsBounded
  <1> QED BY <1>1, <1>2, <1>3, <1>4 DEF Invariant

\* The settings of a running process never change: only Load and Restart
\* assign them.
LEMMA StepConfigured ==
    ASSUME TypeOK, Configured, [Next]_vars
    PROVE  Configured'
  <1> USE DEF Configured
  <1>1. ASSUME NEW file \in Files, Load(file) PROVE Configured'
    <2>1. CASE readConfig(file) = {}
      BY <1>1, <2>1 DEF Load, Fail
    <2>2. CASE readConfig(file) # {}
      <3>1. PICK app \in readConfig(file) :
                config' = [name \in DOMAIN NoConfig |-> app[name]]
        BY <1>1, <2>2 DEF Load
      <3>2. /\ config'.ReconnectAttempts = app.ReconnectAttempts
            /\ config'.InitialBackoff = app.InitialBackoff
            /\ config'.MaxBackoff = app.MaxBackoff
            /\ config'.ResetCooldown = app.ResetCooldown
            /\ DOMAIN config' = {"ReconnectAttempts", "InitialBackoff",
                                 "MaxBackoff", "ResetCooldown"}
        BY <3>1 DEF NoConfig
      <3>3. Settled(config')
        BY <3>2, AcceptedSettings DEF Settled
      <3>4. config' \in Configs
        BY <3>1, <3>2, <3>3 DEF Settled, Configs, NoConfig
      <3> QED BY <1>1, <2>2, <3>3, <3>4 DEF Load
    <2> QED BY <2>1, <2>2
  <1>2. CASE Restart
    BY <1>2 DEF Restart, Configs, NoConfig
  <1>3. CASE UNCHANGED config /\ pc' # "load" /\ pc # "load"
             /\ (pc = "stopped" => pc' = "stopped")
    BY <1>3
  <1>4. CASE UNCHANGED <<config, pc, tries>>
    BY <1>4
  <1>5. CASE Tick \/ Cancel \/ UNCHANGED vars
    BY <1>4, <1>5 DEF Tick, Cancel, vars, life
  <1>6. CASE Begin \/ OperationOk \/ OperationFatal \/ CloseHandle \/ SleepEnds
             \/ ConnectOk \/ ValidateOk \/ AskForReset \/ ResetOk
    BY <1>3, <1>6 DEF Begin, OperationOk, OperationFatal, CloseHandle, SleepEnds,
       ConnectOk, ValidateOk, AskForReset, ResetOk, StartAttempts, life
  <1>7. CASE OperationFails \/ SleepCancelled \/ AttemptFails \/ ValidateFails
             \/ Suppress \/ ResetFails \/ StopIdle
    BY <1>3, <1>7 DEF OperationFails, SleepCancelled, AttemptFails, NextAttempt,
       ValidateFails, Suppress, ResetFails, StopIdle, Fail, life
  <1>8. CASE Crash
    BY <1>8 DEF Crash, Fail, life
  <1> QED BY <1>1, <1>2, <1>5, <1>6, <1>7, <1>8 DEF Next, Step

-----------------------------------------------------------------------------
(* One step, part by part.                                                 *)

\* The stages.
LEMMA StepStages == ASSUME StagesTypeOK, [Next]_vars PROVE StagesTypeOK'
  <1> USE DEF StagesTypeOK, Fail, StartAttempts, life
  <1>1. ASSUME NEW file \in Files, Load(file) PROVE StagesTypeOK'
    BY <1>1 DEF Load
  <1>2. CASE Tick \/ Cancel \/ Crash \/ Restart \/ Begin \/ UNCHANGED vars
    BY <1>2 DEF Tick, Cancel, Crash, Restart, Begin, vars
  <1>3. CASE OperationOk \/ OperationFails \/ OperationFatal \/ CloseHandle
             \/ SleepEnds \/ SleepCancelled \/ ConnectOk \/ StopIdle
    BY <1>3 DEF OperationOk, OperationFails, OperationFatal, CloseHandle,
       SleepEnds, SleepCancelled, ConnectOk, StopIdle
  <1>4. CASE AttemptFails
    BY <1>4 DEF AttemptFails, NextAttempt
  <1>5. CASE ValidateOk \/ ValidateFails \/ Suppress \/ AskForReset
             \/ ResetOk \/ ResetFails
    BY <1>5 DEF ValidateOk, ValidateFails, Suppress, AskForReset, ResetOk,
       ResetFails
  <1> QED BY <1>1, <1>2, <1>3, <1>4, <1>5 DEF Next, Step

\* Settings are numbers.
Numbers(c) ==
    /\ c.ReconnectAttempts \in Nat /\ c.MaxBackoff \in Nat
    /\ c.ResetCooldown \in Nat /\ c.InitialBackoff \in Nat
    /\ c.InitialBackoff <= c.MaxBackoff
    /\ DOMAIN c = DOMAIN NoConfig

\* The settings in force are.
LEMMA ConfigNumbers ==
    ASSUME NEW c \in Configs, c = NoConfig \/ Settled(c)
    PROVE  Numbers(c)
  BY DEF Configs, Settled, NoConfig, Numbers

\* attempt stays within ReconnectAttempts and a sleep within MaxBackoff.
LEMMA StepAttempts ==
    ASSUME AttemptsTypeOK, Configured, Configured', [Next]_vars
    PROVE  AttemptsTypeOK'
  <1>0. Numbers(config) /\ Numbers(config') /\ RestartSec \in Nat
    BY ConfigNumbers, IntervalsAssumption DEF Configured
  <1> USE <1>0 DEF AttemptsTypeOK, Numbers, Fail, life
  <1>1. ASSUME NEW file \in Files, Load(file) PROVE AttemptsTypeOK'
    <2>1. attempt = 0 /\ delay = 0 /\ timer = 0
      BY <1>1 DEF Load, Configured, NoConfig
    <2>2. CASE readConfig(file) = {}
      BY <1>1, <2>2 DEF Load
    <2>3. CASE readConfig(file) # {}
      BY <1>1, <2>1, <2>3 DEF Load
    <2> QED BY <2>2, <2>3
  <1>2. CASE Tick
    BY <1>2 DEF Tick, Less
  <1>3. CASE Restart
    BY <1>3 DEF Restart, NoConfig
  <1>4. CASE Cancel \/ UNCHANGED vars
    BY <1>4 DEF Cancel, vars, clocks
  <1>5. CASE Begin \/ OperationOk \/ SleepEnds \/ ConnectOk \/ ValidateOk
             \/ AskForReset
    BY <1>5 DEF Begin, OperationOk, SleepEnds, ConnectOk, ValidateOk,
       AskForReset, clocks
  <1>6. CASE OperationFails \/ SleepCancelled \/ ValidateFails \/ Suppress
             \/ ResetFails \/ StopIdle \/ Crash
    BY <1>6 DEF OperationFails, SleepCancelled, ValidateFails, Suppress,
       ResetFails, StopIdle, Crash
  <1>7. CASE OperationFatal \/ ResetOk
    <2>1. config.ReconnectAttempts >= 1
      BY <1>7 DEF OperationFatal, ResetOk, Configured, Settled
    <2> QED BY <1>7, <2>1 DEF OperationFatal, ResetOk, StartAttempts, clocks
  <1>8. CASE CloseHandle
    BY <1>8 DEF CloseHandle
  <1>9. CASE AttemptFails
    BY <1>9 DEF AttemptFails, NextAttempt, Smaller
  <1> QED BY <1>1, <1>2, <1>3, <1>4, <1>5, <1>6, <1>7, <1>8, <1>9 DEF Next, Step

\* The clocks stay within their caps, and so do cooldown and start limit.
LEMMA StepClocks ==
    ASSUME ClocksTypeOK, Configured, Configured', [Next]_vars
    PROVE  ClocksTypeOK'
  <1>0. Numbers(config) /\ Numbers(config') /\ StartLimitInterval \in Nat
    BY ConfigNumbers, IntervalsAssumption DEF Configured
  <1> USE <1>0 DEF ClocksTypeOK, Numbers, life, clocks
  <1>1. ASSUME NEW file \in Files, Load(file) PROVE ClocksTypeOK'
    <2>1. cooldown = 0 /\ asked = 0
      BY <1>1 DEF Load, Configured, NoConfig
    <2>2. CASE readConfig(file) = {}
      BY <1>1, <2>2 DEF Load
    <2>3. CASE readConfig(file) # {}
      BY <1>1, <2>1, <2>3 DEF Load
    <2> QED BY <2>2, <2>3
  <1>2. CASE Tick
    BY <1>2 DEF Tick, Less, More
  <1>3. CASE Restart
    BY <1>3 DEF Restart, NoConfig
  <1>4. CASE UNCHANGED <<config, cooldown, asked, sinceAsked, unitBusy>>
    BY <1>4
  <1>5. CASE Cancel \/ Begin \/ OperationOk \/ OperationFails \/ OperationFatal
             \/ CloseHandle \/ SleepEnds \/ SleepCancelled \/ ConnectOk
             \/ AttemptFails \/ ValidateOk \/ ValidateFails \/ Suppress
             \/ StopIdle \/ UNCHANGED vars
    BY <1>4, <1>5 DEF Cancel, Begin, OperationOk, OperationFails, OperationFatal,
       CloseHandle, SleepEnds, SleepCancelled, ConnectOk, AttemptFails,
       ValidateOk, ValidateFails, Suppress, StopIdle, vars
  <1>6. CASE AskForReset \/ Crash
    BY <1>6 DEF AskForReset, Crash, UnitStarts
  <1>7. CASE ResetOk \/ ResetFails
    BY <1>7 DEF ResetOk, ResetFails, UnitStarts
  <1> QED BY <1>1, <1>2, <1>3, <1>5, <1>6, <1>7 DEF Next, Step

\* Every execution of the operation is paid for by an attempt.
LEMMA StepBudget ==
    ASSUME StagesTypeOK, AttemptsTypeOK, Configured, Configured', Budget,
           ExecutionsBounded, [Next]_vars
    PROVE  Budget' /\ ExecutionsBounded'
  <1>0. /\ config.ReconnectAttempts \in Nat /\ config'.ReconnectAttempts \in Nat
        /\ tries \in Nat /\ attempt \in 0..config.ReconnectAttempts
    BY ConfigNumbers DEF Configured, Numbers, AttemptsTypeOK
  <1> USE <1>0 DEF Budget, FirstRound, ExecutionsBounded, Fail, life
  <1>1. ASSUME NEW file \in Files, Load(file)
        PROVE  Budget' /\ ExecutionsBounded'
    BY <1>1 DEF Load
  <1>2. CASE UNCHANGED <<config, pc, tries, afterReset, attempt>>
    BY <1>2
  <1>3. CASE Tick \/ Cancel \/ UNCHANGED vars
    BY <1>2, <1>3 DEF Tick, Cancel, vars
  <1>4. CASE Begin \/ OperationOk \/ OperationFatal \/ ValidateOk
    BY <1>4 DEF Begin, OperationOk, OperationFatal, ValidateOk, StartAttempts
  <1>5. CASE CloseHandle \/ SleepEnds \/ AskForReset
    BY <1>5 DEF CloseHandle, SleepEnds, AskForReset
  <1>6. CASE ConnectOk
    BY <1>6 DEF ConnectOk, StagesTypeOK
  <1>7. CASE AttemptFails
    BY <1>7 DEF AttemptFails, NextAttempt, StagesTypeOK
  <1>8. CASE ResetOk
    BY <1>8 DEF ResetOk, StartAttempts
  <1>9. CASE OperationFails \/ SleepCancelled \/ ValidateFails \/ Suppress
             \/ ResetFails \/ StopIdle \/ Crash
    BY <1>9 DEF OperationFails, SleepCancelled, ValidateFails, Suppress,
       ResetFails, StopIdle, Crash
  <1>10. CASE Restart
    BY <1>10 DEF Restart
  <1> QED BY <1>1, <1>3, <1>4, <1>5, <1>6, <1>7, <1>8, <1>9, <1>10 DEF Next, Step

\* As the cooldown runs down, the clock it stands for runs up.
LEMMA StepSpacing ==
    ASSUME ClocksTypeOK, Configured, Configured', Spacing, [Next]_vars
    PROVE  Spacing'
  <1>0. /\ config.ResetCooldown \in Nat /\ config'.ResetCooldown \in Nat
        /\ cooldown \in 0..config.ResetCooldown /\ asked \in 0..config.ResetCooldown
        /\ sinceAsked \in 0..config.ResetCooldown
    BY ConfigNumbers DEF Configured, Numbers, ClocksTypeOK
  <1> USE <1>0 DEF Spacing, Fail, StartAttempts, life, clocks
  <1>1. ASSUME NEW file \in Files, Load(file) PROVE Spacing'
    BY <1>1 DEF Load
  <1>2. CASE Tick
    BY <1>2 DEF Tick, Less, More
  <1>3. CASE Cancel \/ Begin \/ OperationOk \/ OperationFails \/ OperationFatal
             \/ CloseHandle \/ SleepEnds \/ SleepCancelled \/ ConnectOk
    BY <1>3 DEF Cancel, Begin, OperationOk, OperationFails, OperationFatal,
       CloseHandle, SleepEnds, SleepCancelled, ConnectOk
  <1>4. CASE AttemptFails
    BY <1>4 DEF AttemptFails, NextAttempt
  <1>5. CASE ValidateOk \/ ValidateFails \/ Suppress \/ AskForReset
    BY <1>5 DEF ValidateOk, ValidateFails, Suppress, AskForReset
  <1>6. CASE ResetOk
    BY <1>6 DEF ResetOk
  <1>7. CASE ResetFails \/ StopIdle \/ Crash
    BY <1>7 DEF ResetFails, StopIdle, Crash
  <1>8. CASE Restart \/ UNCHANGED vars
    BY <1>8 DEF Restart, vars
  <1> QED BY <1>1, <1>2, <1>3, <1>4, <1>5, <1>6, <1>7, <1>8 DEF Next, Step

\* Recovery begins with "unavailable" and has one way back to idle.
LEMMA StepSink ==
    ASSUME StagesTypeOK, Told, SinkToldTruth, [Next]_vars
    PROVE  Told' /\ SinkToldTruth'
  <1> USE DEF Told, SinkToldTruth, Fail, StartAttempts, life
  <1>1. ASSUME NEW file \in Files, Load(file)
        PROVE  Told' /\ SinkToldTruth'
    BY <1>1 DEF Load
  <1>2. CASE Tick \/ Cancel \/ Begin \/ Crash \/ Restart \/ UNCHANGED vars
    BY <1>2 DEF Tick, Cancel, Begin, Crash, Restart, vars
  <1>3. CASE OperationOk \/ OperationFails \/ OperationFatal \/ CloseHandle
             \/ SleepEnds \/ SleepCancelled \/ ConnectOk \/ StopIdle
    BY <1>3 DEF OperationOk, OperationFails, OperationFatal, CloseHandle,
       SleepEnds, SleepCancelled, ConnectOk, StopIdle
  <1>4. CASE AttemptFails
    BY <1>4 DEF AttemptFails, NextAttempt
  <1>5. CASE ValidateOk \/ ValidateFails \/ Suppress \/ AskForReset
             \/ ResetOk \/ ResetFails
    BY <1>5 DEF ValidateOk, ValidateFails, Suppress, AskForReset, ResetOk,
       ResetFails
  <1> QED BY <1>1, <1>2, <1>3, <1>4, <1>5 DEF Next, Step

-----------------------------------------------------------------------------
(* The backoff.  ReconnectAttempts is at most 20, so the powers of two it  *)
(* takes can be computed one by one.                                       *)

\* The powers of two that the attempts need.
LEMMA Powers ==
    ASSUME NEW n \in 1..19
    PROVE  2 ^ (n - 1) \in Nat /\ 2 ^ ((n + 1) - 1) = 2 * 2 ^ (n - 1)
  <1>1. CASE n = 1 BY <1>1
  <1>2. CASE n = 2 BY <1>2
  <1>3. CASE n = 3 BY <1>3
  <1>4. CASE n = 4 BY <1>4
  <1>5. CASE n = 5 BY <1>5
  <1>6. CASE n = 6 BY <1>6
  <1>7. CASE n = 7 BY <1>7
  <1>8. CASE n = 8 BY <1>8
  <1>9. CASE n = 9 BY <1>9
  <1>10. CASE n = 10 BY <1>10
  <1>11. CASE n = 11 BY <1>11
  <1>12. CASE n = 12 BY <1>12
  <1>13. CASE n = 13 BY <1>13
  <1>14. CASE n = 14 BY <1>14
  <1>15. CASE n = 15 BY <1>15
  <1>16. CASE n = 16 BY <1>16
  <1>17. CASE n = 17 BY <1>17
  <1>18. CASE n = 18 BY <1>18
  <1>19. CASE n = 19 BY <1>19
  <1> QED BY <1>1, <1>2, <1>3, <1>4, <1>5, <1>6, <1>7, <1>8, <1>9, <1>10,
             <1>11, <1>12, <1>13, <1>14, <1>15, <1>16, <1>17, <1>18, <1>19

\* Doubling and cutting off may be done in either order.
LEMMA DoubledCut ==
    ASSUME NEW b \in Nat, NEW p \in Nat, NEW top \in Nat
    PROVE  Smaller(2 * Smaller(b * p, top), top) = Smaller(b * (2 * p), top)
  <1>1. b * p \in Nat /\ b * (2 * p) = 2 * (b * p)
    OBVIOUS
  <1> DEFINE bp == b * p
  <1>2. bp \in Nat /\ b * (2 * p) = 2 * bp
    BY <1>1
  <1> HIDE DEF bp
  <1>3. Smaller(2 * Smaller(bp, top), top) = Smaller(2 * bp, top)
    BY <1>2 DEF Smaller
  <1> QED BY <1>2, <1>3 DEF bp

\* The delay of an attempt follows the schedule.
LEMMA StepBackoff ==
    ASSUME StagesTypeOK, AttemptsTypeOK, Configured, Configured', Budget,
           BackoffSchedule, [Next]_vars
    PROVE  BackoffSchedule'
  <1> DEFINE Rounds == {"close", "sleep", "connect", "validate"}
  <1>1. CASE UNCHANGED <<config, delay, attempt>> /\ (pc' \in Rounds => pc \in Rounds)
    BY <1>1 DEF BackoffSchedule
  <1>2. CASE OperationFatal \/ ResetOk
    <2>1. attempt' = 1 /\ delay' = config.InitialBackoff /\ config' = config
      BY <1>2 DEF OperationFatal, ResetOk, StartAttempts, life
    <2>2. 2 ^ (attempt' - 1) = 1
      BY <2>1
    <2>3. Numbers(config)
      BY ConfigNumbers DEF Configured
    <2>4. config.InitialBackoff * 1 = config.InitialBackoff
      BY <2>3 DEF Numbers
    <2>5. delay' = Smaller(config.InitialBackoff * 1, config.MaxBackoff)
      BY <2>1, <2>3, <2>4 DEF Smaller, Numbers
    <2> QED BY <2>1, <2>2, <2>5 DEF BackoffSchedule
  <1>3. CASE AttemptFails
    <2>1. CASE attempt < config.ReconnectAttempts
      <3>1. /\ delay' = Smaller(2 * delay, config.MaxBackoff)
            /\ attempt' = attempt + 1 /\ config' = config /\ pc \in Rounds
        BY <1>3, <2>1 DEF AttemptFails, NextAttempt, life
      <3>2. Numbers(config) /\ attempt \in 1..19
        <4>1. Numbers(config) /\ Settled(config)
          BY <3>1, ConfigNumbers DEF Configured
        <4>2. attempt \in Nat /\ attempt >= 1
          BY <3>1, <4>1 DEF AttemptsTypeOK, Budget, Numbers
        <4> QED BY <2>1, <4>1, <4>2 DEF Settled
      <3>3. delay = Smaller(config.InitialBackoff * 2 ^ (attempt - 1),
                            config.MaxBackoff)
        BY <3>1 DEF BackoffSchedule
      <3>4. delay' = Smaller(config.InitialBackoff * (2 * 2 ^ (attempt - 1)),
                             config.MaxBackoff)
        BY <3>1, <3>2, <3>3, Powers, DoubledCut DEF Numbers
      <3>5. delay' = Smaller(config.InitialBackoff * 2 ^ ((attempt + 1) - 1),
                             config.MaxBackoff)
        BY <3>2, <3>4, Powers
      <3> QED BY <3>1, <3>5 DEF BackoffSchedule
    <2>2. CASE ~(attempt < config.ReconnectAttempts)
      BY <1>3, <2>2 DEF AttemptFails, Fail, BackoffSchedule
    <2> QED BY <2>1, <2>2
  <1>4. ASSUME NEW file \in Files, Load(file) PROVE BackoffSchedule'
    BY <1>4 DEF Load, Fail, BackoffSchedule
  <1>5. CASE Restart
    BY <1>5 DEF Restart, BackoffSchedule
  <1>6. CASE Tick \/ Cancel \/ Begin \/ Crash \/ OperationOk \/ OperationFails
             \/ CloseHandle \/ SleepEnds \/ SleepCancelled \/ ConnectOk
             \/ UNCHANGED vars
    BY <1>1, <1>6 DEF Tick, Cancel, Begin, Crash, OperationOk, OperationFails,
       CloseHandle, SleepEnds, SleepCancelled, ConnectOk, Fail, life, vars
  <1>7. CASE ValidateOk \/ ValidateFails \/ Suppress \/ AskForReset
             \/ ResetFails \/ StopIdle
    BY <1>1, <1>7 DEF ValidateOk, ValidateFails, Suppress, AskForReset,
       ResetFails, StopIdle, Fail, life
  <1> QED BY <1>2, <1>3, <1>4, <1>5, <1>6, <1>7 DEF Next, Step

-----------------------------------------------------------------------------
\* Invariant holds initially and no step breaks it.
THEOREM InvariantHolds == Spec => []Invariant
  <1>1. Invariant /\ [Next]_vars => Invariant'
    <2> SUFFICES ASSUME Invariant, [Next]_vars PROVE Invariant'
      OBVIOUS
    <2>0. StagesTypeOK /\ AttemptsTypeOK /\ ClocksTypeOK
      BY DEF Invariant, TypeOK
    <2>1. Configured'
      BY StepConfigured DEF Invariant
    <2>2. TypeOK'
      BY <2>0, <2>1, StepStages, StepAttempts, StepClocks DEF Invariant, TypeOK
    <2>3. Budget' /\ ExecutionsBounded'
      BY <2>0, <2>1, StepBudget DEF Invariant
    <2>4. Spacing'
      BY <2>0, <2>1, StepSpacing DEF Invariant
    <2>5. Told' /\ SinkToldTruth'
      BY <2>0, StepSink DEF Invariant
    <2>6. BackoffSchedule'
      BY <2>0, <2>1, StepBackoff DEF Invariant
    <2> QED BY <2>1, <2>2, <2>3, <2>4, <2>5, <2>6 DEF Invariant
  <1> QED BY <1>1, InitInvariant, PTL DEF Spec

\* Whatever the configuration files, every variable keeps its type and
\* range: no attempt beyond ReconnectAttempts, no sleep beyond MaxBackoff.
THEOREM TypeCorrect == Spec => []TypeOK
  <1>1. Invariant => TypeOK
    BY DEF Invariant
  <1> QED BY <1>1, InvariantHolds, PTL

\* The availability sink is told the truth on every path of recovery (the
\* calls of notifyAvailabilityLocked in executeWithRecoveryLocked).
THEOREM SinkCorrect == Spec => []SinkToldTruth
  <1>1. Invariant => SinkToldTruth
    BY DEF Invariant
  <1> QED BY <1>1, InvariantHolds, PTL

\* The backoff doubles up to its cap and starts over after a reset
\* (reconnectAndValidateLocked), for any accepted settings.
THEOREM BackoffCorrect == Spec => []BackoffSchedule
  <1>1. Invariant => BackoffSchedule
    BY DEF Invariant
  <1> QED BY <1>1, InvariantHolds, PTL

\* An operation is executed at most once and once per attempt of two rounds.
THEOREM ExecutionsCorrect == Spec => []ExecutionsBounded
  <1>1. Invariant => ExecutionsBounded
    BY DEF Invariant
  <1> QED BY <1>1, InvariantHolds, PTL

\* Resets are asked for at least ResetCooldown apart, although lastReset is
\* written only after the request returned (executeWithRecoveryLocked).
THEOREM ResetsSpacedCorrect == Spec => ResetsSpaced
  <1>1. Invariant /\ [Next]_vars =>
            [pc # "reset" /\ pc' = "reset" => sinceAsked = config.ResetCooldown]_vars
    <2> SUFFICES ASSUME Invariant, Next, pc # "reset", pc' = "reset"
                 PROVE  sinceAsked = config.ResetCooldown
      OBVIOUS
    <2>1. AskForReset
      <3> USE DEF Fail, StartAttempts, NextAttempt
      <3>1. ASSUME NEW file \in Files, Load(file) PROVE FALSE
        BY <3>1 DEF Load
      <3>2. CASE Tick \/ Cancel \/ Begin \/ Crash \/ Restart \/ OperationOk
                 \/ OperationFails \/ OperationFatal \/ CloseHandle \/ SleepEnds
                 \/ SleepCancelled \/ ConnectOk \/ AttemptFails
        BY <3>2 DEF Tick, Cancel, Begin, Crash, Restart, OperationOk,
           OperationFails, OperationFatal, CloseHandle, SleepEnds,
           SleepCancelled, ConnectOk, AttemptFails
      <3>3. CASE ValidateOk \/ ValidateFails \/ Suppress \/ ResetOk \/ ResetFails
                 \/ StopIdle
        BY <3>3 DEF ValidateOk, ValidateFails, Suppress, ResetOk, ResetFails,
           StopIdle
      <3> QED BY <3>1, <3>2, <3>3 DEF Next, Step
    <2>2. pc = "exhausted" /\ cooldown = 0
      BY <2>1 DEF AskForReset
    <2>3. /\ sinceAsked + cooldown >= config.ResetCooldown
          /\ config.ResetCooldown \in Nat /\ sinceAsked \in 0..config.ResetCooldown
      BY <2>2, ConfigNumbers DEF Invariant, Spacing, Configured, Numbers, TypeOK,
         ClocksTypeOK
    <2> QED BY <2>2, <2>3
  <1> QED BY <1>1, InvariantHolds, PTL DEF Spec, ResetsSpaced
=============================================================================
