------------------------- MODULE RecoveringInverter -------------------------
(***************************************************************************)
(* Recovery of the inverter connection (recovery.go) over the lives of the *)
(* process: an operation that fails fatally is retried on a reopened link  *)
(* with backoff, then once more after a privileged USB reset, subject to a *)
(* cooldown; if that fails too the process ends and systemd restarts it.   *)
(*                                                                         *)
(* One operation at a time: RecoveringInverter.mu is held throughout.      *)
(* Times are counters of ticks still to go or gone by, capped where larger *)
(* values make no difference, so that no bound on the clock is needed.     *)
(*                                                                         *)
(* The operators named Broken... are plausible mistakes in the definitions *)
(* after them, put in their place to see that a property notices.          *)
(***************************************************************************)
EXTENDS Config

CONSTANTS
    StartLimitInterval,   \* of spf5000es-recovery.service, with burst 1
    RestartSec            \* of spf5000es-server.service

ASSUME IntervalsAssumption == StartLimitInterval \in Nat /\ RestartSec \in Nat

VARIABLES
    config,       \* app.Recovery of this life of the process
    pc,           \* where executeWithRecoveryLocked is
    afterReset,   \* in the second reconnectAndValidateLocked
    attempt, delay,
    timer,        \* ticks left of a sleep, or until systemd restarts
    cooldown,     \* ticks until now - lastReset reaches ResetCooldown
    asked,        \* ticks since the now that lastReset will be set to
    open,         \* the Modbus handle is connected
    available,    \* the last word of notifyAvailabilityLocked in this life
    ctxDone,
    unitBusy,     \* ticks until systemd starts the recovery unit again
    tries,        \* ghost: how often the operation was executed
    sinceAsked    \* ghost: ticks since a reset was asked for in this life

vars == <<config, tries, pc, afterReset, attempt, delay, timer, cooldown, asked,
          open, available, ctxDone, unitBusy, sinceAsked>>
life == <<ctxDone, config, tries>>
clocks == <<timer, cooldown, asked, unitBusy, sinceAsked>>

Less(n) == IF n > 0 THEN n - 1 ELSE 0
More(n, cap) == IF n < cap THEN n + 1 ELSE cap
Smaller(m, n) == IF m < n THEN m ELSE n

-----------------------------------------------------------------------------
NoConfig == [ReconnectAttempts |-> 0, InitialBackoff |-> 0, MaxBackoff |-> 0,
             ResetCooldown |-> 0]

Init ==
    /\ config = NoConfig /\ tries = 0
    /\ pc = "load" /\ afterReset = FALSE /\ attempt = 0 /\ delay = 0
    /\ timer = 0 /\ cooldown = 0 /\ asked = 0 /\ open = FALSE
    /\ available = TRUE /\ ctxDone = FALSE /\ unitBusy = 0
    /\ sinceAsked = 0

Tick ==
    /\ timer' = Less(timer) /\ cooldown' = Less(cooldown)
    /\ asked' = IF pc = "reset" THEN More(asked, config.ResetCooldown) ELSE asked
    /\ unitBusy' = Less(unitBusy)
    /\ sinceAsked' = More(sinceAsked, config.ResetCooldown)
    /\ UNCHANGED <<pc, afterReset, attempt, delay, open, available, life>>

Cancel ==
    /\ ~ctxDone /\ ctxDone' = TRUE
    /\ UNCHANGED <<pc, afterReset, attempt, delay, clocks, open, available,
                   config, tries>>

\* The error goes up to run(): the process ends, systemd waits RestartSec.
Fail == pc' = "stopped" /\ timer' = RestartSec

\* run() reads the file, which may have been edited since the last life.
\* It starts with inverter.Connect, an operation like any other.
Load(file) ==
    /\ pc = "load"
    /\ IF readConfig(file) = {} THEN Fail /\ UNCHANGED <<config, tries, sinceAsked>>
       ELSE /\ \E app \in readConfig(file) :
                config' = [name \in DOMAIN NoConfig |-> app[name]]
            /\ pc' = "operation" /\ tries' = 1
            /\ sinceAsked' = config'.ResetCooldown /\ UNCHANGED timer
    /\ UNCHANGED <<afterReset, attempt, delay, cooldown, asked, open, available,
                   ctxDone, unitBusy>>

Begin ==
    /\ pc = "idle" /\ ~ctxDone
    /\ pc' = "operation" /\ tries' = 1
    /\ UNCHANGED <<afterReset, attempt, delay, clocks, open, available,
                   ctxDone, config>>

\* The operation succeeds, or is a write refused before any I/O.
OperationOk ==
    /\ pc = "operation"
    /\ pc' = "idle" /\ open' = TRUE
    /\ UNCHANGED <<afterReset, attempt, delay, clocks, available, life>>

\* An error that is not a fatalModbusError, a cancelled context included.
OperationFails ==
    /\ pc = "operation"
    /\ Fail
    /\ UNCHANGED <<afterReset, attempt, delay, cooldown, asked, open,
                   available, life, unitBusy, sinceAsked>>

\* The second round goes on with the delay of the first.
BrokenStartAttempts ==
    /\ pc' = "close" /\ attempt' = 1
    /\ delay' = IF afterReset' THEN delay ELSE config.InitialBackoff

\* Enter reconnectAndValidateLocked.
StartAttempts == pc' = "close" /\ attempt' = 1 /\ delay' = config.InitialBackoff

\* A request failed and ctx is not done: execute calls that fatal.
OperationFatal ==
    /\ pc = "operation" /\ ~ctxDone
    /\ available' = FALSE
    /\ afterReset' = FALSE
    /\ StartAttempts
    /\ UNCHANGED <<clocks, open, life>>

CloseHandle ==
    /\ pc = "close"
    /\ open' = FALSE
    /\ pc' = "sleep" /\ timer' = delay
    /\ UNCHANGED <<afterReset, attempt, delay, cooldown, asked, available,
                   life, unitBusy, sinceAsked>>

SleepEnds ==
    /\ pc = "sleep" /\ timer = 0
    /\ pc' = "connect"
    /\ UNCHANGED <<afterReset, attempt, delay, clocks, open, available,
                   life>>

SleepCancelled ==
    /\ pc = "sleep" /\ ctxDone
    /\ Fail
    /\ UNCHANGED <<afterReset, attempt, delay, cooldown, asked, open,
                   available, life, unitBusy, sinceAsked>>

ConnectOk ==
    /\ pc = "connect"
    /\ open' = TRUE /\ pc' = "validate" /\ tries' = tries + 1
    /\ UNCHANGED <<afterReset, attempt, delay, clocks, available, ctxDone, config>>

BrokenNextAttempt ==   \* the attempt does not count
    pc' = "close" /\ UNCHANGED <<attempt, delay, timer>>

NextAttempt ==
    /\ pc' = "close" /\ delay' = Smaller(2 * delay, config.MaxBackoff)
    /\ attempt' = attempt + 1 /\ UNCHANGED timer

BrokenAttemptFails ==   \* the second round leads to a reset, too
    /\ pc = "connect" \/ (pc = "validate" /\ ~ctxDone)
    /\ IF attempt < config.ReconnectAttempts
       THEN NextAttempt
       ELSE UNCHANGED <<attempt, delay, timer>> /\ pc' = "exhausted"
    /\ UNCHANGED <<afterReset, cooldown, asked, open, available, life,
                   unitBusy, sinceAsked>>

\* The end of an attempt whose connect or validation failed fatally.
AttemptFails ==
    /\ pc = "connect" \/ (pc = "validate" /\ ~ctxDone)
    /\ IF attempt < config.ReconnectAttempts
       THEN NextAttempt
       ELSE /\ UNCHANGED <<attempt, delay>>
            /\ IF afterReset THEN Fail
               ELSE pc' = "exhausted" /\ UNCHANGED timer
    /\ UNCHANGED <<afterReset, cooldown, asked, open, available, life,
                   unitBusy, sinceAsked>>

\* Recovery by reset does not notify.
BrokenValidateOk ==
    /\ pc = "validate"
    /\ available' = ~afterReset
    /\ pc' = "idle"
    /\ UNCHANGED <<afterReset, attempt, delay, clocks, open, life>>

\* notifyAvailabilityLocked(true), after the first or the second round.
ValidateOk ==
    /\ pc = "validate"
    /\ available' = TRUE
    /\ pc' = "idle"
    /\ UNCHANGED <<afterReset, attempt, delay, clocks, open, life>>

ValidateFails ==
    /\ pc = "validate"
    /\ Fail
    /\ UNCHANGED <<afterReset, attempt, delay, cooldown, asked, open,
                   available, life, unitBusy, sinceAsked>>

\* Lines 133-142: give up on a cancelled context or inside the cooldown.
Suppress ==
    /\ pc = "exhausted" /\ (ctxDone \/ cooldown > 0)
    /\ Fail
    /\ UNCHANGED <<afterReset, attempt, delay, cooldown, asked, open,
                   available, life, unitBusy, sinceAsked>>

AskForReset ==
    /\ pc = "exhausted" /\ ~ctxDone /\ cooldown = 0
    /\ pc' = "reset" /\ asked' = 0
    /\ sinceAsked' = 0
    /\ UNCHANGED <<afterReset, attempt, delay, timer, cooldown, open,
                   available, life, unitBusy>>

\* systemctl start: the unit's start limit lets one start through per interval.
UnitStarts == unitBusy = 0 /\ unitBusy' = StartLimitInterval

\* lastReset is not written.
BrokenResetOk ==
    /\ pc = "reset"
    /\ UnitStarts
    /\ asked' = 0
    /\ afterReset' = TRUE
    /\ StartAttempts
    /\ UNCHANGED <<timer, cooldown, open, available, life, sinceAsked>>

\* lastReset becomes the now of before the request.
ResetOk ==
    /\ pc = "reset"
    /\ UnitStarts
    /\ cooldown' = config.ResetCooldown - asked /\ asked' = 0
    /\ afterReset' = TRUE
    /\ StartAttempts
    /\ UNCHANGED <<timer, open, available, life, sinceAsked>>

\* systemd refuses the start, or the recovery program fails, or the context is
\* cancelled and systemctl killed.
ResetFails ==
    /\ pc = "reset"
    /\ UnitStarts \/ UNCHANGED unitBusy
    /\ Fail /\ asked' = 0
    /\ UNCHANGED <<afterReset, attempt, delay, cooldown, open, available,
                   life, sinceAsked>>

\* The polling loop ends on the cancelled context.
StopIdle ==
    /\ pc = "idle" /\ ctxDone
    /\ Fail
    /\ UNCHANGED <<afterReset, attempt, delay, cooldown, asked, open,
                   available, life, unitBusy, sinceAsked>>

\* The process is killed in the middle of anything; a reset it has asked for
\* may go through all the same.
Crash ==
    /\ pc # "stopped"
    /\ Fail /\ asked' = 0
    /\ (pc = "reset" /\ UnitStarts) \/ UNCHANGED unitBusy
    /\ UNCHANGED <<afterReset, attempt, delay, cooldown, open, available,
                   life, sinceAsked>>


\* Restart=on-failure: a new life that remembers nothing, lastReset included.
Restart ==
    /\ pc = "stopped" /\ ~ctxDone /\ timer = 0
    /\ pc' = "load" /\ config' = NoConfig /\ tries' = 0
    /\ afterReset' = FALSE /\ attempt' = 0 /\ delay' = 0
    /\ cooldown' = 0 /\ asked' = 0 /\ open' = FALSE /\ available' = TRUE
    /\ sinceAsked' = 0
    /\ UNCHANGED <<timer, ctxDone, unitBusy>>

-----------------------------------------------------------------------------
\* What the code does next, unless it waits for the polling loop or systemd.
\* Requests time out, so an operation or a connect ends one way or another.
Step ==
    \/ (\E file \in Files : Load(file))
    \/ OperationOk \/ OperationFails \/ OperationFatal
    \/ CloseHandle \/ SleepEnds \/ SleepCancelled \/ ConnectOk \/ AttemptFails
    \/ ValidateOk \/ ValidateFails \/ Suppress \/ AskForReset \/ StopIdle

Next ==
    \/ Step \/ ResetOk \/ ResetFails \/ Begin \/ Tick \/ Cancel \/ Crash \/ Restart

Spec == Init /\ [][Next]_vars

\* Steps of the code are taken, time passes, and systemd restarts a failed
\* service as often as it takes (StartLimitIntervalSec=0).  A reset request
\* need not return: neither RequestReset nor the oneshot unit has a time-out.
\* Only a cancelled context ends it for certain.
FairSpec == /\ Spec /\ WF_vars(Step) /\ WF_vars(Tick) /\ WF_vars(Restart)
            /\ WF_vars(ctxDone /\ ResetFails)

-----------------------------------------------------------------------------
StagesTypeOK ==
    /\ pc \in {"load", "idle", "operation", "close", "sleep", "connect", "validate",
               "exhausted", "reset", "stopped"}
    /\ afterReset \in BOOLEAN /\ open \in BOOLEAN /\ available \in BOOLEAN
    /\ ctxDone \in BOOLEAN

AttemptsTypeOK ==
    /\ DOMAIN config = DOMAIN NoConfig /\ tries \in Nat
    /\ attempt \in 0..config.ReconnectAttempts /\ delay \in 0..config.MaxBackoff
    /\ timer \in 0..(IF pc = "stopped" THEN RestartSec ELSE config.MaxBackoff)

ClocksTypeOK ==
    /\ cooldown \in 0..config.ResetCooldown /\ asked \in 0..config.ResetCooldown
    /\ sinceAsked \in 0..config.ResetCooldown
    /\ unitBusy \in 0..StartLimitInterval

\* Every variable keeps its type and every counter its range; in particular
\* a sleep is never longer than MaxBackoff and no attempt is made beyond
\* ReconnectAttempts.
TypeOK == StagesTypeOK /\ AttemptsTypeOK /\ ClocksTypeOK

\* The sink is told the truth: between operations of a living process every
\* "unavailable" was followed by "available" on an open handle, on whichever
\* path recovery took, and while recovery runs the last word is "unavailable".
SinkToldTruth ==
    /\ pc = "idle" => available /\ open
    /\ pc \in {"close", "sleep", "connect", "validate", "exhausted", "reset"}
        => ~available

\* The backoff before attempt n is InitialBackoff doubled n - 1 times, capped
\* by MaxBackoff, and the second round starts over.
BackoffSchedule ==
    pc \in {"close", "sleep", "connect", "validate"} =>
        delay = Smaller(config.InitialBackoff * 2 ^ (attempt - 1), config.MaxBackoff)

\* A caller's operation is executed once, and once per attempt of the two
\* rounds: recovery repeats even a write that the inverter answered with an
\* exception, but not for ever.
ExecutionsBounded == tries <= 1 + 2 * config.ReconnectAttempts

\* In one life of the process two resets are asked for at least ResetCooldown
\* apart, although lastReset is only written after the request returned.
ResetsSpaced == [][pc # "reset" /\ pc' = "reset"
                      => sinceAsked = config.ResetCooldown]_vars

\* Recovery ends: the inverter is reported available again or the process
\* ends, unless the reset request hangs, which holds the lock until the service
\* is stopped.
RecoveryEnds ==
    \/ <>[](pc = "reset" /\ ~ctxDone)
    \/ ~available ~> (available \/ pc = "stopped")

\* What the serial line, the inverter, the administrator or a kill may do.
Fault ==
    \/ OperationFails \/ OperationFatal \/ AttemptFails \/ ValidateFails \/ Crash
    \/ \E file \in Files : readConfig(file) = {} /\ Load(file)

=============================================================================
