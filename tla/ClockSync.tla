------------------------------ MODULE ClockSync ------------------------------
(***************************************************************************)
(* The inverter's clock follows the host's: the polling loop's time        *)
(* synchronisation with its clock watchdog, Inverter.SyncTime, and the     *)
(* pacing of register writes in ModbusClient.WriteRegisters, which a time  *)
(* synchronisation shares with configuration writes.                       *)
(*                                                                         *)
(* Time is counted in ticks of the monotonic clock.  The host's local time *)
(* is kept relative to others: lag is what the inverter's clock is behind, *)
(* stale what the value being written is behind, frac the ticks since the  *)
(* full second.  An adjustment of the host's clock or a change of its time *)
(* zone shifts local time and so lag and stale alike.                      *)
(***************************************************************************)
EXTENDS Integers

CONSTANTS
    Second,                  \* ticks of a second
    clockWatchdogInterval,
    clockJumpTolerance,
    registerWriteInterval,
    syncTimeInterval,
    Timeout,                 \* of a request (ModbusConfig.Timeout)
    Jumps,                   \* how far the host's clock is set at a time
    ZoneShift,               \* what the time zone "summer" adds
    MaxEvents                \* bound: jumps, zone changes, failures, restarts

ASSUME TicksAssumption ==
    /\ {Second, clockWatchdogInterval, clockJumpTolerance, registerWriteInterval,
        syncTimeInterval, Timeout, ZoneShift} \subseteq Nat \ {0}
    /\ Jumps \subseteq Int \ {0} /\ MaxEvents \in Nat

\* The watchdog overlooks less than its tolerance: what remains of a change
\* and another one is either nothing or large enough to be noticed.
ASSUME JumpsAssumption == \A by \in Jumps : by % clockJumpTolerance = 0

VARIABLES
    lag, frac, zone,                 \* the host's clock
    jumped, previousZone,            \* the watchdog: change since its sample
    watchdogLeft, timeSyncLeft,      \* to the loop's deadlines
    timeSyncRequest,                 \* the loop's channel of requests
    pc, due, op,                     \* the loop, what it found due, the write
    sinceRegisterWrite,              \* age of lastRegisterWrite, clamped
    wait,                            \* rest of the sleep to the full second
    stale, requestLeft, applied,     \* the request on the wire
    quiet,                           \* ghost: since the last request, clamped
    moves, sampled, missed,          \* ghosts: see ClockRight
    events

host == <<lag, frac, zone>>
watchdog == <<jumped, previousZone, moves, sampled, missed>>
deadlines == <<watchdogLeft, timeSyncLeft, timeSyncRequest>>
request == <<stale, requestLeft, applied>>
pacing == <<sinceRegisterWrite, quiet>>
vars == <<host, watchdog, deadlines, pc, due, op, pacing, wait, request, events>>

NothingDue == [watchdog |-> FALSE, timeSync |-> FALSE]
Most(a, b) == IF a >= b THEN a ELSE b
Least(a, b) == IF a <= b THEN a ELSE b

\* The process starts: every clock reading is fresh, the time is due.
Init ==
    /\ lag \in Jumps /\ frac = 0 /\ zone = "winter"
    /\ jumped = 0 /\ previousZone = zone
    /\ moves = 0 /\ sampled = FALSE /\ missed = FALSE
    /\ watchdogLeft = clockWatchdogInterval /\ timeSyncLeft = 0
    /\ timeSyncRequest = FALSE
    /\ pc = "top" /\ due = NothingDue /\ op = "none"
    /\ sinceRegisterWrite = registerWriteInterval /\ quiet = registerWriteInterval
    /\ wait = 0 /\ stale = 0 /\ requestLeft = 0 /\ applied = FALSE
    /\ events = 0

-----------------------------------------------------------------------------
\* Time passes; a request ends at its timeout, all else may be late.
Tick ==
    /\ pc = "request" => requestLeft > 0
    /\ frac' = (frac + 1) % Second
    /\ watchdogLeft' = Most(0, watchdogLeft - 1)
    /\ timeSyncLeft' = Most(0, timeSyncLeft - 1)
    /\ sinceRegisterWrite' = Least(registerWriteInterval, sinceRegisterWrite + 1)
    /\ quiet' = Least(registerWriteInterval, quiet + 1)
    /\ wait' = Most(0, wait - 1)
    /\ requestLeft' = Most(0, requestLeft - 1)
    /\ stale' = IF pc = "request" /\ op = "time" THEN stale + 1 ELSE stale
    /\ UNCHANGED <<lag, zone, watchdog, timeSyncRequest, pc, due, op, applied,
                   events>>

\* Local time is shifted under the running process.
Shift(by) ==
    /\ events < MaxEvents /\ events' = events + 1
    /\ lag' = lag + by /\ frac' = (frac + by) % Second
    /\ stale' = IF pc = "request" /\ op = "time" THEN stale + by ELSE stale
    /\ moves' = Least(2, moves + 1)
    /\ UNCHANGED <<previousZone, sampled, missed, deadlines, pc, due, op, pacing,
                   wait, requestLeft, applied>>

ClockSet(by) == Shift(by) /\ jumped' = jumped + by /\ UNCHANGED zone

ZoneChanged ==
    /\ \/ zone = "winter" /\ zone' = "summer" /\ Shift(ZoneShift)
       \/ zone = "summer" /\ zone' = "winter" /\ Shift(-ZoneShift)
    /\ UNCHANGED jumped

-----------------------------------------------------------------------------
\* One iteration of runPending.  What is due is decided once, at its start;
\* commands are written first.
RunPending ==
    /\ pc = "top"
    /\ due' = [watchdog |-> watchdogLeft = 0,
               timeSync |-> timeSyncLeft = 0 \/ timeSyncRequest]
    /\ timeSyncRequest' = FALSE
    /\ \/ pc' = "pace" /\ op' = "config"
       \/ due' # NothingDue /\ pc' = "watchdog" /\ UNCHANGED op
    /\ UNCHANGED <<host, watchdog, watchdogLeft, timeSyncLeft, pacing, wait,
                   request, events>>

\* The watchdog's verdict; its sample is renewed whatever it says.
Fires ==
    \/ jumped >= clockJumpTolerance \/ -jumped >= clockJumpTolerance
    \/ zone # previousZone

Renewed == /\ jumped' = 0 /\ previousZone' = zone
           /\ moves' = 0 /\ sampled' = FALSE
           /\ missed' = (missed \/ (sampled /\ moves = 2 /\ ~Fires))

BrokenCheck ==   \* the change is only logged
    /\ pc = "watchdog" /\ pc' = "sync"
    /\ IF due.watchdog
       THEN /\ Renewed
            /\ watchdogLeft' = clockWatchdogInterval
            /\ UNCHANGED <<timeSyncRequest, due>>
       ELSE UNCHANGED <<watchdog, watchdogLeft, timeSyncRequest, due>>
    /\ UNCHANGED <<host, timeSyncLeft, op, pacing, wait, request, events>>

BrokenCheckPostpones ==   \* a check counts as a synchronisation
    /\ pc = "watchdog" /\ pc' = "sync"
    /\ IF due.watchdog
       THEN /\ Renewed
            /\ watchdogLeft' = clockWatchdogInterval
            /\ timeSyncLeft' = syncTimeInterval
            /\ timeSyncRequest' = (timeSyncRequest \/ Fires)
            /\ due' = [due EXCEPT !.timeSync = @ /\ ~Fires]
       ELSE UNCHANGED <<watchdog, watchdogLeft, timeSyncLeft, timeSyncRequest, due>>
    /\ UNCHANGED <<host, op, pacing, wait, request, events>>

\* A change of the clock is answered in the next iteration.
Check ==
    /\ pc = "watchdog" /\ pc' = "sync"
    /\ IF due.watchdog
       THEN /\ Renewed
            /\ watchdogLeft' = clockWatchdogInterval
            /\ timeSyncRequest' = (timeSyncRequest \/ Fires)
            /\ due' = [due EXCEPT !.timeSync = @ /\ ~Fires]
       ELSE UNCHANGED <<watchdog, watchdogLeft, timeSyncRequest, due>>
    /\ UNCHANGED <<host, timeSyncLeft, op, pacing, wait, request, events>>

\* SyncTime is called, or the iteration ends.
BeginSync ==
    /\ pc = "sync"
    /\ IF due.timeSync
       THEN pc' = "pace" /\ op' = "time" /\ timeSyncRequest' = FALSE /\ UNCHANGED due
       ELSE pc' = "top" /\ due' = NothingDue /\ UNCHANGED <<op, timeSyncRequest>>
    /\ UNCHANGED <<host, watchdog, watchdogLeft, timeSyncLeft, pacing, wait,
                   request, events>>

-----------------------------------------------------------------------------
BrokenPace ==   \* the whole second is waited for although it is full
    /\ pc = "pace" /\ sinceRegisterWrite = registerWriteInterval
    /\ pc' = "values"
    /\ wait' = IF op = "time" THEN Second - frac ELSE 0
    /\ UNCHANGED <<host, watchdog, deadlines, due, op, pacing, request, events>>

\* WriteRegisters has kept its distance to the last write and asks for the
\* values; SyncTime then sleeps to the next full second.
Pace ==
    /\ pc = "pace" /\ sinceRegisterWrite = registerWriteInterval
    /\ pc' = "values"
    /\ wait' = IF op = "time" THEN (Second - frac) % Second ELSE 0
    /\ UNCHANGED <<host, watchdog, deadlines, due, op, pacing, request, events>>

\* It reads the clock, to the second, and the request is sent.
Send ==
    /\ pc = "values" /\ wait = 0
    /\ pc' = "request" /\ requestLeft' = Timeout /\ applied' = FALSE
    /\ IF op = "time"
       THEN stale' = frac /\ sampled' = TRUE /\ missed' = FALSE
       ELSE UNCHANGED <<stale, sampled, missed>>
    /\ UNCHANGED <<host, jumped, previousZone, moves, deadlines, due, op, pacing,
                   wait, events>>

\* External: the inverter carries the request out.
Apply ==
    /\ pc = "request" /\ ~applied /\ applied' = TRUE
    /\ lag' = IF op = "time" THEN stale ELSE lag
    /\ UNCHANGED <<frac, zone, watchdog, deadlines, pc, due, op, pacing, wait,
                   stale, requestLeft, events>>

\* It is acknowledged.
RequestOk ==
    /\ pc = "request" /\ applied
    /\ sinceRegisterWrite' = 0 /\ quiet' = 0
    /\ op' = "none" /\ stale' = 0 /\ requestLeft' = 0 /\ applied' = FALSE
    /\ IF op = "time"
       THEN pc' = "top" /\ due' = NothingDue /\ timeSyncLeft' = syncTimeInterval
       ELSE pc' = "watchdog" /\ UNCHANGED <<due, timeSyncLeft>>
    /\ UNCHANGED <<host, watchdog, watchdogLeft, timeSyncRequest, wait, events>>

BrokenRequestFails ==   \* only a good write counts for the pacing
    /\ pc = "request" /\ pc' = "pace"
    /\ events < MaxEvents /\ events' = events + 1
    /\ quiet' = 0
    /\ stale' = 0 /\ requestLeft' = 0 /\ applied' = FALSE
    /\ UNCHANGED <<host, watchdog, deadlines, due, op, sinceRegisterWrite, wait>>

\* It is not, carried out or not: recovery calls the operation once more.
RequestFails ==
    /\ pc = "request" /\ pc' = "pace"
    /\ events < MaxEvents /\ events' = events + 1
    /\ sinceRegisterWrite' = 0 /\ quiet' = 0
    /\ stale' = 0 /\ requestLeft' = 0 /\ applied' = FALSE
    /\ UNCHANGED <<host, watchdog, deadlines, due, op, wait>>

\* The process ends (a cancelled context, recovery gave up) and is started
\* again.  Neither the pacing nor the watchdog outlives it.
Restart ==
    /\ events < MaxEvents /\ events' = events + 1
    /\ jumped' = 0 /\ previousZone' = zone
    /\ moves' = 0 /\ sampled' = FALSE /\ missed' = FALSE
    /\ watchdogLeft' = clockWatchdogInterval /\ timeSyncLeft' = 0
    /\ timeSyncRequest' = FALSE
    /\ pc' = "top" /\ due' = NothingDue /\ op' = "none"
    /\ sinceRegisterWrite' = registerWriteInterval /\ quiet' = registerWriteInterval
    /\ wait' = 0 /\ stale' = 0 /\ requestLeft' = 0 /\ applied' = FALSE
    /\ UNCHANGED host

Next ==
    \/ Tick \/ (\E by \in Jumps : ClockSet(by)) \/ ZoneChanged
    \/ RunPending \/ Check \/ BeginSync
    \/ Pace \/ Send \/ Apply \/ RequestOk \/ RequestFails \/ Restart

\* Time passes, the loop is scheduled, and a request that does not fail is
\* answered; events need not happen.
Fairness ==
    /\ WF_vars(Tick)
    /\ WF_vars(RunPending /\ pc' = "watchdog") /\ WF_vars(Check) /\ WF_vars(BeginSync)
    /\ WF_vars(Pace) /\ WF_vars(Send) /\ WF_vars(Apply) /\ WF_vars(RequestOk)

Spec == Init /\ [][Next]_vars /\ Fairness

-----------------------------------------------------------------------------
HostTypeOK ==
    /\ lag \in Int /\ frac \in 0..(Second - 1) /\ zone \in {"winter", "summer"}
    /\ events \in 0..MaxEvents

WatchdogTypeOK ==
    /\ jumped \in Int /\ previousZone \in {"winter", "summer"}
    /\ moves \in 0..2 /\ sampled \in BOOLEAN /\ missed \in BOOLEAN

LoopTypeOK ==
    /\ watchdogLeft \in 0..clockWatchdogInterval
    /\ timeSyncLeft \in 0..syncTimeInterval /\ timeSyncRequest \in BOOLEAN
    /\ pc \in {"top", "watchdog", "sync", "pace", "values", "request"}
    /\ due \in [watchdog : BOOLEAN, timeSync : BOOLEAN]
    /\ op \in {"none", "config", "time"}

RequestTypeOK ==
    /\ sinceRegisterWrite \in 0..registerWriteInterval
    /\ quiet \in 0..registerWriteInterval
    /\ wait \in 0..(Second - 1) /\ stale \in Int
    /\ requestLeft \in 0..Timeout /\ applied \in BOOLEAN

\* Every variable keeps its type; no sleep to the full second is longer than
\* a second, no request longer than its timeout.
TypeOK == HostTypeOK /\ WatchdogTypeOK /\ LoopTypeOK /\ RequestTypeOK

\* As long as the process lives, no write request is sent sooner after
\* another one than the inverter can take, be it a retry, or the time after
\* a setting (lastRegisterWrite in WriteRegisters).
WritesSpaced ==
    [][pc = "values" /\ pc' = "request" => quiet = registerWriteInterval]_vars

\* The inverter's clock is as right as one write makes it (cut to the
\* second, on the wire for at most the timeout), or else a synchronisation
\* is under way, due, requested, or will be requested by the next check of
\* the watchdog: no change of the clock or the zone gets lost, wherever in
\* an iteration it happens.  One case is excepted: the clock was changed and
\* changed back around the moment a synchronisation read it, all between two
\* checks (runPending, clockWatchdog.Check, SyncTime).
SyncOwed ==
    \/ timeSyncLeft = 0 \/ timeSyncRequest \/ due.timeSync \/ op = "time" \/ Fires

ThereAndBack == missed \/ (sampled /\ moves = 2)

RightBy == Second - 1 + Timeout

ClockRight == SyncOwed \/ ThereAndBack \/ lag \in 0..RightBy

\* When the host's clock is left alone at last, the inverter's is right and
\* stays so: also a change there and back is made good, by the periodic
\* synchronisation (timeSyncDeadline).
ClockResynced == <>[](lag \in 0..RightBy)
=============================================================================
