--------------------------- MODULE ClockSyncProofs ---------------------------
(* Proofs about ClockSync, for every length of its intervals and every set *)
(* of adjustments of the host's clock that the watchdog can notice.        *)
EXTENDS ClockSync, TLAPS

\* Where the loop is tells what it is writing, and that it has decided on
\* nothing yet at the top of an iteration.
Stages ==
    /\ pc = "top" => due = NothingDue
    /\ pc \in {"top", "watchdog", "sync"} => op = "none"

\* The pacing clock is the age of the last request, and a write asks for its
\* values only when it has run out.
Pacing ==
    /\ quiet = sinceRegisterWrite
    /\ pc = "values" => sinceRegisterWrite = registerWriteInterval

\* What local time has moved since the watchdog's sample.
ZoneMoved == IF zone = previousZone THEN 0
             ELSE IF zone = "summer" THEN ZoneShift ELSE -ZoneShift
Moved == jumped + ZoneMoved

\* The watchdog's sample against the count of moves.
Moves ==
    /\ jumped % clockJumpTolerance = 0
    /\ moves = 0 => jumped = 0 /\ zone = previousZone
    /\ moves = 1 => Fires

\* As long as the host's clock is not touched, the value on the wire is no
\* older than its time there allows.
OnTheWire ==
    pc = "request" /\ op = "time" =>
        /\ sampled
        /\ moves = 0 => /\ stale \in 0..(Second - 1 + Timeout - requestLeft)
                        /\ applied => lag \in 0..RightBy

\* Unless a synchronisation is on its way anyhow, the inverter's clock was
\* right before local time moved, if it has moved since the sample at all.
RightBefore ==
    \/ timeSyncLeft = 0 \/ timeSyncRequest \/ due.timeSync \/ op = "time"
    \/ missed \/ (sampled /\ moves # 0)
    \/ lag - Moved \in 0..RightBy

Invariant ==
    TypeOK /\ Stages /\ Pacing /\ Moves /\ OnTheWire /\ RightBefore /\ ClockRight

-----------------------------------------------------------------------------
(* Arithmetic.                                                             *)

\* A remainder is less than what was divided by.
LEMMA Remainder ==
    ASSUME NEW a \in Int, NEW t \in Nat \ {0}
    PROVE  a % t \in 0..(t - 1)
  OBVIOUS

\* The sum of two multiples is one.
LEMMA MultiplesAdd ==
    ASSUME NEW a \in Int, NEW b \in Int, NEW t \in Nat \ {0}, a % t = 0, b % t = 0
    PROVE  (a + b) % t = 0
  <1>1. a = t * (a \div t) /\ b = t * (b \div t)
        /\ a \div t \in Int /\ b \div t \in Int
    OBVIOUS
  <1>2. \A p, q \in Int : p + q \in Int /\ t * p + t * q = t * (p + q)
    OBVIOUS
  <1>3. \A q \in Int : (t * q) % t = 0
    OBVIOUS
  <1> DEFINE s == (a \div t) + (b \div t)
  <1>4. s \in Int /\ a + b = t * s
    BY <1>1, <1>2
  <1> HIDE DEF s
  <1> QED BY <1>3, <1>4

\* A multiple is nothing or not less than what it is a multiple of.
LEMMA MultipleSize ==
    ASSUME NEW a \in Int, NEW t \in Nat \ {0}, a % t = 0
    PROVE  a = 0 \/ a >= t \/ -a >= t
  OBVIOUS

\* The constants, one by one.
Constants ==
    /\ Second \in Nat \ {0} /\ clockWatchdogInterval \in Nat \ {0}
    /\ clockJumpTolerance \in Nat \ {0} /\ registerWriteInterval \in Nat \ {0}
    /\ syncTimeInterval \in Nat \ {0} /\ Timeout \in Nat \ {0}
    /\ ZoneShift \in Nat \ {0} /\ Jumps \subseteq Int \ {0} /\ MaxEvents \in Nat

\* They are as assumed.
LEMMA ConstantsTyped == Constants
  BY TicksAssumption DEF Constants

-----------------------------------------------------------------------------
(* Types.                                                                  *)

\* The host's clock: adjustments keep the second's fraction a fraction.
LEMMA StepHost == ASSUME TypeOK, [Next]_vars PROVE HostTypeOK'
  <1>0. HostTypeOK /\ Constants /\ stale \in Int
    BY ConstantsTyped DEF TypeOK, RequestTypeOK
  <1> USE <1>0 DEF HostTypeOK, Constants, host
  <1>1. CASE Tick
    BY <1>1, Remainder DEF Tick
  <1>2. ASSUME NEW by \in Int, Shift(by), zone' \in {"winter", "summer"}
        PROVE  HostTypeOK'
    BY <1>2, Remainder DEF Shift
  <1>3. CASE ZoneChanged
    BY <1>2, <1>3 DEF ZoneChanged
  <1>4. ASSUME NEW by \in Jumps, ClockSet(by) PROVE HostTypeOK'
    BY <1>2, <1>4 DEF ClockSet
  <1>5. CASE RunPending \/ Check \/ BeginSync \/ Pace \/ Send \/ RequestOk
             \/ UNCHANGED vars
    BY <1>5 DEF RunPending, Check, BeginSync, Pace, Send, RequestOk, vars
  <1>6. CASE Apply \/ RequestFails \/ Restart
    BY <1>6 DEF Apply, RequestFails, Restart
  <1> QED BY <1>1, <1>3, <1>4, <1>5, <1>6 DEF Next

\* The watchdog's sample and the count of moves.
LEMMA StepWatchdog == ASSUME TypeOK, [Next]_vars PROVE WatchdogTypeOK'
  <1>0. WatchdogTypeOK /\ Constants /\ zone \in {"winter", "summer"}
    BY ConstantsTyped DEF TypeOK, HostTypeOK
  <1> USE <1>0 DEF WatchdogTypeOK, Constants, watchdog
  <1>1. ASSUME NEW by \in Int, Shift(by), jumped' \in Int
        PROVE  WatchdogTypeOK'
    BY <1>1 DEF Shift, Least
  <1>2. CASE ZoneChanged
    BY <1>1, <1>2 DEF ZoneChanged
  <1>3. ASSUME NEW by \in Jumps, ClockSet(by) PROVE WatchdogTypeOK'
    BY <1>1, <1>3 DEF ClockSet
  <1>4. CASE Check
    <2>1. CASE due.watchdog
      <3>1. Renewed
        BY <1>4, <2>1 DEF Check
      <3>2. jumped' \in Int /\ moves' \in 0..2 /\ previousZone' \in {"winter", "summer"}
        BY <3>1 DEF Renewed
      <3>3. sampled' \in BOOLEAN /\ missed' \in BOOLEAN
        BY <3>1 DEF Renewed
      <3> QED BY <3>2, <3>3
    <2>2. CASE ~due.watchdog
      BY <1>4, <2>2 DEF Check
    <2> QED BY <2>1, <2>2
  <1>5. CASE Send
    BY <1>5 DEF Send
  <1>6. CASE Restart
    <2>1. jumped' \in Int /\ moves' \in 0..2 /\ previousZone' \in {"winter", "summer"}
      BY <1>6 DEF Restart
    <2>2. sampled' \in BOOLEAN /\ missed' \in BOOLEAN
      BY <1>6 DEF Restart
    <2> QED BY <2>1, <2>2
  <1>7. CASE Tick \/ RunPending \/ BeginSync \/ Pace \/ Apply \/ RequestOk
             \/ RequestFails \/ UNCHANGED vars
    BY <1>7 DEF Tick, RunPending, BeginSync, Pace, Apply, RequestOk, RequestFails,
       vars
  <1> QED BY <1>2, <1>3, <1>4, <1>5, <1>6, <1>7 DEF Next

\* The loop's deadlines and what it has found due.
LEMMA StepLoop == ASSUME TypeOK, [Next]_vars PROVE LoopTypeOK'
  <1>0. LoopTypeOK /\ Constants
    BY ConstantsTyped DEF TypeOK
  <1> USE <1>0 DEF LoopTypeOK, Constants, deadlines
  <1>1. ASSUME NEW by \in Int, Shift(by) PROVE LoopTypeOK'
    BY <1>1 DEF Shift
  <1>2. CASE ZoneChanged
    BY <1>1, <1>2 DEF ZoneChanged
  <1>3. ASSUME NEW by \in Jumps, ClockSet(by) PROVE LoopTypeOK'
    BY <1>1, <1>3 DEF ClockSet
  <1>4. CASE Tick
    BY <1>4 DEF Tick, Most
  <1>5. CASE RunPending
    BY <1>5 DEF RunPending
  <1>6. CASE Check
    <2>1. CASE due.watchdog
      <3>1. watchdogLeft' \in 0..clockWatchdogInterval
        BY <1>6, <2>1 DEF Check
      <3>2. due' \in [watchdog : BOOLEAN, timeSync : BOOLEAN]
        BY <1>6, <2>1 DEF Check
      <3>3. timeSyncRequest' \in BOOLEAN
        BY <1>6, <2>1 DEF Check
      <3>4. pc' = "sync" /\ UNCHANGED <<timeSyncLeft, op>>
        BY <1>6, <2>1 DEF Check
      <3> QED BY <3>1, <3>2, <3>3, <3>4
    <2>2. CASE ~due.watchdog
      BY <1>6, <2>2 DEF Check
    <2> QED BY <2>1, <2>2
  <1>7. CASE Pace \/ Send \/ Apply \/ RequestFails \/ UNCHANGED vars
    BY <1>7 DEF Pace, Send, Apply, RequestFails, vars
  <1>8. NothingDue \in [watchdog : BOOLEAN, timeSync : BOOLEAN]
    BY DEF NothingDue
  <1>9. CASE BeginSync
    <2>1. CASE due.timeSync
      BY <1>9, <2>1 DEF BeginSync
    <2>2. CASE ~due.timeSync
      BY <1>8, <1>9, <2>2 DEF BeginSync
    <2> QED BY <2>1, <2>2
  <1>10. CASE RequestOk
    <2>1. CASE op = "time"
      BY <1>8, <1>10, <2>1 DEF RequestOk
    <2>2. CASE op # "time"
      BY <1>8, <1>10, <2>2 DEF RequestOk
    <2> QED BY <2>1, <2>2
  <1>11. CASE Restart
    <2>1. watchdogLeft' \in 0..clockWatchdogInterval /\ timeSyncLeft' \in 0..syncTimeInterval
      BY <1>11 DEF Restart
    <2>2. pc' = "top" /\ op' = "none" /\ due' = NothingDue /\ timeSyncRequest' = FALSE
      BY <1>11 DEF Restart
    <2> QED BY <1>8, <2>1, <2>2
  <1> QED BY <1>2, <1>3, <1>4, <1>5, <1>6, <1>7, <1>9, <1>10, <1>11 DEF Next

\* The request on the wire and the pacing before it.
LEMMA StepRequest == ASSUME TypeOK, [Next]_vars PROVE RequestTypeOK'
  <1>0. RequestTypeOK /\ Constants /\ frac \in 0..(Second - 1)
    BY ConstantsTyped DEF TypeOK, HostTypeOK
  <1> USE <1>0 DEF RequestTypeOK, Constants, request, pacing
  <1>1. ASSUME NEW by \in Int, Shift(by) PROVE RequestTypeOK'
    BY <1>1 DEF Shift
  <1>2. CASE ZoneChanged
    BY <1>1, <1>2 DEF ZoneChanged
  <1>3. ASSUME NEW by \in Jumps, ClockSet(by) PROVE RequestTypeOK'
    BY <1>1, <1>3 DEF ClockSet
  <1>4. CASE Tick
    BY <1>4 DEF Tick, Most, Least
  <1>5. CASE RunPending \/ Check \/ BeginSync \/ UNCHANGED vars
    BY <1>5 DEF RunPending, Check, BeginSync, vars
  <1>6. CASE Pace
    BY <1>6, Remainder DEF Pace
  <1>7. CASE Send
    <2>1. stale' \in Int /\ requestLeft' \in 0..Timeout
      BY <1>7 DEF Send
    <2>2. applied' = FALSE /\ UNCHANGED <<sinceRegisterWrite, quiet, wait>>
      BY <1>7 DEF Send
    <2> QED BY <2>1, <2>2
  <1>8. CASE Apply
    BY <1>8 DEF Apply
  <1>9. CASE RequestOk \/ RequestFails \/ Restart
    <2>1. /\ sinceRegisterWrite' \in 0..registerWriteInterval
          /\ quiet' \in 0..registerWriteInterval
      BY <1>9 DEF RequestOk, RequestFails, Restart
    <2>2. wait' \in {wait, 0} /\ stale' = 0 /\ requestLeft' = 0 /\ applied' = FALSE
      BY <1>9 DEF RequestOk, RequestFails, Restart
    <2>3. wait' \in 0..(Second - 1) /\ stale' \in Int /\ requestLeft' \in 0..Timeout
      BY <2>2
    <2> QED BY <2>1, <2>2, <2>3
  <1> QED BY <1>2, <1>3, <1>4, <1>5, <1>6, <1>7, <1>8, <1>9 DEF Next

\* TypeOK in one piece.
LEMMA StepTyped == ASSUME TypeOK, [Next]_vars PROVE TypeOK'
  BY StepHost, StepWatchdog, StepLoop, StepRequest DEF TypeOK

-----------------------------------------------------------------------------
(* The writes.                                                             *)

\* The loop's program points.
LEMMA StepStages == ASSUME TypeOK, Stages, [Next]_vars PROVE Stages'
  <1> USE DEF Stages
  <1>1. ASSUME NEW by \in Int, Shift(by) PROVE Stages'
    BY <1>1 DEF Shift
  <1>2. CASE ZoneChanged
    BY <1>1, <1>2, ConstantsTyped DEF ZoneChanged, Constants
  <1>3. ASSUME NEW by \in Jumps, ClockSet(by) PROVE Stages'
    BY <1>1, <1>3, ConstantsTyped DEF ClockSet, Constants
  <1>4. CASE Tick \/ Check \/ Pace \/ Send \/ Apply \/ UNCHANGED vars
    BY <1>4 DEF Tick, Check, Pace, Send, Apply, vars
  <1>5. CASE RunPending \/ BeginSync
    BY <1>5 DEF RunPending, BeginSync
  <1>6. CASE RequestOk \/ RequestFails \/ Restart
    BY <1>6 DEF RequestOk, RequestFails, Restart
  <1> QED BY <1>2, <1>3, <1>4, <1>5, <1>6 DEF Next

\* lastRegisterWrite is renewed with every request, also a failed one.
LEMMA StepPacing == ASSUME TypeOK, Pacing, [Next]_vars PROVE Pacing'
  <1>0. Constants /\ sinceRegisterWrite \in 0..registerWriteInterval
    BY ConstantsTyped DEF TypeOK, RequestTypeOK
  <1> USE <1>0 DEF Pacing, Constants, pacing
  <1>1. ASSUME NEW by \in Int, Shift(by) PROVE Pacing'
    BY <1>1 DEF Shift
  <1>2. CASE ZoneChanged
    BY <1>1, <1>2 DEF ZoneChanged
  <1>3. ASSUME NEW by \in Jumps, ClockSet(by) PROVE Pacing'
    BY <1>1, <1>3 DEF ClockSet
  <1>4. CASE Tick
    BY <1>4 DEF Tick, Least
  <1>5. CASE RunPending \/ Check \/ BeginSync \/ Pace \/ Send \/ Apply
             \/ UNCHANGED vars
    BY <1>5 DEF RunPending, Check, BeginSync, Pace, Send, Apply, vars
  <1>6. CASE RequestOk \/ RequestFails \/ Restart
    BY <1>6 DEF RequestOk, RequestFails, Restart
  <1> QED BY <1>2, <1>3, <1>4, <1>5, <1>6 DEF Next

-----------------------------------------------------------------------------
(* The clock.                                                              *)

\* A watchdog that does not fire has seen local time end where it was.
LEMMA QuietWatchdog == ASSUME TypeOK, Moves, ~Fires PROVE Moved = 0 /\ moves # 1
  <1>1. jumped = 0 \/ jumped >= clockJumpTolerance \/ -jumped >= clockJumpTolerance
    BY MultipleSize, ConstantsTyped DEF TypeOK, WatchdogTypeOK, Moves, Constants
  <1>2. jumped = 0 /\ zone = previousZone
    BY <1>1 DEF Fires
  <1> QED BY <1>2 DEF Moves, Moved, ZoneMoved

\* The moves are counted as the watchdog sees them.
LEMMA StepMoves == ASSUME TypeOK, Moves, [Next]_vars PROVE Moves'
  <1>0. /\ Constants /\ jumped \in Int /\ moves \in 0..2 /\ 0 % clockJumpTolerance = 0
        /\ zone \in {"winter", "summer"} /\ previousZone \in {"winter", "summer"}
    BY ConstantsTyped DEF TypeOK, WatchdogTypeOK, HostTypeOK, Constants
  <1>1. CASE ZoneChanged
    <2>1. /\ zone' # zone /\ UNCHANGED <<previousZone, jumped>>
          /\ moves' = Least(2, moves + 1)
      BY <1>1 DEF ZoneChanged, Shift
    <2>2. moves' = 1 => zone = previousZone
      BY <1>0, <2>1 DEF Least, Moves
    <2>3. moves' # 0
      BY <1>0, <2>1 DEF Least
    <2> QED BY <2>1, <2>2, <2>3 DEF Moves, Fires
  <1>2. ASSUME NEW by \in Jumps, ClockSet(by) PROVE Moves'
    <2>1. /\ jumped' = jumped + by /\ UNCHANGED <<previousZone, zone>>
          /\ moves' = Least(2, moves + 1)
      BY <1>2 DEF ClockSet, Shift
    <2>2. by \in Int /\ by # 0 /\ by % clockJumpTolerance = 0
      BY JumpsAssumption, <1>0 DEF Constants
    <2>3. jumped' % clockJumpTolerance = 0
      BY <1>0, <2>1, <2>2, MultiplesAdd DEF Moves, Constants
    <2>4. by >= clockJumpTolerance \/ -by >= clockJumpTolerance
      BY <1>0, <2>2, MultipleSize DEF Constants
    <2>5. moves' # 0 /\ (moves' = 1 => jumped' = by)
      BY <1>0, <2>1, <2>2 DEF Least, Moves
    <2> QED BY <2>1, <2>3, <2>4, <2>5 DEF Moves, Fires
  <1>3. CASE UNCHANGED <<jumped, zone, previousZone, moves>>
    BY <1>3 DEF Moves, Fires
  <1>4. CASE moves' = 0 /\ jumped' = 0 /\ previousZone' = zone /\ UNCHANGED zone
    BY <1>0, <1>4 DEF Moves
  <1>5. CASE Check
    BY <1>3, <1>4, <1>5 DEF Check, Renewed, watchdog, host
  <1>6. CASE Restart
    BY <1>4, <1>6 DEF Restart, host
  <1>7. CASE Tick \/ RunPending \/ BeginSync \/ Pace \/ Send \/ Apply \/ RequestOk
             \/ RequestFails \/ UNCHANGED vars
    BY <1>3, <1>7 DEF Tick, RunPending, BeginSync, Pace, Send, Apply, RequestOk,
       RequestFails, watchdog, host, vars
  <1> QED BY <1>1, <1>2, <1>5, <1>6, <1>7 DEF Next

\* A value ages on the wire by the ticks its request takes.
LEMMA StepOnTheWire ==
    ASSUME TypeOK, Stages, OnTheWire, [Next]_vars PROVE OnTheWire'
  <1>0. /\ Constants /\ moves \in 0..2 /\ stale \in Int /\ requestLeft \in 0..Timeout
        /\ frac \in 0..(Second - 1) /\ lag \in Int
    BY ConstantsTyped DEF TypeOK, WatchdogTypeOK, RequestTypeOK, HostTypeOK
  <1> USE <1>0 DEF OnTheWire, Constants, RightBy
  <1>1. ASSUME NEW by \in Int, Shift(by) PROVE OnTheWire'
    <2>1. moves' # 0 /\ UNCHANGED <<pc, op, sampled>>
      BY <1>1 DEF Shift, Least
    <2> QED BY <2>1
  <1>2. CASE ZoneChanged
    BY <1>1, <1>2 DEF ZoneChanged
  <1>3. ASSUME NEW by \in Jumps, ClockSet(by) PROVE OnTheWire'
    BY <1>1, <1>3 DEF ClockSet
  <1>4. CASE Tick
    <2>1. UNCHANGED <<pc, op, sampled, moves, applied, lag>>
      BY <1>4 DEF Tick, watchdog
    <2>2. CASE pc = "request" /\ op = "time"
      <3>1. requestLeft > 0 /\ requestLeft' = requestLeft - 1 /\ stale' = stale + 1
        BY <1>4, <2>2 DEF Tick, Most
      <3> QED BY <2>1, <2>2, <3>1
    <2>3. CASE ~(pc = "request" /\ op = "time")
      BY <2>1, <2>3
    <2> QED BY <2>2, <2>3
  <1>5. CASE Send
    <2>1. /\ op' = "time" => /\ stale' = frac /\ sampled'
          /\ requestLeft' = Timeout /\ ~applied'
      BY <1>5 DEF Send
    <2> QED BY <2>1
  <1>6. CASE Apply
    <2>1. UNCHANGED <<pc, op, sampled, moves, stale, requestLeft>>
      BY <1>6 DEF Apply, watchdog
    <2>2. op = "time" => lag' = stale
      BY <1>6 DEF Apply
    <2> QED BY <2>1, <2>2
  <1>7. CASE pc' # "request"
    BY <1>7
  <1>8. CASE RunPending \/ Check \/ BeginSync \/ Pace \/ RequestOk \/ RequestFails
             \/ Restart
    BY <1>7, <1>8 DEF RunPending, Check, BeginSync, Pace, RequestOk, RequestFails,
       Restart
  <1>9. CASE UNCHANGED vars
    BY <1>9 DEF vars, host, watchdog, request
  <1> QED BY <1>2, <1>3, <1>4, <1>5, <1>6, <1>8, <1>9 DEF Next

\* A synchronisation has ended or local time has moved: in either case the
\* inverter's clock was right before, or the debt is on record.
LEMMA StepRightBefore ==
    ASSUME TypeOK, Stages, Moves, OnTheWire, RightBefore, [Next]_vars
    PROVE  RightBefore'
  <1>0. /\ Constants /\ jumped \in Int /\ lag \in Int /\ moves \in 0..2
        /\ zone \in {"winter", "summer"} /\ previousZone \in {"winter", "summer"}
        /\ timeSyncLeft \in Nat /\ due \in [watchdog : BOOLEAN, timeSync : BOOLEAN]
    BY ConstantsTyped DEF TypeOK, WatchdogTypeOK, HostTypeOK, LoopTypeOK, Constants
  <1> DEFINE Owed == timeSyncLeft = 0 \/ timeSyncRequest \/ due.timeSync \/ op = "time"
  <1>1. ASSUME NEW by \in Int, Shift(by), Moved' = Moved + by
        PROVE  RightBefore'
    <2>1. /\ lag' = lag + by /\ moves' # 0
          /\ UNCHANGED <<sampled, missed, timeSyncLeft, timeSyncRequest, due, op>>
      BY <1>0, <1>1 DEF Shift, Least, deadlines
    <2>2. lag' - Moved' = lag - Moved
      BY <1>0, <1>1, <2>1 DEF Moved, ZoneMoved, Constants
    <2> QED BY <2>1, <2>2 DEF RightBefore, RightBy
  <1>2. CASE ZoneChanged
    <2>1. CASE zone = "winter"
      <3>1. Shift(ZoneShift) /\ zone' = "summer" /\ UNCHANGED <<jumped, previousZone>>
        BY <1>2, <2>1 DEF ZoneChanged, Shift
      <3>2. Moved' = Moved + ZoneShift
        BY <1>0, <2>1, <3>1 DEF Moved, ZoneMoved, Constants
      <3> QED BY <1>0, <1>1, <3>1, <3>2 DEF Constants
    <2>2. CASE zone = "summer"
      <3>1. Shift(-ZoneShift) /\ zone' = "winter" /\ UNCHANGED <<jumped, previousZone>>
        BY <1>2, <2>2 DEF ZoneChanged, Shift
      <3>2. Moved' = Moved + (-ZoneShift) /\ -ZoneShift \in Int
        BY <1>0, <2>2, <3>1 DEF Moved, ZoneMoved, Constants
      <3> QED BY <1>1, <3>1, <3>2
    <2> QED BY <1>0, <2>1, <2>2
  <1>3. ASSUME NEW by \in Jumps, ClockSet(by) PROVE RightBefore'
    <2>1. Shift(by) /\ by \in Int /\ jumped' = jumped + by
          /\ UNCHANGED <<zone, previousZone>>
      BY <1>0, <1>3 DEF ClockSet, Shift, Constants
    <2>2. Moved' = Moved + by
      BY <1>0, <2>1 DEF Moved, ZoneMoved, Constants
    <2> QED BY <1>1, <2>1, <2>2
  <1>4. CASE /\ UNCHANGED <<lag, jumped, zone, previousZone, sampled, moves, missed>>
             /\ Owed => Owed'
    <2>1. lag' - Moved' = lag - Moved
      BY <1>4 DEF Moved, ZoneMoved
    <2> QED BY <1>4, <2>1 DEF RightBefore, RightBy
  <1>5. CASE Tick
    BY <1>0, <1>4, <1>5 DEF Tick, Most, watchdog
  <1>6. CASE RunPending
    <2>1. ~due.timeSync /\ op # "time"
      BY <1>6 DEF RunPending, Stages, NothingDue
    <2>2. UNCHANGED <<lag, jumped, zone, previousZone, sampled, moves, missed>>
      BY <1>6 DEF RunPending, host, watchdog
    <2>3. Owed => Owed'
      BY <1>6, <2>1 DEF RunPending
    <2> QED BY <1>4, <2>2, <2>3
  <1>7. CASE Check
    <2>1. CASE ~due.watchdog
      BY <1>4, <1>7, <2>1 DEF Check, watchdog, host
    <2>2. CASE due.watchdog /\ Fires
      BY <1>7, <2>2 DEF Check, RightBefore
    <2>3. CASE due.watchdog /\ ~Fires
      <3>1. Moved = 0 /\ moves # 1
        BY <2>3, QuietWatchdog
      <3>2. /\ Renewed /\ UNCHANGED <<timeSyncLeft, op, lag, zone>>
            /\ timeSyncRequest' = timeSyncRequest
            /\ due'.timeSync = due.timeSync
        <4>1. /\ Renewed /\ UNCHANGED <<timeSyncLeft, op, lag, zone>>
              /\ timeSyncRequest' = (timeSyncRequest \/ Fires)
              /\ due' = [due EXCEPT !.timeSync = @ /\ ~Fires]
          BY <1>7, <2>3 DEF Check, host
        <4>2. timeSyncRequest \in BOOLEAN
          BY DEF TypeOK, LoopTypeOK
        <4> QED BY <1>0, <2>3, <4>1, <4>2
      <3>3. Moved' = 0
        BY <3>2 DEF Renewed, Moved, ZoneMoved
      <3>4. CASE sampled /\ moves # 0
        <4>1. moves = 2
          BY <1>0, <3>1, <3>4
        <4>2. missed'
          BY <2>3, <3>2, <3>4, <4>1 DEF Renewed
        <4> QED BY <4>2 DEF RightBefore
      <3>5. CASE missed
        BY <3>2, <3>5 DEF Renewed, RightBefore
      <3>6. CASE Owed
        BY <3>2, <3>6 DEF RightBefore
      <3>7. CASE lag - Moved \in 0..RightBy
        <4>1. lag' - Moved' = lag - Moved
          BY <3>1, <3>2, <3>3
        <4> QED BY <3>7, <4>1 DEF RightBefore, RightBy
      <3> QED BY <3>4, <3>5, <3>6, <3>7 DEF RightBefore
    <2> QED BY <2>1, <2>2, <2>3
  <1>8. CASE BeginSync
    BY <1>4, <1>8 DEF BeginSync, NothingDue, watchdog, host
  <1>9. CASE Pace \/ RequestFails \/ UNCHANGED vars
    BY <1>4, <1>9 DEF Pace, RequestFails, watchdog, host, deadlines, vars
  <1>10. CASE Send
    <2>1. CASE op = "time"
      BY <1>10, <2>1 DEF Send, RightBefore
    <2>2. CASE op # "time"
      BY <1>4, <1>10, <2>2 DEF Send, host, deadlines
    <2> QED BY <2>1, <2>2
  <1>11. CASE Apply
    <2>1. CASE op = "time"
      BY <1>11, <2>1 DEF Apply, RightBefore
    <2>2. CASE op # "time"
      BY <1>4, <1>11, <2>2 DEF Apply, watchdog, deadlines
    <2> QED BY <2>1, <2>2
  <1>12. CASE RequestOk
    <2>1. CASE op = "time"
      <3>1. /\ sampled
            /\ moves = 0 => lag \in 0..RightBy
            /\ UNCHANGED <<lag, jumped, zone, previousZone, sampled, moves>>
        BY <1>12, <2>1 DEF RequestOk, OnTheWire, host, watchdog
      <3>2. moves = 0 => Moved' = 0
        BY <3>1 DEF Moves, Moved, ZoneMoved
      <3>3. CASE moves = 0
        <4>1. lag' - Moved' = lag
          BY <1>0, <3>1, <3>2, <3>3
        <4> QED BY <3>1, <3>3, <4>1 DEF RightBefore, RightBy
      <3>4. CASE moves # 0
        BY <3>1, <3>4 DEF RightBefore
      <3> QED BY <3>3, <3>4
    <2>2. CASE op # "time"
      BY <1>4, <1>12, <2>2 DEF RequestOk, host, watchdog
    <2> QED BY <2>1, <2>2
  <1>13. CASE Restart
    BY <1>13 DEF Restart, RightBefore
  <1> QED BY <1>2, <1>3, <1>5, <1>6, <1>7, <1>8, <1>9, <1>10, <1>11, <1>12, <1>13
          DEF Next

\* RightBefore is ClockRight once the moves are weighed.
LEMMA RightNow == ASSUME TypeOK, Moves, RightBefore PROVE ClockRight
  <1> SUFFICES ASSUME ~SyncOwed PROVE ThereAndBack \/ lag \in 0..RightBy
    BY DEF ClockRight
  <1>1. Moved = 0 /\ moves # 1
    BY QuietWatchdog DEF SyncOwed
  <1>2. lag \in Int /\ moves \in 0..2
    BY DEF TypeOK, HostTypeOK, WatchdogTypeOK
  <1>3. CASE lag - Moved \in 0..RightBy
    BY <1>1, <1>2, <1>3
  <1>4. CASE missed \/ (sampled /\ moves # 0)
    BY <1>1, <1>2, <1>4 DEF ThereAndBack
  <1> QED BY <1>3, <1>4 DEF RightBefore, SyncOwed

-----------------------------------------------------------------------------
\* A process that starts owes a synchronisation.
LEMMA InitInvariant == Init => Invariant
  <1> SUFFICES ASSUME Init PROVE Invariant
    OBVIOUS
  <1>0. Constants /\ 0 % clockJumpTolerance = 0
    BY ConstantsTyped DEF Constants
  <1>1. HostTypeOK
    BY <1>0 DEF Init, HostTypeOK, Constants
  <1>2. WatchdogTypeOK
    <2>1. jumped \in Int /\ moves \in 0..2 /\ previousZone \in {"winter", "summer"}
      BY DEF Init
    <2> QED BY <2>1 DEF Init, WatchdogTypeOK
  <1>3. LoopTypeOK
    <2>1. NothingDue \in [watchdog : BOOLEAN, timeSync : BOOLEAN]
      BY DEF NothingDue
    <2>2. watchdogLeft \in 0..clockWatchdogInterval /\ timeSyncLeft \in 0..syncTimeInterval
      BY <1>0 DEF Init, Constants
    <2> QED BY <2>1, <2>2 DEF Init, LoopTypeOK
  <1>4. RequestTypeOK
    <2>1. wait \in 0..(Second - 1) /\ stale \in Int /\ requestLeft \in 0..Timeout
      BY <1>0 DEF Init, Constants
    <2>2. /\ sinceRegisterWrite \in 0..registerWriteInterval
          /\ quiet \in 0..registerWriteInterval
      BY <1>0 DEF Init, Constants
    <2> QED BY <2>1, <2>2 DEF Init, RequestTypeOK
  <1>5. Stages /\ Pacing /\ OnTheWire
    BY DEF Init, Stages, Pacing, OnTheWire
  <1>6. Moves
    BY <1>0 DEF Init, Moves
  <1>7. RightBefore /\ ClockRight
    BY DEF Init, RightBefore, ClockRight, SyncOwed
  <1> QED BY <1>1, <1>2, <1>3, <1>4, <1>5, <1>6, <1>7 DEF Invariant, TypeOK

\* Invariant holds initially and no step breaks it.
THEOREM InvariantHolds == Spec => []Invariant
  <1>1. Invariant /\ [Next]_vars => Invariant'
    <2> SUFFICES ASSUME Invariant, [Next]_vars PROVE Invariant'
      OBVIOUS
    <2> USE DEF Invariant
    <2>1. TypeOK' /\ Stages' /\ Pacing'
      BY StepTyped, StepStages, StepPacing
    <2>2. Moves' /\ OnTheWire' /\ RightBefore'
      BY StepMoves, StepOnTheWire, StepRightBefore
    <2>3. ClockRight'
      BY <2>1, <2>2, RightNow, PTL
    <2> QED BY <2>1, <2>2, <2>3
  <1> QED BY <1>1, InitInvariant, PTL DEF Spec

\* Whatever the intervals, every variable keeps its type and range: no sleep
\* to the full second reaches a second, no request outlasts its timeout.
THEOREM TypeCorrect == Spec => []TypeOK
  <1>1. Invariant => TypeOK
    BY DEF Invariant
  <1> QED BY <1>1, InvariantHolds, PTL

\* No change of the host's clock or zone gets lost, wherever in an iteration
\* of the loop it happens (runPending, clockWatchdog.Check, SyncTime), as
\* long as what remains of several jumps is nothing or above the tolerance.
THEOREM ClockCorrect == Spec => []ClockRight
  <1>1. Invariant => ClockRight
    BY DEF Invariant
  <1> QED BY <1>1, InvariantHolds, PTL

\* Register writes keep registerWriteInterval apart as long as the process
\* lives, whoever writes and whether the last one failed (WriteRegisters).
THEOREM WritesSpacedCorrect == Spec => WritesSpaced
  <1>1. Invariant /\ [Next]_vars =>
            [pc = "values" /\ pc' = "request" => quiet = registerWriteInterval]_vars
    BY DEF Invariant, Pacing
  <1> QED BY <1>1, InvariantHolds, PTL DEF Spec, WritesSpaced
==============================================================================
