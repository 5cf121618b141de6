----------------------- MODULE PollingServiceFollowed -----------------------
(***************************************************************************)
(* PollingService with one of the queued commands followed on its way,     *)
(* while others are queued before, behind and in place of it.              *)
(***************************************************************************)
EXTENDS PollingService

VARIABLE place   \* ghost: its place in batch \o commands, or 0

FollowInit == Init /\ place = 0

\* A command may be followed from when it is queued.
Queued == \/ place' = place
          \/ place = 0 /\ place' = Len(batch) + Len(commands')

\* The first command of the queue goes to the end of the batch, or takes the
\* place of an older one for its register, which it supersedes: then what
\* comes after it moves up.
Taken ==
    LET first == Len(batch) + 1
        merged == Len(batch') = Len(batch)
    IN  place' = CASE merged /\ place = first ->
                          CHOOSE i \in DOMAIN batch : batch[i].key = Head(commands).key
                   [] merged /\ place > first -> place - 1
                   [] OTHER -> place

\* The first command of the batch is written, found written, or refused.
Done == place' = IF place = 0 THEN 0 ELSE place - 1

Follow ==
    /\ Next
    /\ CASE Len(commands') > Len(commands) -> Queued
         [] Len(commands') < Len(commands) -> Taken
         [] Len(batch') < Len(batch) -> Done
         [] OTHER -> UNCHANGED place

FollowSpec == FollowInit /\ [][Follow]_<<vars, place>> /\ Fairness

\* Every command accepted into the queue is served, it or the newer one of its
\* register that has superseded it, unless the service stops: however many
\* commands are queued while takeLatestConfigCommands receives what it has
\* counted, and although nobody waits for the queue to be empty.
CommandsServed == place # 0 ~> (place = 0 \/ pc = "stopped")
=============================================================================
