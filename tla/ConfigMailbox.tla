---------------------------- MODULE ConfigMailbox ----------------------------
(***************************************************************************)
(* What the polling service promises about accepted configuration writes,  *)
(* without queue, batches or memory of past writes.  Each register has the *)
(* list of values accepted for it and not settled yet.  Values reach the   *)
(* inverter in the order they were accepted.  Older ones may be superseded *)
(* by newer ones; the newest is superseded by nothing: it is applied, or   *)
(* refused because it is invalid.  Nothing else changes the inverter: Keys *)
(* are the registers that nobody sets at its front panel.                  *)
(***************************************************************************)
EXTENDS Naturals, Sequences

CONSTANTS Keys, Values, Invalid

VARIABLES waiting,   \* per register, the accepted values, oldest first
          device     \* what the inverter holds

vars == <<waiting, device>>

Init == /\ waiting = [k \in Keys |-> <<>>]
        /\ device \in [Keys -> Values \ Invalid]

Accept(k, v) ==
    /\ waiting' = [waiting EXCEPT ![k] = Append(@, v)]
    /\ UNCHANGED device

\* What is left when some values a newer one supersedes are dropped.
Newer(list, rest) == \E n \in 0..Len(list) :
    /\ n = Len(list) => n = 0
    /\ rest = SubSeq(list, n + 1, Len(list))

\* Any registers drop some.
Supersede ==
    /\ UNCHANGED device
    /\ waiting' \in [Keys -> Seq(Values)]
    /\ \A k \in Keys : Newer(waiting[k], waiting'[k])

\* The oldest value left is in the inverter now, and settled unless the
\* service stopped before it knew.
Apply(k, settled) ==
    /\ waiting[k] # <<>> /\ Head(waiting[k]) \notin Invalid
    /\ device' = [device EXCEPT ![k] = Head(waiting[k])]
    /\ waiting' = IF settled THEN [waiting EXCEPT ![k] = Tail(@)] ELSE waiting

Refuse(k) ==
    /\ waiting[k] # <<>> /\ Head(waiting[k]) \in Invalid
    /\ waiting' = [waiting EXCEPT ![k] = Tail(@)]
    /\ UNCHANGED device

Next ==
    \/ Supersede
    \/ \E k \in Keys, v \in Values : Accept(k, v)
    \/ \E k \in Keys, settled \in BOOLEAN : Apply(k, settled)
    \/ \E k \in Keys : Refuse(k)

Spec == Init /\ [][Next]_vars
==============================================================================
