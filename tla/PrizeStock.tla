----------------------------- MODULE PrizeStock -----------------------------
(***************************************************************************)
(* What the stock ledger promises for a prize: stock is a number of units  *)
(* that staff changes move by their delta, that each win takes one of, and *)
(* that never goes below zero; a prize that leaves the pool (deleted, or   *)
(* its event archived) keeps its count for good.  EventLottery implements  *)
(* it without storing the number.                                          *)
(***************************************************************************)
EXTENDS Integers

CONSTANT Prizes

VARIABLES
    stage,  \* "future", "offered" (may be won and restocked) or "retired"
    left,   \* units left to win
    won     \* units won

vars == <<stage, left, won>>

TypeOK ==
    /\ stage \in [Prizes -> {"future", "offered", "retired"}]
    /\ left \in [Prizes -> Int]
    /\ won \in [Prizes -> Nat]

Init ==
    /\ stage = [p \in Prizes |-> "future"]
    /\ left = [p \in Prizes |-> 0]
    /\ won = [p \in Prizes |-> 0]

\* A new prize starts with the units it was given, maybe none.
Offer(p) ==
    /\ stage[p] = "future"
    /\ stage' = [stage EXCEPT ![p] = "offered"]
    /\ left'[p] \in Nat
    /\ left' = [left EXCEPT ![p] = left'[p]]
    /\ UNCHANGED won

\* Staff add or remove units, never more than are left.
Adjust(p) ==
    /\ stage[p] = "offered"
    /\ left'[p] \in Nat
    /\ left' = [left EXCEPT ![p] = left'[p]]
    /\ UNCHANGED <<stage, won>>

Win(p) ==
    /\ stage[p] = "offered"
    /\ left[p] > 0
    /\ left' = [left EXCEPT ![p] = @ - 1]
    /\ won' = [won EXCEPT ![p] = @ + 1]
    /\ UNCHANGED stage

\* A prize nobody won takes its units with it; a won one keeps its history.
Retire(p) ==
    /\ stage[p] = "offered"
    /\ stage' = [stage EXCEPT ![p] = "retired"]
    /\ left' = [left EXCEPT ![p] = IF won[p] = 0 THEN 0 ELSE @]
    /\ UNCHANGED won

\* The event is archived: every prize on offer is out of play, as it stands.
Close ==
    /\ stage' = [p \in Prizes |-> IF stage[p] = "offered" THEN "retired" ELSE stage[p]]
    /\ UNCHANGED <<left, won>>

Next ==
    \/ \E p \in Prizes : Adjust(p) \/ Win(p) \/ Offer(p) \/ Retire(p)
    \/ Close

Spec == Init /\ [][Next]_vars

\* Stock never goes below zero.
NeverNegative == \A p \in Prizes : left[p] >= 0

\* A retired prize's counts never move again, and no prize comes back.
RetiredStays ==
    [][\A p \in Prizes : stage[p] = "retired" =>
        stage'[p] = "retired" /\ left'[p] = left[p] /\ won'[p] = won[p]]_vars

=============================================================================
