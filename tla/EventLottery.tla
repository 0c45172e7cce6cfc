---------------------------- MODULE EventLottery ----------------------------
(***************************************************************************)
(* The booth's events, prizes, stock ledger and lottery draws: the tables  *)
(* written by domains/event and domains/lottery of the engine.  Every      *)
(* write of the code is one synchronous SQLite transaction, so each is one *)
(* atomic action here; a transaction that throws rolls back and leaves the *)
(* state as it was, so only the outcomes that change something (or answer  *)
(* the caller) are actions.  Requests from admin are retried and may reach *)
(* the engine twice, late and in any order.                                *)
(*                                                                         *)
(* Titles, weights, rarities, kit settings and event names are left out:   *)
(* they never decide whether a draw may win, only how likely it is.  A     *)
(* weight is always positive (prize_weight_check), so every eligible prize *)
(* is a possible outcome.                                                  *)
(*                                                                         *)
(* Definitions whose comment starts with "Fault:" are not the code: each   *)
(* is the definition after it with a plausible bug, used to see that a     *)
(* property notices.                                                       *)
(***************************************************************************)
EXTENDS Integers, FiniteSets

CONSTANTS
    Events,          \* campaign ids; a lottery is created with its campaign and shares its id
    Prizes,          \* prize ids, never reused (createId)
    Adjustments,     \* ids of stock ledger entries
    Refs,            \* ticket numbers; draw_ticket_ref_unique makes them keys of the draw table
    None,            \* SQL null
    MaxDelta,        \* bound: units in one stock change
    Settings,        \* lottery settings staff may save
    TicksPerSecond,  \* the draw reads the clock finer than created_at stores it
    MaxTime          \* bound: last tick of the booth's clock

\* On or off, whether "no prize" has a weight, and the pause after a win in
\* seconds.
SettingsRow == [enabled : BOOLEAN, noWin : BOOLEAN, cooldown : Nat]

ASSUME NoneAssumption == None \notin Events \cup Prizes
ASSUME BoundsAssumption ==
    /\ MaxDelta \in Nat \ {0}
    /\ TicksPerSecond \in Nat \ {0}
    /\ MaxTime \in Nat
    /\ Settings \subseteq SettingsRow
    /\ IsFiniteSet(Adjustments)
    /\ IsFiniteSet(Refs)

VARIABLES
    status,   \* campaign.status, "unborn" before its insert
    lottery,  \* the lottery row of each campaign
    prize,    \* prize rows; a deleted row is gone but its id stays used
    ledger,   \* stock_adjustment: NoEntry or the entry's prize and delta
    draw,     \* draw rows by ticket number: NoDraw or the row
    now,      \* the booth's clock
    form,     \* the prize each restock dialog's id was made for, in admin
    saved     \* observer: changes the engine ever acknowledged, by ledger id and delta

vars == <<status, lottery, prize, ledger, draw, now, form, saved>>
eventVars == <<status, lottery>>
ids == <<form, saved>>

Deltas == ((-MaxDelta)..MaxDelta) \ {0}
PrizeRow == [state : {"unborn", "offered", "removed", "deleted"},
             event : Events \cup {None}]
Entry == [prize : Prizes \cup {None}, delta : Deltas \cup {0}]
DrawRow == [campaign : Events \cup {None}, lottery : Events \cup {None},
            prize : Prizes \cup {None}, at : (0..MaxTime) \cup {-1}]

NoEntry == [prize |-> None, delta |-> 0]
NoDraw == [campaign |-> None, lottery |-> None, prize |-> None, at |-> -1]

TypeOK ==
    /\ status \in [Events -> {"unborn", "active", "archived"}]
    /\ lottery \in [Events -> SettingsRow]
    /\ prize \in [Prizes -> PrizeRow]
    /\ ledger \in [Adjustments -> Entry]
    /\ draw \in [Refs -> DrawRow]
    /\ now \in 0..MaxTime
    /\ form \in [Adjustments -> Prizes \cup {None}]
    /\ saved \in SUBSET (Adjustments \X Deltas)

-----------------------------------------------------------------------------
(***************************************************************************)
(* Reads.                                                                  *)
(***************************************************************************)

Drawn(r) == draw[r].at # -1
Won(r) == draw[r].prize # None

\* created_at keeps whole seconds; `at` is the instant of the insert, in ticks.
CreatedAt(r) == draw[r].at \div TicksPerSecond

\* The ledger's units of a prize, put in and taken out: a delta of 3 is three
\* units.  Their difference is the sum of the prize's deltas.
Added(p) == {u \in Adjustments \X (1..MaxDelta) :
                ledger[u[1]].prize = p /\ u[2] <= ledger[u[1]].delta}
Removed(p) == {u \in Adjustments \X (1..MaxDelta) :
                ledger[u[1]].prize = p /\ u[2] <= -ledger[u[1]].delta}
Wins(p) == {r \in Refs : draw[r].prize = p}

Remaining(p) == Cardinality(Added(p)) - Cardinality(Removed(p)) - Cardinality(Wins(p))

Active(e) == status[e] = "active"
Offered(p) == prize[p].state = "offered"
OnCurrentEvent(p) == Offered(p) /\ \E e \in Events : Active(e) /\ prize[p].event = e

\* Fault: the pause is compared in the clock's unit instead of seconds.
WithinUnscaledCooldown(e) ==
    /\ lottery[e].cooldown > 0
    /\ \E r \in Refs :
        /\ Won(r) /\ draw[r].lottery = e
        /\ now - CreatedAt(r) * TicksPerSecond < lottery[e].cooldown

\* The last win of a lottery is the latest created_at; within the pause every
\* draw is a loss.
WithinWinCooldown(e) ==
    /\ lottery[e].cooldown > 0
    /\ \E r \in Refs :
        /\ Won(r) /\ draw[r].lottery = e
        /\ \A q \in Refs : Won(q) /\ draw[q].lottery = e => CreatedAt(q) <= CreatedAt(r)
        /\ now - CreatedAt(r) * TicksPerSecond < lottery[e].cooldown * TicksPerSecond

\* Fault: a prize stays in the draw after its last unit.
OfferedBy(e) == {p \in Prizes : Offered(p) /\ prize[p].event = e}

Eligible(e) == {p \in Prizes : Offered(p) /\ prize[p].event = e /\ Remaining(p) > 0}

-----------------------------------------------------------------------------
(***************************************************************************)
(* Events and prizes, edited by staff in admin.                            *)
(***************************************************************************)

Init ==
    /\ status = [e \in Events |-> "unborn"]
    /\ lottery = [e \in Events |-> [enabled |-> FALSE, noWin |-> FALSE, cooldown |-> 0]]
    /\ prize = [p \in Prizes |-> [state |-> "unborn", event |-> None]]
    /\ ledger = [a \in Adjustments |-> NoEntry]
    /\ draw = [r \in Refs |-> NoDraw]
    /\ now = 0
    /\ form = [a \in Adjustments |-> None]
    /\ saved = {}

CreateEvent(e, s) ==
    /\ status[e] = "unborn"
    /\ \A f \in Events : ~Active(f)
    /\ status' = [status EXCEPT ![e] = "active"]
    /\ lottery' = [lottery EXCEPT ![e] = s]
    /\ UNCHANGED <<prize, ledger, draw, now, ids>>

\* Fault: the event before is not archived.
StatusWithBoth(e) == [status EXCEPT ![e] = "active"]

\* Archives whatever event is active and inserts the next one, in one
\* transaction.
StatusAfterReplace(e) ==
    [f \in Events |-> IF f = e THEN "active" ELSE IF Active(f) THEN "archived" ELSE status[f]]

ReplaceEvent(e, s) ==
    /\ status[e] = "unborn"
    /\ status' = StatusAfterReplace(e)
    /\ lottery' = [lottery EXCEPT ![e] = s]
    /\ UNCHANGED <<prize, ledger, draw, now, ids>>

UpdateLotterySettings(e, s) ==
    /\ Active(e)
    /\ lottery' = [lottery EXCEPT ![e] = s]
    /\ UNCHANGED <<status, prize, ledger, draw, now, ids>>

\* A ledger id the server makes up: no dialog and no entry ever had it.
Spent(a) == \E d \in Deltas : <<a, d>> \in saved
Fresh(a) == ~Spent(a) /\ form[a] = None

CreatePrize(p, e) ==
    /\ prize[p].state = "unborn" /\ Active(e)
    /\ prize' = [prize EXCEPT ![p] = [state |-> "offered", event |-> e]]
    /\ \/ UNCHANGED <<ledger, saved>>                    \* quantity 0
       \/ \E a \in Adjustments, q \in 1..MaxDelta :
            /\ Fresh(a)
            /\ ledger' = [ledger EXCEPT ![a] = [prize |-> p, delta |-> q]]
            /\ saved' = saved \cup {<<a, q>>}
    /\ UNCHANGED <<eventVars, draw, now, form>>

\* Fault: nothing looks for draws that won the prize.
NeverReferenced(p) == FALSE

Referenced(p) == Wins(p) # {}

\* A prize some draw won stays stored, out of the pool; any other goes, with
\* its ledger.
DeletePrize(p) ==
    /\ OnCurrentEvent(p)
    /\ IF Referenced(p)
       THEN /\ prize' = [prize EXCEPT ![p].state = "removed"]
            /\ UNCHANGED ledger
       ELSE /\ prize' = [prize EXCEPT ![p] = [state |-> "deleted", event |-> None]]
            /\ ledger' = [a \in Adjustments |->
                            IF ledger[a].prize = p THEN NoEntry ELSE ledger[a]]
    /\ UNCHANGED <<eventVars, draw, now, ids>>

-----------------------------------------------------------------------------
(***************************************************************************)
(* Restocks.  The dialog makes an id when it opens on a prize and sends it *)
(* with whatever delta is in the field, as often as staff press Save or    *)
(* the request is retried.                                                 *)
(***************************************************************************)

OpenRestock(a, p) ==
    /\ Fresh(a)
    /\ OnCurrentEvent(p)
    /\ form' = [form EXCEPT ![a] = p]
    /\ UNCHANGED <<eventVars, prize, ledger, draw, now, saved>>

\* Fault: any prize row will do, deleted or archived.
RequireNothing(a) == form[a] # None

RequireCurrentPrize(a) == form[a] # None /\ OnCurrentEvent(form[a])

\* Fault: only the id is compared.
SameId(a, p, d) == ledger[a].prize = p

\* applyStockAdjustment: a repeat of a recorded change is answered like the
\* first; an id recorded with another prize or delta is a CONFLICT.
AlreadyApplied(a, p, d) == ledger[a] = [prize |-> p, delta |-> d]

\* Fault: a correction may remove more than is left.
CanApplyUnchecked(a, p, d) == ledger[a] = NoEntry

CanApply(a, p, d) == ledger[a] = NoEntry /\ Remaining(p) + d >= 0

RestockPrize(a, d) ==
    /\ RequireCurrentPrize(a)
    /\ \/ AlreadyApplied(a, form[a], d) /\ UNCHANGED ledger
       \/ /\ CanApply(a, form[a], d)
          /\ ledger' = [ledger EXCEPT ![a] = [prize |-> form[a], delta |-> d]]
    /\ saved' = saved \cup {<<a, d>>}
    /\ UNCHANGED <<eventVars, prize, draw, now, form>>

-----------------------------------------------------------------------------
(***************************************************************************)
(* Draws, one per guest.  A ticket number that is taken is drawn again (up *)
(* to 8 times, then the transaction fails), so a recorded one is free.     *)
(* Development flags force an outcome; the engine may restart with other   *)
(* flags between any two draws, so each draw is forced or not.             *)
(***************************************************************************)

InsertDraw(r, row) ==
    /\ ~Drawn(r)
    /\ draw' = [draw EXCEPT ![r] = row]
    /\ UNCHANGED <<eventVars, prize, ledger, now, ids>>

\* Fault: created_at is written in milliseconds.
LossRowInMs(e) ==
    [campaign |-> e, prize |-> None, at |-> now * 1000,
     lottery |-> IF e # None /\ lottery[e].enabled THEN e ELSE None]

\* The row of a draw at this instant under event e (None: no event active),
\* with its lottery only while that is enabled.
LossRow(e) ==
    [campaign |-> e, prize |-> None, at |-> now,
     lottery |-> IF e # None /\ lottery[e].enabled THEN e ELSE None]
WinRow(e, p) == [campaign |-> e, lottery |-> e, prize |-> p, at |-> now]

ActiveOrNone == IF \E e \in Events : Active(e) THEN {e \in Events : Active(e)} ELSE {None}

ForcedLoss(r) == \E e \in ActiveOrNone : InsertDraw(r, LossRow(e))

\* Forcing skips the odds, the pause and the switch, never the stock.
ForcedWin(r, p) ==
    /\ OnCurrentEvent(p)
    /\ Remaining(p) > 0
    /\ InsertDraw(r, WinRow(prize[p].event, p))

MayWin(e) == e # None /\ lottery[e].enabled /\ ~WithinWinCooldown(e)

WeightedWin(r, p) ==
    \E e \in Events :
        /\ Active(e) /\ MayWin(e)
        /\ p \in Eligible(e)
        /\ InsertDraw(r, WinRow(e, p))

\* Without a no-win weight a draw that may win always takes an eligible prize.
WeightedLoss(r) ==
    \E e \in ActiveOrNone :
        /\ MayWin(e) => lottery[e].noWin \/ Eligible(e) = {}
        /\ InsertDraw(r, LossRow(e))

-----------------------------------------------------------------------------
(***************************************************************************)
(* The clock.  The Pi has no clock battery: it boots at the time last      *)
(* saved and jumps when NTP answers, so any reading can follow any other.  *)
(***************************************************************************)

SetClock(t) ==
    /\ t # now
    /\ now' = t
    /\ UNCHANGED <<eventVars, prize, ledger, draw, ids>>

Next ==
    \/ \E e \in Events, s \in Settings :
        CreateEvent(e, s) \/ ReplaceEvent(e, s) \/ UpdateLotterySettings(e, s)
    \/ \E p \in Prizes, e \in Events : CreatePrize(p, e)
    \/ \E p \in Prizes : DeletePrize(p)
    \/ \E a \in Adjustments, p \in Prizes : OpenRestock(a, p)
    \/ \E a \in Adjustments, d \in Deltas : RestockPrize(a, d)
    \/ \E r \in Refs : ForcedLoss(r) \/ WeightedLoss(r)
    \/ \E r \in Refs, p \in Prizes : ForcedWin(r, p) \/ WeightedWin(r, p)
    \/ \E t \in 0..MaxTime : SetClock(t)

Spec == Init /\ [][Next]_vars

-----------------------------------------------------------------------------
(***************************************************************************)
(* What must hold.                                                         *)
(***************************************************************************)

\* At most one event is active (campaign_single_active_idx), so "the" lottery a
\* guest draws against is well defined.
OneActiveEvent == \A e, f \in Events : Active(e) /\ Active(f) => e = f

\* No interleaving of draws, corrections and retried restocks takes a prize's
\* stock below zero: the check in applyStockAdjustment and the one of the draw
\* see the same ledger and the same wins.
StockNonNegative == \A p \in Prizes : Remaining(p) >= 0

\* A recorded draw keeps pointing at rows that exist and agree: its lottery is
\* its event's, that event was really created, and the prize it won is stored
\* (offered or removed, never deleted) on that same event.
DrawsKeepTheirRecord ==
    \A r \in Refs : Drawn(r) =>
        /\ draw[r].lottery \in {None, draw[r].campaign}
        /\ draw[r].campaign # None => status[draw[r].campaign] # "unborn"
        /\ Won(r) => /\ draw[r].lottery # None
                     /\ prize[draw[r].prize].state \in {"offered", "removed"}
                     /\ prize[draw[r].prize].event = draw[r].lottery

\* A change answered "saved" stands in the ledger as it was asked for until its
\* prize is deleted: no retry alters it, and no id acknowledges two changes.
AcknowledgedChangesStand ==
    \A c \in saved :
        LET a == c[1] IN
        \/ ledger[a].delta = c[2] /\ form[a] \in {None, ledger[a].prize}
        \/ ledger[a] = NoEntry /\ (form[a] # None => prize[form[a]].state = "deleted")

\* An id enters the ledger once, however often its request is retried, and
\* even after a deletion took its entry away.
RestockAppliesOnce ==
    [][\A a \in Adjustments : ledger[a] = NoEntry /\ ledger'[a] # NoEntry => ~Spent(a)]_vars

\* An archived event stays exactly as it was: its settings, its prizes, their
\* stock and the draws against it.  Late restocks and draws all go to the
\* active event or nowhere.
ArchivedEventsStay ==
    [][\A e \in Events : status[e] = "archived" =>
        /\ status'[e] = "archived" /\ lottery'[e] = lottery[e]
        /\ \A r \in Refs : draw[r] # draw'[r] => draw'[r].campaign # e /\ draw'[r].lottery # e
        /\ \A p \in Prizes : prize[p].event = e =>
            /\ prize'[p] = prize[p]
            /\ \A a \in Adjustments : p \in {ledger[a].prize, ledger'[a].prize} =>
                ledger'[a] = ledger[a]]_vars

\* Pause after a win: with a pause set, a draw by the odds never wins sooner
\* after any earlier win of that lottery (in the booth's own time, and even if
\* that win was forced) than the pause less the one second created_at rounds
\* away.  A clock set back only lengthens it.
WinsAreSpaced ==
    [][\A r, q \in Refs, p \in Prizes :
        /\ Won(q) /\ draw[q].lottery = draw'[r].lottery
        /\ WeightedWin(r, p)
        /\ lottery[draw[q].lottery].cooldown > 0
        => now - draw[q].at > (lottery[draw[q].lottery].cooldown - 1) * TicksPerSecond]_vars

\* The stock of a prize as PrizeStock promises it: a counter moved by whole
\* changes and single wins, that a retired prize keeps.
Stock == INSTANCE PrizeStock WITH
    stage <- [p \in Prizes |-> IF prize[p].state = "unborn" THEN "future"
                               ELSE IF OnCurrentEvent(p) THEN "offered" ELSE "retired"],
    left <- [p \in Prizes |-> Remaining(p)],
    won <- [p \in Prizes |-> Cardinality(Wins(p))]
StockSpec == Stock!Spec

=============================================================================
