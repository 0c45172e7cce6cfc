-------------------------- MODULE EventRecordProofs --------------------------
(***************************************************************************)
(* EventLottery keeps its record: who won what, which changes of stock     *)
(* were acknowledged, and what an archived event was, for every set of     *)
(* events, prizes, ledger ids and tickets.                                 *)
(***************************************************************************)
EXTENDS EventLotteryProofs

\* Prizes live on events that were created, and only an unborn prize is on none
\* before it is deleted.
PrizesAreOnEvents ==
    \A p \in Prizes :
        /\ prize[p].state \in {"offered", "removed"} =>
            prize[p].event # None /\ status[prize[p].event] # "unborn"
        /\ prize[p].state \in {"unborn", "deleted"} => prize[p].event = None

\* An entry was acknowledged, its prize is stored, and the dialog that made its
\* id, if one did, was opened on that prize.
EntriesAreAcknowledged ==
    \A a \in Adjustments : ledger[a] # NoEntry =>
        /\ <<a, ledger[a].delta>> \in saved
        /\ ledger[a].prize \in Prizes
        /\ prize[ledger[a].prize].state \in {"offered", "removed"}
        /\ form[a] \in {None, ledger[a].prize}

DialogsAreOnPrizes ==
    \A a \in Adjustments : form[a] # None => prize[form[a]].state # "unborn"

UndrawnAreEmpty == \A r \in Refs : ~Drawn(r) => draw[r] = NoDraw

\* The inductive invariant.
RecordInv ==
    /\ TypeOK
    /\ OneActiveEvent
    /\ PrizesAreOnEvents
    /\ EntriesAreAcknowledged
    /\ DialogsAreOnPrizes
    /\ UndrawnAreEmpty
    /\ DrawsKeepTheirRecord
    /\ AcknowledgedChangesStand

LEMMA InitRecordInv == Init => RecordInv
  BY InitTypeOK DEF Init, RecordInv, OneActiveEvent, PrizesAreOnEvents,
     EntriesAreAcknowledged, DialogsAreOnPrizes, UndrawnAreEmpty, DrawsKeepTheirRecord,
     AcknowledgedChangesStand, Active, Drawn, Won, NoDraw, NoEntry

-----------------------------------------------------------------------------
\* Events come and go; nothing else moves.
LEMMA EventsRecordInv ==
  ASSUME RecordInv, TypeOK', NEW e \in Events, NEW s \in Settings,
         CreateEvent(e, s) \/ ReplaceEvent(e, s) \/ UpdateLotterySettings(e, s)
  PROVE  RecordInv'
<1>. USE DEF RecordInv
<1>1. UNCHANGED <<prize, ledger, draw, form, saved>>
  BY DEF CreateEvent, ReplaceEvent, UpdateLotterySettings, ids
<1>2. \A f \in Events : status[f] # "unborn" => status'[f] # "unborn"
  BY DEF CreateEvent, ReplaceEvent, UpdateLotterySettings, StatusAfterReplace, TypeOK, Active
<1>3. OneActiveEvent'
  BY DEF CreateEvent, ReplaceEvent, UpdateLotterySettings, StatusAfterReplace, TypeOK, Active,
     OneActiveEvent
<1>4. PrizesAreOnEvents'
  BY <1>1, <1>2 DEF PrizesAreOnEvents, TypeOK, PrizeRow
<1>5. DrawsKeepTheirRecord'
  BY <1>1, <1>2 DEF DrawsKeepTheirRecord, TypeOK, DrawRow, Drawn, Won
<1>6. EntriesAreAcknowledged' /\ DialogsAreOnPrizes' /\ UndrawnAreEmpty'
      /\ AcknowledgedChangesStand'
  BY <1>1 DEF EntriesAreAcknowledged, DialogsAreOnPrizes, UndrawnAreEmpty, Drawn,
     AcknowledgedChangesStand
<1>. QED
  BY <1>3, <1>4, <1>5, <1>6

\* A new prize, on the active event, with or without its first entry.
LEMMA CreateRecordInv ==
  ASSUME RecordInv, TypeOK', NEW p \in Prizes, NEW e \in Events, CreatePrize(p, e)
  PROVE  RecordInv'
<1>. USE DEF RecordInv
<1>1. /\ prize[p].state = "unborn" /\ Active(e)
      /\ prize' = [prize EXCEPT ![p] = [state |-> "offered", event |-> e]]
      /\ UNCHANGED <<status, lottery, draw, form>>
  BY DEF CreatePrize, eventVars
<1>2. /\ prize'[p] = [state |-> "offered", event |-> e]
      /\ \A q \in Prizes \ {p} : prize'[q] = prize[q]
  BY <1>1 DEF TypeOK
<1>3. OneActiveEvent'
  BY <1>1 DEF OneActiveEvent, Active
<1>4. PrizesAreOnEvents'
  BY <1>1, <1>2, NoneAssumption DEF PrizesAreOnEvents, Active
<1>5. DialogsAreOnPrizes' /\ UndrawnAreEmpty'
  BY <1>1, <1>2 DEF DialogsAreOnPrizes, UndrawnAreEmpty, Drawn, TypeOK
<1>6. DrawsKeepTheirRecord'
  BY <1>1, <1>2 DEF DrawsKeepTheirRecord, Drawn, Won, TypeOK, DrawRow
<1>7. EntriesAreAcknowledged' /\ AcknowledgedChangesStand'
  <2>1. CASE UNCHANGED <<ledger, saved>>
    BY <1>1, <1>2, <2>1 DEF EntriesAreAcknowledged, AcknowledgedChangesStand, TypeOK
  <2>2. ASSUME NEW a \in Adjustments, NEW q \in 1..MaxDelta, Fresh(a),
               ledger' = [ledger EXCEPT ![a] = [prize |-> p, delta |-> q]],
               saved' = saved \cup {<<a, q>>}
        PROVE  EntriesAreAcknowledged' /\ AcknowledgedChangesStand'
    <3>1. form[a] = None /\ \A c \in saved : c[1] # a
      BY <2>2 DEF Fresh, Spent, TypeOK
    <3>2. ledger'[a] = [prize |-> p, delta |-> q]
          /\ \A b \in Adjustments \ {a} : ledger'[b] = ledger[b]
      BY <2>2 DEF TypeOK
    <3>3. EntriesAreAcknowledged'
      BY <1>1, <1>2, <2>2, <3>1, <3>2 DEF EntriesAreAcknowledged
    <3>4. AcknowledgedChangesStand'
      BY <1>1, <1>2, <2>2, <3>1, <3>2 DEF AcknowledgedChangesStand, TypeOK
    <3>. QED
      BY <3>3, <3>4
  <2>. QED
    BY <2>1, <2>2 DEF CreatePrize
<1>. QED
  BY <1>3, <1>4, <1>5, <1>6, <1>7

\* A deleted prize takes its entries with it; a won one stays.
LEMMA DeleteRecordInv ==
  ASSUME RecordInv, TypeOK', NEW p \in Prizes, DeletePrize(p)
  PROVE  RecordInv'
<1>. USE DEF RecordInv
<1>1. UNCHANGED <<status, lottery, draw, form, saved>> /\ prize[p].state = "offered"
  BY DEF DeletePrize, eventVars, ids, OnCurrentEvent, Offered
<1>2. OneActiveEvent' /\ UndrawnAreEmpty'
  BY <1>1 DEF OneActiveEvent, Active, UndrawnAreEmpty, Drawn
<1>3. CASE Referenced(p)
  <2>1. /\ prize' = [prize EXCEPT ![p].state = "removed"] /\ UNCHANGED ledger
    BY <1>3 DEF DeletePrize
  <2>2. /\ prize'[p].state = "removed" /\ prize'[p].event = prize[p].event
        /\ \A q \in Prizes \ {p} : prize'[q] = prize[q]
    BY <2>1 DEF TypeOK, PrizeRow
  <2>3. PrizesAreOnEvents'
    BY <1>1, <2>2 DEF PrizesAreOnEvents
  <2>4. EntriesAreAcknowledged' /\ DialogsAreOnPrizes'
    BY <1>1, <2>1, <2>2 DEF EntriesAreAcknowledged, DialogsAreOnPrizes, TypeOK
  <2>5. DrawsKeepTheirRecord'
    BY <1>1, <2>2 DEF DrawsKeepTheirRecord, Drawn, Won, TypeOK, DrawRow
  <2>6. AcknowledgedChangesStand'
    BY <1>1, <2>1, <2>2 DEF AcknowledgedChangesStand, TypeOK
  <2>. QED
    BY <1>2, <2>3, <2>4, <2>5, <2>6
<1>4. CASE ~Referenced(p)
  <2>1. /\ prize' = [prize EXCEPT ![p] = [state |-> "deleted", event |-> None]]
        /\ ledger' = [a \in Adjustments |-> IF ledger[a].prize = p THEN NoEntry ELSE ledger[a]]
    BY <1>4 DEF DeletePrize
  <2>2. /\ prize'[p] = [state |-> "deleted", event |-> None]
        /\ \A q \in Prizes \ {p} : prize'[q] = prize[q]
    BY <2>1 DEF TypeOK
  <2>3. \A r \in Refs : draw[r].prize # p
    BY <1>4 DEF Referenced, Wins
  <2>4. PrizesAreOnEvents'
    BY <1>1, <2>2 DEF PrizesAreOnEvents
  <2>5. EntriesAreAcknowledged' /\ DialogsAreOnPrizes'
    BY <1>1, <2>1, <2>2 DEF EntriesAreAcknowledged, DialogsAreOnPrizes, TypeOK
  <2>6. DrawsKeepTheirRecord'
    BY <1>1, <2>2, <2>3 DEF DrawsKeepTheirRecord, Drawn, Won, TypeOK, DrawRow
  <2>7. AcknowledgedChangesStand'
    <3>1. SUFFICES ASSUME NEW c \in saved
                   PROVE  \/ ledger'[c[1]].delta = c[2] /\ form[c[1]] \in {None, ledger'[c[1]].prize}
                          \/ ledger'[c[1]] = NoEntry
                             /\ (form[c[1]] # None => prize'[form[c[1]]].state = "deleted")
      BY <1>1 DEF AcknowledgedChangesStand
    <3>2. c[1] \in Adjustments /\ c[2] \in Deltas
      BY DEF TypeOK
    <3>3. CASE ledger[c[1]].prize = p
      BY <2>1, <2>2, <3>2, <3>3 DEF AcknowledgedChangesStand, NoEntry
    <3>4. CASE ledger[c[1]].prize # p
      BY <2>1, <2>2, <3>2, <3>4 DEF AcknowledgedChangesStand, TypeOK
    <3>. QED
      BY <3>3, <3>4
  <2>. QED
    BY <1>2, <2>4, <2>5, <2>6, <2>7
<1>. QED
  BY <1>3, <1>4

\* A dialog makes an id nothing was recorded under.
LEMMA OpenRecordInv ==
  ASSUME RecordInv, TypeOK', NEW a \in Adjustments, NEW p \in Prizes, OpenRestock(a, p)
  PROVE  RecordInv'
<1>. USE DEF RecordInv
<1>1. /\ UNCHANGED <<status, lottery, prize, ledger, draw, saved>>
      /\ form' = [form EXCEPT ![a] = p]
      /\ prize[p].state = "offered"
      /\ \A c \in saved : c[1] # a
  BY DEF OpenRestock, eventVars, OnCurrentEvent, Offered, Fresh, Spent, TypeOK
<1>2. form'[a] = p /\ \A b \in Adjustments \ {a} : form'[b] = form[b]
  BY <1>1 DEF TypeOK
<1>3. OneActiveEvent' /\ PrizesAreOnEvents' /\ UndrawnAreEmpty' /\ DrawsKeepTheirRecord'
  BY <1>1 DEF OneActiveEvent, Active, PrizesAreOnEvents, UndrawnAreEmpty, Drawn,
     DrawsKeepTheirRecord, Won
<1>4. EntriesAreAcknowledged' /\ DialogsAreOnPrizes'
  BY <1>1, <1>2 DEF EntriesAreAcknowledged, DialogsAreOnPrizes
<1>5. AcknowledgedChangesStand'
  BY <1>1, <1>2 DEF AcknowledgedChangesStand, TypeOK
<1>. QED
  BY <1>3, <1>4, <1>5

\* A restock with an id acknowledged before finds its entry: the dialog's prize
\* is still on offer, so the entry was not deleted.
LEMMA RestockFindsItsEntry ==
  ASSUME RecordInv, NEW a \in Adjustments, RequireCurrentPrize(a), Spent(a)
  PROVE  ledger[a] # NoEntry
  BY DEF RecordInv, AcknowledgedChangesStand, RequireCurrentPrize, OnCurrentEvent, Offered,
     Spent, NoEntry, Deltas

LEMMA RestockRecordInv ==
  ASSUME RecordInv, TypeOK', NEW a \in Adjustments, NEW d \in Deltas, RestockPrize(a, d)
  PROVE  RecordInv'
<1>. USE DEF RecordInv
<1>1. /\ UNCHANGED <<status, lottery, prize, draw, form>>
      /\ saved' = saved \cup {<<a, d>>}
      /\ form[a] \in Prizes /\ form[a] # None /\ prize[form[a]].state = "offered"
  BY DEF RestockPrize, eventVars, RequireCurrentPrize, OnCurrentEvent, Offered, TypeOK
<1>2. /\ ledger'[a] = [prize |-> form[a], delta |-> d]
      /\ \A b \in Adjustments \ {a} : ledger'[b] = ledger[b]
  BY DEF RestockPrize, AlreadyApplied, TypeOK
<1>3. \A c \in saved : c[1] = a => c[2] = d
  <2>1. CASE ~Spent(a)
    BY <2>1 DEF Spent, TypeOK
  <2>2. CASE Spent(a)
    <3>1. ledger[a] # NoEntry
      BY <2>2, RestockFindsItsEntry DEF RestockPrize
    <3>2. ledger[a] = [prize |-> form[a], delta |-> d]
      BY <3>1 DEF RestockPrize, AlreadyApplied, CanApply
    <3>. QED
      BY <3>1, <3>2 DEF AcknowledgedChangesStand
  <2>. QED
    BY <2>1, <2>2
<1>4. OneActiveEvent' /\ PrizesAreOnEvents' /\ UndrawnAreEmpty' /\ DrawsKeepTheirRecord'
      /\ DialogsAreOnPrizes'
  BY <1>1 DEF OneActiveEvent, Active, PrizesAreOnEvents, UndrawnAreEmpty, Drawn,
     DrawsKeepTheirRecord, Won, DialogsAreOnPrizes
<1>5. EntriesAreAcknowledged'
  BY <1>1, <1>2 DEF EntriesAreAcknowledged
<1>6. AcknowledgedChangesStand'
  BY <1>1, <1>2, <1>3 DEF AcknowledgedChangesStand, TypeOK
<1>. QED
  BY <1>4, <1>5, <1>6

\* A draw keeps to the event that is active: a loss may belong to none, a win
\* is of a prize on offer there.
DrawnNow(row) ==
    /\ row.campaign = None \/ (row.campaign \in Events /\ Active(row.campaign))
    /\ row.lottery \in {None, row.campaign}
    /\ row.prize # None => /\ row.lottery # None /\ row.prize \in Prizes
                           /\ Offered(row.prize) /\ prize[row.prize].event = row.lottery

LEMMA DrawsAreNow ==
  ASSUME TypeOK, NEW r \in Refs,
         ForcedLoss(r) \/ WeightedLoss(r)
           \/ \E p \in Prizes : ForcedWin(r, p) \/ WeightedWin(r, p)
  PROVE  \E row \in DrawRow : InsertDraw(r, row) /\ row.at # -1 /\ DrawnNow(row)
<1>1. CASE ForcedLoss(r) \/ WeightedLoss(r)
  <2>1. PICK e \in Events \cup {None} : InsertDraw(r, LossRow(e)) /\ (e # None => Active(e))
    BY <1>1 DEF ForcedLoss, WeightedLoss, ActiveOrNone
  <2>2. LossRow(e) \in DrawRow /\ LossRow(e).at # -1 /\ DrawnNow(LossRow(e))
    BY <2>1, NoneAssumption DEF TypeOK, LossRow, DrawRow, DrawnNow, Active
  <2>. QED
    BY <2>1, <2>2
<1>2. ASSUME NEW p \in Prizes, ForcedWin(r, p) \/ WeightedWin(r, p)
      PROVE  \E row \in DrawRow : InsertDraw(r, row) /\ row.at # -1 /\ DrawnNow(row)
  <2>1. PICK e \in Events :
          InsertDraw(r, WinRow(e, p)) /\ Active(e) /\ Offered(p) /\ prize[p].event = e
    BY <1>2 DEF ForcedWin, WeightedWin, Eligible, OnCurrentEvent
  <2>2. WinRow(e, p) \in DrawRow /\ WinRow(e, p).at # -1 /\ DrawnNow(WinRow(e, p))
    BY <2>1, NoneAssumption DEF TypeOK, WinRow, DrawRow, DrawnNow, Active, Offered
  <2>. QED
    BY <2>1, <2>2
<1>. QED
  BY <1>1, <1>2

LEMMA DrawsRecordInv ==
  ASSUME RecordInv, TypeOK', NEW r \in Refs, NEW row \in DrawRow,
         InsertDraw(r, row), row.at # -1, DrawnNow(row)
  PROVE  RecordInv'
<1>. USE DEF RecordInv
<1>1. /\ UNCHANGED <<status, lottery, prize, ledger, form, saved>>
      /\ draw'[r] = row
      /\ \A q \in Refs \ {r} : draw'[q] = draw[q]
  BY DEF InsertDraw, eventVars, ids, TypeOK
<1>2. OneActiveEvent' /\ PrizesAreOnEvents' /\ EntriesAreAcknowledged' /\ DialogsAreOnPrizes'
      /\ AcknowledgedChangesStand'
  BY <1>1 DEF OneActiveEvent, Active, PrizesAreOnEvents, EntriesAreAcknowledged,
     DialogsAreOnPrizes, AcknowledgedChangesStand
<1>3. UndrawnAreEmpty'
  BY <1>1 DEF UndrawnAreEmpty, Drawn
<1>4. DrawsKeepTheirRecord'
  <2>1. SUFFICES ASSUME NEW q \in Refs, Drawn(q)'
                 PROVE  /\ draw'[q].lottery \in {None, draw'[q].campaign}
                        /\ draw'[q].campaign # None => status[draw'[q].campaign] # "unborn"
                        /\ draw'[q].prize # None =>
                            /\ draw'[q].lottery # None
                            /\ prize[draw'[q].prize].state \in {"offered", "removed"}
                            /\ prize[draw'[q].prize].event = draw'[q].lottery
    BY <1>1 DEF DrawsKeepTheirRecord, Won
  <2>2. CASE q = r
    BY <1>1, <2>2 DEF DrawnNow, Active, Offered
  <2>3. CASE q # r
    BY <1>1, <2>1, <2>3 DEF DrawsKeepTheirRecord, Drawn, Won
  <2>. QED
    BY <2>2, <2>3
<1>. QED
  BY <1>2, <1>3, <1>4

LEMMA NextRecordInv == RecordInv /\ [Next]_vars => RecordInv'
<1>. SUFFICES ASSUME RecordInv, [Next]_vars PROVE RecordInv'
  OBVIOUS
<1>1. TypeOK /\ TypeOK'
  BY NextTypeOK DEF RecordInv
<1>2. CASE \E e \in Events, s \in Settings :
              CreateEvent(e, s) \/ ReplaceEvent(e, s) \/ UpdateLotterySettings(e, s)
  BY <1>1, <1>2, EventsRecordInv
<1>3. CASE \E p \in Prizes : (\E e \in Events : CreatePrize(p, e)) \/ DeletePrize(p)
  BY <1>1, <1>3, CreateRecordInv, DeleteRecordInv
<1>4. CASE \E a \in Adjustments :
              (\E p \in Prizes : OpenRestock(a, p)) \/ (\E d \in Deltas : RestockPrize(a, d))
  BY <1>1, <1>4, OpenRecordInv, RestockRecordInv
<1>5. CASE \E r \in Refs : ForcedLoss(r) \/ WeightedLoss(r)
              \/ \E p \in Prizes : ForcedWin(r, p) \/ WeightedWin(r, p)
  BY <1>1, <1>5, DrawsAreNow, DrawsRecordInv
<1>6. CASE (\E t \in 0..MaxTime : SetClock(t)) \/ UNCHANGED vars
  <2>1. UNCHANGED <<status, lottery, prize, ledger, draw, form, saved>>
    BY <1>6 DEF SetClock, vars, eventVars, ids
  <2>. QED
    BY <1>1, <2>1 DEF RecordInv, OneActiveEvent, Active, PrizesAreOnEvents,
       EntriesAreAcknowledged, DialogsAreOnPrizes, UndrawnAreEmpty, Drawn, Won,
       DrawsKeepTheirRecord, AcknowledgedChangesStand
<1>. QED
  BY <1>2, <1>3, <1>4, <1>5, <1>6 DEF Next

LEMMA RecordKept == Spec => []RecordInv
  BY InitRecordInv, NextRecordInv, PTL DEF Spec

\* Creating and replacing events never leaves two of them active.
THEOREM OneEvent == Spec => []OneActiveEvent
<1>1. RecordInv => OneActiveEvent
  BY DEF RecordInv
<1>. QED
  BY <1>1, RecordKept, PTL

\* A recorded draw never loses the event, the lottery or the prize it names,
\* whatever staff edit, replace or delete afterwards.
THEOREM DrawsKept == Spec => []DrawsKeepTheirRecord
<1>1. RecordInv => DrawsKeepTheirRecord
  BY DEF RecordInv
<1>. QED
  BY <1>1, RecordKept, PTL

\* A stock change the engine answered "saved" stands as it was asked for until
\* its prize is deleted.
THEOREM ChangesStand == Spec => []AcknowledgedChangesStand
<1>1. RecordInv => AcknowledgedChangesStand
  BY DEF RecordInv
<1>. QED
  BY <1>1, RecordKept, PTL

-----------------------------------------------------------------------------
\* What one step may not do to a record.
LEMMA RestockStep ==
  RecordInv /\ [Next]_vars =>
    \A a \in Adjustments : ledger[a] = NoEntry /\ ledger'[a] # NoEntry => ~Spent(a)
<1>. SUFFICES ASSUME RecordInv, [Next]_vars, NEW a \in Adjustments,
                     ledger[a] = NoEntry, ledger'[a] # NoEntry
              PROVE  ~Spent(a)
  OBVIOUS
<1>1. CASE \E p \in Prizes, e \in Events : CreatePrize(p, e)
  BY <1>1 DEF CreatePrize, Fresh, RecordInv, TypeOK
<1>2. CASE \E b \in Adjustments, d \in Deltas : RestockPrize(b, d)
  <2>1. PICK b \in Adjustments, d \in Deltas : RestockPrize(b, d)
    BY <1>2
  <2>2. b = a
    BY <2>1 DEF RestockPrize, RecordInv, TypeOK
  <2>. QED
    BY <2>1, <2>2, RestockFindsItsEntry DEF RestockPrize
<1>3. CASE \E p \in Prizes : DeletePrize(p)
  BY <1>3 DEF DeletePrize
<1>4. CASE UNCHANGED ledger
  BY <1>4
<1>. QED
  BY <1>1, <1>2, <1>3, <1>4 DEF Next, CreateEvent, ReplaceEvent, UpdateLotterySettings,
     OpenRestock, ForcedLoss, WeightedLoss, ForcedWin, WeightedWin, InsertDraw, SetClock, vars

\* An id enters the ledger once, however often admin's request arrives and even
\* after its prize and its entry were deleted.
THEOREM RestockCounted == Spec => RestockAppliesOnce
  BY RecordKept, RestockStep, PTL DEF Spec, RestockAppliesOnce

\* What an archived event keeps in a step.
EventStays(e) ==
    /\ status'[e] = "archived" /\ lottery'[e] = lottery[e]
    /\ \A r \in Refs : draw[r] # draw'[r] => draw'[r].campaign # e /\ draw'[r].lottery # e
    /\ \A p \in Prizes : prize[p].event = e =>
        /\ prize'[p] = prize[p]
        /\ \A a \in Adjustments : p \in {ledger[a].prize, ledger'[a].prize} =>
            ledger'[a] = ledger[a]

LEMMA ArchivedStep ==
  RecordInv /\ [Next]_vars => \A e \in Events : status[e] = "archived" => EventStays(e)
<1>. SUFFICES ASSUME RecordInv, [Next]_vars, NEW e \in Events, status[e] = "archived"
              PROVE  EventStays(e)
  OBVIOUS
<1>. USE DEF RecordInv
<1>0. ASSUME NEW q \in Prizes, prize[q].event # e, UNCHANGED <<status, lottery, draw>>,
             \A p \in Prizes \ {q} : prize'[p] = prize[p],
             \A a \in Adjustments :
               \/ ledger'[a] = ledger[a]
               \/ ledger[a].prize = None /\ ledger'[a].prize = q
               \/ ledger[a].prize = q /\ ledger'[a].prize = None
      PROVE  EventStays(e)
  <2>1. SUFFICES ASSUME NEW p \in Prizes, prize[p].event = e
                 PROVE  /\ prize'[p] = prize[p]
                        /\ \A a \in Adjustments : p \in {ledger[a].prize, ledger'[a].prize} =>
                            ledger'[a] = ledger[a]
    BY <1>0 DEF EventStays
  <2>2. p # q /\ p # None
    BY <1>0, <2>1, NoneAssumption
  <2>. QED
    BY <1>0, <2>2
<1>1. CASE \E f \in Events, s \in Settings :
              CreateEvent(f, s) \/ ReplaceEvent(f, s) \/ UpdateLotterySettings(f, s)
  BY <1>1 DEF CreateEvent, ReplaceEvent, UpdateLotterySettings, StatusAfterReplace, Active,
     ids, TypeOK, EventStays
<1>2. ASSUME NEW q \in Prizes, NEW f \in Events, CreatePrize(q, f)
      PROVE  EventStays(e)
  <2>1. /\ UNCHANGED <<status, lottery, draw>>
        /\ \A p \in Prizes \ {q} : prize'[p] = prize[p]
        /\ prize[q].event = None
    BY <1>2 DEF CreatePrize, eventVars, TypeOK, PrizesAreOnEvents
  <2>2. \A a \in Adjustments :
          \/ ledger'[a] = ledger[a]
          \/ ledger[a] = NoEntry /\ ledger'[a].prize = q
    <3>1. CASE UNCHANGED ledger
      BY <3>1
    <3>2. CASE \E a \in Adjustments, n \in 1..MaxDelta :
                 /\ Fresh(a)
                 /\ ledger' = [ledger EXCEPT ![a] = [prize |-> q, delta |-> n]]
      <4>1. \A a \in Adjustments : Fresh(a) => ledger[a] = NoEntry
        BY DEF Fresh, Spent, EntriesAreAcknowledged, TypeOK, Entry, AcknowledgedChangesStand
      <4>. QED
        BY <3>2, <4>1 DEF TypeOK
    <3>. QED
      BY <1>2, <3>1, <3>2 DEF CreatePrize
  <2>. QED
    BY <1>0, <2>1, <2>2, NoneAssumption DEF NoEntry
<1>3. ASSUME NEW q \in Prizes, OnCurrentEvent(q)
      PROVE  prize[q].event # e
  BY <1>3 DEF OnCurrentEvent, Active
<1>4. ASSUME NEW q \in Prizes, DeletePrize(q)
      PROVE  EventStays(e)
  <2>1. UNCHANGED <<status, lottery, draw>> /\ OnCurrentEvent(q)
    BY <1>4 DEF DeletePrize, eventVars
  <2>2. \A p \in Prizes \ {q} : prize'[p] = prize[p]
    BY <1>4 DEF DeletePrize, TypeOK
  <2>3. \A a \in Adjustments :
          \/ ledger'[a] = ledger[a]
          \/ ledger[a].prize = q /\ ledger'[a] = NoEntry
    <3>1. CASE Referenced(q)
      BY <1>4, <3>1 DEF DeletePrize
    <3>2. CASE ~Referenced(q)
      BY <1>4, <3>2 DEF DeletePrize
    <3>. QED
      BY <3>1, <3>2
  <2>. QED
    BY <1>0, <1>3, <2>1, <2>2, <2>3 DEF NoEntry
<1>5. ASSUME NEW b \in Adjustments, NEW d \in Deltas, RestockPrize(b, d)
      PROVE  EventStays(e)
  <2>1. /\ UNCHANGED <<status, lottery, draw, prize>>
        /\ form[b] \in Prizes /\ OnCurrentEvent(form[b])
    BY <1>5 DEF RestockPrize, RequireCurrentPrize, eventVars, TypeOK
  <2>2. \A a \in Adjustments :
          \/ ledger'[a] = ledger[a]
          \/ ledger[a] = NoEntry /\ ledger'[a].prize = form[b]
    BY <1>5 DEF RestockPrize, CanApply, TypeOK
  <2>. QED
    BY <1>0, <1>3, <2>1, <2>2 DEF NoEntry
<1>6. ASSUME NEW r \in Refs, NEW row \in DrawRow, InsertDraw(r, row), DrawnNow(row)
      PROVE  EventStays(e)
  <2>1. row.campaign # e /\ row.lottery # e
    BY <1>6, NoneAssumption DEF DrawnNow, Active
  <2>. QED
    BY <1>6, <2>1 DEF EventStays, InsertDraw, eventVars, TypeOK
<1>7. CASE \E r \in Refs : ForcedLoss(r) \/ WeightedLoss(r)
              \/ \E p \in Prizes : ForcedWin(r, p) \/ WeightedWin(r, p)
  BY <1>6, <1>7, DrawsAreNow
<1>8. CASE \/ \E a \in Adjustments, p \in Prizes : OpenRestock(a, p)
           \/ \E t \in 0..MaxTime : SetClock(t)
           \/ UNCHANGED vars
  BY <1>8 DEF OpenRestock, SetClock, vars, eventVars, EventStays
<1>. QED
  BY <1>1, <1>2, <1>4, <1>5, <1>7, <1>8 DEF Next

\* Once replaced, an event keeps its settings, its prizes, their stock and its
\* draws, whatever requests are still on their way to it.
THEOREM ArchivedKept == Spec => ArchivedEventsStay
<1>1. RecordInv /\ [Next]_vars =>
        [\A e \in Events : status[e] = "archived" =>
            /\ status'[e] = "archived" /\ lottery'[e] = lottery[e]
            /\ \A r \in Refs : draw[r] # draw'[r] =>
                draw'[r].campaign # e /\ draw'[r].lottery # e
            /\ \A p \in Prizes : prize[p].event = e =>
                /\ prize'[p] = prize[p]
                /\ \A a \in Adjustments : p \in {ledger[a].prize, ledger'[a].prize} =>
                    ledger'[a] = ledger[a]]_vars
  BY ArchivedStep DEF EventStays
<1>. QED
  BY <1>1, RecordKept, PTL DEF Spec, ArchivedEventsStay

-----------------------------------------------------------------------------
(***************************************************************************)
(* EventLottery implements PrizeStock: the ledger and the draws, of which  *)
(* no row counts anything, behave as one counter per prize.                *)
(***************************************************************************)

USE NoneAssumption, BoundsAssumption

\* The mapped state.
Stage == [p \in Prizes |-> IF prize[p].state = "unborn" THEN "future"
                           ELSE IF OnCurrentEvent(p) THEN "offered" ELSE "retired"]
Left == [p \in Prizes |-> Remaining(p)]
WonUnits == [p \in Prizes |-> Cardinality(Wins(p))]

\* Both halves of what a step may rely on.
BothInv == RecordInv /\ StockInv

LEMMA InitStock == Init => Stock!Init
<1>. SUFFICES ASSUME Init PROVE Stock!Init
  OBVIOUS
<1>1. \A p \in Prizes : Added(p) = {} /\ Removed(p) = {} /\ Wins(p) = {}
  BY DEF Init, Added, Removed, Wins, NoEntry, NoDraw
<1>2. \A p \in Prizes : Remaining(p) = 0 /\ Cardinality(Wins(p)) = 0
  BY <1>1, FS_EmptySet DEF Remaining
<1>3. \A p \in Prizes : prize[p].state = "unborn"
  BY DEF Init
<1>. QED
  BY <1>2, <1>3 DEF Stock!Init

\* Two states alike in what the mapping reads are one mapped state.
LEMMA StockStutters ==
  ASSUME UNCHANGED <<ledger, draw>>,
         \A p \in Prizes : Stage'[p] = Stage[p]
  PROVE  UNCHANGED Stock!vars
<1>1. \A p \in Prizes : Remaining(p)' = Remaining(p) /\ Wins(p)' = Wins(p)
  BY StockUnchanged
<1>. QED
  BY <1>1 DEF Stock!vars, Stage

\* A new event opens with no prize on it, and closes the one before.
LEMMA EventsAreStockSteps ==
  ASSUME BothInv, NEW e \in Events, NEW s \in Settings,
         CreateEvent(e, s) \/ ReplaceEvent(e, s) \/ UpdateLotterySettings(e, s)
  PROVE  [Stock!Next]_(Stock!vars)
<1>. USE DEF BothInv, RecordInv
<1>1. UNCHANGED <<prize, ledger, draw>>
  BY DEF CreateEvent, ReplaceEvent, UpdateLotterySettings
<1>2. \A p \in Prizes : Remaining(p)' = Remaining(p) /\ Wins(p)' = Wins(p)
  BY <1>1, StockUnchanged
<1>3. \A p \in Prizes : Offered(p) => prize[p].event # None /\ status[prize[p].event] # "unborn"
  BY DEF PrizesAreOnEvents, Offered
<1>4. CASE CreateEvent(e, s) \/ UpdateLotterySettings(e, s)
  <2>1. \A p \in Prizes : OnCurrentEvent(p)' <=> OnCurrentEvent(p)
    BY <1>1, <1>3, <1>4 DEF OnCurrentEvent, Offered, Active, CreateEvent,
       UpdateLotterySettings, TypeOK
  <2>. QED
    BY <1>1, <2>1, StockStutters DEF Stage
<1>5. CASE ReplaceEvent(e, s)
  <2>1. \A p \in Prizes : ~OnCurrentEvent(p)'
    BY <1>1, <1>3, <1>5 DEF OnCurrentEvent, Offered, Active, ReplaceEvent, StatusAfterReplace
  <2>2. Stage' = [p \in Prizes |-> IF Stage[p] = "offered" THEN "retired" ELSE Stage[p]]
    BY <1>1, <2>1 DEF Stage
  <2>. QED
    BY <1>2, <2>2 DEF Stage, Stock!Next, Stock!Close
<1>. QED
  BY <1>4, <1>5

LEMMA CreateIsOffer ==
  ASSUME BothInv, NEW p \in Prizes, NEW e \in Events, CreatePrize(p, e)
  PROVE  Stock!Offer(p)
<1>. USE DEF BothInv, RecordInv
<1>1. /\ prize[p].state = "unborn" /\ Active(e) /\ UNCHANGED <<status, draw>>
      /\ prize'[p] = [state |-> "offered", event |-> e]
      /\ \A q \in Prizes \ {p} : prize'[q] = prize[q]
  BY DEF CreatePrize, eventVars, TypeOK
<1>2. Stage[p] = "future" /\ Stage' = [Stage EXCEPT ![p] = "offered"]
  <2>1. Stage[p] = "future" /\ Stage'[p] = "offered"
    BY <1>1 DEF Stage, OnCurrentEvent, Offered, Active
  <2>2. ASSUME NEW q \in Prizes \ {p}
        PROVE  Stage'[q] = Stage[q]
    BY <1>1 DEF Stage, OnCurrentEvent, Offered, Active
  <2>. QED
    BY <2>1, <2>2 DEF Stage
<1>3. \A q \in Prizes : Wins(q)' = Wins(q)
  BY <1>1 DEF Wins
<1>4. /\ \A q \in Prizes \ {p} : Remaining(q)' = Remaining(q)
      /\ Remaining(p)' \in Nat
  <2>1. Remaining(p) \in Nat
    BY RemainingIsInt DEF StockInv, StockNonNegative
  <2>2. CASE UNCHANGED ledger
    BY <1>1, <2>1, <2>2, StockUnchanged
  <2>3. ASSUME NEW a \in Adjustments, NEW n \in 1..MaxDelta, Fresh(a),
               ledger' = [ledger EXCEPT ![a] = [prize |-> p, delta |-> n]]
        PROVE  /\ \A q \in Prizes \ {p} : Remaining(q)' = Remaining(q)
               /\ Remaining(p)' \in Nat
    <3>1. ledger[a] = NoEntry /\ n \in Deltas
      BY <2>3 DEF Fresh, StockInv, Deltas
    <3>2. /\ Remaining(p)' = Remaining(p) + n
          /\ \A q \in Prizes \ {p} : Remaining(q)' = Remaining(q)
      BY <1>1, <2>3, <3>1, EntryMovesStock
    <3>. QED
      BY <2>1, <3>2
  <2>. QED
    BY <2>2, <2>3 DEF CreatePrize
<1>. QED
  BY <1>2, <1>3, <1>4 DEF Stage, Stock!Offer

LEMMA DeleteIsRetire ==
  ASSUME BothInv, NEW p \in Prizes, DeletePrize(p)
  PROVE  Stock!Retire(p)
<1>. USE DEF BothInv, RecordInv
<1>1. OnCurrentEvent(p) /\ prize[p].state = "offered" /\ UNCHANGED <<status, draw>>
  BY DEF DeletePrize, eventVars, OnCurrentEvent, Offered
<1>2. /\ prize'[p].state \in {"removed", "deleted"}
      /\ \A q \in Prizes \ {p} : prize'[q] = prize[q]
  BY DEF DeletePrize, TypeOK, PrizeRow
<1>3. Stage[p] = "offered" /\ Stage' = [Stage EXCEPT ![p] = "retired"]
  BY <1>1, <1>2 DEF Stage, OnCurrentEvent, Offered, Active
<1>4. \A q \in Prizes : Wins(q)' = Wins(q)
  BY <1>1 DEF Wins
<1>5. Referenced(p) <=> Cardinality(Wins(p)) # 0
  BY UnitsAreFinite, FS_EmptySet DEF Referenced
<1>6. /\ Remaining(p)' = IF Cardinality(Wins(p)) = 0 THEN 0 ELSE Remaining(p)
      /\ \A q \in Prizes \ {p} : Remaining(q)' = Remaining(q)
  <2>1. CASE Referenced(p)
    BY <1>1, <1>5, <2>1, StockUnchanged DEF DeletePrize
  <2>2. CASE ~Referenced(p)
    <3>1. ledger' = [a \in Adjustments |-> IF ledger[a].prize = p THEN NoEntry ELSE ledger[a]]
      BY <2>2 DEF DeletePrize
    <3>. QED
      BY <1>1, <1>5, <2>2, <3>1, DeleteMovesStock DEF Referenced
  <2>. QED
    BY <2>1, <2>2
<1>. QED
  BY <1>3, <1>4, <1>6 DEF Stage, Stock!Retire

LEMMA RestockIsAdjust ==
  ASSUME BothInv, NEW a \in Adjustments, NEW d \in Deltas, RestockPrize(a, d)
  PROVE  [Stock!Next]_(Stock!vars)
<1>. USE DEF BothInv, RecordInv
<1>1. /\ UNCHANGED <<status, prize, draw>>
      /\ form[a] \in Prizes /\ OnCurrentEvent(form[a]) /\ prize[form[a]].state = "offered"
  BY DEF RestockPrize, RequireCurrentPrize, OnCurrentEvent, Offered, eventVars, TypeOK
<1>2. Stage' = Stage
  BY <1>1 DEF Stage, OnCurrentEvent, Offered, Active
<1>3. CASE UNCHANGED ledger
  BY <1>1, <1>2, <1>3, StockStutters
<1>4. CASE /\ CanApply(a, form[a], d)
           /\ ledger' = [ledger EXCEPT ![a] = [prize |-> form[a], delta |-> d]]
  <2>. PICK p \in Prizes : p = form[a]
    BY <1>1
  <2>1. /\ Remaining(p)' = Remaining(p) + d
        /\ \A q \in Prizes \ {p} : Remaining(q)' = Remaining(q)
    BY <1>1, <1>4, EntryMovesStock DEF CanApply
  <2>2. Remaining(p)' \in Nat
    BY <1>1, <1>4, <2>1, RemainingIsInt DEF CanApply, Deltas
  <2>3. \A q \in Prizes : Wins(q)' = Wins(q)
    BY <1>1 DEF Wins
  <2>4. Stage[p] = "offered"
    BY <1>1 DEF Stage
  <2>5. /\ Left' = [Left EXCEPT ![p] = Left'[p]] /\ Left'[p] \in Nat
        /\ WonUnits' = WonUnits
    BY <2>1, <2>2, <2>3 DEF Left, WonUnits
  <2>6. Stock!Adjust(p)
    BY <1>2, <2>4, <2>5 DEF Stage, Left, WonUnits, Stock!Adjust
  <2>. QED
    BY <1>1, <2>6 DEF Stock!Next
<1>. QED
  BY <1>3, <1>4 DEF RestockPrize

\* A draw wins one unit of a prize on offer or leaves the stock alone.
LEMMA DrawsAreStockSteps ==
  ASSUME BothInv, NEW r \in Refs, NEW row \in DrawRow, InsertDraw(r, row), row.at # -1,
         DrawnNow(row), \A p \in Prizes : row.prize = p => Remaining(p) > 0 /\ OnCurrentEvent(p)
  PROVE  [Stock!Next]_(Stock!vars)
<1>. USE DEF BothInv, RecordInv
<1>1. /\ UNCHANGED <<status, prize, ledger>>
      /\ draw' = [draw EXCEPT ![r] = row]
      /\ draw[r].prize = None
  BY DEF InsertDraw, eventVars, UndrawnAreEmpty, NoDraw
<1>2. Stage' = Stage
  BY <1>1 DEF Stage, OnCurrentEvent, Offered, Active
<1>3. /\ \A q \in Prizes : row.prize # q => Remaining(q)' = Remaining(q)
      /\ \A q \in Prizes : row.prize = q => /\ Remaining(q)' = Remaining(q) - 1
                                            /\ Cardinality(Wins(q)') = Cardinality(Wins(q)) + 1
  BY <1>1, DrawMovesStock
<1>4. \A q \in Prizes : row.prize # q => Wins(q)' = Wins(q)
  BY <1>1 DEF Wins, TypeOK
<1>5. CASE row.prize \in Prizes
  <2>. PICK p \in Prizes : p = row.prize
    BY <1>5
  <2>1. Stage[p] = "offered" /\ Remaining(p) > 0
    BY DEF Stage, OnCurrentEvent, Offered
  <2>2. /\ Left' = [Left EXCEPT ![p] = @ - 1]
        /\ WonUnits' = [WonUnits EXCEPT ![p] = @ + 1]
    BY <1>3, <1>4 DEF Left, WonUnits
  <2>3. Stock!Win(p)
    BY <1>2, <2>1, <2>2 DEF Stage, Left, WonUnits, Stock!Win
  <2>. QED
    BY <1>5, <2>3 DEF Stock!Next
<1>6. CASE row.prize \notin Prizes
  BY <1>2, <1>3, <1>4, <1>6 DEF Stage, Stock!vars
<1>. QED
  BY <1>5, <1>6

LEMMA NextStock == BothInv /\ [Next]_vars => [Stock!Next]_(Stock!vars)
<1>. SUFFICES ASSUME BothInv, [Next]_vars PROVE [Stock!Next]_(Stock!vars)
  OBVIOUS
<1>. USE DEF BothInv, RecordInv
<1>1. CASE \E e \in Events, s \in Settings :
              CreateEvent(e, s) \/ ReplaceEvent(e, s) \/ UpdateLotterySettings(e, s)
  BY <1>1, EventsAreStockSteps
<1>2. CASE \E p \in Prizes : (\E e \in Events : CreatePrize(p, e)) \/ DeletePrize(p)
  BY <1>2, CreateIsOffer, DeleteIsRetire DEF Stock!Next
<1>3. CASE \E a \in Adjustments, d \in Deltas : RestockPrize(a, d)
  BY <1>3, RestockIsAdjust
<1>4. CASE \E r \in Refs : ForcedLoss(r) \/ WeightedLoss(r)
  <2>1. PICK r \in Refs, e \in Events \cup {None} :
          InsertDraw(r, LossRow(e)) /\ (e # None => Active(e))
    BY <1>4 DEF ForcedLoss, WeightedLoss, ActiveOrNone
  <2>2. /\ LossRow(e) \in DrawRow /\ LossRow(e).at # -1 /\ DrawnNow(LossRow(e))
        /\ LossRow(e).prize = None
    BY <2>1 DEF TypeOK, LossRow, DrawRow, DrawnNow
  <2>. QED
    BY <2>1, <2>2, DrawsAreStockSteps
<1>5. CASE \E r \in Refs, p \in Prizes : ForcedWin(r, p) \/ WeightedWin(r, p)
  <2>1. PICK r \in Refs, p \in Prizes, e \in Events :
          /\ InsertDraw(r, WinRow(e, p)) /\ Active(e)
          /\ Offered(p) /\ prize[p].event = e /\ Remaining(p) > 0
    BY <1>5 DEF ForcedWin, WeightedWin, Eligible, OnCurrentEvent
  <2>2. /\ WinRow(e, p) \in DrawRow /\ WinRow(e, p).at # -1 /\ DrawnNow(WinRow(e, p))
        /\ WinRow(e, p).prize = p
    BY <2>1 DEF TypeOK, WinRow, DrawRow, DrawnNow, Active, Offered
  <2>3. OnCurrentEvent(p)
    BY <2>1 DEF OnCurrentEvent
  <2>. QED
    BY <2>1, <2>2, <2>3, DrawsAreStockSteps
<1>6. CASE \/ \E a \in Adjustments, p \in Prizes : OpenRestock(a, p)
           \/ \E t \in 0..MaxTime : SetClock(t)
           \/ UNCHANGED vars
  <2>1. UNCHANGED <<status, prize, ledger, draw>>
    BY <1>6 DEF OpenRestock, SetClock, vars, eventVars
  <2>2. \A p \in Prizes : Stage'[p] = Stage[p]
    BY <2>1 DEF Stage, OnCurrentEvent, Offered, Active
  <2>. QED
    BY <2>1, <2>2, StockStutters
<1>. QED
  BY <1>1, <1>2, <1>3, <1>4, <1>5, <1>6 DEF Next

\* Computing stock from the ledger and the draws on every read is as good as
\* keeping a counter: whatever staff, guests and retries do, each prize's units
\* move by whole changes and single wins, and stop for good when it leaves.
THEOREM LedgerCountsStock == Spec => StockSpec
<1>1. Spec => []StockInv
  BY InitStockInv, NextStockInv, PTL DEF Spec
<1>2. RecordInv /\ StockInv /\ [Next]_vars => [Stock!Next]_(Stock!vars)
  BY NextStock DEF BothInv
<1>. QED
  BY <1>1, <1>2, RecordKept, InitStock, PTL DEF Spec, StockSpec, Stock!Spec

=============================================================================
