------------------------- MODULE EventLotteryProofs -------------------------
(***************************************************************************)
(* Theorems of EventLottery, for any sets of events, prizes, ledger ids    *)
(* and ticket numbers.                                                     *)
(***************************************************************************)
EXTENDS EventLottery, FiniteSetTheorems, WellFoundedInduction, TLAPS

USE NoneAssumption, BoundsAssumption

-----------------------------------------------------------------------------
(***************************************************************************)
(* Types.                                                                  *)
(***************************************************************************)

LEMMA InitTypeOK == Init => TypeOK
  BY DEF Init, TypeOK, SettingsRow, PrizeRow, Entry, DrawRow, NoEntry, NoDraw

\* One lemma per group of actions: each preserves the types.
LEMMA EventsTypeOK ==
  ASSUME TypeOK, NEW e \in Events, NEW s \in Settings,
         CreateEvent(e, s) \/ ReplaceEvent(e, s) \/ UpdateLotterySettings(e, s)
  PROVE  TypeOK'
<1>1. s \in SettingsRow
  OBVIOUS
<1>2. status' \in [Events -> {"unborn", "active", "archived"}]
  BY DEF TypeOK, CreateEvent, ReplaceEvent, UpdateLotterySettings, StatusAfterReplace, Active
<1>3. lottery' \in [Events -> SettingsRow]
  BY <1>1 DEF TypeOK, CreateEvent, ReplaceEvent, UpdateLotterySettings
<1>. QED
  BY <1>2, <1>3 DEF TypeOK, CreateEvent, ReplaceEvent, UpdateLotterySettings, ids

LEMMA PrizesTypeOK ==
  ASSUME TypeOK, NEW p \in Prizes,
         (\E e \in Events : CreatePrize(p, e)) \/ DeletePrize(p)
  PROVE  TypeOK'
<1>1. CASE \E e \in Events : CreatePrize(p, e)
  <2>1. PICK e \in Events : CreatePrize(p, e)
    BY <1>1
  <2>2. prize' \in [Prizes -> PrizeRow]
    BY <2>1 DEF CreatePrize, TypeOK, PrizeRow
  <2>3. ledger' \in [Adjustments -> Entry] /\ saved' \in SUBSET (Adjustments \X Deltas)
    BY <2>1 DEF CreatePrize, TypeOK, Entry, Deltas
  <2>. QED
    BY <2>1, <2>2, <2>3 DEF CreatePrize, TypeOK, eventVars
<1>2. CASE DeletePrize(p)
  <2>1. prize' \in [Prizes -> PrizeRow]
    BY <1>2 DEF DeletePrize, TypeOK, PrizeRow
  <2>2. ledger' \in [Adjustments -> Entry]
    BY <1>2 DEF DeletePrize, TypeOK, Entry, NoEntry
  <2>. QED
    BY <1>2, <2>1, <2>2 DEF DeletePrize, TypeOK, eventVars, ids
<1>. QED
  BY <1>1, <1>2

LEMMA RestocksTypeOK ==
  ASSUME TypeOK, NEW a \in Adjustments,
         (\E p \in Prizes : OpenRestock(a, p)) \/ (\E d \in Deltas : RestockPrize(a, d))
  PROVE  TypeOK'
<1>1. CASE \E p \in Prizes : OpenRestock(a, p)
  BY <1>1 DEF OpenRestock, TypeOK, eventVars
<1>2. CASE \E d \in Deltas : RestockPrize(a, d)
  <2>1. PICK d \in Deltas : RestockPrize(a, d)
    BY <1>2
  <2>2. ledger' \in [Adjustments -> Entry] /\ saved' \in SUBSET (Adjustments \X Deltas)
    BY <2>1 DEF RestockPrize, TypeOK, Entry, RequireCurrentPrize
  <2>. QED
    BY <2>1, <2>2 DEF RestockPrize, TypeOK, eventVars
<1>. QED
  BY <1>1, <1>2

LEMMA InsertTypeOK ==
  ASSUME TypeOK, NEW r \in Refs, NEW row \in DrawRow, InsertDraw(r, row)
  PROVE  TypeOK'
  BY DEF InsertDraw, TypeOK, eventVars, ids

\* Every draw inserts one well-formed row: a loss or the win of a prize.
LEMMA DrawsInsertRows ==
  ASSUME TypeOK, NEW r \in Refs,
         ForcedLoss(r) \/ WeightedLoss(r)
           \/ \E p \in Prizes : ForcedWin(r, p) \/ WeightedWin(r, p)
  PROVE  \E row \in DrawRow : InsertDraw(r, row) /\ row.at # -1
<1>1. \A e \in Events \cup {None} : LossRow(e) \in DrawRow /\ LossRow(e).at # -1
  BY DEF TypeOK, LossRow, DrawRow
<1>2. \A e \in Events, p \in Prizes : WinRow(e, p) \in DrawRow /\ WinRow(e, p).at # -1
  BY DEF TypeOK, WinRow, DrawRow
<1>3. ActiveOrNone \subseteq Events \cup {None}
  BY DEF ActiveOrNone
<1>4. CASE ForcedLoss(r) \/ WeightedLoss(r)
  BY <1>1, <1>3, <1>4 DEF ForcedLoss, WeightedLoss
<1>5. ASSUME NEW p \in Prizes, ForcedWin(r, p)
      PROVE  \E row \in DrawRow : InsertDraw(r, row) /\ row.at # -1
  <2>1. prize[p].event \in Events
    BY <1>5 DEF ForcedWin, OnCurrentEvent, Offered, Active, TypeOK, PrizeRow
  <2>. QED
    BY <1>2, <1>5, <2>1 DEF ForcedWin
<1>6. ASSUME NEW p \in Prizes, WeightedWin(r, p)
      PROVE  \E row \in DrawRow : InsertDraw(r, row) /\ row.at # -1
  BY <1>2, <1>6 DEF WeightedWin
<1>. QED
  BY <1>4, <1>5, <1>6

LEMMA NextTypeOK == TypeOK /\ [Next]_vars => TypeOK'
<1>. SUFFICES ASSUME TypeOK, [Next]_vars PROVE TypeOK'
  OBVIOUS
<1>1. CASE \E e \in Events, s \in Settings :
              CreateEvent(e, s) \/ ReplaceEvent(e, s) \/ UpdateLotterySettings(e, s)
  BY <1>1, EventsTypeOK
<1>2. CASE \E p \in Prizes : (\E e \in Events : CreatePrize(p, e)) \/ DeletePrize(p)
  BY <1>2, PrizesTypeOK
<1>3. CASE \E a \in Adjustments :
              (\E p \in Prizes : OpenRestock(a, p)) \/ (\E d \in Deltas : RestockPrize(a, d))
  BY <1>3, RestocksTypeOK
<1>4. CASE \E r \in Refs : ForcedLoss(r) \/ WeightedLoss(r)
              \/ \E p \in Prizes : ForcedWin(r, p) \/ WeightedWin(r, p)
  BY <1>4, DrawsInsertRows, InsertTypeOK
<1>5. CASE \E t \in 0..MaxTime : SetClock(t)
  BY <1>5 DEF SetClock, TypeOK, eventVars, ids
<1>6. CASE UNCHANGED vars
  BY <1>6 DEF vars, TypeOK
<1>. QED
  BY <1>1, <1>2, <1>3, <1>4, <1>5, <1>6 DEF Next

\* The tables only ever hold rows of their types.
THEOREM TypeCorrect == Spec => []TypeOK
  BY InitTypeOK, NextTypeOK, PTL DEF Spec

-----------------------------------------------------------------------------
(***************************************************************************)
(* Stock.  A prize's stock is a difference of cardinalities; each kind of  *)
(* write moves it by a known amount.                                       *)
(***************************************************************************)

LEMMA UnitsAreFinite ==
  ASSUME NEW p \in Prizes
  PROVE  /\ IsFiniteSet(Added(p)) /\ Cardinality(Added(p)) \in Nat
         /\ IsFiniteSet(Removed(p)) /\ Cardinality(Removed(p)) \in Nat
         /\ IsFiniteSet(Wins(p)) /\ Cardinality(Wins(p)) \in Nat
<1>1. IsFiniteSet(Adjustments \X (1..MaxDelta))
  <2>1. IsFiniteSet(1..MaxDelta)
    BY FS_Interval
  <2>. QED
    BY <2>1, FS_Product
<1>2. /\ Added(p) \in SUBSET (Adjustments \X (1..MaxDelta))
      /\ Removed(p) \in SUBSET (Adjustments \X (1..MaxDelta))
      /\ Wins(p) \in SUBSET Refs
  BY DEF Added, Removed, Wins
<1>. QED
  BY <1>1, <1>2, FS_Subset, FS_CardinalityType

COROLLARY RemainingIsInt == \A p \in Prizes : Remaining(p) \in Int
  BY UnitsAreFinite DEF Remaining

\* A set of units grows by n when one ledger id's n units join it.
LEMMA UnitsOfOneId ==
  ASSUME NEW S, IsFiniteSet(S), NEW a, NEW n \in Nat,
         \A k \in 1..n : <<a, k>> \notin S
  PROVE  Cardinality(S \cup ({a} \X (1..n))) = Cardinality(S) + n
<1>. DEFINE U == {a} \X (1..n)
<1>1. IsFiniteSet(U) /\ Cardinality(U) = n
  <2>1. IsFiniteSet(1..n) /\ Cardinality(1..n) = n
    BY FS_Interval
  <2>2. IsFiniteSet({a}) /\ Cardinality({a}) = 1
    BY FS_Singleton
  <2>3. IsFiniteSet(U) /\ Cardinality(U) = Cardinality({a}) * Cardinality(1..n)
    BY <2>1, <2>2, FS_Product
  <2>. QED
    BY <2>1, <2>2, <2>3
<1>2. Cardinality(S \cap U) = 0
  <2>1. S \cap U = {}
    OBVIOUS
  <2>. QED
    BY <2>1, FS_EmptySet
<1>3. Cardinality(S) \in Nat
  BY FS_CardinalityType
<1>4. Cardinality(S \cup U) = Cardinality(S) + Cardinality(U) - Cardinality(S \cap U)
  BY <1>1, FS_Union
<1>. HIDE DEF U
<1>5. Cardinality(S \cup U) = Cardinality(S) + n
  BY <1>1, <1>2, <1>3, <1>4
<1>. QED
  BY <1>5 DEF U

\* A new ledger entry moves its prize's stock by its delta and no other's.
LEMMA EntryMovesStock ==
  ASSUME TypeOK, NEW a \in Adjustments, NEW p \in Prizes, NEW d \in Deltas,
         ledger[a] = NoEntry,
         ledger' = [ledger EXCEPT ![a] = [prize |-> p, delta |-> d]],
         UNCHANGED draw
  PROVE  /\ Remaining(p)' = Remaining(p) + d
         /\ \A q \in Prizes \ {p} : Remaining(q)' = Remaining(q)
<1>1. \A q \in Prizes : Wins(q)' = Wins(q)
  BY DEF Wins
<1>2. \A q \in Prizes \ {p} : Added(q)' = Added(q) /\ Removed(q)' = Removed(q)
  BY DEF Added, Removed, NoEntry, TypeOK
<1>3. /\ \A k \in 1..MaxDelta : <<a, k>> \notin Added(p) /\ <<a, k>> \notin Removed(p)
      /\ d \in Int /\ d <= MaxDelta /\ -d <= MaxDelta
  BY DEF Added, Removed, NoEntry, Deltas
<1>4. CASE d > 0
  <2>1. Added(p)' = Added(p) \cup ({a} \X (1..d))
    BY <1>3, <1>4 DEF Added, NoEntry, TypeOK
  <2>2. Removed(p)' = Removed(p)
    BY <1>3, <1>4 DEF Removed, NoEntry, TypeOK
  <2>3. Cardinality(Added(p)') = Cardinality(Added(p)) + d
    <3>1. /\ d \in Nat /\ IsFiniteSet(Added(p))
          /\ \A k \in 1..d : <<a, k>> \notin Added(p)
      BY <1>3, <1>4, UnitsAreFinite
    <3>2. Cardinality(Added(p) \cup ({a} \X (1..d))) = Cardinality(Added(p)) + d
      BY ONLY <3>1, UnitsOfOneId
    <3>. QED
      BY <2>1, <3>2
  <2>. QED
    BY <1>1, <1>2, <1>3, <2>2, <2>3, UnitsAreFinite DEF Remaining
<1>5. CASE ~(d > 0)
  <2>1. Removed(p)' = Removed(p) \cup ({a} \X (1..(-d)))
    BY <1>3, <1>5 DEF Removed, NoEntry, TypeOK
  <2>2. Added(p)' = Added(p)
    BY <1>3, <1>5 DEF Added, NoEntry, TypeOK
  <2>3. Cardinality(Removed(p)') = Cardinality(Removed(p)) + (-d)
    <3>1. /\ (-d) \in Nat /\ IsFiniteSet(Removed(p))
          /\ \A k \in 1..(-d) : <<a, k>> \notin Removed(p)
      BY <1>3, <1>5, UnitsAreFinite
    <3>2. Cardinality(Removed(p) \cup ({a} \X (1..(-d)))) = Cardinality(Removed(p)) + (-d)
      BY ONLY <3>1, UnitsOfOneId
    <3>. QED
      BY <2>1, <3>2
  <2>. QED
    BY <1>1, <1>2, <1>3, <2>2, <2>3, UnitsAreFinite DEF Remaining
<1>. QED
  BY <1>4, <1>5

\* A draw takes one unit of the prize it wins, if any, and no other.
LEMMA DrawMovesStock ==
  ASSUME TypeOK, NEW r \in Refs, NEW row, draw[r].prize = None,
         draw' = [draw EXCEPT ![r] = row],
         UNCHANGED ledger
  PROVE  /\ \A q \in Prizes : row.prize # q => Remaining(q)' = Remaining(q)
         /\ \A q \in Prizes : row.prize = q => /\ Remaining(q)' = Remaining(q) - 1
                                               /\ Cardinality(Wins(q)') = Cardinality(Wins(q)) + 1
<1>1. \A q \in Prizes : Added(q)' = Added(q) /\ Removed(q)' = Removed(q)
  BY DEF Added, Removed
<1>2. ASSUME NEW q \in Prizes, row.prize # q
      PROVE  Remaining(q)' = Remaining(q)
  <2>1. Wins(q)' = Wins(q)
    BY <1>2 DEF Wins, TypeOK
  <2>. QED
    BY <1>1, <2>1 DEF Remaining
<1>3. ASSUME NEW q \in Prizes, row.prize = q
      PROVE  /\ Remaining(q)' = Remaining(q) - 1
             /\ Cardinality(Wins(q)') = Cardinality(Wins(q)) + 1
  <2>1. Wins(q)' = Wins(q) \cup {r} /\ r \notin Wins(q)
    BY <1>3 DEF Wins, TypeOK
  <2>2. Cardinality(Wins(q)') = Cardinality(Wins(q)) + 1
    BY <2>1, FS_AddElement, UnitsAreFinite
  <2>. QED
    BY <1>1, <2>2, UnitsAreFinite DEF Remaining
<1>. QED
  BY <1>2, <1>3

\* Deleting a prize nobody won empties its stock and leaves the others'.
LEMMA DeleteMovesStock ==
  ASSUME TypeOK, NEW p \in Prizes,
         ledger' = [a \in Adjustments |-> IF ledger[a].prize = p THEN NoEntry ELSE ledger[a]],
         UNCHANGED draw, Wins(p) = {}
  PROVE  /\ Remaining(p)' = 0
         /\ \A q \in Prizes \ {p} : Remaining(q)' = Remaining(q)
<1>1. \A q \in Prizes : Wins(q)' = Wins(q)
  BY DEF Wins
<1>2. \A q \in Prizes \ {p} : Added(q)' = Added(q) /\ Removed(q)' = Removed(q)
  BY DEF Added, Removed, NoEntry, TypeOK
<1>3. Added(p)' = {} /\ Removed(p)' = {}
  BY DEF Added, Removed, NoEntry, TypeOK
<1>. QED
  BY <1>1, <1>2, <1>3, FS_EmptySet DEF Remaining

\* The inductive invariant: ids not spent have no entry and numbers not drawn
\* have no row, so a write always adds and never overwrites.
StockInv ==
    /\ TypeOK
    /\ \A a \in Adjustments : ledger[a] # NoEntry => Spent(a)
    /\ \A r \in Refs : ~Drawn(r) => draw[r] = NoDraw
    /\ StockNonNegative

LEMMA StockUnchanged ==
  ASSUME UNCHANGED <<ledger, draw>>, NEW p \in Prizes
  PROVE  Remaining(p)' = Remaining(p) /\ Wins(p)' = Wins(p)
  BY DEF Remaining, Added, Removed, Wins

LEMMA InitStockInv == Init => StockInv
<1>. SUFFICES ASSUME Init PROVE StockInv
  OBVIOUS
<1>1. \A p \in Prizes : Added(p) = {} /\ Removed(p) = {} /\ Wins(p) = {}
  BY DEF Init, Added, Removed, Wins, NoEntry, NoDraw
<1>2. StockNonNegative
  BY <1>1, FS_EmptySet DEF StockNonNegative, Remaining
<1>3. /\ \A a \in Adjustments : ledger[a] # NoEntry => Spent(a)
      /\ \A r \in Refs : ~Drawn(r) => draw[r] = NoDraw
  BY DEF Init
<1>. QED
  BY <1>2, <1>3, InitTypeOK DEF StockInv

LEMMA NextStockInv == StockInv /\ [Next]_vars => StockInv'
<1>. SUFFICES ASSUME StockInv, [Next]_vars PROVE StockInv'
  OBVIOUS
<1>. USE DEF StockInv
<1>0. TypeOK'
  BY NextTypeOK
<1>1. ASSUME UNCHANGED <<ledger, draw>>, saved \subseteq saved'
      PROVE  StockInv'
  BY <1>0, <1>1, StockUnchanged DEF StockNonNegative, Drawn, Spent
<1>2. ASSUME NEW a \in Adjustments, NEW p \in Prizes, NEW d \in Deltas,
             ledger[a] = NoEntry, Remaining(p) + d >= 0,
             ledger' = [ledger EXCEPT ![a] = [prize |-> p, delta |-> d]],
             saved' = saved \cup {<<a, d>>}, UNCHANGED draw
      PROVE  StockInv'
  <2>1. StockNonNegative'
    BY <1>2, EntryMovesStock, RemainingIsInt DEF StockNonNegative
  <2>. QED
    BY <1>0, <1>2, <2>1 DEF Drawn, Spent, TypeOK
<1>3. ASSUME NEW p \in Prizes, NEW e \in Events, CreatePrize(p, e)
      PROVE  StockInv'
  <2>1. CASE UNCHANGED <<ledger, saved>>
    BY <1>1, <1>3, <2>1 DEF CreatePrize
  <2>2. CASE \E a \in Adjustments, q \in 1..MaxDelta :
               /\ Fresh(a)
               /\ ledger' = [ledger EXCEPT ![a] = [prize |-> p, delta |-> q]]
               /\ saved' = saved \cup {<<a, q>>}
    <3>1. \A q \in 1..MaxDelta : q \in Deltas /\ Remaining(p) + q >= 0
      BY RemainingIsInt DEF Deltas, StockNonNegative
    <3>. QED
      BY <1>2, <1>3, <2>2, <3>1 DEF CreatePrize, Fresh
  <2>. QED
    BY <1>3, <2>1, <2>2 DEF CreatePrize
<1>4. ASSUME NEW p \in Prizes, DeletePrize(p)
      PROVE  StockInv'
  <2>1. CASE Referenced(p)
    BY <1>1, <1>4, <2>1 DEF DeletePrize, ids
  <2>2. CASE ~Referenced(p)
    <3>1. StockNonNegative'
      BY <1>4, <2>2, DeleteMovesStock DEF DeletePrize, Referenced, StockNonNegative
    <3>2. \A a \in Adjustments : ledger'[a] # NoEntry => Spent(a)'
      BY <1>4, <2>2 DEF DeletePrize, Spent, ids
    <3>. QED
      BY <1>0, <1>4, <3>1, <3>2 DEF DeletePrize, Drawn
  <2>. QED
    BY <2>1, <2>2
<1>5. ASSUME NEW a \in Adjustments, NEW d \in Deltas, RestockPrize(a, d)
      PROVE  StockInv'
  <2>1. form[a] \in Prizes
    BY <1>5 DEF RestockPrize, RequireCurrentPrize, TypeOK
  <2>2. CASE UNCHANGED ledger
    BY <1>1, <1>5, <2>2 DEF RestockPrize
  <2>3. CASE /\ CanApply(a, form[a], d)
             /\ ledger' = [ledger EXCEPT ![a] = [prize |-> form[a], delta |-> d]]
    BY <1>2, <1>5, <2>1, <2>3 DEF RestockPrize, CanApply
  <2>. QED
    BY <1>5, <2>2, <2>3 DEF RestockPrize
<1>6. ASSUME NEW r \in Refs, NEW row \in DrawRow, InsertDraw(r, row), row.at # -1,
             \A p \in Prizes : row.prize = p => Remaining(p) > 0
      PROVE  StockInv'
  <2>1. draw[r].prize = None
    BY <1>6 DEF InsertDraw, NoDraw
  <2>2. /\ draw' = [draw EXCEPT ![r] = row] /\ UNCHANGED <<ledger, saved>>
    BY <1>6 DEF InsertDraw, ids
  <2>3. StockNonNegative'
    <3>1. \A q \in Prizes : row.prize # q => Remaining(q)' = Remaining(q)
      BY <2>1, <2>2, DrawMovesStock
    <3>2. \A q \in Prizes : row.prize = q => Remaining(q)' = Remaining(q) - 1
      BY <2>1, <2>2, DrawMovesStock
    <3>. QED
      BY <1>6, <3>1, <3>2, RemainingIsInt DEF StockNonNegative
  <2>4. \A q \in Refs : ~Drawn(q)' => draw'[q] = NoDraw
    BY <1>6, <2>2 DEF Drawn, TypeOK
  <2>. QED
    BY <1>0, <2>2, <2>3, <2>4 DEF Spent
<1>7. ASSUME NEW r \in Refs, ForcedLoss(r) \/ WeightedLoss(r)
      PROVE  StockInv'
  <2>1. PICK e \in Events \cup {None} : InsertDraw(r, LossRow(e))
    BY <1>7 DEF ForcedLoss, WeightedLoss, ActiveOrNone
  <2>2. LossRow(e) \in DrawRow /\ LossRow(e).at # -1 /\ LossRow(e).prize = None
    BY DEF TypeOK, LossRow, DrawRow
  <2>. QED
    BY <1>6, <2>1, <2>2
<1>8. ASSUME NEW r \in Refs, NEW p \in Prizes, ForcedWin(r, p) \/ WeightedWin(r, p)
      PROVE  StockInv'
  <2>1. PICK e \in Events : InsertDraw(r, WinRow(e, p)) /\ Remaining(p) > 0
    BY <1>8 DEF ForcedWin, WeightedWin, Eligible, OnCurrentEvent
  <2>2. WinRow(e, p) \in DrawRow /\ WinRow(e, p).at # -1 /\ WinRow(e, p).prize = p
    BY DEF TypeOK, WinRow, DrawRow
  <2>. QED
    BY <1>6, <2>1, <2>2
<1>9. ASSUME NEW e \in Events, NEW s \in Settings,
             CreateEvent(e, s) \/ ReplaceEvent(e, s) \/ UpdateLotterySettings(e, s)
      PROVE  StockInv'
  BY <1>1, <1>9 DEF CreateEvent, ReplaceEvent, UpdateLotterySettings, ids
<1>10. CASE \/ \E a \in Adjustments, p \in Prizes : OpenRestock(a, p)
            \/ \E t \in 0..MaxTime : SetClock(t)
            \/ UNCHANGED vars
  BY <1>1, <1>10 DEF OpenRestock, SetClock, vars, ids
<1>. QED
  BY <1>3, <1>4, <1>5, <1>7, <1>8, <1>9, <1>10 DEF Next

\* A prize's stock, the sum of its ledger less its wins, never goes below zero.
THEOREM StockCorrect == Spec => []StockNonNegative
<1>1. Spec => []StockInv
  BY InitStockInv, NextStockInv, PTL DEF Spec
<1>2. StockInv => StockNonNegative
  BY DEF StockInv
<1>. QED
  BY <1>1, <1>2, PTL

-----------------------------------------------------------------------------
(***************************************************************************)
(* The pause after a win in EventLottery: the draw compares instants with  *)
(* times kept in whole seconds, and the two are less than a second apart.  *)
(***************************************************************************)

\* Natural numbers below a bound have a largest.
LEMMA LargestNatural ==
  ASSUME NEW b \in Nat, NEW S, S \subseteq 0..b, S # {}
  PROVE  \E m \in S : \A n \in S : n <= m
<1>. DEFINE T == {b - n : n \in S}
            Less == {ss \in Nat \X Nat : ss[1] < ss[2]}
<1>1. \A n \in S : n \in Int /\ b - n \in Nat
  OBVIOUS
<1>2. T \subseteq Nat /\ T # {}
  BY <1>1
<1>3. IsWellFoundedOn(Less, Nat)
  BY NatLessThanWellFounded DEF OpToRel
<1>4. PICK x \in T : \A y \in T : ~ (<<y, x>> \in Less)
  <2>. HIDE DEF Less, T
  <2>. QED
    BY ONLY <1>2, <1>3, WFMin
<1>5. PICK m \in S : x = b - m
  OBVIOUS
<1>6. ASSUME NEW n \in S
      PROVE  n <= m
  <2>1. b - n \in T /\ b - n \in Nat /\ b - m \in Nat
    BY <1>1
  <2>2. ~ (b - n < b - m)
    BY <1>4, <1>5, <2>1
  <2>. QED
    BY <1>1, <2>2
<1>. QED
  BY <1>6

\* A whole number of seconds is less than one second behind its instant.
LEMMA SecondsRoundDown ==
  ASSUME NEW at \in Nat, NEW t \in Nat \ {0}
  PROVE  at \div t \in Nat /\ (at \div t) * t <= at /\ at < (at \div t + 1) * t
  OBVIOUS

LEMMA LaterSecond ==
  ASSUME NEW m \in Nat, NEW n \in Nat, NEW t \in Nat, n <= m
  PROVE  n * t <= m * t
  OBVIOUS

LEMMA PauseArithmetic ==
  ASSUME NEW n \in Int, NEW at \in Int, NEW q \in Nat, NEW m \in Nat, NEW c \in Nat,
         NEW t \in Nat \ {0},
         q * t <= m * t, at < (q + 1) * t, n - m * t >= c * t
  PROVE  n - at > (c - 1) * t
  OBVIOUS

\* Among the wins of a lottery there is one no other is later than, to the
\* second: the query's last win.
LEMMA LastWin ==
  ASSUME TypeOK, NEW e \in Events, NEW q \in Refs, Won(q), draw[q].lottery = e,
         \A r \in Refs : Won(r) => Drawn(r)
  PROVE  \E r \in Refs :
            /\ Won(r) /\ draw[r].lottery = e
            /\ \A s \in Refs : Won(s) /\ draw[s].lottery = e => CreatedAt(s) <= CreatedAt(r)
<1>. DEFINE W == {r \in Refs : Won(r) /\ draw[r].lottery = e}
            S == {CreatedAt(r) : r \in W}
<1>1. \A r \in W : CreatedAt(r) \in 0..MaxTime
  <2>1. SUFFICES ASSUME NEW r \in W PROVE CreatedAt(r) \in 0..MaxTime
    OBVIOUS
  <2>2. draw[r].at \in 0..MaxTime
    BY DEF TypeOK, DrawRow, Drawn
  <2>3. draw[r].at \in Nat /\ TicksPerSecond \in Nat \ {0}
    BY <2>2, BoundsAssumption
  <2>4. CreatedAt(r) \in Nat /\ CreatedAt(r) <= draw[r].at
    BY <2>3 DEF CreatedAt
  <2>. QED
    BY <2>2, <2>4, BoundsAssumption
<1>2. S \subseteq 0..MaxTime /\ S # {} /\ MaxTime \in Nat
  BY <1>1, BoundsAssumption
<1>3. PICK m \in S : \A n \in S : n <= m
  <2>. HIDE DEF S
  <2>. QED
    BY <1>2, LargestNatural
<1>. QED
  BY <1>3

\* A draw that may win comes a whole pause after every win before it.
LEMMA SpacedStep ==
  ASSUME TypeOK, \A r \in Refs : Won(r) => Drawn(r),
         NEW r \in Refs, NEW q \in Refs, NEW p \in Prizes,
         Won(q), draw[q].lottery = draw'[r].lottery, WeightedWin(r, p),
         lottery[draw[q].lottery].cooldown > 0
  PROVE  now - draw[q].at > (lottery[draw[q].lottery].cooldown - 1) * TicksPerSecond
<1>1. PICK e \in Events : MayWin(e) /\ InsertDraw(r, WinRow(e, p))
  BY DEF WeightedWin
<1>2. draw[q].lottery = e
  BY <1>1 DEF InsertDraw, WinRow, TypeOK
<1>3. PICK w \in Refs :
        /\ Won(w) /\ draw[w].lottery = e
        /\ \A s \in Refs : Won(s) /\ draw[s].lottery = e => CreatedAt(s) <= CreatedAt(w)
  BY <1>2, LastWin
<1>. DEFINE c == lottery[e].cooldown
            t == TicksPerSecond
<1>4. CreatedAt(q) <= CreatedAt(w)
  BY <1>2, <1>3
<1>5. ~ (now - CreatedAt(w) * t < c * t)
  BY <1>1, <1>2, <1>3 DEF MayWin, WithinWinCooldown
<1>6. now \in Int /\ c \in Nat /\ t \in Nat \ {0} /\ draw[q].at \in Nat /\ draw[w].at \in Nat
  <2>1. draw[q].at # -1 /\ draw[w].at # -1
    BY <1>3 DEF Drawn
  <2>2. now \in Int /\ c \in Nat /\ draw[q].at \in Nat /\ draw[w].at \in Nat
    BY <2>1, BoundsAssumption DEF TypeOK, SettingsRow, DrawRow
  <2>. QED
    BY <2>2, BoundsAssumption
<1>7. CreatedAt(q) \in Nat /\ CreatedAt(w) \in Nat /\ draw[q].at < (CreatedAt(q) + 1) * t
  BY <1>6, SecondsRoundDown DEF CreatedAt
<1>8. CreatedAt(q) * t <= CreatedAt(w) * t
  BY <1>4, <1>6, <1>7, LaterSecond
<1>9. now - CreatedAt(w) * t >= c * t
  BY <1>5, <1>6, <1>7
<1>. HIDE DEF c, t
<1>10. now - draw[q].at > (c - 1) * t
  BY <1>6, <1>7, <1>8, <1>9, PauseArithmetic
<1>. QED
  BY <1>2, <1>10 DEF c, t

\* Only a draw that happened can have won.
LEMMA WinsAreDrawn == StockInv => \A r \in Refs : Won(r) => Drawn(r)
  BY DEF StockInv, Won, NoDraw

\* With a pause set, a draw by the odds never wins sooner after any win of its
\* lottery than the pause less one second, for every pause and clock resolution.
THEOREM WinsSpaced == Spec => WinsAreSpaced
<1>1. Spec => []StockInv
  BY InitStockInv, NextStockInv, PTL DEF Spec
<1>2. StockInv => TypeOK
  BY DEF StockInv
<1>3. StockInv /\ [Next]_vars =>
        [\A r, q \in Refs, p \in Prizes :
          /\ Won(q) /\ draw[q].lottery = draw'[r].lottery
          /\ WeightedWin(r, p)
          /\ lottery[draw[q].lottery].cooldown > 0
          => now - draw[q].at > (lottery[draw[q].lottery].cooldown - 1) * TicksPerSecond]_vars
  BY <1>2, WinsAreDrawn, SpacedStep
<1>. QED
  BY <1>1, <1>3, PTL DEF Spec, WinsAreSpaced

=============================================================================
