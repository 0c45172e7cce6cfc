--------------------------- MODULE GuestVisitProofs ---------------------------
(***************************************************************************)
(* A guest's visit for any number of guests, retries, late calls and       *)
(* faults: what the calls still out, the prepared receipts, the visit      *)
(* table and the kiosk's state say of each other, whoever's they are; and  *)
(* from it that a photo prints once, a draw is in one visit, completed     *)
(* means printed, and the kiosk shows its own guest's ticket.              *)
(***************************************************************************)
EXTENDS GuestVisit, SequenceTheorems, FiniteSetTheorems, TLAPS

PreparedJobs == [ref : Refs, photoPrinted : BOOLEAN, ticket : BOOLEAN]

Types ==
    /\ kiosk \in ExperienceState(VisitIds, Refs) /\ guest \in 0..MaxGuests
    /\ calls \subseteq CallType /\ store \subseteq PreparedJobs
    /\ draws \in Seq(Guests) /\ photos \in Seq(Nat) /\ Len(photos) = Len(draws)
    /\ visit \in Seq(VisitRow(Refs)) /\ faults \in 0..MaxFaults
    /\ guest = 0 => calls = {} /\ kiosk.phase = "idle"

\* Every draw is in a visit, and in no other.
DrawsFit ==
    /\ \A r \in Refs : \E v \in VisitIds : visit[v].draw = r
    /\ \A v, w \in VisitIds : visit[v].draw = visit[w].draw /\ visit[v].draw # None => v = w

\* The calls that have a draw's receipt, laying it out or printing it.
HeldBy(C) == {c \in C : c.stage \in {"drawn", "photo", "ticket"}}

\* A draw's receipt is with one call, or kept as one job, or nowhere; its photo
\* came out at most once, and not yet where it is still to come.
JobsFit(C) ==
    /\ \A c \in HeldBy(C) :
          /\ c.ref \in Refs /\ JobsOf(c.ref) = {}
          /\ c.stage # "ticket" => photos[c.ref] = 0
    /\ \A c, d \in HeldBy(C) : c.ref = d.ref => c = d
    /\ \A j \in store : ~j.photoPrinted => photos[j.ref] = 0
    /\ \A j, k \in store : j.ref = k.ref => j = k
    /\ \A r \in Refs : photos[r] <= 1

\* What a call says of the draw, the visit and its end is so; and an answer the
\* kiosk k takes as its attempt's is its guest's.
CallFits(c, k) ==
    /\ c.op = "prepareReceipt" /\ c.stage \in {"drawn", "answered"} =>
          /\ c.ref \in Refs /\ draws[c.ref] = c.guest
          /\ c.visit \in VisitIds /\ visit[c.visit].draw = c.ref
    /\ c.op = "endVisit" =>
          /\ c.visit \in VisitIds /\ c.end # None
          /\ c.end = "completed" => visit[c.visit].printed
    /\ c.op = "printPreparedReceipt" =>
          /\ c.ref \in Refs
          /\ c.stage = "answered" =>
                \A v \in VisitIds : visit[v].draw = c.ref => visit[v].printed
    /\ c.heard /\ c.op \in {"prepareReceipt", "printPreparedReceipt"} =>
          /\ c.attempt # 0 /\ c.attempt < k.next
          /\ c.attempt = k.attempt => c.guest = guest
    /\ c.heard /\ c.op = "printPreparedReceipt" /\ c.attempt = k.attempt =>
          c.ref = k.ref /\ k.phase \notin {"capturing", "preparing"}

\* The kiosk's ticket is its guest's, in the visit it will report; an end it
\* reports as completed is one whose tickets came out.
KioskFits(k) ==
    /\ k.attempt < k.next
    /\ k.phase \in PrintAttemptPhases => k.attempt # 0
    /\ k.phase \in PrintAttemptPhases \ {"capturing", "preparing"} => k.ref # None
    /\ k.ref # None =>
          k.visit # None /\ draws[k.ref] = guest /\ visit[k.visit].draw = k.ref
    /\ k.end = "completed" =>
          /\ k.visit # None /\ visit[k.visit].printed
          /\ k.phase \notin PrintAttemptPhases \cup {"introExiting", "countdown", "smile"}

VisitInv ==
    /\ Types /\ DrawsFit /\ OneOpenVisit /\ CompletedMeansPrinted /\ JobsFit(calls)
    /\ \A c \in calls : CallFits(c, kiosk)
    /\ KioskFits(kiosk)

VisitsFit ==
    visit \in Seq(VisitRow(Refs)) /\ DrawsFit /\ OneOpenVisit /\ CompletedMeansPrinted

-----------------------------------------------------------------------------
(***************************************************************************)
(* The visit table.                                                        *)
(***************************************************************************)

\* A function on the first positions is a sequence.
LEMMA RowsAreSequence ==
  ASSUME NEW S, NEW n \in Nat, NEW rows \in [1..n -> S]
  PROVE  rows \in Seq(S) /\ Len(rows) = n /\ DOMAIN rows = 1..n
  OBVIOUS

\* Ending a row keeps its draw, and one that ended stays as it ended.
LEMMA EndedRow ==
  ASSUME NEW S, NEW row \in VisitRow(S), NEW reason \in {"completed", "failed", "abandoned"},
         reason = "completed" => row.printed,
         row.reason # None => (row.reason = "completed" <=> row.printed)
  PROVE  /\ Ended(row, reason) \in VisitRow(S)
         /\ Ended(row, reason).draw = row.draw /\ Ended(row, reason).printed = row.printed
         /\ Ended(row, reason).reason # None
         /\ Ended(row, reason).reason = "completed" <=> row.printed
         /\ row.reason # None => Ended(row, reason).reason = row.reason
  BY NoneAssumption DEF Ended, CompletedIfPrinted, VisitRow

\* A row whose tickets came out keeps its draw, and stays open if it was.
LEMMA RowPrints ==
  ASSUME NEW S, NEW row \in VisitRow(S)
  PROVE  /\ PrintedRow(row) \in VisitRow(S)
         /\ PrintedRow(row).draw = row.draw /\ PrintedRow(row).printed
         /\ row.reason = None => PrintedRow(row).reason = None
         /\ row.reason # None => PrintedRow(row).reason = "completed"
  BY NoneAssumption DEF PrintedRow, VisitRow

\* What every step does to the rows there are: a draw and a print stay, an end
\* only becomes completed by its tickets, and no draw there is moves or is
\* joined to another row.
VisitsGoOn ==
    /\ VisitIds \subseteq VisitIds'
    /\ \A v \in VisitIds :
          /\ visit[v].draw # None => visit'[v].draw = visit[v].draw
          /\ visit[v].printed => visit'[v].printed
          /\ visit[v].reason # None /\ visit'[v].reason # visit[v].reason =>
                visit'[v].reason = "completed" /\ visit'[v].printed
    /\ \A v \in VisitIds' :
          visit'[v].draw \in Refs => v \in VisitIds /\ visit[v].draw = visit'[v].draw

DrawsGoOn == Refs \subseteq Refs' /\ \A r \in Refs : draws'[r] = draws[r]

\* Rows changed in place, none of their draws.
LEMMA RowsChange ==
  ASSUME VisitsFit, NEW rows \in [VisitIds -> VisitRow(Refs)], visit' = rows, draws' = draws,
         \A v \in VisitIds :
            /\ rows[v].draw = visit[v].draw
            /\ visit[v].printed => rows[v].printed
            /\ rows[v].reason = None => visit[v].reason = None
            /\ rows[v].reason # None => (rows[v].reason = "completed" <=> rows[v].printed)
            /\ visit[v].reason # None /\ rows[v].reason # visit[v].reason =>
                  rows[v].reason = "completed" /\ rows[v].printed
  PROVE  VisitsFit' /\ VisitsGoOn /\ DrawsGoOn
<1>1. VisitIds = 1..Len(visit) /\ Len(visit) \in Nat
  BY DEF VisitsFit, VisitIds
<1>2. visit' \in Seq(VisitRow(Refs)) /\ VisitIds' = VisitIds
  BY <1>1, RowsAreSequence DEF VisitIds
<1>3. Refs' = Refs
  BY DEF Refs
<1>. QED
  BY <1>2, <1>3 DEF VisitsFit, DrawsFit, OneOpenVisit, Open, CompletedMeansPrinted, VisitsGoOn,
     DrawsGoOn

\* Both tickets came out: the draw's visit is printed.
LEMMA VisitsPrint ==
  ASSUME VisitsFit, NEW ref, VisitPrinted(ref), draws' = draws
  PROVE  VisitsFit' /\ VisitsGoOn /\ DrawsGoOn
         /\ \A v \in VisitIds' : visit'[v].draw = ref => visit'[v].printed
<1>. DEFINE rows == [v \in VisitIds |->
                       IF visit[v].draw = ref THEN PrintedRow(visit[v]) ELSE visit[v]]
<1>1. \A v \in VisitIds : visit[v] \in VisitRow(Refs)
  BY DEF VisitsFit, VisitIds
<1>2. \A v \in VisitIds :
        /\ rows[v] \in VisitRow(Refs) /\ rows[v].draw = visit[v].draw
        /\ visit[v].printed => rows[v].printed
        /\ visit[v].draw = ref => rows[v].printed
        /\ rows[v].reason = None => visit[v].reason = None
        /\ rows[v].reason # None => (rows[v].reason = "completed" <=> rows[v].printed)
        /\ visit[v].reason # None /\ rows[v].reason # visit[v].reason =>
              rows[v].reason = "completed" /\ rows[v].printed
  BY <1>1, RowPrints, NoneAssumption DEF VisitsFit, CompletedMeansPrinted, Open
<1>3. visit' = rows /\ rows \in [VisitIds -> VisitRow(Refs)]
  BY <1>2 DEF VisitPrinted
<1>4. VisitIds' = VisitIds
  BY <1>3 DEF VisitIds
<1>. HIDE DEF rows
<1>. QED
  BY <1>2, <1>3, <1>4, RowsChange

\* The kiosk's report of an end.
LEMMA VisitsEnd ==
  ASSUME VisitsFit, NEW id \in VisitIds, NEW reason \in {"completed", "failed"},
         reason = "completed" => visit[id].printed, VisitEnd(id, reason), draws' = draws
  PROVE  VisitsFit' /\ VisitsGoOn /\ DrawsGoOn
<1>. DEFINE rows == [v \in VisitIds |-> IF v = id THEN Ended(visit[v], reason) ELSE visit[v]]
<1>1. \A v \in VisitIds : visit[v] \in VisitRow(Refs)
  BY DEF VisitsFit, VisitIds
<1>2. \A v \in VisitIds :
        /\ rows[v] \in VisitRow(Refs) /\ rows[v].draw = visit[v].draw
        /\ visit[v].printed => rows[v].printed
        /\ rows[v].reason = None => visit[v].reason = None
        /\ rows[v].reason # None => (rows[v].reason = "completed" <=> rows[v].printed)
        /\ visit[v].reason # None => rows[v].reason = visit[v].reason
  BY <1>1, EndedRow DEF VisitsFit, CompletedMeansPrinted, Open
<1>3. visit' = rows /\ rows \in [VisitIds -> VisitRow(Refs)]
  BY <1>2 DEF VisitEnd
<1>. HIDE DEF rows
<1>. QED
  BY <1>2, <1>3, RowsChange

\* Every open visit closes.
LEMMA VisitsClose ==
  ASSUME VisitsFit
  PROVE  /\ CloseOpenVisits \in Seq(VisitRow(Refs)) /\ Len(CloseOpenVisits) = Len(visit)
         /\ CloseOpenVisits \in [VisitIds -> VisitRow(Refs)]
         /\ \A v \in VisitIds :
               /\ CloseOpenVisits[v].draw = visit[v].draw
               /\ CloseOpenVisits[v].printed = visit[v].printed
               /\ CloseOpenVisits[v].reason # None
               /\ CloseOpenVisits[v].reason = "completed" <=> CloseOpenVisits[v].printed
               /\ visit[v].reason # None => CloseOpenVisits[v].reason = visit[v].reason
<1>1. VisitIds = 1..Len(visit) /\ Len(visit) \in Nat
  BY DEF VisitsFit, VisitIds
<1>2. \A v \in VisitIds : visit[v] \in VisitRow(Refs)
  BY DEF VisitsFit, VisitIds
<1>3. \A v \in VisitIds :
        /\ Ended(visit[v], "abandoned") \in VisitRow(Refs)
        /\ Ended(visit[v], "abandoned").draw = visit[v].draw
        /\ Ended(visit[v], "abandoned").printed = visit[v].printed
        /\ Ended(visit[v], "abandoned").reason # None
        /\ Ended(visit[v], "abandoned").reason = "completed" <=> visit[v].printed
        /\ visit[v].reason # None => Ended(visit[v], "abandoned").reason = visit[v].reason
  BY <1>2, EndedRow DEF VisitsFit, CompletedMeansPrinted, Open
<1>4. /\ CloseOpenVisits \in [VisitIds -> VisitRow(Refs)]
      /\ \A v \in VisitIds : CloseOpenVisits[v] = Ended(visit[v], "abandoned")
  BY <1>3 DEF CloseOpenVisits
<1>. QED
  BY <1>1, <1>3, <1>4, RowsAreSequence

\* The next boot closes what was left open.
LEMMA VisitsCloseStale ==
  ASSUME VisitsFit, VisitCloseStale, draws' = draws
  PROVE  VisitsFit' /\ VisitsGoOn /\ DrawsGoOn
  BY VisitsClose, RowsChange DEF VisitCloseStale

\* The next Start: one more visit, the only one open.
LEMMA VisitsStart ==
  ASSUME VisitsFit, draws \in Seq(Guests), NEW by \in Guests, VisitStart(by), draws' = draws
  PROVE  VisitsFit' /\ VisitsGoOn /\ DrawsGoOn /\ VisitIds' = 1..(Len(visit) + 1)
<1>. DEFINE last == NewVisit(by, None)
<1>1. VisitIds = 1..Len(visit) /\ Len(visit) \in Nat /\ Refs' = Refs
  BY DEF VisitsFit, VisitIds, Refs
<1>2. last \in VisitRow(Refs) /\ last.draw = None /\ last.reason = None
  BY DEF NewVisit, VisitRow
<1>3. visit' = Append(CloseOpenVisits, last)
  BY DEF VisitStart
<1>. HIDE DEF last
<1>4. /\ visit' \in Seq(VisitRow(Refs)) /\ Len(visit') = Len(visit) + 1
      /\ \A v \in VisitIds : visit'[v] = CloseOpenVisits[v]
      /\ visit'[Len(visit) + 1] = last
  BY <1>1, <1>2, <1>3, VisitsClose, AppendProperties
<1>5. VisitIds' = 1..(Len(visit) + 1)
  BY <1>1, <1>4 DEF VisitIds
<1>6. \A v \in VisitIds' : v \in VisitIds \/ v = Len(visit) + 1
  BY <1>1, <1>5
<1>7. \A v \in VisitIds : v \in VisitIds' /\ v # Len(visit) + 1
  BY <1>1, <1>5
<1>8. None \notin Refs
  BY NoneAssumption DEF Refs
<1>9. DrawsFit'
  <2>1. /\ \A v \in VisitIds : visit'[v].draw = visit[v].draw
        /\ \A v \in VisitIds' \ VisitIds : visit'[v].draw = None
    BY <1>2, <1>4, <1>6, VisitsClose
  <2>2. ASSUME NEW r \in Refs' PROVE \E v \in VisitIds' : visit'[v].draw = r
    BY <1>1, <1>7, <2>1, <2>2 DEF VisitsFit, DrawsFit
  <2>3. ASSUME NEW v \in VisitIds', NEW w \in VisitIds',
               visit'[v].draw = visit'[w].draw, visit'[v].draw # None
        PROVE  v = w
    BY <2>1, <2>3 DEF VisitsFit, DrawsFit
  <2>. QED
    BY <2>2, <2>3 DEF DrawsFit
<1>10. OneOpenVisit' /\ CompletedMeansPrinted'
  BY <1>2, <1>4, <1>6, VisitsClose DEF OneOpenVisit, CompletedMeansPrinted, Open
<1>11. VisitsGoOn
  BY <1>2, <1>4, <1>6, <1>7, <1>8, VisitsClose DEF VisitsGoOn
<1>. QED
  BY <1>1, <1>4, <1>5, <1>9, <1>10, <1>11 DEF VisitsFit, DrawsGoOn

\* A draw joins one visit, which had none, or is a visit of its own.
LEMMA VisitsCapture ==
  ASSUME VisitsFit, draws \in Seq(Guests), NEW by \in Guests, NEW id, NEW landed,
         VisitCaptured(id, Len(draws) + 1, by, landed), draws' = Append(draws, by)
  PROVE  /\ VisitsFit' /\ VisitsGoOn /\ DrawsGoOn
         /\ landed \in VisitIds' /\ visit'[landed].draw = Len(draws) + 1
<1>. DEFINE ref == Len(draws) + 1
<1>1. VisitIds = 1..Len(visit) /\ Len(visit) \in Nat /\ Refs = 1..Len(draws) /\ Len(draws) \in Nat
  BY DEF VisitsFit, VisitIds, Refs
<1>2. /\ draws' \in Seq(Guests) /\ Len(draws') = ref
      /\ \A r \in Refs : draws'[r] = draws[r]
  BY <1>1, AppendProperties
<1>3. Refs' = 1..ref
  BY <1>1, <1>2 DEF Refs
<1>4. Refs' = Refs \cup {ref} /\ ref \notin Refs /\ None \notin Refs' /\ ref # None
  BY <1>1, <1>3, NoneAssumption
<1>5. DrawsGoOn
  BY <1>2, <1>4 DEF DrawsGoOn
<1>6. \A v \in VisitIds : visit[v] \in VisitRow(Refs) /\ visit[v] \in VisitRow(Refs')
  <2>1. \A v \in VisitIds : visit[v] \in VisitRow(Refs)
    BY DEF VisitsFit, VisitIds
  <2>2. VisitRow(Refs) \subseteq VisitRow(Refs')
    BY <1>4 DEF VisitRow
  <2>. QED
    BY <2>1, <2>2
<1>. HIDE DEF ref
<1>7. ASSUME landed \in VisitIds, visit[landed].draw = None,
             visit' = [visit EXCEPT ![landed].draw = ref]
      PROVE  VisitsFit' /\ VisitsGoOn /\ visit'[landed].draw = ref /\ VisitIds' = VisitIds
  <2>1. /\ VisitIds' = VisitIds
        /\ \A v \in VisitIds : v # landed => visit'[v] = visit[v]
        /\ visit'[landed] \in VisitRow(Refs') /\ visit'[landed].draw = ref
        /\ visit'[landed].printed = visit[landed].printed
        /\ visit'[landed].reason = visit[landed].reason
    BY <1>4, <1>6, <1>7 DEF VisitRow, VisitIds
  <2>2. visit' \in Seq(VisitRow(Refs'))
    <3>1. visit' \in [1..Len(visit) -> VisitRow(Refs')]
      BY <1>1, <1>6, <1>7, <2>1 DEF VisitIds
    <3>. QED
      BY <1>1, <3>1, RowsAreSequence
  <2>3. DrawsFit'
    <3>1. \A v \in VisitIds : visit[v].draw \in Refs \cup {None}
      BY <1>6 DEF VisitRow
    <3>. QED
      BY <1>4, <1>7, <2>1, <3>1 DEF VisitsFit, DrawsFit
  <2>4. OneOpenVisit' /\ CompletedMeansPrinted'
    BY <1>7, <2>1 DEF VisitsFit, OneOpenVisit, CompletedMeansPrinted, Open
  <2>5. VisitsGoOn
    BY <1>4, <1>7, <2>1 DEF VisitsGoOn
  <2>. QED
    BY <2>1, <2>2, <2>3, <2>4, <2>5 DEF VisitsFit
<1>8. ASSUME landed = Len(visit) + 1, visit' = Append(CloseOpenVisits, NewVisit(by, ref))
      PROVE  /\ VisitsFit' /\ VisitsGoOn /\ visit'[landed].draw = ref
             /\ VisitIds' = VisitIds \cup {landed}
  <2>. DEFINE last == NewVisit(by, ref)
  <2>1. last \in VisitRow(Refs') /\ last.draw = ref /\ last.reason = None
    BY <1>4 DEF NewVisit, VisitRow
  <2>2. CloseOpenVisits \in Seq(VisitRow(Refs'))
    <3>1. VisitRow(Refs) \subseteq VisitRow(Refs')
      BY <1>4 DEF VisitRow
    <3>2. CloseOpenVisits \in [1..Len(visit) -> VisitRow(Refs')]
      BY <1>1, <3>1, VisitsClose
    <3>. QED
      BY <1>1, <3>2, RowsAreSequence
  <2>. HIDE DEF last
  <2>3. /\ visit' \in Seq(VisitRow(Refs')) /\ Len(visit') = Len(visit) + 1
        /\ \A v \in VisitIds : visit'[v] = CloseOpenVisits[v]
        /\ visit'[landed] = last
    BY <1>1, <1>8, <2>1, <2>2, VisitsClose, AppendProperties DEF last
  <2>4. VisitIds' = 1..landed
    BY <1>1, <1>8, <2>3 DEF VisitIds
  <2>5. VisitIds' = VisitIds \cup {landed} /\ landed \notin VisitIds
    BY <1>1, <1>8, <2>4
  <2>6. \A v \in VisitIds : visit[v].draw \in Refs \cup {None}
    BY <1>6 DEF VisitRow
  <2>7. DrawsFit'
    <3>1. /\ \A v \in VisitIds : visit'[v].draw = visit[v].draw
          /\ visit'[landed].draw = ref
      BY <2>1, <2>3, VisitsClose
    <3>2. ASSUME NEW r \in Refs' PROVE \E v \in VisitIds' : visit'[v].draw = r
      BY <1>4, <2>5, <3>1, <3>2 DEF VisitsFit, DrawsFit
    <3>3. ASSUME NEW v \in VisitIds', NEW w \in VisitIds',
                 visit'[v].draw = visit'[w].draw, visit'[v].draw # None
          PROVE  v = w
      BY <1>4, <2>5, <2>6, <3>1, <3>3 DEF VisitsFit, DrawsFit
    <3>. QED
      BY <3>2, <3>3 DEF DrawsFit
  <2>8. OneOpenVisit' /\ CompletedMeansPrinted'
    BY <2>1, <2>3, <2>5, VisitsClose DEF OneOpenVisit, CompletedMeansPrinted, Open
  <2>9. VisitsGoOn
    BY <1>4, <2>1, <2>3, <2>5, VisitsClose DEF VisitsGoOn
  <2>. QED
    BY <2>1, <2>3, <2>5, <2>7, <2>8, <2>9 DEF VisitsFit
<1>9. \/ landed \in VisitIds /\ visit[landed].draw = None
           /\ visit' = [visit EXCEPT ![landed].draw = ref]
      \/ landed = Len(visit) + 1 /\ visit' = Append(CloseOpenVisits, NewVisit(by, ref))
  BY DEF VisitCaptured, Linkable, Joinable, ref
<1>. QED
  BY <1>5, <1>7, <1>8, <1>9 DEF ref

-----------------------------------------------------------------------------
(***************************************************************************)
(* The calls and the kiosk, as visits and draws go on.                     *)
(***************************************************************************)

\* What there was is still there.
LEMMA SetsGrow ==
  ASSUME VisitIds \subseteq VisitIds', Refs \subseteq Refs'
  PROVE  /\ CallType \subseteq CallType' /\ PreparedJobs \subseteq PreparedJobs'
         /\ ExperienceState(VisitIds, Refs) \subseteq ExperienceState(VisitIds, Refs)'
  BY DEF CallType, PreparedJobs, ExperienceState, Stages

\* What a call says stays so as rows and draws go on.
LEMMA CallStays ==
  ASSUME draws \in Seq(Guests), VisitsGoOn, DrawsGoOn, guest' = guest, kiosk' = kiosk,
         NEW c \in CallType, CallFits(c, kiosk)
  PROVE  CallFits(c, kiosk)'
<1>1. c.op = "prepareReceipt" /\ c.stage \in {"drawn", "answered"} =>
        /\ c.ref \in Refs' /\ draws'[c.ref] = c.guest
        /\ c.visit \in VisitIds' /\ visit'[c.visit].draw = c.ref
  <2>1. None \notin Refs
    BY NoneAssumption DEF Refs
  <2>. QED
    BY <2>1 DEF CallFits, VisitsGoOn, DrawsGoOn
<1>2. c.op = "endVisit" =>
        /\ c.visit \in VisitIds' /\ c.end # None
        /\ c.end = "completed" => visit'[c.visit].printed
  BY DEF CallFits, VisitsGoOn
<1>3. c.op = "printPreparedReceipt" =>
        /\ c.ref \in Refs'
        /\ c.stage = "answered" =>
              \A v \in VisitIds' : visit'[v].draw = c.ref => visit'[v].printed
  BY DEF CallFits, VisitsGoOn, DrawsGoOn
<1>. QED
  BY <1>1, <1>2, <1>3 DEF CallFits

\* And so does what the kiosk says.
LEMMA KioskStays ==
  ASSUME draws \in Seq(Guests), VisitsGoOn, DrawsGoOn, guest' = guest, kiosk' = kiosk,
         kiosk \in ExperienceState(VisitIds, Refs), KioskFits(kiosk)
  PROVE  KioskFits(kiosk)'
<1>1. None \notin Refs
  BY NoneAssumption DEF Refs
<1>2. kiosk.ref \in Refs \cup {None} /\ kiosk.visit \in VisitIds \cup {None}
  BY DEF ExperienceState
<1>. QED
  BY <1>1, <1>2 DEF KioskFits, VisitsGoOn, DrawsGoOn

\* Fewer calls hold fewer receipts.
LEMMA JobsOfFewer ==
  ASSUME NEW C, NEW D, JobsFit(C), HeldBy(D) \subseteq HeldBy(C)
  PROVE  JobsFit(D)
  BY DEF JobsFit

\* The kiosk may stop waiting for a call.
LEMMA JobsUnheard ==
  ASSUME NEW C, C \subseteq CallType, NEW c \in C, JobsFit(C)
  PROVE  JobsFit((C \ {c}) \cup {[c EXCEPT !.heard = FALSE]})
<1>. DEFINE d == [c EXCEPT !.heard = FALSE]
<1>1. d.ref = c.ref /\ d.stage = c.stage
  BY DEF CallType
<1>. HIDE DEF d
<1>2. HeldBy((C \ {c}) \cup {d}) \subseteq (HeldBy(C) \ {c}) \cup {d}
  BY DEF HeldBy
<1>3. d \in HeldBy((C \ {c}) \cup {d}) => c \in HeldBy(C)
  BY <1>1 DEF HeldBy
<1>4. JobsFit((C \ {c}) \cup {d})
  BY <1>1, <1>2, <1>3 DEF JobsFit
<1>. QED
  BY <1>4 DEF d

\* Nothing happens to the rows and the draws.
LEMMA VisitsStay ==
  ASSUME VisitsFit, visit' = visit, draws' = draws
  PROVE  VisitsFit' /\ VisitsGoOn /\ DrawsGoOn
<1>1. VisitIds' = VisitIds /\ Refs' = Refs
  BY DEF VisitIds, Refs
<1>. QED
  BY <1>1 DEF VisitsFit, DrawsFit, OneOpenVisit, CompletedMeansPrinted, Open, VisitRow, VisitsGoOn,
     DrawsGoOn

\* Nor to the receipts, but that fewer calls hold one.
LEMMA JobsStay ==
  ASSUME VisitInv, HeldBy(calls') \subseteq HeldBy(calls), store' = store, draws' = draws,
         photos' = photos
  PROVE  /\ JobsFit(calls)' /\ store' \subseteq PreparedJobs' /\ draws' \in Seq(Guests)
         /\ photos' \in Seq(Nat) /\ Len(photos') = Len(draws')
<1>1. JobsFit(calls') /\ Refs' = Refs
  BY JobsOfFewer DEF VisitInv, Refs
<1>. QED
  BY <1>1 DEF JobsFit, HeldBy, JobsOf, VisitInv, Types, PreparedJobs

\* The rows and draws grow while the kiosk and its guest stay as they are.
LEMMA EngineMoves ==
  ASSUME VisitInv, UNCHANGED <<kiosk, guest>>, faults' \in 0..MaxFaults,
         calls = {} => calls' = {},
         VisitsFit', VisitsGoOn, DrawsGoOn, store' \subseteq PreparedJobs',
         draws' \in Seq(Guests), photos' \in Seq(Nat), Len(photos') = Len(draws'),
         JobsFit(calls)', \A d \in calls' \ calls : d \in CallType' /\ CallFits(d, kiosk)'
  PROVE  VisitInv'
<1>1. /\ CallType \subseteq CallType'
      /\ ExperienceState(VisitIds, Refs) \subseteq ExperienceState(VisitIds, Refs)'
  BY SetsGrow DEF VisitsGoOn, DrawsGoOn
<1>2. Types'
  BY <1>1 DEF VisitInv, Types, VisitsFit
<1>3. \A b \in calls' : CallFits(b, kiosk)'
  <2>1. \A b \in calls : b \in CallType /\ CallFits(b, kiosk)
    BY DEF VisitInv, Types
  <2>2. draws \in Seq(Guests) /\ guest' = guest /\ kiosk' = kiosk
    BY DEF VisitInv, Types
  <2>3. ASSUME NEW b \in calls' PROVE CallFits(b, kiosk)'
    <3>1. CASE b \in calls
      BY <2>1, <2>2, <3>1, CallStays
    <3>2. CASE b \notin calls
      BY <3>2
    <3>. QED
      BY <3>1, <3>2
  <2>. QED
    BY <2>3
<1>4. KioskFits(kiosk)'
  BY KioskStays DEF VisitInv, Types
<1>. QED
  BY <1>2, <1>3, <1>4 DEF VisitInv, VisitsFit

-----------------------------------------------------------------------------
(***************************************************************************)
(* What the kiosk hears and does.                                          *)
(***************************************************************************)

\* Nothing but the phase and the countdown changed.
Kept(s, t) ==
    t.ref = s.ref /\ t.next = s.next /\ t.attempt = s.attempt /\ t.visit = s.visit /\ t.end = s.end

\* The reducer's timed actions, one or a run at a time: which phase each leads to.
LEMMA CameraMoves ==
  ASSUME NEW V, NEW R, NEW s \in ExperienceState(V, R)
  PROVE  /\ CameraAnimationCompleted(s) \in ExperienceState(V, R)
         /\ Kept(s, CameraAnimationCompleted(s))
         /\ s.phase = "introExiting" => CameraAnimationCompleted(s).phase = "countdown"
         /\ s.phase = "cameraExiting" => CameraAnimationCompleted(s).phase = "receiptReady"
         /\ s.phase = "resetting" =>
               CameraAnimationCompleted(s).phase = "resettingButtonRepositioning"
         /\ s.phase \notin {"introExiting", "cameraExiting", "resetting"} =>
               CameraAnimationCompleted(s) = s
<1>1. CountdownStart \in 0..CountdownStart
  BY CountdownAssumption
<1>2. {"countdown", "receiptReady", "resettingButtonRepositioning"} \subseteq Phases
  BY DEF Phases
<1>3. CASE s.phase = "introExiting"
  <2>1. CameraAnimationCompleted(s) =
          [s EXCEPT !.phase = "countdown", !.countdown = CountdownStart]
    BY <1>3 DEF CameraAnimationCompleted
  <2>. QED
    BY <1>1, <1>2, <1>3, <2>1 DEF ExperienceState, Kept
<1>4. CASE s.phase = "cameraExiting"
  <2>1. CameraAnimationCompleted(s) = [s EXCEPT !.phase = "receiptReady"]
    BY <1>4 DEF CameraAnimationCompleted
  <2>. QED
    BY <1>2, <1>4, <2>1 DEF ExperienceState, Kept
<1>5. CASE s.phase = "resetting"
  <2>1. CameraAnimationCompleted(s) = [s EXCEPT !.phase = "resettingButtonRepositioning"]
    BY <1>5 DEF CameraAnimationCompleted
  <2>. QED
    BY <1>2, <1>5, <2>1 DEF ExperienceState, Kept
<1>6. CASE s.phase \notin {"introExiting", "cameraExiting", "resetting"}
  BY <1>6 DEF CameraAnimationCompleted, Kept
<1>. QED
  BY <1>3, <1>4, <1>5, <1>6

\* The countdown runs down to the smile.
LEMMA CountdownMoves ==
  ASSUME NEW V, NEW R, NEW s \in ExperienceState(V, R)
  PROVE  /\ CountedDown(s) \in ExperienceState(V, R) /\ Kept(s, CountedDown(s))
         /\ CountedDown(s).phase = IF s.phase = "countdown" THEN "smile" ELSE s.phase
<1>1. 0 \in 0..CountdownStart /\ 1 \in 0..CountdownStart
  BY CountdownAssumption
<1>2. "smile" \in Phases
  BY DEF Phases
<1>3. Kept(s, s)
  BY DEF Kept
<1>4. CASE s.phase = "countdown"
  <2>. DEFINE t == [s EXCEPT !.countdown = 1]
  <2>1. t \in ExperienceState(V, R) /\ Kept(s, t) /\ t.phase = "countdown" /\ t.countdown = 1
    BY <1>1, <1>4 DEF ExperienceState, Kept
  <2>. HIDE DEF t
  <2>2. CountdownTicked(t) = [t EXCEPT !.phase = "smile", !.countdown = 0]
    BY <2>1 DEF CountdownTicked
  <2>3. /\ CountdownTicked(t) \in ExperienceState(V, R) /\ Kept(s, CountdownTicked(t))
        /\ CountdownTicked(t).phase = "smile"
    <3>1. /\ [t EXCEPT !.phase = "smile", !.countdown = 0] \in ExperienceState(V, R)
          /\ [t EXCEPT !.phase = "smile", !.countdown = 0].phase = "smile"
          /\ Kept(t, [t EXCEPT !.phase = "smile", !.countdown = 0])
      BY <1>1, <1>2, <2>1 DEF ExperienceState, Kept
    <3>. QED
      BY <2>1, <2>2, <3>1 DEF Kept
  <2>. QED
    BY <1>4, <2>3 DEF CountedDown, t
<1>. QED
  BY <1>3, <1>4 DEF CountedDown

\* The smile starts an attempt of its own.
LEMMA SmileMoves ==
  ASSUME NEW V, NEW R, NEW s \in ExperienceState(V, R), s.phase = "smile"
  PROVE  /\ SmileElapsed(s) \in ExperienceState(V, R)
         /\ SmileElapsed(s).phase = "capturing" /\ SmileElapsed(s).attempt = s.next
         /\ SmileElapsed(s).next = s.next + 1
         /\ SmileElapsed(s).ref = s.ref /\ SmileElapsed(s).visit = s.visit
         /\ SmileElapsed(s).end = s.end
<1>1. s.next \in Nat /\ s.next + 1 \in Nat \ {0} /\ s.next \in Nat \ {0}
  BY DEF ExperienceState
<1>2. SmileElapsed(s) = [s EXCEPT !.phase = "capturing", !.attempt = s.next, !.next = s.next + 1]
  BY DEF SmileElapsed, ExperienceState
<1>3. "capturing" \in Phases
  BY DEF Phases
<1>. QED
  BY <1>1, <1>2, <1>3 DEF ExperienceState

\* From the reels to the print.
LEMMA ResultMoves ==
  ASSUME NEW V, NEW R, NEW s \in ExperienceState(V, R),
         s.phase \in {"spinning", "slotResult", "instructions"}
  PROVE  LET t == InstructionsElapsed(SlotResultElapsed(ReelsStopped(s)))
         IN  t \in ExperienceState(V, R) /\ Kept(s, t) /\ t.phase = "printing"
<1>1. {"slotResult", "instructions", "printing"} \subseteq Phases
  BY DEF Phases
<1>2. Kept(s, s)
  BY DEF Kept
<1>. DEFINE a == ReelsStopped(s) b == SlotResultElapsed(a) c == InstructionsElapsed(b)
<1>3. /\ a \in ExperienceState(V, R) /\ Kept(s, a) /\ a.phase \in {"slotResult", "instructions"}
  BY <1>1, <1>2 DEF ReelsStopped, ExperienceState, Kept
<1>. HIDE DEF a
<1>4. b \in ExperienceState(V, R) /\ Kept(s, b) /\ b.phase = "instructions"
  BY <1>1, <1>3 DEF SlotResultElapsed, ExperienceState, Kept
<1>. HIDE DEF b
<1>5. c \in ExperienceState(V, R) /\ Kept(s, c) /\ c.phase = "printing"
  BY <1>1, <1>4 DEF InstructionsElapsed, ExperienceState, Kept
<1>. QED
  BY <1>5 DEF a, b

\* Outside the reveal its actions do not apply.
LEMMA ResultStays ==
  ASSUME NEW s, s.phase \notin {"spinning", "slotResult", "instructions"}
  PROVE  InstructionsElapsed(SlotResultElapsed(ReelsStopped(s))) = s
  BY DEF InstructionsElapsed, SlotResultElapsed, ReelsStopped



\* The ticket shown is dropped.
LEMMA ResetMoves ==
  ASSUME NEW V, NEW R, NEW s \in ExperienceState(V, R), s.phase = "receiptReady"
  PROVE  /\ AutoResetElapsed(s) \in ExperienceState(V, R)
         /\ AutoResetElapsed(s).phase = "resettingButtonRepositioning"
         /\ AutoResetElapsed(s).attempt = 0 /\ AutoResetElapsed(s).ref = None
         /\ AutoResetElapsed(s).next = s.next
         /\ AutoResetElapsed(s).visit = s.visit /\ AutoResetElapsed(s).end = s.end
<1>1. 0 \in 0..CountdownStart
  BY CountdownAssumption
<1>. QED
  BY <1>1 DEF AutoResetElapsed, BeginReset, ExperienceState, Phases

\* The start button comes back.
LEMMA ButtonMoves ==
  ASSUME NEW V, NEW R, NEW s \in ExperienceState(V, R),
         s.phase \in {"resettingButtonRepositioning", "resettingButtonRevealing"}
  PROVE  LET t == StartButtonAnimationCompleted(StartButtonAnimationCompleted(s))
         IN  t \in ExperienceState(V, R) /\ Kept(s, t) /\ t.phase = "idle"
<1>1. {"resettingButtonRevealing", "idle"} \subseteq Phases
  BY DEF Phases
<1>. DEFINE t == StartButtonAnimationCompleted(s) u == StartButtonAnimationCompleted(t)
<1>2. t \in ExperienceState(V, R) /\ Kept(s, t) /\ t.phase \in {"resettingButtonRevealing", "idle"}
  BY <1>1 DEF StartButtonAnimationCompleted, ExperienceState, Kept
<1>. HIDE DEF t
<1>3. u \in ExperienceState(V, R) /\ Kept(s, u) /\ u.phase = "idle"
  BY <1>1, <1>2 DEF StartButtonAnimationCompleted, ExperienceState, Kept
<1>. QED
  BY <1>3 DEF t

\* The attempt's tickets came out.
LEMMA SuccessMoves ==
  ASSUME NEW V, NEW R, NEW s \in ExperienceState(V, R), s.phase = "printing"
  PROVE  LET t == PrintSucceeded(s, s.attempt)
         IN  /\ t \in ExperienceState(V, R) /\ t.phase = "cameraExiting" /\ t.ref = None
             /\ t.next = s.next /\ t.attempt = 0 /\ t.visit = s.visit /\ t.end = "completed"
<1>1. 0 \in 0..CountdownStart /\ "cameraExiting" \in Phases
  BY CountdownAssumption DEF Phases
<1>. QED
  BY <1>1 DEF PrintSucceeded, HasMatchingPrintAttempt, ExperienceState

\* The attempt failed.
LEMMA FailureMoves ==
  ASSUME NEW V, NEW R, NEW s \in ExperienceState(V, R), s.phase \in PrintAttemptPhases
  PROVE  LET t == PrintFailed(s, s.attempt)
         IN  /\ t \in ExperienceState(V, R) /\ t.phase = "resetting" /\ t.ref = None
             /\ t.next = s.next /\ t.attempt = 0 /\ t.visit = s.visit /\ t.end = "failed"
<1>1. 0 \in 0..CountdownStart /\ "resetting" \in Phases
  BY CountdownAssumption DEF Phases
<1>. QED
  BY <1>1 DEF PrintFailed, HasMatchingPrintAttempt, BeginReset, ExperienceState

\* A state the reducer may go on to: fit, and of the same attempt, of none, or
\* of one no call has; the same attempt keeps its ticket once it has one.
Follows(s) ==
    /\ s \in ExperienceState(VisitIds, Refs) /\ KioskFits(s)
    /\ kiosk.next <= s.next
    /\ \/ s.attempt = 0
       \/ s.attempt = kiosk.next /\ kiosk.next < s.next
       \/ /\ s.attempt = kiosk.attempt
          /\ \/ kiosk.phase \in {"capturing", "preparing"}
             \/ s.ref = kiosk.ref /\ s.phase \notin {"capturing", "preparing"}
    /\ s.phase = "printing" /\ kiosk.phase # "printing" => s.attempt = kiosk.attempt

\* An action that does not apply.
LEMMA StateFollows ==
  ASSUME VisitInv
  PROVE  Follows(kiosk)
  BY DEF VisitInv, Types, Follows, ExperienceState

\* The photo is taken.
LEMMA PhotoFollows ==
  ASSUME VisitInv
  PROVE  Follows(PhotoCaptured(kiosk, kiosk.attempt))
<1>. DEFINE s == [kiosk EXCEPT !.phase = "preparing"]
<1>1. CASE kiosk.phase = "capturing"
  <2>1. /\ s \in ExperienceState(VisitIds, Refs) /\ s.phase = "preparing"
        /\ s.ref = kiosk.ref /\ s.next = kiosk.next /\ s.attempt = kiosk.attempt
        /\ s.visit = kiosk.visit /\ s.end = kiosk.end
    BY DEF VisitInv, Types, ExperienceState, Phases
  <2>2. kiosk.next \in Nat
    BY DEF VisitInv, Types, ExperienceState
  <2>. HIDE DEF s
  <2>3. Follows(s)
    BY <1>1, <2>1, <2>2 DEF VisitInv, KioskFits, Follows, PrintAttemptPhases
  <2>. QED
    BY <1>1, <2>3 DEF PhotoCaptured, HasMatchingPrintAttempt, s
<1>2. CASE kiosk.phase # "capturing"
  BY <1>2, StateFollows DEF PhotoCaptured
<1>. QED
  BY <1>1, <1>2

\* The visit of this guest's Start is known, or none is.
LEMMA VisitFollows ==
  ASSUME VisitInv, NEW id \in VisitIds \cup {None}
  PROVE  Follows(VisitStarted(kiosk, id))
<1>. DEFINE s == [kiosk EXCEPT !.visit = id]
<1>1. CASE kiosk.phase # "idle" /\ kiosk.visit = None
  <2>1. /\ s \in ExperienceState(VisitIds, Refs) /\ s.phase = kiosk.phase
        /\ s.ref = kiosk.ref /\ s.next = kiosk.next /\ s.attempt = kiosk.attempt
        /\ s.visit = id /\ s.end = kiosk.end
    BY DEF VisitInv, Types, ExperienceState
  <2>2. kiosk.next \in Nat
    BY DEF VisitInv, Types, ExperienceState
  <2>. HIDE DEF s
  <2>3. Follows(s)
    BY <1>1, <2>1, <2>2 DEF VisitInv, KioskFits, Follows
  <2>. QED
    BY <1>1, <2>3 DEF VisitStarted, s
<1>2. CASE ~(kiosk.phase # "idle" /\ kiosk.visit = None)
  BY <1>2, StateFollows DEF VisitStarted
<1>. QED
  BY <1>1, <1>2

\* The ticket of this attempt, of this guest's draw.
LEMMA TicketFollows ==
  ASSUME VisitInv, NEW attempt, NEW ref \in Refs, NEW lottery \in BOOLEAN, NEW id \in VisitIds,
         attempt = kiosk.attempt => draws[ref] = guest, visit[id].draw = ref
  PROVE  Follows(ReceiptPrepared(kiosk, attempt, ref, lottery, id))
<1>. DEFINE s == ReceiptPrepared(kiosk, attempt, ref, lottery, id)
<1>0. None \notin VisitIds
  BY NoneAssumption DEF VisitInv, Types, VisitIds
<1>1. CASE kiosk.phase = "preparing" /\ attempt = kiosk.attempt
  <2>1. /\ s \in ExperienceState(VisitIds, Refs) /\ s.phase \in {"spinning", "printing"}
        /\ s.ref = ref /\ s.next = kiosk.next /\ s.attempt = kiosk.attempt
        /\ s.visit = id /\ s.end = kiosk.end
    BY <1>0, <1>1 DEF VisitInv, Types, ExperienceState, ReceiptPrepared, HasMatchingPrintAttempt,
       Phases
  <2>2. kiosk.next \in Nat /\ None \notin Refs
    BY NoneAssumption DEF VisitInv, Types, ExperienceState, Refs
  <2>. HIDE DEF s
  <2>3. Follows(s)
    BY <1>0, <1>1, <2>1, <2>2 DEF VisitInv, KioskFits, Follows, PrintAttemptPhases
  <2>. QED
    BY <2>3 DEF s
<1>2. CASE ~(kiosk.phase = "preparing" /\ attempt = kiosk.attempt)
  BY <1>2, StateFollows DEF ReceiptPrepared, HasMatchingPrintAttempt
<1>. QED
  BY <1>1, <1>2

\* Tickets that came out, of this attempt.
LEMMA PrintFollows ==
  ASSUME VisitInv, NEW attempt,
         attempt = kiosk.attempt /\ kiosk.phase = "printing" => visit[kiosk.visit].printed
  PROVE  Follows(PrintSucceeded(kiosk, attempt))
<1>. DEFINE s == PrintSucceeded(kiosk, attempt)
<1>1. CASE kiosk.phase = "printing" /\ attempt = kiosk.attempt
  <2>0. kiosk \in ExperienceState(VisitIds, Refs)
    BY DEF VisitInv, Types
  <2>1. /\ s \in ExperienceState(VisitIds, Refs) /\ s.phase = "cameraExiting"
        /\ s.ref = None /\ s.next = kiosk.next /\ s.attempt = 0
        /\ s.visit = kiosk.visit /\ s.end = "completed"
    BY <1>1, <2>0, SuccessMoves
  <2>2. kiosk.next \in Nat \ {0}
    BY DEF VisitInv, Types, ExperienceState
  <2>3. kiosk.visit # None
    BY <1>1 DEF VisitInv, KioskFits, PrintAttemptPhases
  <2>. HIDE DEF s
  <2>4. Follows(s)
    BY <1>1, <2>1, <2>2, <2>3 DEF VisitInv, KioskFits, Follows, PrintAttemptPhases
  <2>. QED
    BY <2>4 DEF s
<1>2. CASE ~(kiosk.phase = "printing" /\ attempt = kiosk.attempt)
  BY <1>2, StateFollows DEF PrintSucceeded, HasMatchingPrintAttempt
<1>. QED
  BY <1>1, <1>2

\* A failure of this attempt, or of another.
LEMMA FailureFollows ==
  ASSUME VisitInv, NEW attempt
  PROVE  Follows(PrintFailed(kiosk, attempt))
<1>. DEFINE s == PrintFailed(kiosk, attempt)
<1>1. CASE kiosk.phase \in PrintAttemptPhases /\ attempt = kiosk.attempt
  <2>0. kiosk \in ExperienceState(VisitIds, Refs)
    BY DEF VisitInv, Types
  <2>1. /\ s \in ExperienceState(VisitIds, Refs) /\ s.phase = "resetting"
        /\ s.ref = None /\ s.next = kiosk.next /\ s.attempt = 0
        /\ s.visit = kiosk.visit /\ s.end = "failed"
    BY <1>1, <2>0, FailureMoves
  <2>2. kiosk.next \in Nat \ {0}
    BY DEF VisitInv, Types, ExperienceState
  <2>. HIDE DEF s
  <2>3. Follows(s)
    BY <2>1, <2>2 DEF KioskFits, Follows, PrintAttemptPhases
  <2>. QED
    BY <2>3 DEF s
<1>2. CASE ~(kiosk.phase \in PrintAttemptPhases /\ attempt = kiosk.attempt)
  BY <1>2, StateFollows DEF PrintFailed, HasMatchingPrintAttempt
<1>. QED
  BY <1>1, <1>2

\* The phases that time themselves out, in the three rows they come in.
LEMMA ElapsedFollows ==
  ASSUME VisitInv, kiosk.phase \in TimedPhases
  PROVE  Follows(Elapsed)
<1>. DEFINE a == CameraAnimationCompleted(kiosk)
            b == CountedDown(a)
            taken == SmileElapsed(b)
            results == InstructionsElapsed(SlotResultElapsed(ReelsStopped(taken)))
            reset == AutoResetElapsed(results)
            s == StartButtonAnimationCompleted(StartButtonAnimationCompleted(reset))
<1>1. kiosk \in ExperienceState(VisitIds, Refs) /\ kiosk.next \in Nat \ {0}
  BY DEF VisitInv, Types, ExperienceState
<1>2. /\ a \in ExperienceState(VisitIds, Refs) /\ Kept(kiosk, a)
      /\ kiosk.phase = "introExiting" => a.phase = "countdown"
      /\ kiosk.phase = "cameraExiting" => a.phase = "receiptReady"
      /\ kiosk.phase = "resetting" => a.phase = "resettingButtonRepositioning"
      /\ kiosk.phase \notin {"introExiting", "cameraExiting", "resetting"} => a = kiosk
  BY <1>1, CameraMoves
<1>. HIDE DEF a
<1>3. /\ b \in ExperienceState(VisitIds, Refs) /\ Kept(kiosk, b)
      /\ b.phase = IF a.phase = "countdown" THEN "smile" ELSE a.phase
  BY <1>2, CountdownMoves DEF Kept
<1>. HIDE DEF b
<1>4. CASE kiosk.phase \in {"introExiting", "countdown", "smile"}
  <2>1. b.phase = "smile"
    BY <1>2, <1>3, <1>4
  <2>2. /\ taken \in ExperienceState(VisitIds, Refs) /\ taken.phase = "capturing"
        /\ taken.attempt = kiosk.next /\ taken.next = kiosk.next + 1
        /\ taken.ref = kiosk.ref /\ taken.visit = kiosk.visit /\ taken.end = kiosk.end
    BY <1>3, <2>1, SmileMoves DEF Kept
  <2>. HIDE DEF taken
  <2>3. results = taken
    BY <2>2, ResultStays
  <2>. HIDE DEF results
  <2>4. s = taken
    BY <2>2, <2>3 DEF AutoResetElapsed, StartButtonAnimationCompleted
  <2>5. Follows(taken)
    BY <1>1, <1>4, <2>2 DEF VisitInv, KioskFits, Follows, PrintAttemptPhases
  <2>. QED
    BY <2>4, <2>5 DEF Elapsed, results, taken, b, a
<1>5. CASE kiosk.phase \in {"spinning", "slotResult", "instructions"}
  <2>1. /\ taken = b /\ b.phase \in {"spinning", "slotResult", "instructions"}
    BY <1>2, <1>3, <1>5 DEF SmileElapsed
  <2>2. /\ results \in ExperienceState(VisitIds, Refs) /\ results.phase = "printing"
        /\ Kept(kiosk, results)
    BY <1>3, <2>1, ResultMoves DEF Kept
  <2>. HIDE DEF results
  <2>3. s = results
    BY <2>2 DEF AutoResetElapsed, StartButtonAnimationCompleted
  <2>4. Follows(results)
    BY <1>1, <1>5, <2>2 DEF VisitInv, KioskFits, Follows, PrintAttemptPhases, Kept
  <2>. QED
    BY <2>3, <2>4 DEF Elapsed, results, taken, b, a
<1>6. CASE kiosk.phase \in {"cameraExiting", "receiptReady"}
  <2>1. b.phase = "receiptReady"
    BY <1>2, <1>3, <1>6
  <2>2. results = b
    BY <2>1, ResultStays DEF SmileElapsed
  <2>. HIDE DEF results
  <2>3. /\ reset \in ExperienceState(VisitIds, Refs)
        /\ reset.phase = "resettingButtonRepositioning" /\ reset.ref = None
        /\ reset.next = kiosk.next /\ reset.attempt = 0
        /\ reset.visit = kiosk.visit /\ reset.end = kiosk.end
    BY <1>3, <2>1, <2>2, ResetMoves DEF Kept
  <2>. HIDE DEF reset
  <2>4. s \in ExperienceState(VisitIds, Refs) /\ Kept(reset, s) /\ s.phase = "idle"
    BY <2>3, ButtonMoves
  <2>. HIDE DEF s
  <2>5. Follows(s)
    BY <1>1, <1>6, <2>3, <2>4 DEF VisitInv, KioskFits, Follows, PrintAttemptPhases, Kept
  <2>. QED
    BY <2>5 DEF Elapsed, s, reset, results, taken, b, a
<1>7. CASE kiosk.phase \in {"resetting", "resettingButtonRepositioning",
                            "resettingButtonRevealing"}
  <2>1. b.phase \in {"resettingButtonRepositioning", "resettingButtonRevealing"}
    BY <1>2, <1>3, <1>7
  <2>2. results = b
    BY <2>1, ResultStays DEF SmileElapsed
  <2>. HIDE DEF results
  <2>3. reset = b
    BY <2>1, <2>2 DEF AutoResetElapsed
  <2>. HIDE DEF reset
  <2>4. s \in ExperienceState(VisitIds, Refs) /\ Kept(b, s) /\ s.phase = "idle"
    BY <1>3, <2>1, <2>3, ButtonMoves
  <2>. HIDE DEF s
  <2>5. Follows(s)
    BY <1>1, <1>3, <1>7, <2>4 DEF VisitInv, KioskFits, Follows, PrintAttemptPhases, Kept
  <2>. QED
    BY <2>5 DEF Elapsed, s, reset, results, taken, b, a
<1>. QED
  BY <1>4, <1>5, <1>6, <1>7 DEF TimedPhases, Phases

\* Somebody is in front of the kiosk once it left its start screen or a call is out.
LEMMA SomebodyCame ==
  ASSUME VisitInv, calls # {} \/ kiosk.phase # "idle"
  PROVE  guest \in Guests
  BY GuestsAssumption DEF VisitInv, Types

\* The calls a new state brings are on the wire and fit it.
LEMMA EffectsFit ==
  ASSUME VisitInv, guest \in Guests, NEW s, Follows(s), kiosk' = s, UNCHANGED <<guest, engine>>,
         NEW c \in Effects(s)
  PROVE  c \in CallType /\ c.stage = "sent" /\ CallFits(c, kiosk)'
<1>1. /\ kiosk \in ExperienceState(VisitIds, Refs) /\ kiosk.attempt \in Nat
      /\ s \in ExperienceState(VisitIds, Refs) /\ s.ref \in Refs \cup {None}
      /\ s.visit \in VisitIds \cup {None} /\ s.end \in {None, "completed", "failed"}
      /\ KioskFits(s) /\ 0 \in 0..PrintRetries
  BY GuestsAssumption DEF VisitInv, Types, Follows, ExperienceState
<1>2. VisitIds' = VisitIds /\ Refs' = Refs
  BY DEF VisitIds, Refs, engine
<1>3. \/ /\ s.phase = "printing" /\ kiosk.phase # "printing"
         /\ c = Call("printPreparedReceipt", s.ref, None, None, 0)
      \/ /\ s.visit # None /\ s.end # None
         /\ c = [Call("endVisit", None, s.visit, s.end, 0) EXCEPT !.heard = FALSE, !.attempt = 0]
  BY DEF Effects
<1>4. CASE /\ s.phase = "printing" /\ kiosk.phase # "printing"
           /\ c = Call("printPreparedReceipt", s.ref, None, None, 0)
  <2>1. /\ s.ref \in Refs /\ s.attempt # 0 /\ s.attempt < s.next
        /\ s.attempt = kiosk.attempt
    BY <1>1, <1>4 DEF Follows, KioskFits, PrintAttemptPhases
  <2>2. /\ c \in CallType /\ c.op = "printPreparedReceipt" /\ c.stage = "sent" /\ c.ref = s.ref
        /\ c.attempt = kiosk.attempt /\ c.guest = guest
    BY <1>1, <1>4, <2>1 DEF Call, CallType, Stages
  <2>. QED
    BY <1>2, <1>4, <2>1, <2>2 DEF CallFits
<1>5. CASE /\ s.visit # None /\ s.end # None
           /\ c = [Call("endVisit", None, s.visit, s.end, 0) EXCEPT !.heard = FALSE, !.attempt = 0]
  <2>1. /\ c \in CallType /\ c.op = "endVisit" /\ c.stage = "sent" /\ ~c.heard
        /\ c.visit = s.visit /\ c.end = s.end
    BY <1>1, <1>5 DEF Call, CallType, Stages
  <2>2. visit' = visit
    BY DEF engine
  <2>. QED
    BY <1>1, <1>2, <1>5, <2>1, <2>2 DEF CallFits, KioskFits
<1>. QED
  BY <1>3, <1>4, <1>5

\* What a call says still holds when the kiosk goes on.
LEMMA CallFollows ==
  ASSUME VisitInv, NEW s, Follows(s), kiosk' = s, UNCHANGED <<guest, engine>>,
         NEW c \in CallType, CallFits(c, kiosk)
  PROVE  CallFits(c, kiosk)'
<1>1. /\ c.attempt \in Nat /\ kiosk.next \in Nat /\ s.next \in Nat /\ s.attempt \in Nat
      /\ kiosk.next <= s.next
  BY DEF VisitInv, Types, Follows, ExperienceState, CallType
<1>2. VisitIds' = VisitIds /\ Refs' = Refs /\ visit' = visit /\ draws' = draws /\ guest' = guest
  BY DEF VisitIds, Refs, engine
<1>3. c.heard /\ c.op \in {"prepareReceipt", "printPreparedReceipt"} =>
        /\ c.attempt # 0 /\ c.attempt < s.next
        /\ c.attempt = s.attempt => c.attempt = kiosk.attempt
        /\ c.attempt = s.attempt => c.guest = guest
  BY <1>1 DEF CallFits, Follows
<1>4. c.heard /\ c.op = "printPreparedReceipt" /\ c.attempt = s.attempt =>
        c.ref = s.ref /\ s.phase \notin {"capturing", "preparing"}
  BY <1>1, <1>3 DEF CallFits, Follows
<1>. QED
  BY <1>2, <1>3, <1>4 DEF CallFits

\* A dispatch that leaves calls that fit.
LEMMA Dispatches ==
  ASSUME VisitInv, guest \in Guests, NEW s, Follows(s), NEW rest, rest \subseteq CallType,
         \A c \in rest : CallFits(c, kiosk), JobsFit(rest), Dispatch(s, rest),
         UNCHANGED <<guest, engine>>, faults' \in 0..MaxFaults
  PROVE  VisitInv'
<1>1. kiosk' = s /\ calls' = rest \cup Effects(s)
  BY DEF Dispatch
<1>2. /\ VisitIds' = VisitIds /\ Refs' = Refs /\ visit' = visit /\ draws' = draws
      /\ guest' = guest /\ store' = store /\ photos' = photos
  BY DEF VisitIds, Refs, engine
<1>3. \A c \in calls' : c \in CallType /\ CallFits(c, kiosk)'
  BY <1>1, EffectsFit, CallFollows
<1>4. CallType' = CallType /\ PreparedJobs' = PreparedJobs
      /\ ExperienceState(VisitIds, Refs)' = ExperienceState(VisitIds, Refs)
  BY <1>2 DEF CallType, PreparedJobs, ExperienceState, Stages
<1>5. Types'
  BY <1>1, <1>2, <1>3, <1>4, GuestsAssumption DEF VisitInv, Types, Follows, VisitRow
<1>6. DrawsFit' /\ OneOpenVisit' /\ CompletedMeansPrinted'
  BY <1>2 DEF VisitInv, DrawsFit, OneOpenVisit, CompletedMeansPrinted, Open
<1>7. JobsFit(calls)'
  <2>1. HeldBy(rest \cup Effects(s)) \subseteq HeldBy(rest)
    BY <1>1, EffectsFit DEF HeldBy
  <2>2. JobsFit(rest \cup Effects(s))
    BY <2>1, JobsOfFewer
  <2>. QED
    BY <1>1, <1>2, <2>2 DEF JobsFit, HeldBy, JobsOf
<1>8. KioskFits(kiosk)'
  BY <1>1, <1>2 DEF Follows, KioskFits
<1>. QED
  BY <1>3, <1>5, <1>6, <1>7, <1>8 DEF VisitInv

\* The calls there are, or some of them, as a dispatch leaves them.
LEMMA CallsThere ==
  ASSUME VisitInv
  PROVE  /\ calls \subseteq CallType /\ JobsFit(calls) /\ \A c \in calls : CallFits(c, kiosk)
         /\ \A D \in SUBSET calls : JobsFit(D)
<1>1. \A D \in SUBSET calls : HeldBy(D) \subseteq HeldBy(calls)
  BY DEF HeldBy
<1>2. JobsFit(calls)
  BY DEF VisitInv
<1>. QED
  BY <1>1, <1>2, JobsOfFewer DEF VisitInv, Types

\* The timed phases keep the invariant.
LEMMA TimersKeep ==
  ASSUME VisitInv, PhaseTimers
  PROVE  VisitInv'
<1>1. kiosk.phase \in TimedPhases /\ Dispatch(Elapsed, calls) /\ UNCHANGED <<guest, engine, faults>>
  BY DEF PhaseTimers
<1>2. guest \in Guests
  BY <1>1, SomebodyCame DEF TimedPhases
<1>3. faults' \in 0..MaxFaults
  BY <1>1 DEF VisitInv, Types
<1>. QED
  BY <1>1, <1>2, <1>3, ElapsedFollows, CallsThere, Dispatches

\* The camera or the budget fails.
LEMMA FailingKeeps ==
  ASSUME VisitInv, AttemptFails
  PROVE  VisitInv'
<1>1. /\ kiosk.phase \in AttemptBudgetPhases
      /\ Dispatch(PrintFailed(kiosk, kiosk.attempt), calls) /\ UNCHANGED <<guest, engine, faults>>
  BY DEF AttemptFails
<1>2. guest \in Guests
  BY <1>1, SomebodyCame DEF AttemptBudgetPhases
<1>3. faults' \in 0..MaxFaults
  BY <1>1 DEF VisitInv, Types
<1>. QED
  BY <1>1, <1>2, <1>3, FailureFollows, CallsThere, Dispatches

\* The photo is sent with an attempt and a guest that fit.
LEMMA PhotoKeeps ==
  ASSUME VisitInv, TakePhoto
  PROVE  VisitInv'
<1>. DEFINE sent == Call("prepareReceipt", None, kiosk.visit, None, 0)
            rest == calls \cup {sent}
<1>1. /\ kiosk.phase = "capturing" /\ UNCHANGED <<guest, engine, faults>>
      /\ Dispatch(PhotoCaptured(kiosk, kiosk.attempt), rest)
  BY DEF TakePhoto
<1>2. guest \in Guests
  BY <1>1, SomebodyCame
<1>3. /\ faults' \in 0..MaxFaults /\ kiosk.attempt \in Nat /\ kiosk.visit \in VisitIds \cup {None}
      /\ 0 \in 0..PrintRetries
  BY <1>1, GuestsAssumption DEF VisitInv, Types, ExperienceState
<1>4. kiosk.attempt # 0 /\ kiosk.attempt < kiosk.next
  BY <1>1 DEF VisitInv, KioskFits, PrintAttemptPhases
<1>5. /\ sent \in CallType /\ sent.op = "prepareReceipt" /\ sent.stage = "sent"
      /\ sent.attempt = kiosk.attempt /\ sent.guest = guest
  BY <1>2, <1>3 DEF Call, CallType, Stages
<1>. HIDE DEF sent
<1>6. CallFits(sent, kiosk)
  BY <1>4, <1>5 DEF CallFits
<1>7. HeldBy(rest) \subseteq HeldBy(calls)
  BY <1>5 DEF HeldBy
<1>8. rest \subseteq CallType /\ JobsFit(rest) /\ \A c \in rest : CallFits(c, kiosk)
  BY <1>5, <1>6, <1>7, CallsThere, JobsOfFewer
<1>. HIDE DEF rest
<1>. QED
  BY <1>1, <1>2, <1>3, <1>8, PhotoFollows, Dispatches

\* An answer moves the kiosk only as its own attempt's.
LEMMA AnswerKeeps ==
  ASSUME VisitInv, NEW c \in calls, HearAnswer(c)
  PROVE  VisitInv'
<1>. DEFINE rest == calls \ {c}
<1>1. /\ c.heard /\ c.stage = "answered" /\ UNCHANGED <<guest, engine, faults>>
      /\ guest \in Guests /\ c \in CallType /\ CallFits(c, kiosk)
  BY SomebodyCame, CallsThere DEF HearAnswer
<1>2. rest \subseteq CallType /\ JobsFit(rest) /\ \A d \in rest : CallFits(d, kiosk)
  BY CallsThere
<1>3. faults' \in 0..MaxFaults
  BY <1>1 DEF VisitInv, Types
<1>. HIDE DEF rest
<1>4. ASSUME NEW s, Follows(s), Dispatch(s, rest) PROVE VisitInv'
  BY <1>1, <1>2, <1>3, <1>4, Dispatches
<1>5. CASE c.op = "startVisit"
  <2>1. Dispatch(VisitStarted(kiosk, c.visit), rest)
    BY <1>5 DEF HearAnswer, rest
  <2>2. c.visit \in VisitIds \cup {None}
    BY <1>1 DEF CallType
  <2>. QED
    BY <1>4, <2>1, <2>2, VisitFollows
<1>6. CASE c.op = "prepareReceipt"
  <2>1. Dispatch(ReceiptPrepared(kiosk, c.attempt, c.ref, c.lottery, c.visit), rest)
    BY <1>6 DEF HearAnswer, rest
  <2>2. /\ c.ref \in Refs /\ c.visit \in VisitIds /\ visit[c.visit].draw = c.ref
        /\ c.attempt = kiosk.attempt => draws[c.ref] = guest
    BY <1>1, <1>6 DEF CallFits
  <2>3. c.lottery \in BOOLEAN
    BY <1>1 DEF CallType
  <2>. QED
    BY <1>4, <2>1, <2>2, <2>3, TicketFollows
<1>7. CASE c.op = "printPreparedReceipt"
  <2>1. Dispatch(PrintSucceeded(kiosk, c.attempt), rest)
    BY <1>7 DEF HearAnswer, rest
  <2>2. c.attempt = kiosk.attempt /\ kiosk.phase = "printing" => visit[kiosk.visit].printed
    <3>1. kiosk.visit \in VisitIds \cup {None}
      BY DEF VisitInv, Types, ExperienceState
    <3>. QED
      BY <1>1, <1>7, <3>1 DEF VisitInv, CallFits, KioskFits, PrintAttemptPhases
  <2>. QED
    BY <1>4, <2>1, <2>2, PrintFollows
<1>8. CASE c.op = "endVisit"
  <2>1. Dispatch(kiosk, rest)
    BY <1>8 DEF HearAnswer, rest
  <2>. QED
    BY <1>4, <2>1, StateFollows
<1>. QED
  BY <1>1, <1>5, <1>6, <1>7, <1>8 DEF CallType

\* A call the page saw fail is made again or given up.
LEMMA FailureKeeps ==
  ASSUME VisitInv, NEW c \in calls, c.heard, NEW rest, rest \subseteq CallType, JobsFit(rest),
         \A d \in rest : CallFits(d, kiosk), OnFailure(c, rest), UNCHANGED <<guest, engine>>,
         faults' \in 0..MaxFaults
  PROVE  VisitInv'
<1>1. guest \in Guests /\ c \in CallType /\ CallFits(c, kiosk)
  BY SomebodyCame, CallsThere
<1>2. CASE MayRetry(c)
  <2>. DEFINE again == [c EXCEPT !.stage = "sent", !.try = @ + 1, !.ticket = FALSE]
              more == rest \cup {again}
  <2>1. c.op = "printPreparedReceipt" /\ c.try + 1 \in 0..PrintRetries
    BY <1>1, <1>2, GuestsAssumption DEF MayRetry, CallType
  <2>2. /\ again \in CallType /\ again.op = c.op /\ again.stage = "sent" /\ again.ref = c.ref
        /\ again.attempt = c.attempt /\ again.guest = c.guest
    BY <1>1, <2>1 DEF CallType, Stages
  <2>3. Dispatch(kiosk, more)
    BY <1>2 DEF OnFailure
  <2>. HIDE DEF again
  <2>4. CallFits(again, kiosk)
    BY <1>1, <2>1, <2>2 DEF CallFits
  <2>5. HeldBy(more) \subseteq HeldBy(rest)
    BY <2>2 DEF HeldBy
  <2>6. more \subseteq CallType /\ JobsFit(more) /\ \A d \in more : CallFits(d, kiosk)
    BY <2>2, <2>4, <2>5, JobsOfFewer
  <2>. HIDE DEF more
  <2>. QED
    BY <1>1, <2>3, <2>6, StateFollows, Dispatches
<1>3. CASE ~MayRetry(c)
  <2>1. \/ Dispatch(PrintFailed(kiosk, c.attempt), rest)
        \/ Dispatch(kiosk, rest)
    BY <1>3 DEF OnFailure
  <2>. QED
    BY <1>1, <2>1, StateFollows, FailureFollows, Dispatches
<1>. QED
  BY <1>2, <1>3

\* A failed call.
LEMMA HearingFailureKeeps ==
  ASSUME VisitInv, NEW c \in calls, HearFailure(c)
  PROVE  VisitInv'
<1>1. c.heard /\ OnFailure(c, calls \ {c}) /\ UNCHANGED <<guest, engine, faults>>
  BY DEF HearFailure
<1>2. faults' \in 0..MaxFaults
  BY <1>1 DEF VisitInv, Types
<1>3. /\ calls \ {c} \subseteq CallType /\ JobsFit(calls \ {c})
      /\ \A d \in calls \ {c} : CallFits(d, kiosk)
  BY CallsThere
<1>. QED
  BY <1>1, <1>2, <1>3, FailureKeeps

\* A cut connection: the page gives up on a call the engine goes on with.
LEMMA LosingKeeps ==
  ASSUME VisitInv, NEW c \in calls, LoseConnection(c)
  PROVE  VisitInv'
<1>. DEFINE cut == [c EXCEPT !.heard = FALSE]
            rest == (calls \ {c}) \cup IF c.stage = "answered" THEN {} ELSE {cut}
<1>1. /\ c.heard /\ OnFailure(c, rest) /\ UNCHANGED <<guest, engine>>
      /\ faults < MaxFaults /\ faults' = faults + 1 /\ c \in CallType /\ CallFits(c, kiosk)
  BY CallsThere DEF LoseConnection
<1>2. faults' \in 0..MaxFaults
  BY <1>1, GuestsAssumption DEF VisitInv, Types
<1>3. /\ cut \in CallType /\ ~cut.heard /\ cut.op = c.op /\ cut.stage = c.stage
      /\ cut.ref = c.ref /\ cut.visit = c.visit /\ cut.end = c.end /\ cut.guest = c.guest
  BY <1>1 DEF CallType
<1>4. JobsFit((calls \ {c}) \cup {cut})
  BY CallsThere, JobsUnheard
<1>. HIDE DEF cut
<1>5. CallFits(cut, kiosk)
  BY <1>1, <1>3 DEF CallFits
<1>6. rest \subseteq CallType /\ JobsFit(rest) /\ \A d \in rest : CallFits(d, kiosk)
  BY <1>3, <1>4, <1>5, CallsThere
<1>. HIDE DEF rest
<1>. QED
  BY <1>1, <1>2, <1>6, FailureKeeps

\* A request that never arrives.
LEMMA LostKeeps ==
  ASSUME VisitInv, NEW c \in calls, NeverArrives(c)
  PROVE  VisitInv'
<1>1. calls' = calls \ {c} /\ UNCHANGED <<kiosk, guest, engine, faults>>
  BY DEF NeverArrives
<1>2. visit' = visit /\ draws' = draws /\ store' = store /\ photos' = photos
  BY <1>1 DEF engine
<1>3. HeldBy(calls') \subseteq HeldBy(calls) /\ faults' \in 0..MaxFaults /\ VisitsFit
  BY <1>1 DEF HeldBy, VisitInv, Types, VisitsFit
<1>. QED
  BY <1>1, <1>2, <1>3, VisitsStay, JobsStay, EngineMoves

\* The page starts over; what the engine still works on is nobody's.
LEMMA ReloadKeeps ==
  ASSUME VisitInv, Reload
  PROVE  VisitInv'
<1>. DEFINE running == {d \in calls : d.stage \in {"sent", "rendering", "drawn", "photo", "ticket"}}
<1>1. /\ kiosk' = initialExperienceState /\ UNCHANGED <<guest, engine>>
      /\ calls' = {[c EXCEPT !.heard = FALSE] : c \in running}
      /\ faults < MaxFaults /\ faults' = faults + 1
  BY DEF Reload
<1>2. /\ VisitIds' = VisitIds /\ Refs' = Refs /\ visit' = visit /\ draws' = draws
      /\ guest' = guest /\ store' = store /\ photos' = photos
  BY <1>1 DEF VisitIds, Refs, engine
<1>3. \A c \in calls : c \in CallType /\ CallFits(c, kiosk)
  BY CallsThere
<1>4. \A d \in calls' : d \in CallType /\ ~d.heard /\ \E c \in calls :
        /\ d.op = c.op /\ d.stage = c.stage /\ d.ref = c.ref /\ d.visit = c.visit
        /\ d.end = c.end /\ d.guest = c.guest /\ d = [c EXCEPT !.heard = FALSE]
  <2>1. ASSUME NEW d \in calls'
        PROVE  \E c \in calls : d = [c EXCEPT !.heard = FALSE]
    BY <1>1, <2>1
  <2>2. ASSUME NEW c \in calls, NEW d, d = [c EXCEPT !.heard = FALSE]
        PROVE  /\ d \in CallType /\ ~d.heard /\ d.op = c.op /\ d.stage = c.stage
               /\ d.ref = c.ref /\ d.visit = c.visit /\ d.end = c.end /\ d.guest = c.guest
    BY <1>3, <2>2 DEF CallType
  <2>. QED
    BY <2>1, <2>2
<1>5. Types'
  <2>1. calls = {} => calls' = {}
    BY <1>4
  <2>2. 0 \in 0..CountdownStart
    BY CountdownAssumption
  <2>3. kiosk' \in ExperienceState(VisitIds, Refs) /\ kiosk'.phase = "idle"
    BY <1>1, <2>2 DEF initialExperienceState, ExperienceState, Phases
  <2>4. faults' \in 0..MaxFaults
    BY <1>1, GuestsAssumption DEF VisitInv, Types
  <2>. QED
    BY <1>2, <1>4, <2>1, <2>3, <2>4
       DEF VisitInv, Types, CallType, PreparedJobs, ExperienceState, VisitRow, Stages
<1>6. DrawsFit' /\ OneOpenVisit' /\ CompletedMeansPrinted'
  BY <1>2 DEF VisitInv, DrawsFit, OneOpenVisit, CompletedMeansPrinted, Open
<1>7. KioskFits(kiosk)'
  BY <1>1, NoneAssumption DEF KioskFits, initialExperienceState, PrintAttemptPhases
<1>8. JobsFit(calls)'
  <2>1. \A d \in HeldBy(calls') : \E c \in HeldBy(calls) :
          d.stage = c.stage /\ d.ref = c.ref /\ d = [c EXCEPT !.heard = FALSE]
    BY <1>4 DEF HeldBy
  <2>2. JobsFit(calls)
    BY DEF VisitInv
  <2>3. ASSUME NEW d \in HeldBy(calls'), NEW e \in HeldBy(calls'), d.ref = e.ref PROVE d = e
    <3>1. PICK b \in HeldBy(calls) : d.ref = b.ref /\ d = [b EXCEPT !.heard = FALSE]
      BY <2>1
    <3>2. PICK c \in HeldBy(calls) : e.ref = c.ref /\ e = [c EXCEPT !.heard = FALSE]
      BY <2>1
    <3>3. b = c
      BY <2>2, <2>3, <3>1, <3>2 DEF JobsFit
    <3>. QED
      BY <3>1, <3>2, <3>3
  <2>4. \A d \in HeldBy(calls') :
          d.ref \in Refs /\ JobsOf(d.ref) = {} /\ (d.stage # "ticket" => photos[d.ref] = 0)
    BY <2>1, <2>2 DEF JobsFit
  <2>5. JobsFit(calls')
    BY <2>2, <2>3, <2>4 DEF JobsFit
  <2>. QED
    BY <1>2, <2>5 DEF JobsFit, HeldBy, JobsOf
<1>9. \A d \in calls' : CallFits(d, kiosk)'
  <2>1. ASSUME NEW d \in calls' PROVE CallFits(d, kiosk)'
    <3>1. PICK c \in calls : /\ d.op = c.op /\ d.stage = c.stage /\ d.ref = c.ref
                             /\ d.visit = c.visit /\ d.end = c.end /\ d.guest = c.guest
      BY <1>4
    <3>. QED
      BY <1>2, <1>3, <1>4, <3>1 DEF CallFits
  <2>. QED
    BY <2>1
<1>. QED
  BY <1>5, <1>6, <1>7, <1>8, <1>9 DEF VisitInv

\* The next guest: no call of an earlier attempt is taken as theirs.
LEMMA StartKeeps ==
  ASSUME VisitInv, NEW hasLottery \in Lotteries, Start(hasLottery)
  PROVE  VisitInv'
<1>. DEFINE sent == [Call("startVisit", None, None, None, 0) EXCEPT !.guest = guest + 1,
                                                                   !.attempt = 0]
            s == StartRequested(kiosk, hasLottery)
<1>1. /\ kiosk.phase = "idle" /\ guest < MaxGuests /\ guest' = guest + 1 /\ kiosk' = s
      /\ calls' = calls \cup {sent} /\ UNCHANGED <<engine, faults>>
  BY DEF Start
<1>2. /\ VisitIds' = VisitIds /\ Refs' = Refs /\ visit' = visit /\ draws' = draws
      /\ store' = store /\ photos' = photos /\ faults' = faults
  BY <1>1 DEF VisitIds, Refs, engine
<1>3. guest + 1 \in Guests /\ guest + 1 \in 0..MaxGuests /\ guest + 1 # 0
  BY <1>1, GuestsAssumption DEF VisitInv, Types
<1>4. /\ kiosk \in ExperienceState(VisitIds, Refs) /\ kiosk.attempt \in Nat
      /\ kiosk.next \in Nat \ {0} /\ 0 \in 0..PrintRetries /\ 0 \in 0..CountdownStart
      /\ hasLottery \in BOOLEAN /\ "introExiting" \in Phases
  BY GuestsAssumption, CountdownAssumption DEF VisitInv, Types, ExperienceState, Phases
<1>5. /\ s \in ExperienceState(VisitIds, Refs) /\ s.phase = "introExiting" /\ s.ref = None
      /\ s.attempt = 0 /\ s.visit = None /\ s.end = None /\ s.next = kiosk.next
  BY <1>1, <1>4 DEF StartRequested, ExperienceState
<1>6. sent \in CallType /\ sent.op = "startVisit" /\ sent.stage = "sent"
  BY <1>3, <1>4 DEF Call, CallType, Stages
<1>. HIDE DEF sent, s
<1>7. Types'
  BY <1>1, <1>2, <1>3, <1>5, <1>6
     DEF VisitInv, Types, CallType, PreparedJobs, ExperienceState, VisitRow, Stages
<1>8. DrawsFit' /\ OneOpenVisit' /\ CompletedMeansPrinted'
  BY <1>2 DEF VisitInv, DrawsFit, OneOpenVisit, CompletedMeansPrinted, Open
<1>9. KioskFits(kiosk)'
  BY <1>1, <1>4, <1>5, NoneAssumption DEF KioskFits, PrintAttemptPhases
<1>10. JobsFit(calls)'
  <2>1. HeldBy(calls') \subseteq HeldBy(calls)
    BY <1>1, <1>6 DEF HeldBy
  <2>. QED
    BY <1>2, <2>1, JobsStay
<1>11. \A c \in calls' : CallFits(c, kiosk)'
  BY <1>1, <1>2, <1>5, <1>6, CallsThere DEF CallFits
<1>. QED
  BY <1>7, <1>8, <1>9, <1>10, <1>11 DEF VisitInv

-----------------------------------------------------------------------------
(***************************************************************************)
(* What the engine does.                                                   *)
(***************************************************************************)

\* What every step of a call starts from.
LEMMA CallThere ==
  ASSUME VisitInv, NEW c \in calls
  PROVE  /\ c \in CallType /\ CallFits(c, kiosk) /\ VisitsFit /\ JobsFit(calls)
         /\ draws \in Seq(Guests) /\ photos \in Seq(Nat) /\ Len(photos) = Len(draws)
         /\ store \subseteq PreparedJobs /\ faults \in 0..MaxFaults /\ calls # {}
  BY DEF VisitInv, Types, VisitsFit

\* A call goes on to another stage and holds no receipt it did not hold.
LEMMA StageMoves ==
  ASSUME VisitInv, NEW c \in calls, NEW stage \in Stages \ {"drawn", "answered"},
         NEW d, d = [c EXCEPT !.stage = stage], VisitsGoOn, DrawsGoOn, UNCHANGED <<kiosk, guest>>
  PROVE  d \in CallType' /\ CallFits(d, kiosk)'
<1>1. c \in CallType /\ CallFits(c, kiosk) /\ draws \in Seq(Guests)
  BY CallThere
<1>2. CallFits(c, kiosk)'
  BY <1>1, CallStays
<1>3. /\ d \in CallType /\ d.op = c.op /\ d.ref = c.ref /\ d.visit = c.visit /\ d.end = c.end
      /\ d.heard = c.heard /\ d.attempt = c.attempt /\ d.guest = c.guest /\ d.stage = stage
  BY <1>1 DEF CallType
<1>4. d \in CallType'
  BY <1>3, SetsGrow DEF VisitsGoOn, DrawsGoOn
<1>. QED
  BY <1>2, <1>3, <1>4 DEF CallFits

\* The engine opens the guest's visit.
LEMMA startVisitKeeps ==
  ASSUME VisitInv, NEW c \in calls, startVisit(c)
  PROVE  VisitInv' /\ VisitsGoOn
<1>0. PICK id : id = Len(visit) + 1
  OBVIOUS
<1>. DEFINE d == [c EXCEPT !.stage = "answered", !.visit = id]
<1>1. /\ c.op = "startVisit" /\ c.stage = "sent" /\ VisitStart(c.guest) /\ Answers(c, d)
      /\ UNCHANGED <<kiosk, guest, store, draws, photos, faults>>
  BY <1>0 DEF startVisit
<1>2. /\ c \in CallType /\ c.guest \in Guests /\ VisitsFit /\ draws \in Seq(Guests)
      /\ faults \in 0..MaxFaults /\ Len(visit) \in Nat /\ calls # {}
  BY CallThere DEF CallType, VisitsFit
<1>3. VisitsFit' /\ VisitsGoOn /\ DrawsGoOn /\ VisitIds' = 1..(Len(visit) + 1)
  BY <1>1, <1>2, VisitsStart
<1>4. c \in CallType' /\ id \in VisitIds'
  BY <1>0, <1>2, <1>3, SetsGrow DEF VisitsGoOn, DrawsGoOn
<1>5. d \in CallType' /\ d.op = "startVisit" /\ d.stage = "answered"
  BY <1>1, <1>4 DEF CallType, Stages
<1>. HIDE DEF d
<1>6. CallFits(d, kiosk)'
  BY <1>5 DEF CallFits
<1>7. calls' \subseteq calls \cup {d}
  BY <1>1 DEF Answers
<1>8. HeldBy(calls') \subseteq HeldBy(calls)
  BY <1>5, <1>7 DEF HeldBy
<1>. QED
  BY <1>1, <1>2, <1>3, <1>5, <1>6, <1>7, <1>8, JobsStay, EngineMoves

\* The engine ends the visit the kiosk named.
LEMMA endVisitKeeps ==
  ASSUME VisitInv, NEW c \in calls, endVisit(c)
  PROVE  VisitInv' /\ VisitsGoOn
<1>1. /\ c.op = "endVisit" /\ VisitEnd(c.visit, c.end) /\ calls' = calls \ {c}
      /\ UNCHANGED <<kiosk, guest, store, draws, photos, faults>>
  BY DEF endVisit
<1>2. /\ VisitsFit /\ faults \in 0..MaxFaults /\ calls # {} /\ c.visit \in VisitIds
      /\ c.end \in {"completed", "failed"} /\ (c.end = "completed" => visit[c.visit].printed)
  BY <1>1, CallThere DEF CallType, CallFits
<1>3. VisitsFit' /\ VisitsGoOn /\ DrawsGoOn
  BY <1>1, <1>2, VisitsEnd
<1>4. HeldBy(calls') \subseteq HeldBy(calls)
  BY <1>1 DEF HeldBy
<1>. QED
  BY <1>1, <1>2, <1>3, <1>4, JobsStay, EngineMoves

\* A call goes on or is given an answer, and nothing else happens.
LEMMA CallGoesOn ==
  ASSUME VisitInv, NEW c \in calls, NEW stage \in {"rendering", "failed", "notFound"},
         calls' \subseteq (calls \ {c}) \cup {[c EXCEPT !.stage = stage]},
         UNCHANGED <<kiosk, guest, engine, faults>>
  PROVE  VisitInv' /\ VisitsGoOn
<1>. DEFINE d == [c EXCEPT !.stage = stage]
<1>1. visit' = visit /\ draws' = draws /\ store' = store /\ photos' = photos
  BY DEF engine
<1>2. /\ c \in CallType /\ VisitsFit /\ faults \in 0..MaxFaults /\ calls # {}
  BY CallThere
<1>3. VisitsFit' /\ VisitsGoOn /\ DrawsGoOn
  BY <1>1, <1>2, VisitsStay
<1>4. d.stage = stage
  BY <1>2 DEF CallType
<1>5. d \in CallType' /\ CallFits(d, kiosk)'
  BY <1>3, StageMoves DEF Stages
<1>. HIDE DEF d
<1>6. calls' \subseteq (calls \ {c}) \cup {d}
  BY DEF d
<1>7. HeldBy(calls') \subseteq HeldBy(calls)
  BY <1>4, <1>6 DEF HeldBy
<1>. QED
  BY <1>1, <1>2, <1>3, <1>5, <1>6, <1>7, JobsStay, EngineMoves

\* The printer gate.
LEMMA BeginPrepareKeeps ==
  ASSUME VisitInv, NEW c \in calls, BeginPrepare(c)
  PROVE  VisitInv' /\ VisitsGoOn
  BY CallGoesOn DEF BeginPrepare, Answers, Moves

\* A receipt that cannot be laid out.
LEMMA PrepareFailsKeeps ==
  ASSUME VisitInv, NEW c \in calls, PrepareFails(c)
  PROVE  VisitInv' /\ VisitsGoOn
  BY CallGoesOn DEF PrepareFails, Answers

\* A draw lands in one visit, and its receipt is with the call that drew.
LEMMA CommitDrawKeeps ==
  ASSUME VisitInv, NEW c \in calls, CommitDraw(c)
  PROVE  VisitInv' /\ VisitsGoOn
<1>0. PICK ref : ref = Len(draws) + 1
  OBVIOUS
<1>1. PICK landed \in VisitIds \cup {Len(visit) + 1}, lottery \in Lotteries :
        /\ VisitCaptured(c.visit, ref, c.guest, landed)
        /\ Moves(c, [c EXCEPT !.stage = "drawn", !.ref = ref, !.visit = landed,
                              !.lottery = lottery])
  BY <1>0 DEF CommitDraw
<1>. DEFINE d == [c EXCEPT !.stage = "drawn", !.ref = ref, !.visit = landed, !.lottery = lottery]
<1>2. /\ c.op = "prepareReceipt" /\ c.stage = "rendering" /\ calls' = (calls \ {c}) \cup {d}
      /\ draws' = Append(draws, c.guest) /\ photos' = Append(photos, 0)
      /\ UNCHANGED <<kiosk, guest, store, faults>>
  BY <1>1 DEF CommitDraw, Moves
<1>3. /\ c \in CallType /\ c.guest \in Guests /\ VisitsFit /\ draws \in Seq(Guests)
      /\ photos \in Seq(Nat) /\ Len(photos) = Len(draws) /\ store \subseteq PreparedJobs
      /\ faults \in 0..MaxFaults /\ calls # {} /\ CallFits(c, kiosk) /\ JobsFit(calls)
  BY CallThere DEF CallType
<1>4. /\ VisitsFit' /\ VisitsGoOn /\ DrawsGoOn
      /\ landed \in VisitIds' /\ visit'[landed].draw = ref
  BY <1>0, <1>1, <1>2, <1>3, VisitsCapture
<1>5. /\ draws' \in Seq(Guests) /\ Len(draws') = ref /\ draws'[ref] = c.guest
      /\ photos' \in Seq(Nat) /\ Len(photos') = ref /\ photos'[ref] = 0
      /\ \A r \in 1..Len(draws) : photos'[r] = photos[r]
  BY <1>0, <1>2, <1>3, AppendProperties
<1>6. /\ Refs = 1..Len(draws) /\ Refs' = 1..ref /\ ref \in Nat /\ Len(draws) \in Nat
  BY <1>0, <1>3, <1>5 DEF Refs
<1>7. ref \in Refs' /\ ref \notin Refs /\ Refs' = Refs \cup {ref}
  BY <1>0, <1>6
<1>8. c \in CallType' /\ lottery \in BOOLEAN
  BY <1>3, <1>4, SetsGrow, GuestsAssumption DEF VisitsGoOn, DrawsGoOn
<1>9. /\ d \in CallType' /\ d.op = "prepareReceipt" /\ d.stage = "drawn" /\ d.ref = ref
      /\ d.visit = landed /\ d.heard = c.heard /\ d.attempt = c.attempt /\ d.guest = c.guest
  BY <1>2, <1>4, <1>7, <1>8 DEF CallType, Stages
<1>. HIDE DEF d
<1>10. CallFits(d, kiosk)'
  BY <1>2, <1>3, <1>4, <1>5, <1>7, <1>9 DEF CallFits
<1>11. store' \subseteq PreparedJobs'
  BY <1>2, <1>3, <1>4, SetsGrow DEF VisitsGoOn, DrawsGoOn
<1>12. JobsFit(calls)'
  <2>1. HeldBy(calls') \subseteq HeldBy(calls) \cup {d}
    BY <1>2 DEF HeldBy
  <2>2. \A j \in store : j.ref \in Refs
    BY <1>3 DEF PreparedJobs
  <2>3. \A e \in HeldBy(calls) : e.ref \in Refs /\ (e.stage # "ticket" => photos'[e.ref] = 0)
    BY <1>3, <1>5, <1>6 DEF JobsFit
  <2>4. \A r \in Refs : photos'[r] = photos[r]
    BY <1>5, <1>6
  <2>5. ASSUME NEW e \in HeldBy(calls')
        PROVE  e.ref \in Refs' /\ JobsOf(e.ref)' = {} /\ (e.stage # "ticket" => photos'[e.ref] = 0)
    <3>1. CASE e = d
      BY <1>2, <1>5, <1>7, <1>9, <2>2, <3>1 DEF JobsOf
    <3>2. CASE e \in HeldBy(calls)
      <4>1. JobsOf(e.ref) = {}
        BY <1>3, <3>2 DEF JobsFit
      <4>2. JobsOf(e.ref)' = {}
        BY <1>2, <4>1 DEF JobsOf
      <4>. QED
        BY <1>7, <2>3, <3>2, <4>2
    <3>. QED
      BY <2>1, <3>1, <3>2
  <2>6. \A e, f \in HeldBy(calls') : e.ref = f.ref => e = f
    BY <1>3, <1>7, <1>9, <2>1, <2>3 DEF JobsFit
  <2>7. /\ \A j \in store' : ~j.photoPrinted => photos'[j.ref] = 0
        /\ \A j, k \in store' : j.ref = k.ref => j = k
    BY <1>2, <1>3, <2>2, <2>4 DEF JobsFit
  <2>8. \A r \in Refs' : photos'[r] <= 1
    <3>1. \A r \in Refs : photos[r] <= 1
      BY <1>3 DEF JobsFit
    <3>2. photos'[ref] <= 1
      BY <1>5
    <3>. QED
      BY <1>7, <2>4, <3>1, <3>2
  <2>. QED
    BY <2>5, <2>6, <2>7, <2>8 DEF JobsFit, HeldBy
<1>. QED
  BY <1>2, <1>3, <1>4, <1>5, <1>9, <1>10, <1>11, <1>12, EngineMoves

\* The receipt changes hands and nothing else does: the call gives it to the
\* store, takes it from there, or prints it.
LEMMA ReceiptMoves ==
  ASSUME VisitInv, NEW c \in calls, NEW d, calls' \subseteq (calls \ {c}) \cup {d},
         d \in CallType, CallFits(d, kiosk), UNCHANGED <<kiosk, guest, draws, visit, faults>>,
         store' \subseteq PreparedJobs, photos' \in Seq(Nat), Len(photos') = Len(draws),
         JobsFit(calls)'
  PROVE  VisitInv' /\ VisitsGoOn
<1>1. VisitsFit /\ draws \in Seq(Guests) /\ faults \in 0..MaxFaults /\ calls # {}
  BY CallThere
<1>2. VisitsFit' /\ VisitsGoOn /\ DrawsGoOn
  BY <1>1, VisitsStay
<1>3. CallFits(d, kiosk)'
  BY <1>1, <1>2, CallStays
<1>4. d \in CallType' /\ store' \subseteq PreparedJobs'
  BY <1>2, SetsGrow DEF VisitsGoOn, DrawsGoOn
<1>. QED
  BY <1>1, <1>2, <1>3, <1>4, EngineMoves

\* The receipt passes from its call to the store.
LEMMA KeepJobKeeps ==
  ASSUME VisitInv, NEW c \in calls, KeepJob(c)
  PROVE  VisitInv' /\ VisitsGoOn
<1>. DEFINE d == [c EXCEPT !.stage = "answered"]
<1>1. PICK ticket \in {FALSE, c.lottery} : store' = store \cup {Job(c.ref, FALSE, ticket)}
  BY DEF KeepJob
<1>. DEFINE job == Job(c.ref, FALSE, ticket)
<1>2. /\ c.op = "prepareReceipt" /\ c.stage = "drawn" /\ calls' \subseteq (calls \ {c}) \cup {d}
      /\ UNCHANGED <<kiosk, guest, draws, photos, visit, faults>>
  BY DEF KeepJob, Answers
<1>3. /\ c \in CallType /\ c.lottery \in BOOLEAN /\ CallFits(c, kiosk) /\ JobsFit(calls)
      /\ store \subseteq PreparedJobs /\ photos \in Seq(Nat) /\ Len(photos) = Len(draws)
  BY CallThere DEF CallType
<1>4. /\ d \in CallType /\ d.op = c.op /\ d.stage = "answered" /\ d.ref = c.ref
      /\ d.visit = c.visit /\ d.heard = c.heard /\ d.attempt = c.attempt /\ d.guest = c.guest
  BY <1>3 DEF CallType, Stages
<1>. HIDE DEF d
<1>5. CallFits(d, kiosk)
  BY <1>2, <1>3, <1>4 DEF CallFits
<1>6. c \in HeldBy(calls) /\ c.ref \in Refs /\ JobsOf(c.ref) = {} /\ photos[c.ref] = 0
  BY <1>2, <1>3 DEF HeldBy, JobsFit
<1>7. job \in PreparedJobs /\ job.ref = c.ref /\ ~job.photoPrinted
  BY <1>3, <1>6 DEF Job, PreparedJobs
<1>8. store' = store \cup {job}
  BY <1>1
<1>. HIDE DEF job
<1>9. JobsFit(calls)'
  <2>1. Refs' = Refs /\ photos' = photos
    BY <1>2 DEF Refs
  <2>2. HeldBy(calls') \subseteq HeldBy(calls) \ {c}
    BY <1>2, <1>4 DEF HeldBy
  <2>3. \A e \in HeldBy(calls') : e.ref # c.ref
    BY <1>3, <1>6, <2>2 DEF JobsFit
  <2>4. \A e \in HeldBy(calls') : JobsOf(e.ref)' = {}
    BY <1>3, <1>7, <1>8, <2>2, <2>3 DEF JobsFit, JobsOf
  <2>5. \A e \in HeldBy(calls') : e.ref \in Refs /\ (e.stage # "ticket" => photos[e.ref] = 0)
    BY <1>3, <2>2 DEF JobsFit
  <2>6. \A e, f \in HeldBy(calls') : e.ref = f.ref => e = f
    BY <1>3, <2>2 DEF JobsFit
  <2>7. \A j \in store : j.ref # c.ref
    BY <1>6 DEF JobsOf
  <2>8. /\ \A j \in store' : ~j.photoPrinted => photos[j.ref] = 0
        /\ \A j, k \in store' : j.ref = k.ref => j = k
    BY <1>3, <1>6, <1>7, <1>8, <2>7 DEF JobsFit
  <2>. QED
    BY <1>3, <2>1, <2>4, <2>5, <2>6, <2>8 DEF JobsFit, HeldBy
<1>. QED
  BY <1>2, <1>3, <1>4, <1>5, <1>7, <1>8, <1>9, ReceiptMoves

\* The job taken out of the store is with its call, and in no other.
LEMMA TakeJobKeeps ==
  ASSUME VisitInv, NEW c \in calls, TakeJob(c)
  PROVE  VisitInv' /\ VisitsGoOn
<1>1. /\ c.op = "printPreparedReceipt" /\ c.stage = "sent"
      /\ UNCHANGED <<kiosk, guest, draws, photos, visit, faults>>
  BY DEF TakeJob
<1>2. /\ c \in CallType /\ CallFits(c, kiosk) /\ JobsFit(calls) /\ store \subseteq PreparedJobs
      /\ photos \in Seq(Nat) /\ Len(photos) = Len(draws)
  BY CallThere
<1>3. CASE /\ \/ Answers(c, [c EXCEPT !.stage = "failed"])
              \/ Answers(c, [c EXCEPT !.stage = "notFound"])
           /\ UNCHANGED store
  <2>1. UNCHANGED <<kiosk, guest, engine, faults>>
    BY <1>1, <1>3 DEF engine
  <2>. QED
    BY <1>3, <2>1, CallGoesOn DEF Answers
<1>4. ASSUME NEW j \in JobsOf(c.ref), store' = StoreWithout(j),
             Moves(c, [c EXCEPT !.stage = IF j.photoPrinted THEN "ticket" ELSE "photo",
                                !.ticket = j.ticket])
      PROVE  VisitInv' /\ VisitsGoOn
  <2>. DEFINE stage == IF j.photoPrinted THEN "ticket" ELSE "photo"
              d == [c EXCEPT !.stage = stage, !.ticket = j.ticket]
  <2>1. /\ j \in store /\ j.ref = c.ref /\ j.photoPrinted \in BOOLEAN /\ j.ticket \in BOOLEAN
        /\ c.ref \in Refs /\ store' = store \ {j} /\ calls' = (calls \ {c}) \cup {d}
    BY <1>2, <1>4 DEF JobsOf, PreparedJobs, StoreWithout, Moves
  <2>2. /\ d \in CallType /\ d.op = c.op /\ d.ref = c.ref /\ d.heard = c.heard
        /\ d.attempt = c.attempt /\ d.guest = c.guest /\ d.stage \in {"photo", "ticket"}
        /\ d.stage = "photo" => ~j.photoPrinted
    BY <1>2, <2>1 DEF CallType, Stages
  <2>. HIDE DEF d
  <2>3. CallFits(d, kiosk)
    BY <1>1, <1>2, <2>2 DEF CallFits
  <2>4. JobsFit(calls)'
    <3>1. HeldBy(calls') \subseteq HeldBy(calls) \cup {d} /\ Refs' = Refs /\ photos' = photos
      BY <1>1, <2>1 DEF HeldBy, Refs
    <3>2. \A e \in HeldBy(calls) : e.ref # c.ref
      BY <1>2, <2>1 DEF JobsFit, JobsOf
    <3>3. \A k \in store' : k \in store /\ k.ref # c.ref
      BY <1>2, <2>1 DEF JobsFit
    <3>4. ASSUME NEW e \in HeldBy(calls')
          PROVE  e.ref \in Refs /\ JobsOf(e.ref)' = {} /\ (e.stage # "ticket" => photos[e.ref] = 0)
      <4>1. CASE e = d
        BY <1>2, <2>1, <2>2, <3>3, <4>1 DEF JobsFit, JobsOf
      <4>2. CASE e \in HeldBy(calls)
        BY <1>2, <3>3, <4>2 DEF JobsFit, JobsOf
      <4>. QED
        BY <3>1, <4>1, <4>2
    <3>5. \A e, f \in HeldBy(calls') : e.ref = f.ref => e = f
      BY <1>2, <2>2, <3>1, <3>2 DEF JobsFit
    <3>6. /\ \A k \in store' : ~k.photoPrinted => photos[k.ref] = 0
          /\ \A k, l \in store' : k.ref = l.ref => k = l
      BY <1>2, <3>3 DEF JobsFit
    <3>. QED
      BY <1>2, <3>1, <3>4, <3>5, <3>6 DEF JobsFit, HeldBy
  <2>. QED
    BY <1>1, <1>2, <2>1, <2>2, <2>3, <2>4, ReceiptMoves
<1>. QED
  BY <1>3, <1>4 DEF TakeJob

\* The photo comes out for the first time.
LEMMA PrintPhotoKeeps ==
  ASSUME VisitInv, NEW c \in calls, PrintPhoto(c)
  PROVE  VisitInv' /\ VisitsGoOn
<1>. DEFINE d == [c EXCEPT !.stage = "ticket"]
<1>1. /\ c.op = "printPreparedReceipt" /\ c.stage = "photo" /\ calls' = (calls \ {c}) \cup {d}
      /\ photos' = [photos EXCEPT ![c.ref] = @ + 1]
      /\ UNCHANGED <<kiosk, guest, store, draws, visit, faults>>
  BY DEF PrintPhoto, Moves
<1>2. /\ c \in CallType /\ CallFits(c, kiosk) /\ JobsFit(calls) /\ store \subseteq PreparedJobs
      /\ photos \in Seq(Nat) /\ Len(photos) = Len(draws) /\ draws \in Seq(Guests)
  BY CallThere
<1>3. /\ d \in CallType /\ d.op = c.op /\ d.stage = "ticket" /\ d.ref = c.ref
      /\ d.heard = c.heard /\ d.attempt = c.attempt /\ d.guest = c.guest
  BY <1>2 DEF CallType, Stages
<1>. HIDE DEF d
<1>4. CallFits(d, kiosk)
  BY <1>1, <1>2, <1>3 DEF CallFits
<1>5. c \in HeldBy(calls) /\ c.ref \in Refs /\ JobsOf(c.ref) = {} /\ photos[c.ref] = 0
  BY <1>1, <1>2 DEF HeldBy, JobsFit
<1>6. Refs = 1..Len(photos) /\ Refs' = Refs
  BY <1>1, <1>2 DEF Refs
<1>7. /\ photos' \in [1..Len(photos) -> Nat] /\ photos'[c.ref] = 1
      /\ \A r \in Refs : r # c.ref => photos'[r] = photos[r]
  <2>1. photos \in [1..Len(photos) -> Nat]
    BY <1>2
  <2>. QED
    BY <1>1, <1>5, <1>6, <2>1
<1>8. photos' \in Seq(Nat) /\ Len(photos') = Len(draws)
  <2>1. Len(photos) \in Nat /\ photos' \in [1..Len(photos) -> Nat]
    BY <1>2, <1>7
  <2>2. photos' \in Seq(Nat) /\ Len(photos') = Len(photos)
    BY <2>1, RowsAreSequence
  <2>. QED
    BY <1>2, <2>2
<1>9. JobsFit(calls)'
  <2>1. HeldBy(calls') \subseteq (HeldBy(calls) \ {c}) \cup {d} /\ store' = store
    BY <1>1 DEF HeldBy
  <2>2. \A e \in HeldBy(calls) \ {c} : e.ref # c.ref
    BY <1>2, <1>5 DEF JobsFit
  <2>3. \A j \in store : j.ref \in Refs /\ j.ref # c.ref
    BY <1>2, <1>5 DEF JobsOf, PreparedJobs
  <2>4. ASSUME NEW e \in HeldBy(calls')
        PROVE  e.ref \in Refs /\ JobsOf(e.ref) = {} /\ (e.stage # "ticket" => photos'[e.ref] = 0)
    <3>1. CASE e = d
      BY <1>3, <1>5, <3>1
    <3>2. CASE e \in HeldBy(calls) \ {c}
      BY <1>2, <1>7, <2>2, <3>2 DEF JobsFit
    <3>. QED
      BY <2>1, <3>1, <3>2
  <2>5. \A e, f \in HeldBy(calls') : e.ref = f.ref => e = f
    BY <1>2, <1>3, <2>1, <2>2 DEF JobsFit
  <2>6. \A j \in store : ~j.photoPrinted => photos'[j.ref] = 0
    BY <1>2, <1>7, <2>3 DEF JobsFit
  <2>7. \A r \in Refs : photos'[r] <= 1
    BY <1>2, <1>7 DEF JobsFit
  <2>8. \A j, k \in store : j.ref = k.ref => j = k
    BY <1>2 DEF JobsFit
  <2>. QED
    BY <1>6, <2>1, <2>4, <2>5, <2>6, <2>7, <2>8 DEF JobsFit, HeldBy, JobsOf
<1>. QED
  BY <1>1, <1>2, <1>3, <1>4, <1>8, <1>9, ReceiptMoves

\* The tickets are out: the draw's visit is printed.
LEMMA FinishPrintKeeps ==
  ASSUME VisitInv, NEW c \in calls, FinishPrint(c)
  PROVE  VisitInv' /\ VisitsGoOn
<1>. DEFINE d == [c EXCEPT !.stage = "answered"]
<1>1. /\ c.op = "printPreparedReceipt" /\ c.stage = "ticket" /\ VisitPrinted(c.ref)
      /\ calls' \subseteq (calls \ {c}) \cup {d}
      /\ UNCHANGED <<kiosk, guest, store, draws, photos, faults>>
  BY DEF FinishPrint, Answers
<1>2. /\ c \in CallType /\ CallFits(c, kiosk) /\ VisitsFit /\ faults \in 0..MaxFaults
      /\ calls # {} /\ draws \in Seq(Guests)
  BY CallThere
<1>3. /\ VisitsFit' /\ VisitsGoOn /\ DrawsGoOn
      /\ \A v \in VisitIds' : visit'[v].draw = c.ref => visit'[v].printed
  BY <1>1, <1>2, VisitsPrint
<1>4. /\ d \in CallType /\ d.op = c.op /\ d.stage = "answered" /\ d.ref = c.ref
      /\ d.heard = c.heard /\ d.attempt = c.attempt /\ d.guest = c.guest
  BY <1>2 DEF CallType, Stages
<1>5. CallFits(c, kiosk)'
  BY <1>1, <1>2, <1>3, CallStays
<1>6. d \in CallType'
  BY <1>3, <1>4, SetsGrow DEF VisitsGoOn, DrawsGoOn
<1>. HIDE DEF d
<1>7. CallFits(d, kiosk)'
  BY <1>1, <1>3, <1>4, <1>5 DEF CallFits
<1>8. HeldBy(calls') \subseteq HeldBy(calls)
  BY <1>1, <1>4 DEF HeldBy
<1>. QED
  BY <1>1, <1>2, <1>3, <1>6, <1>7, <1>8, JobsStay, EngineMoves

\* What did not come out goes back to the store.
LEMMA PrintFailsKeeps ==
  ASSUME VisitInv, NEW c \in calls, PrintFails(c)
  PROVE  VisitInv' /\ VisitsGoOn
<1>. DEFINE d == [c EXCEPT !.stage = "failed"]
            job == RestOfJob(c)
<1>1. /\ c.op = "printPreparedReceipt" /\ c.stage \in {"photo", "ticket"}
      /\ store' = store \cup {job} /\ calls' \subseteq (calls \ {c}) \cup {d}
      /\ UNCHANGED <<kiosk, guest, draws, photos, visit, faults>>
  BY DEF PrintFails, Answers
<1>2. /\ c \in CallType /\ c.ticket \in BOOLEAN /\ CallFits(c, kiosk) /\ JobsFit(calls)
      /\ store \subseteq PreparedJobs /\ photos \in Seq(Nat) /\ Len(photos) = Len(draws)
  BY CallThere DEF CallType
<1>3. /\ d \in CallType /\ d.op = c.op /\ d.stage = "failed" /\ d.ref = c.ref
      /\ d.heard = c.heard /\ d.attempt = c.attempt /\ d.guest = c.guest
  BY <1>2 DEF CallType, Stages
<1>. HIDE DEF d
<1>4. CallFits(d, kiosk)
  BY <1>1, <1>2, <1>3 DEF CallFits
<1>5. /\ c \in HeldBy(calls) /\ c.ref \in Refs /\ JobsOf(c.ref) = {}
      /\ c.stage = "photo" => photos[c.ref] = 0
  BY <1>1, <1>2 DEF HeldBy, JobsFit
<1>6. job \in PreparedJobs /\ job.ref = c.ref /\ (~job.photoPrinted => photos[c.ref] = 0)
  BY <1>1, <1>2, <1>5 DEF RestOfJob, Job, PreparedJobs
<1>. HIDE DEF job
<1>7. JobsFit(calls)'
  <2>1. Refs' = Refs /\ photos' = photos
    BY <1>1 DEF Refs
  <2>2. HeldBy(calls') \subseteq HeldBy(calls) \ {c}
    BY <1>1, <1>3 DEF HeldBy
  <2>3. \A e \in HeldBy(calls') : e.ref # c.ref
    BY <1>2, <1>5, <2>2 DEF JobsFit
  <2>4. \A e \in HeldBy(calls') : JobsOf(e.ref)' = {}
    BY <1>1, <1>2, <1>6, <2>2, <2>3 DEF JobsFit, JobsOf
  <2>5. \A e \in HeldBy(calls') : e.ref \in Refs /\ (e.stage # "ticket" => photos[e.ref] = 0)
    BY <1>2, <2>2 DEF JobsFit
  <2>6. \A e, f \in HeldBy(calls') : e.ref = f.ref => e = f
    BY <1>2, <2>2 DEF JobsFit
  <2>7. \A j \in store : j.ref # c.ref
    BY <1>5 DEF JobsOf
  <2>8. /\ \A j \in store' : ~j.photoPrinted => photos[j.ref] = 0
        /\ \A j, k \in store' : j.ref = k.ref => j = k
    BY <1>1, <1>2, <1>6, <2>7 DEF JobsFit
  <2>. QED
    BY <1>2, <2>1, <2>4, <2>5, <2>6, <2>8 DEF JobsFit, HeldBy
<1>. QED
  BY <1>1, <1>2, <1>3, <1>4, <1>6, <1>7, ReceiptMoves

\* A receipt nobody prints is dropped.
LEMMA ExpireKeeps ==
  ASSUME VisitInv, NEW j \in store, Expire(j)
  PROVE  VisitInv' /\ VisitsGoOn
<1>1. store' = store \ {j} /\ UNCHANGED <<kiosk, guest, calls, draws, photos, visit, faults>>
  BY DEF Expire
<1>2. /\ VisitsFit /\ draws \in Seq(Guests) /\ faults \in 0..MaxFaults /\ JobsFit(calls)
      /\ store \subseteq PreparedJobs /\ photos \in Seq(Nat) /\ Len(photos) = Len(draws)
  BY DEF VisitInv, Types, VisitsFit
<1>3. VisitsFit' /\ VisitsGoOn /\ DrawsGoOn
  BY <1>1, <1>2, VisitsStay
<1>4. store' \subseteq PreparedJobs'
  BY <1>1, <1>2, <1>3, SetsGrow DEF VisitsGoOn, DrawsGoOn
<1>5. JobsFit(calls)'
  BY <1>1, <1>2 DEF JobsFit, HeldBy, JobsOf, Refs
<1>. QED
  BY <1>1, <1>2, <1>3, <1>4, <1>5, EngineMoves

\* The engine boots with no receipt, and nothing it was doing goes on.
LEMMA RestartKeeps ==
  ASSUME VisitInv, Restart
  PROVE  VisitInv' /\ VisitsGoOn
<1>1. /\ store' = {} /\ VisitCloseStale /\ UNCHANGED <<kiosk, guest, draws, photos>>
      /\ faults < MaxFaults /\ faults' = faults + 1
      /\ \A d \in calls' :
            \/ d \in calls /\ d.stage \in {"sent", "answered", "failed", "notFound"}
            \/ \E c \in calls : d = [c EXCEPT !.stage = "failed"]
  BY DEF Restart
<1>2. /\ VisitsFit /\ draws \in Seq(Guests) /\ faults \in 0..MaxFaults /\ JobsFit(calls)
      /\ photos \in Seq(Nat) /\ Len(photos) = Len(draws)
  BY DEF VisitInv, Types, VisitsFit
<1>3. VisitsFit' /\ VisitsGoOn /\ DrawsGoOn
  BY <1>1, <1>2, VisitsCloseStale
<1>4. faults' \in 0..MaxFaults
  BY <1>1, <1>2, GuestsAssumption
<1>5. ASSUME NEW d \in calls' \ calls
      PROVE  d \in CallType' /\ CallFits(d, kiosk)' /\ d.stage = "failed"
  <2>1. PICK c \in calls : d = [c EXCEPT !.stage = "failed"]
    BY <1>1
  <2>2. d \in CallType' /\ CallFits(d, kiosk)'
    <3>1. "failed" \in Stages \ {"drawn", "answered"} /\ UNCHANGED <<kiosk, guest>>
      BY <1>1 DEF Stages
    <3>. QED
      BY <1>3, <2>1, <3>1, StageMoves
  <2>3. c \in CallType
    BY CallThere
  <2>. QED
    BY <2>1, <2>2, <2>3 DEF CallType
<1>6. calls = {} => calls' = {}
  BY <1>1
<1>7. JobsFit(calls)'
  <2>1. \A d \in calls' : d.stage \notin {"drawn", "photo", "ticket"}
    <3>1. \A d \in calls' \cap calls : d.stage \in {"sent", "answered", "failed", "notFound"}
      <4>1. \A c \in calls : [c EXCEPT !.stage = "failed"].stage = "failed"
        BY CallThere DEF CallType
      <4>. QED
        BY <1>1, <4>1
    <3>. QED
      BY <1>5, <3>1
  <2>. QED
    BY <1>1, <1>2, <2>1 DEF JobsFit, HeldBy, Refs
<1>. QED
  BY <1>1, <1>2, <1>3, <1>4, <1>5, <1>6, <1>7, EngineMoves

-----------------------------------------------------------------------------
(***************************************************************************)
(* Every step, and what follows.                                           *)
(***************************************************************************)

\* Before the first guest there is nothing to relate.
LEMMA InvInit == Init => VisitInv
<1>. SUFFICES ASSUME Init PROVE VisitInv
  OBVIOUS
<1>1. /\ kiosk = initialExperienceState /\ guest = 0 /\ calls = {} /\ store = {} /\ draws = <<>>
      /\ photos = <<>> /\ faults = 0 /\ visit = <<>>
  BY DEF Init
<1>2. VisitIds = {} /\ Refs = {}
  BY <1>1 DEF VisitIds, Refs
<1>3. kiosk \in ExperienceState(VisitIds, Refs) /\ kiosk.phase = "idle"
  <2>1. 0 \in 0..CountdownStart
    BY CountdownAssumption
  <2>. QED
    BY <1>1, <2>1 DEF initialExperienceState, ExperienceState, Phases
<1>4. KioskFits(kiosk)
  BY <1>1, NoneAssumption DEF KioskFits, initialExperienceState, PrintAttemptPhases
<1>5. Types
  BY <1>1, <1>3, GuestsAssumption DEF Types
<1>6. DrawsFit /\ OneOpenVisit /\ CompletedMeansPrinted /\ JobsFit(calls)
  BY <1>1, <1>2 DEF DrawsFit, OneOpenVisit, CompletedMeansPrinted, JobsFit, HeldBy
<1>. QED
  BY <1>1, <1>4, <1>5, <1>6 DEF VisitInv

\* Every step keeps the invariant, and the visit table only goes on.
LEMMA InvStep == VisitInv /\ [Next]_vars => VisitInv' /\ (VisitsGoOn \/ visit' = visit)
<1>. SUFFICES ASSUME VisitInv, [Next]_vars PROVE VisitInv' /\ (VisitsGoOn \/ visit' = visit)
  OBVIOUS
<1>1. ASSUME NEW hasLottery \in Lotteries, Start(hasLottery) PROVE VisitInv' /\ visit' = visit
  BY <1>1, StartKeeps DEF Start, engine
<1>2. CASE PhaseTimers
  BY <1>2, TimersKeep DEF PhaseTimers, engine
<1>3. CASE TakePhoto
  BY <1>3, PhotoKeeps DEF TakePhoto, engine
<1>4. CASE AttemptFails
  BY <1>4, FailingKeeps DEF AttemptFails, engine
<1>5. CASE Reload
  BY <1>5, ReloadKeeps DEF Reload, engine
<1>6. CASE Restart
  BY <1>6, RestartKeeps
<1>7. ASSUME NEW c \in calls,
             HearAnswer(c) \/ HearFailure(c) \/ LoseConnection(c) \/ NeverArrives(c)
      PROVE  VisitInv' /\ visit' = visit
  <2>1. visit' = visit
    BY <1>7 DEF HearAnswer, HearFailure, LoseConnection, NeverArrives, engine
  <2>. QED
    BY <1>7, <2>1, AnswerKeeps, HearingFailureKeeps, LosingKeeps, LostKeeps
<1>8. ASSUME NEW c \in calls,
             \/ startVisit(c) \/ endVisit(c)
             \/ BeginPrepare(c) \/ CommitDraw(c) \/ KeepJob(c) \/ PrepareFails(c)
             \/ TakeJob(c) \/ PrintPhoto(c) \/ FinishPrint(c) \/ PrintFails(c)
      PROVE  VisitInv' /\ VisitsGoOn
  BY <1>8, startVisitKeeps, endVisitKeeps, BeginPrepareKeeps, CommitDrawKeeps, KeepJobKeeps,
     PrepareFailsKeeps, TakeJobKeeps, PrintPhotoKeeps, FinishPrintKeeps, PrintFailsKeeps
<1>9. ASSUME NEW j \in store, Expire(j) PROVE VisitInv' /\ VisitsGoOn
  BY <1>9, ExpireKeeps
<1>10. CASE UNCHANGED vars
  <2>1. VisitsFit /\ faults \in 0..MaxFaults /\ HeldBy(calls') \subseteq HeldBy(calls)
    BY <1>10 DEF vars, VisitInv, Types, VisitsFit
  <2>. QED
    BY <1>10, <2>1, VisitsStay, JobsStay, EngineMoves DEF vars
<1>. QED
  BY <1>1, <1>2, <1>3, <1>4, <1>5, <1>6, <1>7, <1>8, <1>9, <1>10 DEF Next

\* What the kiosk, the calls, the receipts and the visit table say of each other
\* holds however guests, answers, failures, reloads and restarts interleave.
THEOREM VisitInvHolds == Spec => []VisitInv
<1>1. VisitInv /\ [Next]_vars => VisitInv'
  BY InvStep
<1>. QED
  BY InvInit, <1>1, PTL DEF Spec

\* The types of the kiosk's state, the calls, the store and the visits.
THEOREM GuestVisitTypes == Spec => []TypeOK
<1>1. VisitInv => TypeOK
  <2>. SUFFICES ASSUME VisitInv PROVE TypeOK
    OBVIOUS
  <2>1. Types
    BY DEF VisitInv
  <2>2. DOMAIN photos = Refs
    BY <2>1 DEF Types, Refs
  <2>. QED
    BY <2>1, <2>2 DEF Types, TypeOK, PreparedJobs, Refs, VisitIds
<1>. QED
  BY <1>1, VisitInvHolds, PTL

\* At most one visit is open, for any number of guests.
THEOREM OneVisitOpen == Spec => []OneOpenVisit
<1>1. VisitInv => OneOpenVisit
  BY DEF VisitInv
<1>. QED
  BY <1>1, VisitInvHolds, PTL

\* A draw is counted in exactly one visit.
THEOREM DrawsInOneVisit == Spec => []DrawInOneVisit
<1>1. VisitInv => DrawInOneVisit
  <2>. SUFFICES ASSUME VisitInv, NEW r \in Refs
                PROVE  Cardinality({v \in VisitIds : visit[v].draw = r}) = 1
    BY DEF DrawInOneVisit
  <2>1. r # None
    BY NoneAssumption DEF VisitInv, Types, Refs
  <2>2. PICK v \in VisitIds : visit[v].draw = r
    BY DEF VisitInv, DrawsFit
  <2>3. {w \in VisitIds : visit[w].draw = r} = {v}
    BY <2>1, <2>2 DEF VisitInv, DrawsFit
  <2>. QED
    BY <2>3, FS_Singleton
<1>. QED
  BY <1>1, VisitInvHolds, PTL

\* An ended visit is completed exactly when its tickets came out in full.
THEOREM CompletedIsPrinted == Spec => []CompletedMeansPrinted
<1>1. VisitInv => CompletedMeansPrinted
  BY DEF VisitInv
<1>. QED
  BY <1>1, VisitInvHolds, PTL

\* No guest gets a second photo receipt, whatever is lost and retried.
THEOREM PhotosPrintOnce == Spec => []PhotoPrintsOnce
<1>1. VisitInv => PhotoPrintsOnce
  <2>. SUFFICES ASSUME VisitInv PROVE PhotoPrintsOnce
    OBVIOUS
  <2>1. {x \in calls : x.stage \in {"photo", "ticket"}} \subseteq HeldBy(calls)
    BY DEF HeldBy
  <2>. QED
    BY <2>1 DEF VisitInv, JobsFit, PhotoPrintsOnce
<1>. QED
  BY <1>1, VisitInvHolds, PTL

\* The ticket on the kiosk is its guest's and in the visit it will report.
THEOREM TicketsAreTheGuests == Spec => []TicketIsTheGuests
<1>1. VisitInv => TicketIsTheGuests
  BY DEF VisitInv, KioskFits, TicketIsTheGuests
<1>. QED
  BY <1>1, VisitInvHolds, PTL

\* An end stands unless its tickets come out, and a draw stays in its visit.
THEOREM EndsAreKept == Spec => EndsStand
<1>. DEFINE Stand == \A v \in VisitIds :
        /\ visit[v].draw # None => visit'[v].draw = visit[v].draw
        /\ ~Open(v) /\ visit'[v].reason # visit[v].reason =>
            visit'[v].reason = "completed" /\ visit'[v].printed
<1>1. VisitInv /\ [Next]_vars => [Stand]_vars
  BY InvStep DEF VisitsGoOn, Open
<1>. QED
  BY <1>1, VisitInvHolds, PTL DEF Spec, EndsStand

=============================================================================
