-------------------------- MODULE BoothReportsProofs --------------------------
(***************************************************************************)
(* What the people on call are told is what is wrong at the booth, for any *)
(* graces and any silence, however many changes and troubles: what the     *)
(* engine knows of the kiosk's camera once its pages had time to go stale, *)
(* how long a report can still take, and what it will say.                 *)
(***************************************************************************)
EXTENDS BoothReports, SequenceTheorems, WellFoundedInduction, TLAPS

USE PagesAssumption, SilentAssumption, ReportsAssumption

-----------------------------------------------------------------------------
(***************************************************************************)
(* The booth's own state.                                                  *)
(***************************************************************************)

\* The page that reportStatus updates: the first listed under this load's id.
IsFirst(listed, i) ==
    /\ i \in DOMAIN listed /\ listed[i].load = "this"
    /\ \A j \in DOMAIN listed : j < i => listed[j].load # "this"

\* The iPad's page is the last one listed, and the camera is what is listed.
KioskFits ==
    /\ linked => /\ ipad # "away" /\ pages # <<>>
                 /\ pages[Len(pages)].load = "this"
    /\ camera.on = IsOn(pages)

\* However long nothing changed, one page says how the camera is and the others
\* have been silent for as long.
PagesFit ==
    calm >= 1 =>
        /\ engine /\ (linked \/ ipad = "away")
        /\ \A i \in DOMAIN pages :
              IF linked /\ IsFirst(pages, i)
              THEN pages[i].camera = ipad /\ pages[i].age = 0
              ELSE pages[i].age >= calm \/ pages[i].age = StaleAfter

\* What it was when the last page went stale, it has been since.
AgesFit ==
    /\ printer.age >= calm \/ printer.age = PrinterGrace
    /\ calm >= StaleAfter => camera.age >= calm - StaleAfter \/ camera.age = CameraGrace

-----------------------------------------------------------------------------
(***************************************************************************)
(* The reporter and the Hub.                                               *)
(***************************************************************************)

\* A report is under way, or a timer is on.
TimerFits ==
    /\ ~engine => smooth = 0
    /\ engine /\ timer = -1 => at # "idle"
    /\ smooth >= calm \/ smooth = 2 * Interval + 1

\* The ticks a report may still take, without trouble.
RemainingOf(stage, ticks) ==
    CASE stage = "slow" -> 0 [] stage = "idle" -> 1 + ticks [] OTHER -> 1
Remaining == RemainingOf(at, timer)

\* The Hub heard of the booth, or will before the trouble is forgotten.
Heard(since, ago, left) ==
    \/ since + left <= 2 * Interval
    \/ ago >= 0 /\ ago + left <= 2 * Interval

HeardFits ==
    /\ engine => Heard(smooth, seen, Remaining)
    /\ seen \in 0..Silent => "silent" \notin open

\* Nothing changed for so long that a report tells all there is.
Settling == StaleAfter + CameraGrace
Settled == calm >= Settling

BoothIsRead ==
    /\ message.printer = printer.condition
    /\ printer.condition # "unknown" => message.printerPast
    /\ message.camera = (ipad = "ready") /\ message.cameraPast

TellsAll == BoothIsRead /\ message.lottery = lottery

\* The report that was slow when the booth settled may be of before.
MessageFits ==
    Settled =>
        /\ at = "lottery" => BoothIsRead
        /\ at = "answer" => TellsAll
        /\ at = "slow" => TellsAll \/ calm = Settling

\* The alerts but the silence.
BoothIsShown ==
    /\ printer.condition # "unknown" =>
          open \cap {"paper-out", "cover-open"} = {printer.condition} \ {"ready"}
    /\ "out-of-stock" \in open <=> lottery = "empty"
    /\ "camera-off" \in open <=> live /\ ipad # "ready"

StaleSlow == at = "slow" /\ ~TellsAll

\* The alerts are right, or will be within the ticks that are left: a report
\* of before is followed by another.
InTime(ticks, left) == ticks - Settling + left <= 2 * Interval
Left == IF StaleSlow THEN 2 * Interval ELSE Remaining

NewsFits == Settled => (BoothIsShown /\ ~StaleSlow) \/ InTime(calm, Left)

-----------------------------------------------------------------------------
(***************************************************************************)
(* The types, in the parts that the actions write, and the invariant.      *)
(***************************************************************************)

KioskInv == KioskTypeOK /\ KioskFits

BoothTypes ==
    /\ engine \in BOOLEAN /\ lottery \in Stocks
    /\ printer \in [condition : Conditions, age : 0..PrinterGrace]

Sends == [printer : Conditions \cup {"none"}, lottery : Stocks \cup {"unread", "none"}]

Stages == {"idle", "token", "lottery", "answer", "slow"}

ReporterTypes ==
    /\ at \in Stages
    /\ message \in Heartbeats /\ message.printer \in Conditions /\ sendAgain \in BOOLEAN
    /\ sent \in Sends
    /\ timer \in -1..Interval

LateTypes == late \in [state : {"none", "newest", "older"}, heartbeat : Heartbeats]

ObserverTypes ==
    /\ changes \in 0..MaxChanges /\ troubles \in 0..MaxTroubles
    /\ calm \in 0..Enough /\ smooth \in 0..(2 * Interval + 1)

Parts == /\ KioskInv /\ HubTypeOK /\ BoothTypes
         /\ ReporterTypes /\ LateTypes /\ ObserverTypes

ReportsInv == Parts /\ PagesFit /\ AgesFit /\ TimerFits /\ HeardFits /\ MessageFits /\ NewsFits

-----------------------------------------------------------------------------
(***************************************************************************)
(* Pages: what a report changes, and what the engine makes of a list.      *)
(***************************************************************************)

\* Natural numbers have a least one.
LEMMA LeastNatural ==
  ASSUME NEW S, S \subseteq Nat, S # {}
  PROVE  \E m \in S : \A n \in S : m <= n
<1>. DEFINE Less == {ss \in Nat \X Nat : ss[1] < ss[2]}
<1>1. IsWellFoundedOn(Less, Nat)
  BY NatLessThanWellFounded DEF OpToRel
<1>2. PICK m \in S : \A n \in S : ~ (<<n, m>> \in Less)
  BY <1>1, WFMin, Zenon
<1>3. \A n \in S : m <= n
  <2>. TAKE n \in S
  <2>1. m \in Nat /\ n \in Nat /\ ~ (<<n, m>> \in Less)
    BY <1>2
  <2>2. ~ (n < m)
    BY <2>1
  <2>. QED
    BY <2>1, <2>2
<1>. QED
  BY <1>3

\* There is one first page of this load.
LEMMA FirstIsOne ==
  ASSUME NEW listed \in Seq(Pages), NEW i, NEW j, IsFirst(listed, i), IsFirst(listed, j)
  PROVE  i = j
<1>1. i \in Nat /\ j \in Nat
  BY DEF IsFirst
<1>2. ~ (i < j) /\ ~ (j < i)
  BY DEF IsFirst
<1>. QED
  BY <1>1, <1>2

\* A list with a page of this load has a first one.
LEMMA FirstIsThere ==
  ASSUME NEW listed \in Seq(Pages), NEW k \in DOMAIN listed, listed[k].load = "this"
  PROVE  \E i \in DOMAIN listed : IsFirst(listed, i)
<1>. DEFINE Own == {i \in DOMAIN listed : listed[i].load = "this"}
<1>1. Own \subseteq Nat /\ Own # {}
  OBVIOUS
<1>2. PICK m \in Own : \A n \in Own : m <= n
  BY <1>1, LeastNatural
<1>3. \A j \in DOMAIN listed : j \in Nat /\ m \in Nat
  BY <1>1
<1>4. \A j \in DOMAIN listed : j < m => listed[j].load # "this"
  BY <1>2, <1>3
<1>. QED
  BY <1>2, <1>4 DEF IsFirst

\* A page that reports stays a page.
LEMMA PageReports ==
  ASSUME NEW p \in Pages, NEW news \in {"ready", "failed"}
  PROVE  LET t == [p EXCEPT !.camera = news, !.age = 0]
         IN  t \in Pages /\ t.load = p.load /\ t.camera = news /\ t.age = 0
<1>1. 0 \in 0..StaleAfter
  OBVIOUS
<1>. QED
  BY <1>1 DEF Pages

\* The first page of this load says what the camera is, the others nothing.
LEMMA ReportChanges ==
  ASSUME NEW listed \in Seq(Pages), NEW news \in {"ready", "failed"}
  PROVE  /\ Reported(listed, news) \in Seq(Pages)
         /\ Len(Reported(listed, news)) = Len(listed)
         /\ DOMAIN Reported(listed, news) = DOMAIN listed
         /\ \A i \in DOMAIN listed :
               /\ Reported(listed, news)[i].load = listed[i].load
               /\ IsFirst(listed, i) => /\ Reported(listed, news)[i].camera = news
                                        /\ Reported(listed, news)[i].age = 0
               /\ ~IsFirst(listed, i) => Reported(listed, news)[i] = listed[i]
<1>. DEFINE own == {i \in DOMAIN listed : listed[i].load = "this"}
            m == CHOOSE i \in own : \A j \in own : i <= j
            t == [listed[m] EXCEPT !.camera = news, !.age = 0]
<1>0. \A i \in DOMAIN listed : listed[i] \in Pages /\ i \in Nat
  OBVIOUS
<1>1. CASE own = {}
  <2>1. Reported(listed, news) = listed
    BY <1>1 DEF Reported
  <2>2. \A i \in DOMAIN listed : ~IsFirst(listed, i)
    BY <1>1 DEF IsFirst
  <2>. QED
    BY <2>1, <2>2
<1>2. CASE own # {}
  <2>1. own \subseteq Nat
    OBVIOUS
  <2>2. \E i \in own : \A j \in own : i <= j
    BY <1>2, <2>1, LeastNatural
  <2>3. m \in own /\ \A j \in own : m <= j
    BY <2>2
  <2>4. Reported(listed, news) = [listed EXCEPT ![m] = t]
    BY <1>2 DEF Reported
  <2>5. m \in DOMAIN listed /\ listed[m] \in Pages /\ listed[m].load = "this"
    BY <2>3, <1>0
  <2>. HIDE DEF m
  <2>6. t \in Pages /\ t.load = "this" /\ t.camera = news /\ t.age = 0
    BY <2>5, PageReports
  <2>. HIDE DEF t
  <2>7. IsFirst(listed, m)
    <3>1. \A j \in DOMAIN listed : j < m => listed[j].load # "this"
      BY <2>3, <2>5, <1>0
    <3>. QED
      BY <3>1, <2>5 DEF IsFirst
  <2>8. \A i \in DOMAIN listed : IsFirst(listed, i) <=> i = m
    BY <2>7, FirstIsOne
  <2>9. /\ [listed EXCEPT ![m] = t] \in Seq(Pages)
        /\ Len([listed EXCEPT ![m] = t]) = Len(listed)
        /\ DOMAIN [listed EXCEPT ![m] = t] = DOMAIN listed
        /\ [listed EXCEPT ![m] = t][m] = t
        /\ \A i \in DOMAIN listed : i # m => [listed EXCEPT ![m] = t][i] = listed[i]
    BY <2>5, <2>6
  <2>. QED
    BY <2>4, <2>5, <2>6, <2>8, <2>9
<1>. QED
  BY <1>1, <1>2

\* A list says on or off.
LEMMA IsOnIsBoolean == ASSUME NEW listed PROVE IsOn(listed) \in BOOLEAN
  BY DEF IsOn

\* When all pages but the iPad's have gone stale, the engine knows its camera.
LEMMA OnePageTells ==
  ASSUME NEW listed \in Seq(Pages), NEW stream \in BOOLEAN, NEW pad \in {"ready", "failed", "away"},
         stream => pad # "away" /\ \E i \in DOMAIN listed : IsFirst(listed, i),
         ~stream => pad = "away",
         \A i \in DOMAIN listed : IF stream /\ IsFirst(listed, i)
                                  THEN listed[i].camera = pad /\ listed[i].age = 0
                                  ELSE listed[i].age = StaleAfter
  PROVE  IsOn(listed) = (pad = "ready")
<1>. DEFINE present == {i \in DOMAIN listed : listed[i].age < StaleAfter}
<1>1. \A i \in DOMAIN listed : i \in present <=> stream /\ IsFirst(listed, i)
  <2>1. 0 < StaleAfter /\ ~ (StaleAfter < StaleAfter)
    OBVIOUS
  <2>. QED
    BY <2>1
<1>2. CASE ~stream
  BY <1>1, <1>2 DEF IsOn
<1>3. CASE stream
  <2>1. PICK i \in DOMAIN listed : IsFirst(listed, i)
    BY <1>3
  <2>2. present = {i}
    BY <1>1, <1>3, <2>1, FirstIsOne
  <2>3. listed[i].camera = pad /\ pad \in {"ready", "failed"}
    BY <1>3, <2>1
  <2>. QED
    BY <2>2, <2>3 DEF IsOn
<1>. QED
  BY <1>2, <1>3

-----------------------------------------------------------------------------
(***************************************************************************)
(* The kiosk: whatever happens to its pages, the engine's camera is what   *)
(* it has listed.                                                          *)
(***************************************************************************)

CameraStates == [on : BOOLEAN, age : 0..CameraGrace]

\* refresh: the camera is what the new list says.
LEMMA ListsFits ==
  ASSUME KioskTypeOK, NEW listed \in Seq(Pages), Lists(listed)
  PROVE  pages' = listed /\ camera' \in CameraStates /\ camera'.on = IsOn(pages')
<1>1. pages' = listed /\ IsOn(listed) \in BOOLEAN /\ camera \in CameraStates /\ 0 \in 0..CameraGrace
  BY IsOnIsBoolean DEF Lists, KioskTypeOK, CameraStates
<1>2. CASE IsOn(listed) = camera.on
  <2>1. camera' = camera
    BY <1>2 DEF Lists
  <2>. QED
    BY <1>1, <1>2, <2>1
<1>3. CASE IsOn(listed) # camera.on
  <2>1. camera' = [on |-> IsOn(listed), age |-> 0]
    BY <1>3 DEF Lists
  <2>2. camera' \in CameraStates
    BY <1>1, <2>1 DEF CameraStates
  <2>3. camera'.on = IsOn(listed)
    BY <2>1
  <2>. QED
    BY <1>1, <2>2, <2>3
<1>. QED
  BY <1>2, <1>3

\* What a new list has to have.
LEMMA KioskFromList ==
  ASSUME KioskTypeOK, NEW listed \in Seq(Pages), Lists(listed), Len(listed) <= MaxPages,
         ipad' \in {"ready", "failed", "away"}, linked' \in BOOLEAN,
         linked' => ipad' # "away" /\ Len(listed) > 0 /\ listed[Len(listed)].load = "this"
  PROVE  KioskInv'
<1>1. pages' = listed /\ camera' \in CameraStates /\ camera'.on = IsOn(pages')
  BY ListsFits
<1>2. linked' => listed # <<>>
  OBVIOUS
<1>3. KioskTypeOK'
  BY <1>1 DEF KioskTypeOK, CameraStates
<1>4. KioskFits'
  BY <1>1, <1>2 DEF KioskFits
<1>. QED
  BY <1>3, <1>4 DEF KioskInv

\* A row of pages is a sequence of them.
LEMMA RowsAreSequences ==
  ASSUME NEW n \in Nat, NEW row \in [1..n -> Pages]
  PROVE  row \in Seq(Pages) /\ Len(row) = n
<1>1. row \in Seq(Pages)
  BY IsASeq
<1>2. DOMAIN row = 1..n
  OBVIOUS
<1>. QED
  BY <1>1, <1>2, LenProperties

\* A stream opens: its page is the last one listed, and of this load.
LEMMA ConnectFits ==
  ASSUME KioskInv, NEW news \in {"ready", "failed"}, NEW loaded \in BOOLEAN,
         PageConnects(news, loaded)
  PROVE  KioskInv'
<1>. DEFINE before == IF loaded THEN [i \in DOMAIN pages |-> [pages[i] EXCEPT !.load = "past"]]
                      ELSE pages
            new == [load |-> "this", camera |-> "none", age |-> 0]
            longer == Append(before, new)
            listed == Reported(longer, news)
<1>1. /\ pages \in Seq(Pages) /\ Len(pages) < MaxPages /\ Lists(listed)
      /\ linked' = TRUE /\ ipad' = news
  BY DEF PageConnects, KioskInv, KioskTypeOK
<1>2. before \in Seq(Pages) /\ Len(before) = Len(pages)
  <2>1. CASE ~loaded
    BY <1>1, <2>1
  <2>2. CASE loaded
    <3>1. \A i \in DOMAIN pages : pages[i] \in Pages
      BY <1>1
    <3>2. \A i \in DOMAIN pages : [pages[i] EXCEPT !.load = "past"] \in Pages
      BY <3>1 DEF Pages
    <3>3. before = [i \in 1..Len(pages) |-> [pages[i] EXCEPT !.load = "past"]]
      BY <2>2, <1>1
    <3>4. before \in [1..Len(pages) -> Pages] /\ Len(pages) \in Nat
      BY <1>1, <3>2, <3>3
    <3>. HIDE DEF before
    <3>. QED
      BY <3>4, RowsAreSequences
  <2>. QED
    BY <2>1, <2>2
<1>3. new \in Pages /\ new.load = "this"
  <2>1. 0 \in 0..StaleAfter
    OBVIOUS
  <2>. QED
    BY <2>1 DEF Pages
<1>. HIDE DEF before, new
<1>4. /\ longer \in Seq(Pages) /\ Len(longer) = Len(pages) + 1
      /\ longer[Len(longer)].load = "this"
  BY <1>2, <1>3, AppendProperties
<1>5. Len(pages) \in Nat /\ Len(longer) \in DOMAIN longer
  BY <1>1, <1>4, LenProperties
<1>. HIDE DEF longer
<1>6. /\ listed \in Seq(Pages) /\ Len(listed) = Len(longer)
      /\ listed[Len(listed)].load = "this"
  BY <1>4, <1>5, ReportChanges
<1>. HIDE DEF listed
<1>. QED
  BY <1>1, <1>4, <1>5, <1>6, KioskFromList DEF KioskInv

\* The camera turns: the report changes no load.
LEMMA TurnFits ==
  ASSUME KioskInv, NEW news \in {"ready", "failed"}, NEW told \in BOOLEAN,
         CameraTurns(news, told)
  PROVE  KioskInv'
<1>. DEFINE listed == IF told THEN Reported(pages, news) ELSE pages
<1>1. /\ pages \in Seq(Pages) /\ Len(pages) <= MaxPages /\ Lists(listed)
      /\ linked /\ linked' = linked /\ ipad' = news
      /\ pages # <<>> /\ pages[Len(pages)].load = "this"
  BY DEF CameraTurns, KioskInv, KioskTypeOK, KioskFits
<1>2. Len(pages) \in Nat /\ Len(pages) > 0 /\ Len(pages) \in DOMAIN pages
  BY <1>1, EmptySeq, LenProperties
<1>3. /\ listed \in Seq(Pages) /\ Len(listed) = Len(pages)
      /\ listed[Len(listed)].load = "this"
  BY <1>1, <1>2, ReportChanges
<1>. HIDE DEF listed
<1>. QED
  BY <1>1, <1>2, <1>3, KioskFromList DEF KioskInv

\* Without one page, the last one stays last.
LEMMA RemovedPage ==
  ASSUME NEW s \in Seq(Pages), NEW i \in DOMAIN s
  PROVE  /\ RemoveAt(s, i) \in Seq(Pages) /\ Len(RemoveAt(s, i)) = Len(s) - 1
         /\ i # Len(s) => Len(s) > 1 /\ RemoveAt(s, i)[Len(s) - 1] = s[Len(s)]
<1>. DEFINE a == SubSeq(s, 1, i - 1) b == SubSeq(s, i + 1, Len(s))
<1>1. i \in 1..Len(s) /\ Len(s) \in Nat /\ DOMAIN s = 1..Len(s)
  BY LenProperties
<1>2. a \in Seq(Pages) /\ Len(a) = i - 1
  <2>1. 1 \in Int /\ i - 1 \in Int /\ \A k \in 1..(i - 1) : s[k] \in Pages
    BY <1>1
  <2>2. a \in Seq(Pages) /\ Len(a) = IF 1 <= i - 1 THEN (i - 1) - 1 + 1 ELSE 0
    BY <2>1, SubSeqProperties
  <2>. QED
    BY <1>1, <2>2
<1>3. b \in Seq(Pages) /\ Len(b) = Len(s) - i /\ \A k \in 1..Len(b) : b[k] = s[i + k]
  <2>1. i + 1 \in Int /\ Len(s) \in Int /\ \A k \in (i + 1)..Len(s) : s[k] \in Pages
    BY <1>1
  <2>2. /\ b \in Seq(Pages) /\ Len(b) = IF i + 1 <= Len(s) THEN Len(s) - (i + 1) + 1 ELSE 0
        /\ \A k \in 1..(Len(s) - (i + 1) + 1) : b[k] = s[(i + 1) + k - 1]
    BY <2>1, SubSeqProperties
  <2>3. Len(b) = Len(s) - i /\ Len(s) - (i + 1) + 1 = Len(s) - i
    BY <1>1, <2>2
  <2>4. \A k \in 1..Len(b) : b[k] = s[i + k]
    <3>1. \A k \in 1..Len(b) : k \in Int /\ (i + 1) + k - 1 = i + k
      BY <1>1, <2>3
    <3>. QED
      BY <2>2, <2>3, <3>1
  <2>. QED
    BY <2>2, <2>3, <2>4
<1>. HIDE DEF a, b
<1>4. /\ a \o b \in Seq(Pages) /\ Len(a \o b) = Len(s) - 1
      /\ \A k \in 1..(Len(s) - 1) : k > Len(a) => (a \o b)[k] = b[k - Len(a)]
  <2>1. /\ a \o b \in Seq(Pages) /\ Len(a \o b) = Len(a) + Len(b)
        /\ \A k \in 1..(Len(a) + Len(b)) :
              (a \o b)[k] = IF k <= Len(a) THEN a[k] ELSE b[k - Len(a)]
    BY <1>2, <1>3, ConcatProperties
  <2>2. Len(a) + Len(b) = Len(s) - 1 /\ Len(a) \in Nat
    BY <1>1, <1>2, <1>3
  <2>3. \A k \in 1..(Len(s) - 1) : k > Len(a) => ~ (k <= Len(a))
    BY <1>1, <2>2
  <2>. QED
    BY <2>1, <2>2, <2>3
<1>5. RemoveAt(s, i) = a \o b
  BY DEF RemoveAt, a, b
<1>6. ASSUME i # Len(s) PROVE Len(s) > 1 /\ (a \o b)[Len(s) - 1] = s[Len(s)]
  <2>1. Len(s) > 1 /\ Len(s) - 1 \in 1..(Len(s) - 1) /\ Len(s) - 1 > Len(a)
    BY <1>1, <1>2, <1>6
  <2>2. (a \o b)[Len(s) - 1] = b[Len(s) - 1 - Len(a)]
    BY <1>4, <2>1
  <2>3. Len(s) - 1 - Len(a) = Len(b) /\ Len(b) \in 1..Len(b) /\ i + Len(b) = Len(s)
    BY <1>1, <1>2, <1>3, <1>6
  <2>. QED
    BY <1>3, <2>1, <2>2, <2>3
<1>. QED
  BY <1>4, <1>5, <1>6

\* The engine notices that a stream ended: never the iPad's own.
LEMMA LeaveFits ==
  ASSUME KioskInv, PageLeaves
  PROVE  KioskInv'
<1>1. PICK i \in DOMAIN pages : (linked => i # Len(pages)) /\ Lists(RemoveAt(pages, i))
  BY DEF PageLeaves
<1>. DEFINE listed == RemoveAt(pages, i)
<1>2. /\ pages \in Seq(Pages) /\ Len(pages) <= MaxPages /\ Lists(listed)
      /\ linked' = linked /\ ipad' = ipad /\ linked \in BOOLEAN
      /\ ipad \in {"ready", "failed", "away"}
      /\ linked => ipad # "away" /\ pages[Len(pages)].load = "this"
  BY <1>1 DEF PageLeaves, KioskInv, KioskTypeOK, KioskFits
<1>3. /\ listed \in Seq(Pages) /\ Len(listed) = Len(pages) - 1
      /\ i # Len(pages) => Len(pages) > 1 /\ listed[Len(pages) - 1] = pages[Len(pages)]
  BY <1>2, RemovedPage
<1>4. Len(pages) \in Nat /\ MaxPages \in Nat
  BY <1>2, LenProperties
<1>. HIDE DEF listed
<1>5. /\ Len(listed) <= MaxPages
      /\ linked' => ipad' # "away" /\ Len(listed) > 0 /\ listed[Len(listed)].load = "this"
  BY <1>1, <1>2, <1>3, <1>4
<1>. QED
  BY <1>2, <1>3, <1>5, KioskFromList DEF KioskInv

\* The iPad drops its stream: the list is as it was.
LEMMA DropFits ==
  ASSUME KioskInv, NEW now \in {"ready", "failed", "away"}, PageDrops(now)
  PROVE  KioskInv'
  BY DEF PageDrops, KioskInv, KioskTypeOK, KioskFits

\* The engine ends: no page, no camera.
LEMMA StopFits ==
  ASSUME KioskInv, KioskStops
  PROVE  KioskInv'
<1>1. /\ linked' = FALSE /\ pages' = <<>> /\ ipad' = ipad
      /\ camera' = [on |-> FALSE, age |-> 0] /\ 0 \in 0..CameraGrace
  BY DEF KioskStops, NoCamera
<1>2. ~IsOn(<<>>)
  BY DEF IsOn
<1>3. camera' \in CameraStates /\ camera'.on = FALSE
  BY <1>1 DEF CameraStates
<1>4. pages' \in Seq(Pages) /\ Len(pages') = 0 /\ 0 <= MaxPages
  BY <1>1
<1>. QED
  BY <1>1, <1>2, <1>3, <1>4, IsOnIsBoolean DEF KioskInv, KioskTypeOK, KioskFits, CameraStates

-----------------------------------------------------------------------------
(***************************************************************************)
(* A tick at the kiosk.                                                    *)
(***************************************************************************)

Waited == [i \in DOMAIN pages |->
              [pages[i] EXCEPT !.age = IF @ < StaleAfter THEN @ + 1 ELSE @]]
Aged == IF linked THEN Reported(Waited, ipad) ELSE Waited

\* A page waits: it is a tick older, until it is stale.
LEMMA PageWaits ==
  ASSUME NEW p \in Pages
  PROVE  LET t == [p EXCEPT !.age = IF @ < StaleAfter THEN @ + 1 ELSE @]
         IN  /\ t \in Pages /\ t.load = p.load
             /\ t.age = p.age + 1 \/ t.age = StaleAfter
<1>. DEFINE later == IF p.age < StaleAfter THEN p.age + 1 ELSE p.age
<1>1. p.age \in 0..StaleAfter /\ StaleAfter \in Nat
  BY DEF Pages
<1>2. later \in 0..StaleAfter /\ (later = p.age + 1 \/ later = StaleAfter)
  BY <1>1
<1>3. [p EXCEPT !.age = IF @ < StaleAfter THEN @ + 1 ELSE @] = [p EXCEPT !.age = later]
  BY DEF Pages
<1>. HIDE DEF later
<1>4. /\ [p EXCEPT !.age = later] \in Pages
      /\ [p EXCEPT !.age = later].load = p.load
      /\ [p EXCEPT !.age = later].age = later
  BY <1>2 DEF Pages
<1>. QED
  BY <1>2, <1>3, <1>4

\* A list waits: the same pages, older.
LEMMA WaitedPages ==
  ASSUME pages \in Seq(Pages)
  PROVE  /\ Waited \in Seq(Pages) /\ Len(Waited) = Len(pages)
         /\ DOMAIN Waited = DOMAIN pages
         /\ \A i \in DOMAIN pages :
               /\ Waited[i].load = pages[i].load
               /\ Waited[i].age = pages[i].age + 1 \/ Waited[i].age = StaleAfter
<1>1. DOMAIN pages = 1..Len(pages) /\ Len(pages) \in Nat
  BY LenProperties
<1>2. \A i \in DOMAIN pages : pages[i] \in Pages
  OBVIOUS
<1>3. \A i \in DOMAIN pages :
         /\ Waited[i] = [pages[i] EXCEPT !.age = IF @ < StaleAfter THEN @ + 1 ELSE @]
         /\ Waited[i] \in Pages /\ Waited[i].load = pages[i].load
         /\ Waited[i].age = pages[i].age + 1 \/ Waited[i].age = StaleAfter
  <2>. TAKE i \in DOMAIN pages
  <2>1. Waited[i] = [pages[i] EXCEPT !.age = IF @ < StaleAfter THEN @ + 1 ELSE @]
    BY DEF Waited
  <2>. QED
    BY <1>2, <2>1, PageWaits
<1>4. Waited \in [1..Len(pages) -> Pages]
  <2>1. Waited = [i \in 1..Len(pages) |-> Waited[i]]
    BY <1>1 DEF Waited
  <2>. QED
    BY <1>1, <1>3, <2>1
<1>5. Waited \in Seq(Pages) /\ Len(Waited) = Len(pages)
  BY <1>1, <1>4, RowsAreSequences
<1>6. DOMAIN Waited = DOMAIN pages
  BY DEF Waited
<1>. QED
  BY <1>3, <1>5, <1>6

\* The iPad's page reports, the others wait.
LEMMA AgedPages ==
  ASSUME KioskInv
  PROVE  /\ Aged \in Seq(Pages) /\ Len(Aged) = Len(pages) /\ DOMAIN Aged = DOMAIN pages
         /\ \A i \in DOMAIN pages :
               /\ Aged[i].load = pages[i].load
               /\ IsFirst(Aged, i) <=> IsFirst(pages, i)
               /\ IF linked /\ IsFirst(pages, i)
                  THEN Aged[i].camera = ipad /\ Aged[i].age = 0
                  ELSE Aged[i].age = pages[i].age + 1 \/ Aged[i].age = StaleAfter
<1>1. /\ pages \in Seq(Pages) /\ linked \in BOOLEAN
      /\ linked => ipad \in {"ready", "failed"}
  BY DEF KioskInv, KioskTypeOK, KioskFits
<1>2. /\ Waited \in Seq(Pages) /\ Len(Waited) = Len(pages)
      /\ DOMAIN Waited = DOMAIN pages
      /\ \A i \in DOMAIN pages :
            /\ Waited[i].load = pages[i].load
            /\ Waited[i].age = pages[i].age + 1 \/ Waited[i].age = StaleAfter
  BY <1>1, WaitedPages
<1>3. \A i \in DOMAIN pages : IsFirst(Waited, i) <=> IsFirst(pages, i)
  BY <1>2 DEF IsFirst
<1>4. CASE ~linked
  BY <1>2, <1>3, <1>4 DEF Aged
<1>5. CASE linked
  <2>1. Aged = Reported(Waited, ipad)
    BY <1>5 DEF Aged
  <2>2. /\ Aged \in Seq(Pages) /\ Len(Aged) = Len(Waited) /\ DOMAIN Aged = DOMAIN Waited
        /\ \A i \in DOMAIN Waited :
              /\ Aged[i].load = Waited[i].load
              /\ IsFirst(Waited, i) => Aged[i].camera = ipad /\ Aged[i].age = 0
              /\ ~IsFirst(Waited, i) => Aged[i] = Waited[i]
    BY <1>1, <1>2, <1>5, <2>1, ReportChanges
  <2>3. \A i \in DOMAIN pages : IsFirst(Aged, i) <=> IsFirst(pages, i)
    BY <1>2, <2>2 DEF IsFirst
  <2>. QED
    BY <1>2, <1>3, <1>5, <2>2, <2>3
<1>. QED
  BY <1>1, <1>4, <1>5

\* The camera is a tick older, or it flipped.
LEMMA CameraAges ==
  ASSUME KioskTypeOK, KioskAges
  PROVE  /\ camera' \in CameraStates /\ camera'.on = IsOn(Aged)
         /\ IsOn(Aged) = camera.on =>
               camera'.age = camera.age + 1 \/ camera'.age = CameraGrace
<1>. DEFINE later == IF camera.age < CameraGrace THEN camera.age + 1 ELSE camera.age
            older == [camera EXCEPT !.age = later]
<1>1. camera \in CameraStates /\ IsOn(Aged) \in BOOLEAN
  BY IsOnIsBoolean DEF KioskTypeOK, CameraStates
<1>2. camera' = IF IsOn(Aged) = camera.on THEN older ELSE [on |-> IsOn(Aged), age |-> 0]
  BY <1>1 DEF KioskAges, Aged, Waited, CameraStates
<1>3. later \in 0..CameraGrace /\ (later = camera.age + 1 \/ later = CameraGrace)
  <2>1. camera.age \in 0..CameraGrace /\ CameraGrace \in Nat
    BY <1>1 DEF CameraStates
  <2>. QED
    BY <2>1
<1>4. 0 \in 0..CameraGrace
  OBVIOUS
<1>. HIDE DEF later
<1>5. older \in CameraStates /\ older.on = camera.on /\ older.age = later
  BY <1>1, <1>3 DEF CameraStates
<1>. HIDE DEF older
<1>6. CASE IsOn(Aged) = camera.on
  <2>1. camera' = older
    BY <1>2, <1>6
  <2>. QED
    BY <1>3, <1>5, <1>6, <2>1
<1>7. CASE IsOn(Aged) # camera.on
  <2>1. camera' = [on |-> IsOn(Aged), age |-> 0]
    BY <1>2, <1>7
  <2>2. camera' \in CameraStates
    BY <1>1, <1>4, <2>1 DEF CameraStates
  <2>3. camera'.on = IsOn(Aged)
    BY <2>1
  <2>. QED
    BY <1>7, <2>2, <2>3
<1>. QED
  BY <1>6, <1>7

\* A tick keeps the kiosk fitting.
LEMMA AgesKeepKiosk ==
  ASSUME KioskInv, KioskAges
  PROVE  KioskInv' /\ pages' = Aged /\ ipad' = ipad /\ linked' = linked
<1>1. pages' = Aged /\ ipad' = ipad /\ linked' = linked
  BY DEF KioskAges, Aged, Waited
<1>2. /\ Aged \in Seq(Pages) /\ Len(Aged) = Len(pages) /\ DOMAIN Aged = DOMAIN pages
      /\ \A i \in DOMAIN pages : Aged[i].load = pages[i].load
  BY AgedPages
<1>3. camera' \in CameraStates /\ camera'.on = IsOn(pages')
  BY <1>1, CameraAges DEF KioskInv
<1>4. /\ ipad \in {"ready", "failed", "away"} /\ linked \in BOOLEAN
      /\ pages \in Seq(Pages) /\ Len(pages) <= MaxPages
      /\ linked => ipad # "away" /\ pages # <<>> /\ pages[Len(pages)].load = "this"
  BY DEF KioskInv, KioskTypeOK, KioskFits
<1>5. KioskTypeOK'
  BY <1>1, <1>2, <1>3, <1>4 DEF KioskTypeOK, CameraStates
<1>6. linked => Aged # <<>> /\ Aged[Len(Aged)].load = "this"
  <2>. SUFFICES ASSUME linked PROVE Aged # <<>> /\ Aged[Len(Aged)].load = "this"
    OBVIOUS
  <2>1. Len(pages) \in DOMAIN pages /\ Len(pages) > 0
    BY <1>4, EmptySeq, LenProperties
  <2>2. Aged[Len(Aged)].load = "this"
    BY <1>2, <1>4, <2>1
  <2>. QED
    BY <1>2, <2>1, <2>2
<1>7. KioskFits'
  BY <1>1, <1>3, <1>4, <1>6 DEF KioskFits
<1>. QED
  BY <1>1, <1>5, <1>7 DEF KioskInv

\* The engine's camera is the iPad's once nothing changed for as long as a
\* page takes to go stale.
LEMMA ListTells ==
  ASSUME NEW listed \in Seq(Pages), NEW stream \in BOOLEAN, NEW pad \in {"ready", "failed", "away"},
         NEW ticks \in Nat, ticks >= StaleAfter, stream \/ pad = "away",
         stream => pad # "away" /\ listed # <<>> /\ listed[Len(listed)].load = "this",
         \A i \in DOMAIN listed : IF stream /\ IsFirst(listed, i)
                                  THEN listed[i].camera = pad /\ listed[i].age = 0
                                  ELSE listed[i].age >= ticks \/ listed[i].age = StaleAfter
  PROVE  IsOn(listed) = (pad = "ready")
<1>1. \A i \in DOMAIN listed : listed[i].age \in 0..StaleAfter
  <2>1. \A i \in DOMAIN listed : listed[i] \in Pages
    OBVIOUS
  <2>. QED
    BY <2>1 DEF Pages
<1>2. \A i \in DOMAIN listed :
         IF stream /\ IsFirst(listed, i)
         THEN listed[i].camera = pad /\ listed[i].age = 0
         ELSE listed[i].age = StaleAfter
  BY <1>1
<1>3. stream => \E i \in DOMAIN listed : IsFirst(listed, i)
  <2>. SUFFICES ASSUME stream PROVE \E i \in DOMAIN listed : IsFirst(listed, i)
    OBVIOUS
  <2>1. Len(listed) \in DOMAIN listed
    BY EmptySeq, LenProperties
  <2>. QED
    BY <2>1, FirstIsThere
<1>. QED
  BY <1>2, <1>3, OnePageTells

\* So it is in the state,
LEMMA CameraIsRight ==
  ASSUME KioskInv, PagesFit, calm \in Nat, calm >= StaleAfter
  PROVE  camera.on = (ipad = "ready")
<1>1. /\ pages \in Seq(Pages) /\ linked \in BOOLEAN /\ ipad \in {"ready", "failed", "away"}
      /\ linked => ipad # "away" /\ pages # <<>> /\ pages[Len(pages)].load = "this"
      /\ camera.on = IsOn(pages)
  BY DEF KioskInv, KioskTypeOK, KioskFits
<1>2. /\ linked \/ ipad = "away"
      /\ \A i \in DOMAIN pages :
            IF linked /\ IsFirst(pages, i)
            THEN pages[i].camera = ipad /\ pages[i].age = 0
            ELSE pages[i].age >= calm \/ pages[i].age = StaleAfter
  BY DEF PagesFit
<1>. QED
  BY <1>1, <1>2, ListTells

\* and in the next one.
LEMMA CameraIsRightNext ==
  ASSUME KioskInv', PagesFit', calm' \in Nat, calm' >= StaleAfter
  PROVE  camera'.on = (ipad' = "ready")
<1>1. /\ pages' \in Seq(Pages) /\ linked' \in BOOLEAN /\ ipad' \in {"ready", "failed", "away"}
      /\ linked' => ipad' # "away" /\ pages' # <<>> /\ pages'[Len(pages')].load = "this"
      /\ camera'.on = IsOn(pages')
  BY DEF KioskInv, KioskTypeOK, KioskFits
<1>2. /\ linked' \/ ipad' = "away"
      /\ \A i \in DOMAIN pages' :
            IF linked' /\ IsFirst(pages', i)
            THEN pages'[i].camera = ipad' /\ pages'[i].age = 0
            ELSE pages'[i].age >= calm' \/ pages'[i].age = StaleAfter
  BY DEF PagesFit, IsFirst
<1>. QED
  BY <1>1, <1>2, ListTells

-----------------------------------------------------------------------------
(***************************************************************************)
(* The types, in the parts that the actions write.                         *)
(***************************************************************************)

\* The parts are the types.
LEMMA TypesInParts ==
  ASSUME Parts
  PROVE  TypeOK
  BY DEF Parts, KioskInv, TypeOK, BoothTypes, ReporterTypes, LateTypes, ObserverTypes, Stages, Sends

\* Enough leaves three ticks after the graces.
LEMMA EnoughIsLong ==
  /\ Enough \in Nat /\ Settling \in Nat /\ Enough = Settling + 3
  /\ Settling >= StaleAfter /\ Settling >= 1 /\ Settling >= PrinterGrace
  BY DEF Enough, Settling, Interval

\* An unread report is a heartbeat too.
LEMMA BlankIsHeartbeat == Blank \in Heartbeats /\ Blank.printer \in Conditions
  BY DEF Blank, Heartbeats

\* What a heartbeat does to the Hub.
LEMMA HeartbeatIsHeard ==
  ASSUME HubTypeOK, NEW heartbeat \in Heartbeats, EvaluateHeartbeat(heartbeat)
  PROVE  HubTypeOK' /\ seen' = 0 /\ "silent" \notin open'
<1>1. Wanted(heartbeat) \subseteq Alerts /\ "silent" \notin Wanted(heartbeat)
  BY DEF Wanted
<1>2. "silent" \in open => "silent" \in Closed(heartbeat)
  BY DEF Closed
<1>3. open' = (open \ Closed(heartbeat)) \cup Wanted(heartbeat)
  BY DEF EvaluateHeartbeat
<1>4. open \subseteq Alerts /\ live \in BOOLEAN /\ liveFor \in 0..(Silent + 1)
  BY DEF HubTypeOK
<1>5. open' \subseteq Alerts /\ "silent" \notin open'
  BY <1>1, <1>2, <1>3, <1>4
<1>6. seen' = 0 /\ live' = live /\ liveFor' = liveFor
  BY DEF EvaluateHeartbeat
<1>7. seen' \in -1..(Silent + 1)
  BY <1>6
<1>8. live' \in BOOLEAN /\ liveFor' \in 0..(Silent + 1)
  BY <1>4, <1>6
<1>. QED
  BY <1>5, <1>6, <1>7, <1>8 DEF HubTypeOK

\* report(): one starts, or another is asked for.
LEMMA ReportStarts ==
  ASSUME ReporterTypes, NEW news, ReportsIf(news), news \in BOOLEAN
  PROVE  /\ at' \in Stages /\ sendAgain' \in BOOLEAN
         /\ at' = at \/ (at = "idle" /\ at' = "token")
         /\ news => at' # "idle"
  BY DEF ReporterTypes, ReportsIf, Stages

\* A report ends: the next one starts, or the timer is on.
LEMMA ReportEnds ==
  ASSUME ReporterTypes, NEW failed \in BOOLEAN, Ends(failed)
  PROVE  /\ at' \in {"idle", "token"} /\ sendAgain' \in BOOLEAN
         /\ message' \in Heartbeats /\ message'.printer \in Conditions
         /\ timer' \in 0..Interval
<1>1. /\ at' \in {"idle", "token"} /\ sendAgain' \in BOOLEAN
      /\ message' \in Heartbeats /\ message'.printer \in Conditions
  BY BlankIsHeartbeat DEF Ends
<1>2. timer \in -1..Interval /\ timer' = IF timer = -1 THEN Interval ELSE timer
  BY DEF ReporterTypes, Ends, ArmedAfter
<1>3. timer' \in 0..Interval
  BY <1>2 DEF Interval
<1>. QED
  BY <1>1, <1>3

\* A heartbeat before the lottery is read.
ReadAs(condition, past, on, off) ==
    [Blank EXCEPT !.printer = condition, !.printerPast = past,
                  !.camera = on, !.cameraPast = off]

\* What is read is a heartbeat, field by field.
LEMMA ReadAsHeartbeat ==
  ASSUME NEW condition \in {"ready", "paper-out", "cover-open", "unknown"},
         NEW past \in BOOLEAN, NEW on \in BOOLEAN, NEW off \in BOOLEAN
  PROVE  /\ ReadAs(condition, past, on, off) \in Heartbeats
         /\ ReadAs(condition, past, on, off).printer = condition
         /\ ReadAs(condition, past, on, off).printerPast = past
         /\ ReadAs(condition, past, on, off).camera = on
         /\ ReadAs(condition, past, on, off).cameraPast = off
  BY DEF ReadAs, Blank, Heartbeats

\* So is what the report reads of the booth.
LEMMA ReadIsHeartbeat ==
  ASSUME BoothTypes, KioskTypeOK,
         message' = [Blank EXCEPT
          !.printer = printer.condition,
          !.printerPast = printer.condition # "unknown" /\ printer.age >= PrinterGrace,
          !.camera = camera.on, !.cameraPast = camera.age >= CameraGrace]
  PROVE  /\ message' \in Heartbeats
         /\ message'.printer = printer.condition
         /\ message'.printerPast = (printer.condition # "unknown" /\ printer.age >= PrinterGrace)
         /\ message'.camera = camera.on /\ message'.cameraPast = (camera.age >= CameraGrace)
<1>1. printer.condition \in {"ready", "paper-out", "cover-open", "unknown"}
  BY DEF BoothTypes
<1>2. camera.on \in BOOLEAN
  BY DEF KioskTypeOK
<1>. DEFINE past == printer.condition # "unknown" /\ printer.age >= PrinterGrace
            off == camera.age >= CameraGrace
<1>3. past \in BOOLEAN /\ off \in BOOLEAN
  OBVIOUS
<1>4. message' = ReadAs(printer.condition, past, camera.on, off)
  BY DEF ReadAs
<1>. HIDE DEF past, off
<1>5. /\ message' \in Heartbeats
      /\ message'.printer = printer.condition /\ message'.printerPast = past
      /\ message'.camera = camera.on /\ message'.cameraPast = off
  <2>1. /\ ReadAs(printer.condition, past, camera.on, off) \in Heartbeats
        /\ ReadAs(printer.condition, past, camera.on, off).printer = printer.condition
        /\ ReadAs(printer.condition, past, camera.on, off).printerPast = past
        /\ ReadAs(printer.condition, past, camera.on, off).camera = camera.on
        /\ ReadAs(printer.condition, past, camera.on, off).cameraPast = off
    BY <1>1, <1>2, <1>3, ReadAsHeartbeat
  <2>. QED
    BY <1>4, <2>1
<1>. QED
  BY <1>5 DEF past, off

\* The lottery is added, the rest stays.
LEMMA LotteryIsTold ==
  ASSUME message \in Heartbeats, lottery \in Stocks,
         message' = [message EXCEPT !.lottery = lottery]
  PROVE  /\ message' \in Heartbeats
         /\ message'.printer = message.printer /\ message'.printerPast = message.printerPast
         /\ message'.camera = message.camera /\ message'.cameraPast = message.cameraPast
         /\ message'.lottery = lottery
  BY DEF Heartbeats, Stocks

\* A change is counted, and calm begins again.
LEMMA ChangeIsCounted ==
  ASSUME ObserverTypes, Changed
  PROVE  ObserverTypes' /\ calm' = 0 /\ smooth' = smooth
  BY EnoughIsLong DEF ObserverTypes, Changed

\* So does a trouble, and the smooth ticks.
LEMMA TroubleIsCounted ==
  ASSUME ObserverTypes, Troubled
  PROVE  ObserverTypes' /\ calm' = 0 /\ smooth' = 0
  BY EnoughIsLong DEF ObserverTypes, Troubled, Interval

-----------------------------------------------------------------------------
(***************************************************************************)
(* What every step keeps: the types, and the kiosk.                        *)
(***************************************************************************)

\* A report that starts keeps the reporter's types.
LEMMA ReporterReports ==
  ASSUME ReporterTypes, NEW news \in BOOLEAN, ReportsIf(news),
         message' = message, sent' = sent, timer' \in -1..Interval
  PROVE  ReporterTypes'
<1>1. at' \in Stages /\ sendAgain' \in BOOLEAN
  BY ReportStarts
<1>. QED
  BY <1>1 DEF ReporterTypes

\* So does one that ends.
LEMMA ReporterEnds ==
  ASSUME ReporterTypes, NEW failed \in BOOLEAN, Ends(failed), sent' \in Sends
  PROVE  ReporterTypes'
<1>1. /\ at' \in Stages /\ sendAgain' \in BOOLEAN /\ timer' \in 0..Interval
      /\ message' \in Heartbeats /\ message'.printer \in Conditions
  BY ReportEnds DEF Stages
<1>2. timer' \in -1..Interval
  BY <1>1 DEF Interval
<1>. QED
  BY <1>1, <1>2 DEF ReporterTypes, Sends

\* And one that moves on.
LEMMA ReporterStays ==
  ASSUME ReporterTypes, at' \in Stages,
         message' \in Heartbeats, message'.printer \in Conditions,
         UNCHANGED <<sendAgain, sent, timer>>
  PROVE  ReporterTypes'
  BY DEF ReporterTypes

\* What a step leaves alone keeps its part.
LEMMA KioskStays ==
  ASSUME KioskInv, UNCHANGED kiosk
  PROVE  KioskInv'
  BY DEF KioskInv, KioskTypeOK, KioskFits, kiosk

\* The Hub's.
LEMMA HubStays ==
  ASSUME HubTypeOK, UNCHANGED hub
  PROVE  HubTypeOK'
  BY DEF HubTypeOK, hub

\* The booth's.
LEMMA BoothStays ==
  ASSUME BoothTypes, UNCHANGED booth
  PROVE  BoothTypes'
  BY DEF BoothTypes, booth

\* The observers'.
LEMMA ObserversStay ==
  ASSUME ObserverTypes, UNCHANGED observers
  PROVE  ObserverTypes'
  BY DEF ObserverTypes, observers

\* A late heartbeat stays, or is gone.
LEMMA LateStays ==
  ASSUME LateTypes, late' = late \/ late' = NoLate
  PROVE  LateTypes'
<1>1. NoLate \in [state : {"none", "newest", "older"}, heartbeat : Heartbeats]
  BY BlankIsHeartbeat DEF NoLate
<1>. QED
  BY <1>1 DEF LateTypes

\* A late heartbeat is overtaken by a newer one.
LEMMA LateOvertaken ==
  ASSUME LateTypes, Overtakes
  PROVE  LateTypes'
<1>1. late \in [state : {"none", "newest", "older"}, heartbeat : Heartbeats]
  BY DEF LateTypes
<1>2. [late EXCEPT !.state = "older"] \in [state : {"none", "newest", "older"}, heartbeat : Heartbeats]
  BY <1>1
<1>3. late' = late \/ late' = [late EXCEPT !.state = "older"]
  BY DEF Overtakes
<1>. QED
  BY <1>1, <1>2, <1>3 DEF LateTypes

\* A report fails: the timer is on again, and the trouble counted.
LEMMA FailureTypes ==
  ASSUME ReporterTypes, ObserverTypes, Fails
  PROVE  /\ ReporterTypes' /\ ObserverTypes' /\ calm' = 0 /\ smooth' = 0
         /\ at' \in {"idle", "token"} /\ timer' \in 0..Interval
<1>1. Troubled /\ Ends(TRUE) /\ sent' = sent
  BY DEF Fails
<1>2. sent \in Sends
  BY DEF ReporterTypes, Sends
<1>3. ReporterTypes'
  BY <1>1, <1>2, ReporterEnds
<1>4. ObserverTypes' /\ calm' = 0 /\ smooth' = 0
  BY <1>1, TroubleIsCounted
<1>5. at' \in {"idle", "token"} /\ timer' \in 0..Interval
  BY <1>1, ReportEnds
<1>. QED
  BY <1>3, <1>4, <1>5

\* The Hub's own steps.
LEMMA SilenceTypes ==
  ASSUME HubTypeOK, EvaluateSilence
  PROVE  HubTypeOK'
<1>1. /\ open \subseteq Alerts /\ seen' = seen /\ live' = live /\ liveFor' = liveFor
      /\ open' \subseteq open \cup {"silent"}
  BY DEF HubTypeOK, EvaluateSilence
<1>2. open' \subseteq Alerts
  BY <1>1 DEF Alerts
<1>. QED
  BY <1>1, <1>2 DEF HubTypeOK

\* A window begins or ends.
LEMMA WindowTypes ==
  ASSUME HubTypeOK, WindowMoves
  PROVE  HubTypeOK'
<1>1. /\ open' = open /\ seen' = seen /\ liveFor' = 0 /\ live' \in BOOLEAN
  BY DEF WindowMoves
<1>2. liveFor' \in 0..(Silent + 1)
  BY <1>1
<1>. QED
  BY <1>1, <1>2 DEF HubTypeOK

\* The Hub's ages count to one past the silence.
LEMMA HubAgesTypes ==
  ASSUME HubTypeOK, HubAges
  PROVE  HubTypeOK'
<1>1. /\ open' = open /\ live' = live /\ live \in BOOLEAN /\ open \subseteq Alerts
      /\ seen \in -1..(Silent + 1) /\ liveFor \in 0..(Silent + 1) /\ Silent \in Nat
      /\ seen' = IF seen = -1 THEN seen ELSE IF seen > Silent THEN seen ELSE seen + 1
      /\ liveFor' = IF live THEN IF liveFor > Silent THEN liveFor ELSE liveFor + 1 ELSE 0
  BY DEF HubTypeOK, HubAges, Older
<1>2. seen' \in -1..(Silent + 1)
  BY <1>1
<1>3. liveFor' \in 0..(Silent + 1)
  BY <1>1
<1>. QED
  BY <1>1, <1>2, <1>3 DEF HubTypeOK

\* The camera flips, or not.
LEMMA FlipsIsBoolean == Flips \in BOOLEAN
  BY DEF Flips

\* Whatever the iPad's page does, the kiosk fits.
LEMMA PageStepFits ==
  ASSUME KioskInv, PageOpens \/ PageMoves \/ StreamEnds
  PROVE  KioskInv'
<1>1. ipad \in {"ready", "failed", "away"}
  BY DEF KioskInv, KioskTypeOK
<1>2. CASE PageOpens
  <2>1. PICK news \in {"ready", "failed"}, loaded \in BOOLEAN : PageConnects(news, loaded)
    BY <1>1, <1>2 DEF PageOpens
  <2>. QED
    BY <2>1, ConnectFits
<1>3. CASE PageMoves
  <2>1. CASE \E news \in {"ready", "failed"}, told \in BOOLEAN : CameraTurns(news, told)
    BY <2>1, TurnFits
  <2>2. CASE \E now \in {ipad, "away"} : PageDrops(now)
    BY <1>1, <2>2, DropFits
  <2>. QED
    BY <1>3, <2>1, <2>2 DEF PageMoves
<1>4. CASE StreamEnds
  BY <1>4, LeaveFits DEF StreamEnds
<1>. QED
  BY <1>2, <1>3, <1>4

\* The printer a tick older.
LEMMA PrinterAges ==
  ASSUME BoothTypes, UNCHANGED <<engine, lottery>>,
         printer' = [printer EXCEPT !.age = IF @ < PrinterGrace THEN @ + 1 ELSE @]
  PROVE  /\ BoothTypes' /\ printer'.condition = printer.condition
         /\ printer'.age = printer.age + 1 \/ printer'.age = PrinterGrace
<1>. DEFINE later == IF printer.age < PrinterGrace THEN printer.age + 1 ELSE printer.age
<1>1. printer \in [condition : Conditions, age : 0..PrinterGrace]
  BY DEF BoothTypes
<1>2. printer.age \in 0..PrinterGrace /\ PrinterGrace \in Nat
  BY <1>1
<1>3. later \in 0..PrinterGrace /\ (later = printer.age + 1 \/ later = PrinterGrace)
  BY <1>2
<1>4. printer' = [printer EXCEPT !.age = later]
  BY <1>1
<1>. HIDE DEF later
<1>5. /\ printer' \in [condition : Conditions, age : 0..PrinterGrace]
      /\ printer'.condition = printer.condition /\ printer'.age = later
  BY <1>1, <1>3, <1>4
<1>. QED
  BY <1>3, <1>5 DEF BoothTypes

\* The observers' tick.
LEMMA ObserversTick ==
  ASSUME ObserverTypes, Tick
  PROVE  /\ ObserverTypes'
         /\ calm' # 0 => engine /\ (ipad # "away" => linked)
                         /\ (calm' = calm + 1 \/ (calm' = calm /\ calm = Enough))
         /\ ~engine => smooth' = 0
         /\ smooth' <= smooth + 1
         /\ engine => smooth' = smooth + 1 \/ smooth' = 2 * Interval + 1
<1>1. /\ calm' = IF ~engine \/ (ipad # "away" /\ ~linked) THEN 0
                 ELSE IF calm < Enough THEN calm + 1 ELSE calm
      /\ smooth' = IF ~engine THEN 0 ELSE IF smooth <= 2 * Interval THEN smooth + 1 ELSE smooth
      /\ UNCHANGED <<changes, troubles>>
  BY DEF Tick
<1>2. /\ calm \in 0..Enough /\ smooth \in 0..3 /\ Enough \in Nat
      /\ changes \in 0..MaxChanges /\ troubles \in 0..MaxTroubles
  BY EnoughIsLong DEF ObserverTypes, Interval
<1>3. /\ calm' \in 0..Enough
      /\ calm' # 0 => engine /\ (ipad # "away" => linked)
                         /\ (calm' = calm + 1 \/ (calm' = calm /\ calm = Enough))
  BY <1>1, <1>2
<1>4. /\ smooth' \in 0..3 /\ smooth' <= smooth + 1 /\ ~engine => smooth' = 0
      /\ engine => smooth' = smooth + 1 \/ smooth' = 3
  BY <1>1, <1>2 DEF Interval
<1>. QED
  BY <1>1, <1>2, <1>3, <1>4 DEF ObserverTypes, Interval

-----------------------------------------------------------------------------
\* Every step keeps the types and the kiosk.
LEMMA PartsStep ==
  ASSUME Parts, [Next]_vars
  PROVE  Parts'
<1>. /\ KioskInv /\ KioskTypeOK /\ HubTypeOK /\ BoothTypes
     /\ ReporterTypes /\ LateTypes /\ ObserverTypes
  BY DEF Parts, KioskInv
<1>. /\ at \in Stages /\ message \in Heartbeats /\ timer \in -1..Interval /\ sent \in Sends
     /\ late.state \in {"none", "newest", "older"} /\ late.heartbeat \in Heartbeats
     /\ sendAgain \in BOOLEAN
     /\ message.printer \in Conditions /\ printer.condition \in Conditions
  BY DEF ReporterTypes, LateTypes, BoothTypes
<1>1. CASE TimerFires
  <2>1. /\ ReportsIf(TRUE) /\ timer' = -1
        /\ UNCHANGED <<kiosk, hub, booth, message, sent, late, observers>>
    BY <1>1 DEF TimerFires
  <2>2. -1 \in -1..Interval
    BY DEF Interval
  <2>3. ReporterTypes'
    BY <2>1, <2>2, ReporterReports
  <2>. QED
    BY <2>1, <2>3, KioskStays, HubStays, BoothStays, LateStays, ObserversStay DEF Parts
<1>2. CASE TokenFails
  <2>1. Fails /\ UNCHANGED <<kiosk, hub, booth, late>>
    BY <1>2 DEF TokenFails
  <2>2. ReporterTypes' /\ ObserverTypes'
    BY <2>1, FailureTypes
  <2>. QED
    BY <2>1, <2>2, KioskStays, HubStays, BoothStays, LateStays DEF Parts
<1>3. CASE ReadsBooth
  <2>1. UNCHANGED <<kiosk, hub, booth, sendAgain, sent, timer, late, observers>>
    BY <1>3 DEF ReadsBooth
  <2>2. message' \in Heartbeats /\ message'.printer \in Conditions
    BY <1>3, ReadIsHeartbeat DEF ReadsBooth
  <2>3. at' \in Stages
    BY <1>3 DEF ReadsBooth, Stages
  <2>4. ReporterTypes'
    BY <2>1, <2>2, <2>3, ReporterStays
  <2>. QED
    BY <2>1, <2>4, KioskStays, HubStays, BoothStays, LateStays, ObserversStay DEF Parts
<1>4. CASE ReadsLottery
  <2>1. UNCHANGED <<kiosk, hub, booth, sendAgain, sent, timer, late, observers>>
    BY <1>4 DEF ReadsLottery
  <2>2. message' \in Heartbeats /\ message'.printer \in Conditions
    BY <1>4, LotteryIsTold DEF ReadsLottery, BoothTypes
  <2>3. at' \in Stages
    BY <1>4 DEF ReadsLottery, Stages
  <2>4. ReporterTypes'
    BY <2>1, <2>2, <2>3, ReporterStays
  <2>. QED
    BY <2>1, <2>4, KioskStays, HubStays, BoothStays, LateStays, ObserversStay DEF Parts
<1>5. CASE LotteryUnread
  <2>1. Troubled /\ UNCHANGED <<kiosk, hub, booth, message, sendAgain, sent, timer, late>>
    BY <1>5 DEF LotteryUnread
  <2>2. at' \in Stages /\ message' \in Heartbeats /\ message'.printer \in Conditions
    BY <1>5, <2>1 DEF LotteryUnread, Stages
  <2>3. ReporterTypes'
    BY <2>1, <2>2, ReporterStays
  <2>4. ObserverTypes'
    BY <2>1, TroubleIsCounted
  <2>. QED
    BY <2>1, <2>3, <2>4, KioskStays, HubStays, BoothStays, LateStays DEF Parts
<1>6. CASE \E delayed \in BOOLEAN : RequestFails(delayed)
  <2>1. PICK delayed \in BOOLEAN : RequestFails(delayed)
    BY <1>6
  <2>2. /\ Fails /\ UNCHANGED <<kiosk, hub, booth>>
        /\ late' = IF delayed THEN [state |-> "newest", heartbeat |-> message] ELSE late
    BY <2>1 DEF RequestFails
  <2>3. ReporterTypes' /\ ObserverTypes'
    BY <2>2, FailureTypes
  <2>4. LateTypes'
    BY <2>2 DEF LateTypes
  <2>. QED
    BY <2>2, <2>3, <2>4, KioskStays, HubStays, BoothStays DEF Parts
<1>7. CASE Delivered
  <2>1. /\ EvaluateHeartbeat(message) /\ Overtakes /\ Ends(FALSE)
        /\ sent' = [printer |-> message.printer, lottery |-> message.lottery]
        /\ UNCHANGED <<kiosk, booth, observers>>
    BY <1>7 DEF Delivered
  <2>2. HubTypeOK'
    BY <2>1, HeartbeatIsHeard
  <2>3. sent' \in Sends
    <3>1. message.lottery \in Stocks \cup {"unread", "none"}
      BY DEF Heartbeats, Stocks
    <3>. QED
      BY <2>1, <3>1 DEF Sends
  <2>4. ReporterTypes'
    BY <2>1, <2>3, ReporterEnds
  <2>. QED
    BY <2>1, <2>2, <2>4, LateOvertaken, KioskStays, BoothStays, ObserversStay DEF Parts
<1>8. CASE AnswerLost
  <2>1. /\ EvaluateHeartbeat(message) /\ Overtakes /\ Fails /\ UNCHANGED <<kiosk, booth>>
    BY <1>8 DEF AnswerLost
  <2>2. HubTypeOK'
    BY <2>1, HeartbeatIsHeard
  <2>3. ReporterTypes' /\ ObserverTypes'
    BY <2>1, FailureTypes
  <2>. QED
    BY <2>1, <2>2, <2>3, LateOvertaken, KioskStays, BoothStays DEF Parts
<1>9. CASE LateArrives
  <2>1. /\ late' = NoLate /\ UNCHANGED <<kiosk, booth, reporter, changes, troubles, smooth>>
        /\ IF IsNewest(late) THEN EvaluateHeartbeat(late.heartbeat) ELSE UNCHANGED hub
        /\ calm' = IF late.state = "newest" THEN 0 ELSE calm
    BY <1>9 DEF LateArrives
  <2>2. HubTypeOK'
    BY <2>1, HeartbeatIsHeard, HubStays
  <2>3. ReporterTypes'
    BY <2>1, ReporterStays DEF reporter
  <2>4. ObserverTypes'
    <3>1. calm' = 0 \/ calm' = calm
      BY <2>1
    <3>2. 0 \in 0..Enough
      BY EnoughIsLong
    <3>. QED
      BY <2>1, <3>1, <3>2 DEF ObserverTypes
  <2>. QED
    BY <2>1, <2>2, <2>3, <2>4, LateStays, KioskStays, BoothStays DEF Parts
<1>10. CASE LateLost
  <2>1. late' = NoLate /\ UNCHANGED <<kiosk, hub, booth, reporter, observers>>
    BY <1>10 DEF LateLost
  <2>2. ReporterTypes'
    BY <2>1, ReporterStays DEF reporter
  <2>. QED
    BY <2>1, <2>2, LateStays, KioskStays, HubStays, BoothStays, ObserversStay DEF Parts
<1>11. CASE SilenceCheck
  <2>1. EvaluateSilence /\ UNCHANGED <<kiosk, booth, reporter, late, observers>>
    BY <1>11 DEF SilenceCheck
  <2>2. ReporterTypes'
    BY <2>1, ReporterStays DEF reporter
  <2>. QED
    BY <2>1, <2>2, SilenceTypes, LateStays, KioskStays, BoothStays, ObserversStay DEF Parts
<1>12. CASE WindowMovesOn
  <2>1. WindowMoves /\ Changed /\ UNCHANGED <<kiosk, booth, reporter, late>>
    BY <1>12 DEF WindowMovesOn
  <2>2. ReporterTypes'
    BY <2>1, ReporterStays DEF reporter
  <2>. QED
    BY <2>1, <2>2, WindowTypes, ChangeIsCounted, LateStays, KioskStays, BoothStays DEF Parts
<1>13. CASE \E condition \in Conditions : PrinterTurns(condition)
  <2>1. PICK condition \in Conditions : PrinterTurns(condition)
    BY <1>13
  <2>2. /\ Changed /\ ReportsIf(sent.printer # condition)
        /\ printer' = [condition |-> condition, age |-> 0]
        /\ UNCHANGED <<kiosk, hub, engine, lottery, message, sent, timer, late>>
    BY <2>1 DEF PrinterTurns
  <2>3. BoothTypes'
    <3>1. 0 \in 0..PrinterGrace
      OBVIOUS
    <3>. QED
      BY <2>2, <3>1 DEF BoothTypes
  <2>4. ReporterTypes'
    BY <2>2, ReporterReports
  <2>. QED
    BY <2>2, <2>3, <2>4, ChangeIsCounted, LateStays, KioskStays, HubStays DEF Parts
<1>14. CASE \E told \in BOOLEAN : LotteryTurns(told)
  <2>1. PICK told \in BOOLEAN : LotteryTurns(told)
    BY <1>14
  <2>2. PICK stock \in Stocks :
           /\ lottery' = stock
           /\ ReportsIf(told /\ (sent.lottery \in {"none", "unread"}
                                   \/ (stock = "empty") # (sent.lottery = "empty")))
    BY <2>1 DEF LotteryTurns
  <2>3. Changed /\ UNCHANGED <<kiosk, hub, engine, printer, message, sent, timer, late>>
    BY <2>1 DEF LotteryTurns
  <2>4. BoothTypes'
    BY <2>2, <2>3 DEF BoothTypes
  <2>5. ReporterTypes'
    BY <2>2, <2>3, ReporterReports
  <2>. QED
    BY <2>3, <2>4, <2>5, ChangeIsCounted, LateStays, KioskStays, HubStays DEF Parts
<1>15. CASE PageOpens \/ PageMoves
  <2>1. /\ Changed /\ ReportsIf(Flips)
        /\ UNCHANGED <<hub, booth, message, sent, timer, late>>
    BY <1>15 DEF PageOpens, PageMoves
  <2>2. KioskInv'
    BY <1>15, PageStepFits
  <2>3. ReporterTypes'
    BY <2>1, FlipsIsBoolean, ReporterReports
  <2>. QED
    BY <2>1, <2>2, <2>3, ChangeIsCounted, LateStays, HubStays, BoothStays DEF Parts
<1>16. CASE StreamEnds
  <2>1. /\ calm' = 0 /\ ReportsIf(Flips)
        /\ UNCHANGED <<hub, booth, message, sent, timer, late, changes, troubles, smooth>>
    BY <1>16 DEF StreamEnds
  <2>2. KioskInv'
    BY <1>16, PageStepFits
  <2>3. ReporterTypes'
    BY <2>1, FlipsIsBoolean, ReporterReports
  <2>4. ObserverTypes'
    BY <2>1, EnoughIsLong DEF ObserverTypes
  <2>. QED
    BY <2>1, <2>2, <2>3, <2>4, LateStays, HubStays, BoothStays DEF Parts
<1>17. CASE EngineStarts
  <2>1. /\ engine' = TRUE /\ at' = "token" /\ timer' = Interval /\ calm' = 0
        /\ UNCHANGED <<kiosk, hub, printer, lottery, message, sendAgain, sent, late,
                       changes, troubles, smooth>>
    BY <1>17 DEF EngineStarts
  <2>2. BoothTypes'
    BY <2>1 DEF BoothTypes
  <2>3. timer' \in -1..Interval
    BY <2>1 DEF Interval
  <2>4. ReporterTypes'
    BY <2>1, <2>3 DEF ReporterTypes, Stages
  <2>5. ObserverTypes'
    BY <2>1, EnoughIsLong DEF ObserverTypes
  <2>. QED
    BY <2>1, <2>2, <2>4, <2>5, LateStays, KioskStays, HubStays DEF Parts
<1>18. CASE EngineStops
  <2>1. /\ engine' = FALSE /\ Troubled /\ KioskStops /\ printer' = NoStatus
        /\ at' = "idle" /\ message' = Blank /\ sendAgain' = FALSE
        /\ sent' = NothingSent /\ timer' = -1 /\ UNCHANGED <<hub, lottery, late>>
    BY <1>18 DEF EngineStops
  <2>2. BoothTypes'
    <3>1. 0 \in 0..PrinterGrace /\ "unknown" \in Conditions
      OBVIOUS
    <3>. QED
      BY <2>1, <3>1 DEF BoothTypes, NoStatus
  <2>3. ReporterTypes'
    <3>1. -1 \in -1..Interval
      BY DEF Interval
    <3>2. sent' \in Sends
      BY <2>1 DEF Sends, NothingSent
    <3>. QED
      BY <2>1, <3>1, <3>2, BlankIsHeartbeat DEF ReporterTypes, Stages, Sends
  <2>. QED
    BY <2>1, <2>2, <2>3, StopFits, TroubleIsCounted, LateStays, HubStays DEF Parts
<1>19. CASE Tick
  <2>1. /\ KioskAges /\ HubAges /\ UNCHANGED <<engine, lottery, message, sent, late>>
        /\ printer' = [printer EXCEPT !.age = IF @ < PrinterGrace THEN @ + 1 ELSE @]
        /\ timer' = IF timer > 0 THEN timer - 1 ELSE timer
        /\ IF at = "answer" THEN at' = "slow" /\ sendAgain' = (sendAgain \/ Flips)
                            ELSE ReportsIf(Flips)
    BY <1>19 DEF Tick
  <2>2. timer' \in -1..Interval
    BY <2>1 DEF Interval
  <2>3. ReporterTypes'
    <3>1. CASE at = "answer"
      BY <2>1, <2>2, <3>1 DEF ReporterTypes, Stages
    <3>2. CASE at # "answer"
      BY <2>1, <2>2, <3>2, FlipsIsBoolean, ReporterReports
    <3>. QED
      BY <3>1, <3>2
  <2>. QED
    BY <1>19, <2>1, <2>3, AgesKeepKiosk, HubAgesTypes, PrinterAges, LateStays, ObserversTick DEF Parts
<1>20. CASE UNCHANGED vars
  <2>1. UNCHANGED <<kiosk, hub, booth, reporter, late, observers>>
    BY <1>20 DEF vars
  <2>2. ReporterTypes'
    BY <2>1, ReporterStays DEF reporter
  <2>. QED
    BY <2>1, <2>2, LateStays, KioskStays, HubStays, BoothStays, ObserversStay DEF Parts
<1>. QED
  BY <1>1, <1>2, <1>3, <1>4, <1>5, <1>6, <1>7, <1>8, <1>9, <1>10, <1>11, <1>12, <1>13,
     <1>14, <1>15, <1>16, <1>17, <1>18, <1>19, <1>20 DEF Next

-----------------------------------------------------------------------------
(***************************************************************************)
(* What is left of a report, and what a step has to keep.                  *)
(***************************************************************************)

\* The ticks left, by what the report waits for.
LEMMA RemainingIs ==
  ASSUME NEW stage \in Stages, NEW ticks \in -1..Interval
  PROVE  /\ RemainingOf(stage, ticks) \in 0..2
         /\ stage = "slow" => RemainingOf(stage, ticks) = 0
         /\ stage = "idle" => RemainingOf(stage, ticks) = 1 + ticks
         /\ stage \in {"token", "lottery", "answer"} => RemainingOf(stage, ticks) = 1
  BY DEF RemainingOf, Stages, Interval

\* Of the state.
LEMMA RemainingNow ==
  ASSUME Parts
  PROVE  /\ at \in Stages /\ timer \in -1..Interval /\ Remaining \in 0..2
         /\ at = "slow" => Remaining = 0
         /\ at = "idle" => Remaining = 1 + timer
         /\ at \in {"token", "lottery", "answer"} => Remaining = 1
<1>1. at \in Stages /\ timer \in -1..Interval
  BY DEF Parts, ReporterTypes
<1>. QED
  BY <1>1, RemainingIs DEF Remaining

\* Of the next state.
LEMMA RemainingNext ==
  ASSUME Parts'
  PROVE  /\ at' \in Stages /\ timer' \in -1..Interval /\ Remaining' \in 0..2
         /\ at' = "slow" => Remaining' = 0
         /\ at' = "idle" => Remaining' = 1 + timer'
         /\ at' \in {"token", "lottery", "answer"} => Remaining' = 1
<1>1. at' \in Stages /\ timer' \in -1..Interval
  BY DEF Parts, ReporterTypes
<1>2. Remaining' = RemainingOf(at', timer')
  BY DEF Remaining
<1>. QED
  BY <1>1, <1>2, RemainingIs

\* The ranges of what counts, in the state.
LEMMA CountsAre ==
  ASSUME Parts
  PROVE  /\ calm \in 0..Enough /\ smooth \in 0..3 /\ seen \in -1..(Silent + 1)
         /\ engine \in BOOLEAN /\ printer.age \in 0..PrinterGrace
         /\ camera.age \in 0..CameraGrace
  BY DEF Parts, ObserverTypes, HubTypeOK, BoothTypes, KioskInv, KioskTypeOK, Interval

\* And in the next state.
LEMMA CountsAreNext ==
  ASSUME Parts'
  PROVE  /\ calm' \in 0..Enough /\ smooth' \in 0..3 /\ seen' \in -1..(Silent + 1)
         /\ engine' \in BOOLEAN /\ printer'.age \in 0..PrinterGrace
         /\ camera'.age \in 0..CameraGrace
  BY DEF Parts, ObserverTypes, HubTypeOK, BoothTypes, KioskInv, KioskTypeOK, Interval

\* After news or trouble, what needs calm says nothing.
LEMMA NothingSettled ==
  ASSUME Parts', calm' = 0
  PROVE  PagesFit' /\ AgesFit' /\ MessageFits' /\ NewsFits'
<1>1. ~Settled'
  BY EnoughIsLong DEF Settled
<1>2. PagesFit' /\ MessageFits' /\ NewsFits'
  BY <1>1 DEF PagesFit, MessageFits, NewsFits
<1>3. AgesFit'
  <2>1. printer'.age \in 0..PrinterGrace
    BY CountsAreNext
  <2>. QED
    BY <2>1 DEF AgesFit
<1>. QED
  BY <1>2, <1>3

\* A step that neither waits longer nor leaves the timer off keeps it.
LEMMA TimerKeeps ==
  ASSUME Parts, Parts', TimerFits, engine' = engine,
         smooth' = 0 \/ smooth' = smooth, calm' = 0 \/ (calm' = calm /\ smooth' = smooth),
         timer' # -1 \/ at' # "idle" \/ (timer' = timer /\ at' = at)
  PROVE  TimerFits'
<1>1. ~engine' => smooth' = 0
  BY DEF TimerFits
<1>2. engine' /\ timer' = -1 => at' # "idle"
  BY DEF TimerFits
<1>3. smooth' >= calm' \/ smooth' = 2 * Interval + 1
  <2>1. smooth' \in 0..3
    BY CountsAreNext
  <2>. QED
    BY <2>1 DEF TimerFits
<1>. QED
  BY <1>1, <1>2, <1>3 DEF TimerFits

\* A report that starts leaves no more ticks than its timer did.
LEMMA ReportsSooner ==
  ASSUME Parts, Parts', TimerFits, engine, NEW news \in BOOLEAN, ReportsIf(news),
         timer' = timer \/ at' # "idle"
  PROVE  /\ Remaining' <= Remaining
         /\ timer' # -1 \/ at' # "idle"
<1>1. at' = at \/ (at = "idle" /\ at' = "token")
  BY ReportStarts DEF Parts
<1>2. at = "idle" => timer # -1
  BY DEF TimerFits
<1>3. timer \in -1..1 /\ timer' \in -1..1
  BY RemainingNow, RemainingNext DEF Interval
<1>4. CASE at = "idle" /\ at' = "token"
  BY <1>2, <1>3, <1>4, RemainingNow, RemainingNext
<1>5. CASE at' = at /\ at = "idle"
  BY <1>2, <1>3, <1>5, RemainingNow, RemainingNext
<1>6. CASE at' = at /\ at # "idle"
  BY <1>6, RemainingNow, RemainingNext DEF Stages
<1>. QED
  BY <1>1, <1>4, <1>5, <1>6

\* Two intervals are two ticks.
LEMMA TwoIntervals == 2 * Interval = 2
  BY DEF Interval

\* What the Hub has to hear, and by when.
LEMMA HeardSooner ==
  ASSUME NEW since \in 0..3, NEW ago \in -1..(Silent + 1),
         NEW left \in 0..2, NEW less \in 0..2, less <= left, Heard(since, ago, left)
  PROVE  Heard(since, ago, less)
  BY DEF Heard, Interval

\* At once after a heartbeat, or a trouble.
LEMMA HeardAtOnce ==
  ASSUME NEW since \in 0..3, NEW ago \in -1..(Silent + 1), NEW left \in 0..2,
         since = 0 \/ ago = 0
  PROVE  Heard(since, ago, left)
  BY DEF Heard, Interval

\* What was in time with more left is with less.
LEMMA InTimeSooner ==
  ASSUME NEW ticks \in Nat, NEW left \in 0..2, NEW less \in 0..2, less <= left, InTime(ticks, left)
  PROVE  InTime(ticks, less)
  BY EnoughIsLong DEF InTime, Interval

\* As the booth settles all the ticks are left.
LEMMA InTimeAtFirst ==
  ASSUME NEW left \in 0..2
  PROVE  InTime(Settling, left)
  BY EnoughIsLong DEF InTime, Interval

\* A step that brings no heartbeat: fewer ticks are left.
LEMMA HeardStays ==
  ASSUME Parts, Parts', HeardFits, engine => Remaining' <= Remaining,
         engine' = engine, smooth' = smooth, seen' = seen,
         seen \in 0..Silent /\ "silent" \in open' => "silent" \in open
  PROVE  HeardFits'
<1>1. Remaining \in 0..2 /\ Remaining' \in 0..2
  BY RemainingNow, RemainingNext
<1>2. smooth \in 0..3 /\ seen \in -1..(Silent + 1)
  BY CountsAre
<1>3. engine => Heard(smooth, seen, Remaining')
  BY <1>1, <1>2, HeardSooner DEF HeardFits
<1>4. seen' \in 0..Silent => "silent" \notin open'
  BY DEF HeardFits
<1>5. engine' => Heard(smooth', seen', Remaining')
  BY <1>3
<1>. QED
  BY <1>4, <1>5 DEF HeardFits

\* A heartbeat: the silence begins again.
LEMMA HeardNow ==
  ASSUME Parts', seen' = 0, "silent" \notin open'
  PROVE  HeardFits'
<1>1. Remaining' \in 0..2 /\ smooth' \in 0..3 /\ seen' \in -1..(Silent + 1)
  BY RemainingNext, CountsAreNext
<1>2. Heard(smooth', seen', Remaining')
  BY <1>1, HeardAtOnce
<1>. QED
  BY <1>2 DEF HeardFits

\* A trouble: there is time again.
LEMMA HeardAnew ==
  ASSUME Parts', HeardFits, smooth' = 0, seen' = seen, open' = open
  PROVE  HeardFits'
<1>1. Remaining' \in 0..2 /\ smooth' \in 0..3 /\ seen' \in -1..(Silent + 1)
  BY RemainingNext, CountsAreNext
<1>2. Heard(smooth', seen', Remaining')
  BY <1>1, HeardAtOnce
<1>3. seen' \in 0..Silent => "silent" \notin open'
  BY DEF HeardFits
<1>. QED
  BY <1>2, <1>3 DEF HeardFits

\* A step that leaves what is shown keeps its time.
LEMMA NewsStays ==
  ASSUME Parts, Parts', NewsFits, calm' = calm, BoothIsShown => BoothIsShown',
         StaleSlow' => StaleSlow, Remaining' <= Remaining
  PROVE  NewsFits'
<1>1. Remaining \in 0..2 /\ Remaining' \in 0..2 /\ calm \in Nat
  BY RemainingNow, RemainingNext, CountsAre, EnoughIsLong
<1>2. Left \in 0..2 /\ Left' \in 0..2 /\ Left' <= Left
  <2>1. CASE StaleSlow
    <3>1. Left = 2
      BY <2>1 DEF Left, Interval
    <3>2. Left' = 2 \/ Left' = Remaining'
      BY DEF Left, Interval
    <3>. QED
      BY <1>1, <3>1, <3>2
  <2>2. CASE ~StaleSlow
    BY <1>1, <2>2 DEF Left
  <2>. QED
    BY <2>1, <2>2
<1>3. InTime(calm, Left) => InTime(calm', Left')
  BY <1>1, <1>2, InTimeSooner
<1>4. Settled' <=> Settled
  BY DEF Settled, Settling
<1>. QED
  BY <1>3, <1>4 DEF NewsFits

\* What the alerts and a report are compared with.
LEMMA ShownStays ==
  ASSUME UNCHANGED <<open, live, lottery, ipad>>, printer'.condition = printer.condition
  PROVE  BoothIsShown' <=> BoothIsShown
  BY DEF BoothIsShown

\* What a report tells is as true as it was.
LEMMA TellsStays ==
  ASSUME UNCHANGED <<message, lottery, ipad>>, printer'.condition = printer.condition
  PROVE  (TellsAll' <=> TellsAll) /\ (BoothIsRead' <=> BoothIsRead)
  BY DEF TellsAll, BoothIsRead

-----------------------------------------------------------------------------
(***************************************************************************)
(* The steps.  First those after which nothing has been calm: news and     *)
(* trouble.                                                                *)
(***************************************************************************)

Before == Parts /\ TimerFits /\ HeardFits /\ PagesFit /\ AgesFit /\ MessageFits /\ NewsFits
After == TimerFits /\ HeardFits /\ PagesFit /\ AgesFit /\ MessageFits /\ NewsFits

\* A report fails, or its answer is lost.
LEMMA TroubleStep ==
  ASSUME Before, Parts',
         \/ TokenFails \/ LotteryUnread \/ AnswerLost
         \/ \E delayed \in BOOLEAN : RequestFails(delayed)
  PROVE  After'
<1>. Parts /\ ReporterTypes /\ ObserverTypes /\ HubTypeOK /\ TimerFits /\ HeardFits
  BY DEF Before, Parts
<1>1. CASE LotteryUnread
  <2>1. Troubled /\ at' = "answer" /\ UNCHANGED <<hub, booth>>
    BY <1>1 DEF LotteryUnread
  <2>2. calm' = 0 /\ smooth' = 0
    BY <2>1, TroubleIsCounted
  <2>3. TimerFits'
    BY <2>1, <2>2, TimerKeeps DEF booth
  <2>4. HeardFits'
    BY <2>1, <2>2, HeardAnew DEF hub
  <2>. QED
    BY <2>2, <2>3, <2>4, NothingSettled DEF After
<1>2. CASE TokenFails \/ \E delayed \in BOOLEAN : RequestFails(delayed)
  <2>1. Fails /\ UNCHANGED <<hub, booth>>
    BY <1>2 DEF TokenFails, RequestFails
  <2>2. calm' = 0 /\ smooth' = 0 /\ timer' \in 0..Interval
    BY <2>1, FailureTypes
  <2>3. timer' # -1
    BY <2>2
  <2>4. TimerFits'
    BY <2>1, <2>2, <2>3, TimerKeeps DEF booth
  <2>5. HeardFits'
    BY <2>1, <2>2, HeardAnew DEF hub
  <2>. QED
    BY <2>2, <2>4, <2>5, NothingSettled DEF After
<1>3. CASE AnswerLost
  <2>1. Fails /\ EvaluateHeartbeat(message) /\ UNCHANGED booth /\ message \in Heartbeats
    BY <1>3 DEF AnswerLost, ReporterTypes
  <2>2. calm' = 0 /\ smooth' = 0 /\ timer' \in 0..Interval
    BY <2>1, FailureTypes
  <2>3. timer' # -1
    BY <2>2
  <2>4. TimerFits'
    BY <2>1, <2>2, <2>3, TimerKeeps DEF booth
  <2>5. seen' = 0 /\ "silent" \notin open'
    BY <2>1, HeartbeatIsHeard
  <2>6. HeardFits'
    BY <2>5, HeardNow
  <2>. QED
    BY <2>2, <2>4, <2>6, NothingSettled DEF After
<1>. QED
  BY <1>1, <1>2, <1>3

\* Something changes at the booth or in its windows.
LEMMA ChangeStep ==
  ASSUME Before, Parts',
         \/ WindowMovesOn \/ PageOpens \/ PageMoves \/ StreamEnds
         \/ \E condition \in Conditions : PrinterTurns(condition)
         \/ \E told \in BOOLEAN : LotteryTurns(told)
  PROVE  After'
<1>. Parts /\ ReporterTypes /\ ObserverTypes /\ TimerFits /\ HeardFits
  BY DEF Before, Parts
<1>1. CASE WindowMovesOn
  <2>1. Changed /\ UNCHANGED <<booth, reporter, open, seen>>
    BY <1>1 DEF WindowMovesOn, WindowMoves
  <2>2. calm' = 0 /\ smooth' = smooth
    BY <2>1, ChangeIsCounted
  <2>3. Remaining' = Remaining /\ Remaining \in 0..2
    BY <2>1, RemainingNow DEF Remaining, reporter
  <2>4. TimerFits'
    BY <2>1, <2>2, TimerKeeps DEF booth, reporter
  <2>5. Remaining' <= Remaining
    BY <2>3
  <2>6. HeardFits'
    BY <2>1, <2>2, <2>5, HeardStays DEF booth
  <2>. QED
    BY <2>2, <2>4, <2>6, NothingSettled DEF After
<1>2. CASE ~WindowMovesOn
  <2>1. /\ calm' = 0 /\ smooth' = smooth /\ engine' = engine /\ timer' = timer
        /\ seen' = seen /\ open' = open
        /\ \E news \in BOOLEAN : ReportsIf(news)
    <3>1. CASE PageOpens \/ PageMoves
      <4>1. Changed /\ ReportsIf(Flips) /\ UNCHANGED <<hub, booth, timer>>
        BY <3>1 DEF PageOpens, PageMoves
      <4>. QED
        BY <4>1, ChangeIsCounted, FlipsIsBoolean DEF hub, booth
    <3>2. CASE StreamEnds
      <4>1. calm' = 0 /\ ReportsIf(Flips) /\ UNCHANGED <<hub, booth, timer, smooth>>
        BY <3>2 DEF StreamEnds
      <4>. QED
        BY <4>1, FlipsIsBoolean DEF hub, booth
    <3>3. CASE \E condition \in Conditions : PrinterTurns(condition)
      <4>1. PICK condition \in Conditions : PrinterTurns(condition)
        BY <3>3
      <4>2. Changed /\ ReportsIf(sent.printer # condition) /\ UNCHANGED <<hub, engine, timer>>
        BY <4>1 DEF PrinterTurns
      <4>. QED
        BY <4>2, ChangeIsCounted DEF hub
    <3>4. CASE \E told \in BOOLEAN : LotteryTurns(told)
      <4>1. PICK told \in BOOLEAN : LotteryTurns(told)
        BY <3>4
      <4>2. /\ Changed /\ UNCHANGED <<hub, engine, timer>>
            /\ \E stock \in Stocks :
                  ReportsIf(told /\ (sent.lottery \in {"none", "unread"}
                                       \/ (stock = "empty") # (sent.lottery = "empty")))
        BY <4>1 DEF LotteryTurns
      <4>3. \E news \in BOOLEAN : ReportsIf(news)
        BY <4>2
      <4>. QED
        BY <4>2, <4>3, ChangeIsCounted DEF hub
    <3>. QED
      BY <1>2, <3>1, <3>2, <3>3, <3>4
  <2>2. PICK news \in BOOLEAN : ReportsIf(news)
    BY <2>1
  <2>3. at' = at \/ at' = "token"
    BY <2>2, ReportStarts
  <2>4. TimerFits'
    BY <2>1, <2>3, TimerKeeps
  <2>5. engine => Remaining' <= Remaining
    BY <2>1, <2>2, ReportsSooner
  <2>6. HeardFits'
    BY <2>1, <2>5, HeardStays
  <2>. QED
    BY <2>1, <2>4, <2>6, NothingSettled DEF After
<1>. QED
  BY <1>1, <1>2

\* The engine's process begins, or ends.
LEMMA EngineStep ==
  ASSUME Before, Parts', EngineStarts \/ EngineStops
  PROVE  After'
<1>. Parts /\ ObserverTypes /\ TimerFits /\ HeardFits
  BY DEF Before, Parts
<1>1. CASE EngineStarts
  <2>1. /\ ~engine /\ at' = "token" /\ calm' = 0
        /\ smooth' = smooth /\ seen' = seen /\ open' = open
    BY <1>1 DEF EngineStarts, hub
  <2>2. smooth' = 0
    BY <2>1 DEF TimerFits
  <2>3. TimerFits'
    BY <2>1, <2>2 DEF TimerFits
  <2>. QED
    BY <2>1, <2>2, <2>3, HeardAnew, NothingSettled DEF After
<1>2. CASE EngineStops
  <2>1. Troubled /\ engine' = FALSE /\ seen' = seen /\ open' = open
    BY <1>2 DEF EngineStops, hub
  <2>2. calm' = 0 /\ smooth' = 0
    BY <2>1, TroubleIsCounted
  <2>3. TimerFits'
    BY <2>1, <2>2 DEF TimerFits
  <2>. QED
    BY <2>1, <2>2, <2>3, HeardAnew, NothingSettled DEF After
<1>. QED
  BY <1>1, <1>2

-----------------------------------------------------------------------------
(***************************************************************************)
(* The steps that leave the booth as it is: the report's own, and the      *)
(* Hub's.                                                                  *)
(***************************************************************************)

\* The booth and its calm are as they were.
LEMMA BoothUntouched ==
  ASSUME PagesFit, AgesFit, UNCHANGED <<kiosk, booth, calm>>
  PROVE  PagesFit' /\ AgesFit'
  BY DEF PagesFit, AgesFit, IsFirst, kiosk, booth

\* The timer's report takes no longer than its timer.
LEMMA TimerFiresStep ==
  ASSUME Before, Parts', TimerFires
  PROVE  After'
<1>. Parts /\ ReporterTypes /\ TimerFits /\ HeardFits /\ PagesFit /\ AgesFit /\ MessageFits /\ NewsFits
  BY DEF Before, Parts
<1>1. /\ engine /\ timer' = -1 /\ ReportsIf(TRUE)
      /\ UNCHANGED <<kiosk, hub, booth, message, observers>>
  BY DEF TimerFires
<1>2. /\ calm' = calm /\ smooth' = smooth /\ engine' = engine /\ seen' = seen /\ open' = open
      /\ UNCHANGED <<live, lottery, ipad, message>> /\ printer' = printer
  BY <1>1 DEF observers, booth, hub, kiosk
<1>3. (at' = at \/ at' = "token") /\ at' # "idle"
  BY <1>1, ReportStarts
<1>4. TimerFits'
  BY <1>2, <1>3, TimerKeeps
<1>5. Remaining' <= Remaining
  BY <1>1, <1>3, ReportsSooner
<1>6. HeardFits'
  BY <1>2, <1>5, HeardStays
<1>7. (TellsAll' <=> TellsAll) /\ (BoothIsRead' <=> BoothIsRead) /\ (BoothIsShown' <=> BoothIsShown)
  BY <1>2, TellsStays, ShownStays
<1>8. MessageFits'
  BY <1>2, <1>3, <1>7 DEF MessageFits, Settled, Settling
<1>9. StaleSlow' => StaleSlow
  BY <1>3, <1>7 DEF StaleSlow
<1>10. NewsFits'
  BY <1>2, <1>5, <1>7, <1>9, NewsStays
<1>. QED
  BY <1>1, <1>2, <1>4, <1>6, <1>8, <1>10, BoothUntouched DEF After

\* A settled booth is read as it is: every grace is over.
LEMMA ReadingStep ==
  ASSUME Before, Parts', ReadsBooth \/ ReadsLottery
  PROVE  After'
<1>. /\ Parts /\ KioskInv /\ KioskTypeOK /\ BoothTypes /\ ReporterTypes
     /\ TimerFits /\ HeardFits /\ PagesFit /\ AgesFit /\ MessageFits /\ NewsFits
  BY DEF Before, Parts, KioskInv
<1>1. UNCHANGED <<kiosk, hub, booth, timer, observers>>
  BY DEF ReadsBooth, ReadsLottery
<1>2. /\ calm' = calm /\ smooth' = smooth /\ engine' = engine /\ seen' = seen /\ open' = open
      /\ UNCHANGED <<live, lottery, ipad>> /\ printer' = printer
  BY <1>1 DEF observers, booth, hub, kiosk
<1>3. /\ at \in {"token", "lottery"} /\ at' \in {"lottery", "answer"}
  BY DEF ReadsBooth, ReadsLottery
<1>4. TimerFits'
  <2>1. at' # "idle"
    BY <1>3
  <2>. QED
    BY <1>2, <2>1, TimerKeeps
<1>5. Remaining' <= Remaining
  <2>1. Remaining = 1 /\ Remaining' = 1
    BY <1>3, RemainingNow, RemainingNext
  <2>. QED
    BY <2>1
<1>6. HeardFits'
  BY <1>2, <1>5, HeardStays
<1>7. MessageFits'
  <2>1. CASE ReadsBooth
    <3>1. SUFFICES ASSUME Settled PROVE BoothIsRead'
      BY <1>2, <2>1 DEF MessageFits, ReadsBooth, Settled, Settling
    <3>2. calm >= StaleAfter /\ calm >= PrinterGrace /\ calm - StaleAfter >= CameraGrace /\ calm \in Nat
      BY <3>1, CountsAre, EnoughIsLong DEF Settled, Settling
    <3>3. camera.on = (ipad = "ready")
      BY <3>2, CameraIsRight
    <3>4. camera.age >= CameraGrace
      <4>1. camera.age \in Int /\ (camera.age >= calm - StaleAfter \/ camera.age = CameraGrace)
        BY <3>2, CountsAre DEF AgesFit
      <4>. QED
        BY <3>2, <4>1
    <3>5. printer.age >= PrinterGrace
      <4>1. printer.age \in Int /\ (printer.age >= calm \/ printer.age = PrinterGrace)
        BY CountsAre DEF AgesFit
      <4>. QED
        BY <3>2, <4>1
    <3>6. /\ message'.printer = printer.condition
          /\ message'.printerPast = (printer.condition # "unknown" /\ printer.age >= PrinterGrace)
          /\ message'.camera = camera.on /\ message'.cameraPast = (camera.age >= CameraGrace)
      BY <2>1, ReadIsHeartbeat DEF ReadsBooth
    <3>. QED
      BY <1>2, <3>3, <3>4, <3>5, <3>6 DEF BoothIsRead
  <2>2. CASE ReadsLottery
    <3>1. SUFFICES ASSUME Settled PROVE TellsAll'
      BY <1>2, <2>2 DEF MessageFits, ReadsLottery, Settled, Settling
    <3>2. BoothIsRead
      BY <3>1, <2>2 DEF MessageFits, ReadsLottery
    <3>3. /\ message'.printer = message.printer /\ message'.printerPast = message.printerPast
          /\ message'.camera = message.camera /\ message'.cameraPast = message.cameraPast
          /\ message'.lottery = lottery
      BY <2>2, LotteryIsTold DEF ReadsLottery, ReporterTypes, BoothTypes
    <3>. QED
      BY <1>2, <3>2, <3>3 DEF TellsAll, BoothIsRead
  <2>. QED
    BY <2>1, <2>2
<1>8. ~StaleSlow'
  BY <1>3 DEF StaleSlow
<1>9. BoothIsShown' <=> BoothIsShown
  BY <1>2, ShownStays
<1>10. NewsFits'
  BY <1>2, <1>5, <1>8, <1>9, NewsStays
<1>. QED
  BY <1>1, <1>2, <1>4, <1>6, <1>7, <1>10, BoothUntouched DEF After

\* A heartbeat that tells all there is leaves the alerts right.
LEMMA TellingShows ==
  ASSUME HubTypeOK, message \in Heartbeats, lottery \in Stocks, ipad \in {"ready", "failed", "away"},
         TellsAll, EvaluateHeartbeat(message), UNCHANGED <<lottery, ipad, printer>>
  PROVE  BoothIsShown'
<1>1. open' = (open \ Closed(message)) \cup Wanted(message) /\ live' = live /\ open \subseteq Alerts
  BY DEF EvaluateHeartbeat, HubTypeOK
<1>2. /\ message.printer = printer.condition
      /\ printer.condition # "unknown" => message.printerPast
      /\ message.camera = (ipad = "ready") /\ message.cameraPast
      /\ message.lottery = lottery
      /\ message.printer \in {"ready", "paper-out", "cover-open", "unknown"}
  BY DEF TellsAll, BoothIsRead, Heartbeats
<1>3. ASSUME printer.condition # "unknown"
      PROVE  open' \cap {"paper-out", "cover-open"} = {printer.condition} \ {"ready"}
  <2>1. \A key \in {"paper-out", "cover-open"} :
           key \in open' <=> key = printer.condition
    BY <1>1, <1>2, <1>3 DEF Wanted, Closed, Alerts
  <2>2. printer.condition \in {"ready", "paper-out", "cover-open"}
    BY <1>2, <1>3
  <2>3. \A key : key \in open' \cap {"paper-out", "cover-open"}
                 <=> key \in {printer.condition} \ {"ready"}
    BY <2>1, <2>2
  <2>. QED
    BY <2>3
<1>4. "out-of-stock" \in open' <=> lottery = "empty"
  BY <1>1, <1>2 DEF Wanted, Closed, Alerts, Stocks
<1>5. "camera-off" \in open' <=> live /\ ipad # "ready"
  BY <1>1, <1>2 DEF Wanted, Closed, Alerts
<1>. QED
  BY <1>1, <1>3, <1>4, <1>5 DEF BoothIsShown

\* The heartbeat that arrives tells all, or the next one has time to.
LEMMA DeliveredStep ==
  ASSUME Before, Parts', Delivered
  PROVE  After'
<1>. /\ Parts /\ KioskTypeOK /\ HubTypeOK /\ BoothTypes /\ ReporterTypes
     /\ TimerFits /\ PagesFit /\ AgesFit /\ MessageFits
  BY DEF Before, Parts, KioskInv
<1>1. /\ at \in {"answer", "slow"} /\ EvaluateHeartbeat(message) /\ Ends(FALSE)
      /\ UNCHANGED <<kiosk, booth, observers>>
  BY DEF Delivered
<1>2. /\ calm' = calm /\ smooth' = smooth /\ engine' = engine
      /\ UNCHANGED <<lottery, ipad, printer>>
  BY <1>1 DEF observers, booth, kiosk
<1>3. at' \in {"idle", "token"} /\ timer' \in 0..Interval
  BY <1>1, ReportEnds
<1>4. TimerFits'
  <2>1. timer' # -1
    BY <1>3
  <2>. QED
    BY <1>2, <2>1, TimerKeeps
<1>5. HeardFits'
  BY <1>1, HeartbeatIsHeard, HeardNow DEF ReporterTypes
<1>6. MessageFits'
  BY <1>3 DEF MessageFits
<1>7. NewsFits'
  <2>1. SUFFICES ASSUME Settled PROVE (BoothIsShown' /\ ~StaleSlow') \/ InTime(calm', Left')
    BY <1>2 DEF NewsFits, Settled, Settling
  <2>2. ~StaleSlow' /\ Left' = Remaining'
    BY <1>3 DEF StaleSlow, Left
  <2>3. CASE TellsAll
    BY <1>1, <1>2, <2>2, <2>3, TellingShows DEF ReporterTypes, BoothTypes, KioskTypeOK
  <2>4. CASE calm = Settling
    <3>1. Left' \in 0..2
      BY <2>2, RemainingNext
    <3>2. InTime(Settling, Left')
      BY <3>1, InTimeAtFirst
    <3>. QED
      BY <1>2, <2>4, <3>2
  <2>. QED
    BY <1>1, <2>1, <2>3, <2>4 DEF MessageFits
<1>. QED
  BY <1>1, <1>2, <1>4, <1>5, <1>6, <1>7, BoothUntouched DEF After

\* A late heartbeat, or a silence check: a silence opens for none just heard.
LEMMA HubStep ==
  ASSUME Before, Parts', LateArrives \/ LateLost \/ SilenceCheck \/ UNCHANGED vars
  PROVE  After'
<1>. /\ Parts /\ HubTypeOK /\ LateTypes
     /\ TimerFits /\ HeardFits /\ PagesFit /\ AgesFit /\ MessageFits /\ NewsFits
  BY DEF Before, Parts
<1>1. /\ UNCHANGED <<kiosk, booth, reporter, smooth>>
      /\ calm' = 0 \/ calm' = calm
  BY DEF LateArrives, LateLost, SilenceCheck, vars, observers
<1>2. /\ smooth' = smooth /\ engine' = engine /\ at' = at /\ timer' = timer
      /\ UNCHANGED <<lottery, ipad, message>> /\ printer' = printer
  BY <1>1 DEF booth, kiosk, reporter
<1>3. TimerFits'
  BY <1>1, <1>2, TimerKeeps
<1>4. Remaining' = Remaining /\ Remaining' <= Remaining
  <2>1. Remaining' = Remaining /\ Remaining \in 0..2
    BY <1>2, RemainingNow DEF Remaining
  <2>. QED
    BY <2>1
<1>5. CASE LateArrives /\ late.state = "newest"
  <2>1. EvaluateHeartbeat(late.heartbeat) /\ calm' = 0 /\ late.heartbeat \in Heartbeats
    BY <1>5 DEF LateArrives, IsNewest, LateTypes
  <2>2. HeardFits'
    BY <2>1, HeartbeatIsHeard, HeardNow
  <2>. QED
    BY <1>3, <2>1, <2>2, NothingSettled DEF After
<1>6. CASE SilenceCheck \/ ~ (LateArrives /\ late.state = "newest")
  <2>1. calm' = calm /\ seen' = seen /\ live' = live
    BY <1>6 DEF LateArrives, LateLost, SilenceCheck, EvaluateSilence, IsNewest, vars, observers, hub
  <2>2. open' = open \/ SilenceCheck
    BY <1>6 DEF LateArrives, LateLost, IsNewest, vars, hub
  <2>3. seen \in 0..Silent /\ "silent" \in open' => "silent" \in open
    <3>1. seen \in 0..Silent => ~Quiet
      BY DEF Quiet
    <3>. QED
      BY <2>2, <3>1 DEF SilenceCheck, EvaluateSilence
  <2>4. HeardFits'
    BY <1>2, <1>4, <2>1, <2>3, HeardStays
  <2>5. BoothIsShown => BoothIsShown'
    <3>1. CASE open' = open
      BY <1>2, <2>1, <3>1, ShownStays
    <3>2. CASE SilenceCheck
      <4>1. open' = IF ~live THEN open \ {"silent", "camera-off"}
                    ELSE IF Quiet THEN open \cup {"silent"} ELSE open
        BY <3>2 DEF SilenceCheck, EvaluateSilence
      <4>2. \A key \in {"paper-out", "cover-open", "out-of-stock"} : key \in open' <=> key \in open
        BY <4>1
      <4>3. "camera-off" \in open' <=> live /\ "camera-off" \in open
        BY <4>1 DEF BoothIsShown
      <4>. QED
        BY <1>2, <2>1, <4>2, <4>3 DEF BoothIsShown
    <3>. QED
      BY <2>2, <3>1, <3>2
  <2>6. (TellsAll' <=> TellsAll) /\ (BoothIsRead' <=> BoothIsRead)
    BY <1>2, TellsStays
  <2>7. MessageFits'
    BY <1>2, <2>1, <2>6 DEF MessageFits, Settled, Settling
  <2>8. StaleSlow' => StaleSlow
    BY <1>2, <2>6 DEF StaleSlow
  <2>9. NewsFits'
    BY <1>4, <2>1, <2>5, <2>8, NewsStays
  <2>. QED
    BY <1>1, <1>3, <2>1, <2>4, <2>7, <2>9, BoothUntouched DEF After
<1>. QED
  BY <1>5, <1>6

-----------------------------------------------------------------------------
(***************************************************************************)
(* A tick: what has been calm has been for one more.                       *)
(***************************************************************************)

KeepsUp(age, ticks, limit) == age >= ticks \/ age = limit

\* An age that keeps up with the calm still does a tick later.
LEMMA AgeKeepsUp ==
  ASSUME NEW limit \in Nat, NEW age \in 0..limit, NEW older \in 0..limit,
         NEW ticks \in Int, NEW next \in Int,
         KeepsUp(age, ticks, limit), older = age + 1 \/ older = limit,
         next = ticks + 1 \/ (next = ticks /\ ticks > limit)
  PROVE  KeepsUp(older, next, limit)
  BY DEF KeepsUp

\* A tick later there is one less to wait.
LEMMA HeardLater ==
  ASSUME NEW since \in 0..3, NEW ago \in -1..(Silent + 1), NEW left, NEW rest,
         NEW sinceNext \in 0..3, NEW agoNext \in -1..(Silent + 1),
         (left = 1 /\ rest = 0) \/ (left = 2 /\ rest = 1),
         sinceNext <= since + 1, ago >= 0 => agoNext >= 0 /\ agoNext <= ago + 1,
         Heard(since, ago, left)
  PROVE  Heard(sinceNext, agoNext, rest)
  BY DEF Heard, Interval

\* So it is for the news.
LEMMA InTimeLater ==
  ASSUME NEW ticks \in Nat, NEW left, NEW rest, NEW next \in Nat,
         (left = 1 /\ rest = 0) \/ (left = 2 /\ rest = 1),
         next = ticks + 1 \/ (next = ticks /\ ticks = Enough), InTime(ticks, left)
  PROVE  InTime(next, rest)
  BY EnoughIsLong DEF InTime, Interval

\* What a tick does, in plain facts.
LEMMA TickEffects ==
  ASSUME Parts, Tick
  PROVE  /\ timer # 0 /\ at \in {"idle", "answer"}
         /\ timer' = IF timer > 0 THEN timer - 1 ELSE timer
         /\ at = "answer" => at' = "slow"
         /\ at = "idle" => at' \in {"idle", "token"}
         /\ KioskAges /\ HubAges
         /\ UNCHANGED <<engine, lottery, message, open, live, ipad, linked>>
         /\ printer'.condition = printer.condition
         /\ printer'.age = printer.age + 1 \/ printer'.age = PrinterGrace
<1>1. /\ timer # 0 /\ at \in {"idle", "answer"}
      /\ timer' = IF timer > 0 THEN timer - 1 ELSE timer
      /\ IF at = "answer" THEN at' = "slow" /\ sendAgain' = (sendAgain \/ Flips)
                          ELSE ReportsIf(Flips)
      /\ KioskAges /\ HubAges /\ UNCHANGED <<engine, lottery, message>>
      /\ printer' = [printer EXCEPT !.age = IF @ < PrinterGrace THEN @ + 1 ELSE @]
  BY DEF Tick
<1>2. at = "idle" => at' \in {"idle", "token"}
  BY <1>1 DEF ReportsIf
<1>3. UNCHANGED <<open, live, ipad, linked>>
  BY <1>1 DEF KioskAges, HubAges
<1>4. /\ printer'.condition = printer.condition
      /\ printer'.age = printer.age + 1 \/ printer'.age = PrinterGrace
  BY <1>1, PrinterAges DEF Parts
<1>. QED
  BY <1>1, <1>2, <1>3, <1>4

\* The report under way has a tick less, the timer one less to go.
LEMMA TickBrings ==
  ASSUME Parts, Parts', TimerFits, Tick, engine
  PROVE  (Remaining = 1 /\ Remaining' = 0) \/ (Remaining = 2 /\ Remaining' = 1)
<1>1. CASE at = "answer"
  BY <1>1, TickEffects, RemainingNow, RemainingNext
<1>2. CASE at = "idle"
  <2>1. timer \in -1..1 /\ timer # 0 /\ timer # -1
    BY <1>2, TickEffects, RemainingNow DEF TimerFits, Interval
  <2>2. timer = 1
    BY <2>1
  <2>3. timer' = 0
    BY <2>2, TickEffects
  <2>4. Remaining = 2
    BY <1>2, <2>2, RemainingNow
  <2>5. Remaining' = RemainingOf(at', 0) /\ at' \in {"idle", "token"}
    BY <1>2, <2>3, TickEffects DEF Remaining
  <2>6. RemainingOf("idle", 0) = 1 /\ RemainingOf("token", 0) = 1
    BY DEF RemainingOf
  <2>. QED
    BY <2>4, <2>5, <2>6
<1>. QED
  BY <1>1, <1>2, TickEffects

\* Reports keep their time over a tick.
LEMMA TickKeepsTime ==
  ASSUME Parts, Parts', TimerFits, HeardFits, Tick
  PROVE  TimerFits' /\ HeardFits'
<1>1. /\ calm \in 0..Enough /\ smooth \in 0..3 /\ seen \in -1..(Silent + 1) /\ Silent \in Nat
      /\ calm' \in 0..Enough /\ smooth' \in 0..3 /\ seen' \in -1..(Silent + 1)
  BY CountsAre, CountsAreNext
<1>2. /\ calm' # 0 => engine /\ (calm' = calm + 1 \/ (calm' = calm /\ calm = Enough))
      /\ ~engine => smooth' = 0
      /\ smooth' <= smooth + 1
      /\ engine => smooth' = smooth + 1 \/ smooth' = 3
      /\ engine' = engine
  BY ObserversTick, TickEffects DEF Parts, Interval
<1>3. engine' /\ timer' = -1 => at' # "idle"
  <2>1. timer \in -1..1 /\ timer # 0 /\ timer' = IF timer > 0 THEN timer - 1 ELSE timer
    BY TickEffects, RemainingNow DEF Interval
  <2>2. timer' = -1 => timer = -1
    BY <2>1
  <2>. QED
    BY <1>2, <2>2, TickEffects DEF TimerFits
<1>4. smooth' >= calm' \/ smooth' = 3
  <2>1. smooth >= calm \/ smooth = 3
    BY TwoIntervals DEF TimerFits
  <2>2. CASE calm' = 0
    BY <1>1, <2>2
  <2>3. CASE calm' # 0 /\ calm' = calm + 1
    BY <1>1, <1>2, <2>1, <2>3
  <2>4. CASE calm' # 0 /\ calm' = calm /\ calm = Enough
    <3>1. Enough >= 4 /\ smooth = 3
      BY <1>1, <2>1, <2>4, EnoughIsLong
    <3>. QED
      BY <1>1, <1>2, <2>4, <3>1
  <2>. QED
    BY <1>2, <2>2, <2>3, <2>4
<1>5. TimerFits'
  BY <1>2, <1>3, <1>4, TwoIntervals DEF TimerFits
<1>6. seen' = IF seen = -1 THEN seen ELSE IF seen > Silent THEN seen ELSE seen + 1
  BY TickEffects DEF HubAges, Older
<1>7. seen >= 0 => seen' >= 0 /\ seen' <= seen + 1
  BY <1>1, <1>6
<1>8. engine' => Heard(smooth', seen', Remaining')
  <2>. SUFFICES ASSUME engine PROVE Heard(smooth', seen', Remaining')
    BY <1>2
  <2>1. Heard(smooth, seen, Remaining)
    BY DEF HeardFits
  <2>. QED
    BY <1>1, <1>2, <1>7, <2>1, TickBrings, HeardLater
<1>9. seen' \in 0..Silent => "silent" \notin open'
  <2>1. seen' \in 0..Silent => seen \in 0..Silent
    BY <1>1, <1>6
  <2>. QED
    BY <2>1, TickEffects DEF HeardFits
<1>. QED
  BY <1>5, <1>8, <1>9 DEF HeardFits

\* The booth a tick later: its pages and ages keep up.
LEMMA TickKeepsBooth ==
  ASSUME Parts, Parts', PagesFit, AgesFit, Tick, calm' # 0
  PROVE  PagesFit' /\ AgesFit'
<1>. KioskInv /\ KioskTypeOK /\ BoothTypes /\ ObserverTypes
  BY DEF Parts, KioskInv
<1>1. /\ calm \in 0..Enough /\ calm' \in 0..Enough /\ calm \in Int /\ calm' \in Int
      /\ engine /\ (linked \/ ipad = "away")
      /\ calm' = calm + 1 \/ (calm' = calm /\ calm = Enough)
  BY ObserversTick, CountsAre, CountsAreNext, EnoughIsLong DEF KioskTypeOK
<1>2. /\ pages' = Aged /\ UNCHANGED <<ipad, linked, engine>> /\ KioskInv'
  BY TickEffects, AgesKeepKiosk
<1>3. /\ Enough > StaleAfter /\ Enough > PrinterGrace /\ Enough - StaleAfter > CameraGrace
      /\ StaleAfter \in Nat /\ PrinterGrace \in Nat /\ CameraGrace \in Nat /\ Enough \in Nat
  BY EnoughIsLong DEF Settling
<1>4. /\ Aged \in Seq(Pages) /\ DOMAIN Aged = DOMAIN pages
      /\ \A i \in DOMAIN pages :
            /\ IsFirst(Aged, i) <=> IsFirst(pages, i)
            /\ IF linked /\ IsFirst(pages, i)
               THEN Aged[i].camera = ipad /\ Aged[i].age = 0
               ELSE Aged[i].age = pages[i].age + 1 \/ Aged[i].age = StaleAfter
  BY AgedPages
<1>5. \A i \in DOMAIN pages : pages[i].age \in 0..StaleAfter /\ Aged[i].age \in 0..StaleAfter
  <2>1. \A i \in DOMAIN pages : pages[i] \in Pages /\ Aged[i] \in Pages
    BY <1>4 DEF KioskTypeOK
  <2>. QED
    BY <2>1 DEF Pages
<1>6. \A i \in DOMAIN pages :
         ~ (linked /\ IsFirst(pages, i)) => KeepsUp(pages[i].age, calm, StaleAfter)
  <2>1. CASE calm = 0
    BY <1>5, <2>1 DEF KeepsUp
  <2>2. CASE calm # 0
    <3>1. calm >= 1
      BY <1>1, <2>2
    <3>. QED
      BY <3>1 DEF PagesFit, KeepsUp
  <2>. QED
    BY <2>1, <2>2
<1>7. calm' = calm + 1 \/ (calm' = calm /\ calm > StaleAfter)
  BY <1>1, <1>3
<1>8. \A i \in DOMAIN pages :
         ~ (linked /\ IsFirst(pages, i)) => KeepsUp(Aged[i].age, calm', StaleAfter)
  BY <1>1, <1>3, <1>4, <1>5, <1>6, <1>7, AgeKeepsUp
<1>9. PagesFit'
  BY <1>1, <1>2, <1>4, <1>8 DEF PagesFit, IsFirst, KeepsUp
<1>10. printer'.age >= calm' \/ printer'.age = PrinterGrace
  <2>1. KeepsUp(printer.age, calm, PrinterGrace)
    BY DEF AgesFit, KeepsUp
  <2>2. printer.age \in 0..PrinterGrace /\ printer'.age \in 0..PrinterGrace
    BY CountsAre, CountsAreNext
  <2>3. calm' = calm + 1 \/ (calm' = calm /\ calm > PrinterGrace)
    BY <1>1, <1>3
  <2>4. printer'.age = printer.age + 1 \/ printer'.age = PrinterGrace
    BY TickEffects
  <2>5. KeepsUp(printer'.age, calm', PrinterGrace)
    BY <1>1, <1>3, <2>1, <2>2, <2>3, <2>4, AgeKeepsUp
  <2>. QED
    BY <2>5 DEF KeepsUp
<1>11. calm' >= StaleAfter => camera'.age >= calm' - StaleAfter \/ camera'.age = CameraGrace
  <2>1. PICK d : d = calm'
    OBVIOUS
  <2>2. /\ d \in 0..Enough /\ (d = calm + 1 \/ (d = calm /\ calm = Enough))
    BY <1>1, <2>1
  <2>3. camera.age \in 0..CameraGrace /\ camera'.age \in 0..CameraGrace
    BY CountsAre, CountsAreNext
  <2>4. ASSUME d >= StaleAfter
        PROVE  KeepsUp(camera'.age, d - StaleAfter, CameraGrace)
    <3>1. CASE d = StaleAfter
      <4>1. d - StaleAfter = 0
        BY <1>3, <3>1
      <4>2. camera'.age >= 0
        BY <1>3, <2>3
      <4>. QED
        BY <4>1, <4>2 DEF KeepsUp
    <3>2. CASE d # StaleAfter
      <4>1. calm >= StaleAfter /\ calm \in Nat
        BY <1>1, <1>3, <2>2, <2>4, <3>2
      <4>2. camera.on = (ipad = "ready")
        BY <4>1, CameraIsRight
      <4>3. IsOn(Aged) = (ipad = "ready")
        <5>1. calm' >= StaleAfter /\ calm' \in Nat
          BY <1>1, <1>3, <2>1, <2>4
        <5>2. camera'.on = (ipad' = "ready")
          BY <1>2, <1>9, <5>1, CameraIsRightNext
        <5>. QED
          BY <1>2, <5>2, TickEffects, CameraAges
      <4>4. camera'.age = camera.age + 1 \/ camera'.age = CameraGrace
        BY <4>2, <4>3, TickEffects, CameraAges
      <4>5. KeepsUp(camera.age, calm - StaleAfter, CameraGrace)
        BY <4>1 DEF AgesFit, KeepsUp
      <4>6. /\ d - StaleAfter \in Int /\ calm - StaleAfter \in Int
            /\ \/ d - StaleAfter = (calm - StaleAfter) + 1
               \/ d - StaleAfter = calm - StaleAfter /\ calm - StaleAfter > CameraGrace
        BY <1>1, <1>3, <2>2
      <4>. QED
        BY <1>3, <2>3, <4>4, <4>5, <4>6, AgeKeepsUp
    <3>. QED
      BY <3>1, <3>2
  <2>5. d >= StaleAfter => camera'.age >= d - StaleAfter \/ camera'.age = CameraGrace
    BY <2>4 DEF KeepsUp
  <2>. QED
    BY <2>1, <2>5
<1>. QED
  BY <1>9, <1>10, <1>11 DEF AgesFit

\* And the news are right a tick later, or still in time.
LEMMA TickKeepsNews ==
  ASSUME Parts, Parts', TimerFits, MessageFits, NewsFits, Tick, calm' # 0
  PROVE  MessageFits' /\ NewsFits'
<1>1. /\ calm \in Nat /\ calm' \in Nat /\ engine /\ Settling \in Nat
      /\ calm' = calm + 1 \/ (calm' = calm /\ calm = Enough)
  BY ObserversTick, CountsAre, CountsAreNext, EnoughIsLong DEF Parts
<1>2. calm' >= Settling => calm' = Settling \/ Settled
  BY <1>1, EnoughIsLong DEF Settled
<1>3. (TellsAll' <=> TellsAll) /\ (BoothIsShown' <=> BoothIsShown)
  BY TickEffects, TellsStays, ShownStays
<1>4. at' = "slow" => at = "answer"
  BY TickEffects
<1>5. MessageFits'
  <2>1. at' # "lottery" /\ at' # "answer"
    BY TickEffects
  <2>. QED
    BY <1>2, <1>3, <1>4, <2>1 DEF MessageFits, Settled, Settling
<1>6. NewsFits'
  <2>. SUFFICES ASSUME calm' >= Settling
                PROVE (BoothIsShown' /\ ~StaleSlow') \/ InTime(calm', Left')
    BY DEF NewsFits, Settled, Settling
  <2>1. CASE calm' = Settling
    <3>1. Left' = 2 \/ Left' = Remaining'
      BY DEF Left, Interval
    <3>2. Left' \in 0..2
      BY <3>1, RemainingNext
    <3>3. InTime(Settling, Left')
      BY <3>2, InTimeAtFirst
    <3>. QED
      BY <2>1, <3>3
  <2>2. CASE Settled
    <3>1. ~StaleSlow'
      BY <1>3, <1>4, <2>2 DEF StaleSlow, MessageFits
    <3>2. ~StaleSlow
      BY TickEffects DEF StaleSlow
    <3>3. Left' = Remaining' /\ Left = Remaining
      BY <3>1, <3>2 DEF Left
    <3>4. InTime(calm, Left) => InTime(calm', Left')
      BY <1>1, <3>3, TickBrings, InTimeLater
    <3>. QED
      BY <1>3, <2>2, <3>1, <3>4 DEF NewsFits
  <2>. QED
    BY <1>2, <2>1, <2>2
<1>. QED
  BY <1>5, <1>6

\* So a tick keeps all of it.
LEMMA TickStep ==
  ASSUME Before, Parts', Tick
  PROVE  After'
<1>. Parts /\ TimerFits /\ HeardFits /\ PagesFit /\ AgesFit /\ MessageFits /\ NewsFits
  BY DEF Before
<1>1. TimerFits' /\ HeardFits'
  BY TickKeepsTime
<1>2. PagesFit' /\ AgesFit' /\ MessageFits' /\ NewsFits'
  <2>1. CASE calm' = 0
    BY <2>1, NothingSettled
  <2>2. CASE calm' # 0
    BY <2>2, TickKeepsBooth, TickKeepsNews
  <2>. QED
    BY <2>1, <2>2
<1>. QED
  BY <1>1, <1>2 DEF After

-----------------------------------------------------------------------------
(***************************************************************************)
(* The theorems.                                                           *)
(***************************************************************************)

\* A booth that never reported, or one whose evening is under way; its printer
\* is then one that may be ready.
LEMMA InitFits ==
  ASSUME Init
  PROVE  ReportsInv
<1>1. /\ 0 \in 0..CameraGrace /\ 0 \in 0..PrinterGrace /\ 0 \in 0..StaleAfter
      /\ 0 \in 0..MaxChanges /\ 0 \in 0..MaxTroubles /\ 0 \in 0..Enough /\ 0 \in 0..3
      /\ 0 \in 0..(Silent + 1) /\ 0 \in -1..(Silent + 1) /\ -1 \in -1..(Silent + 1)
  BY EnoughIsLong
<1>2. KioskInv
  <2>1. CASE KioskInit
    <3>1. camera = [on |-> FALSE, age |-> 0] /\ pages = <<>> /\ linked = FALSE /\ ipad = "away"
      BY <2>1 DEF KioskInit, NoCamera
    <3>2. IsOn(<<>>) = FALSE
      BY DEF IsOn
    <3>3. pages \in Seq(Pages) /\ Len(pages) <= MaxPages
      BY <3>1
    <3>4. camera \in CameraStates /\ camera.on = FALSE
      BY <1>1, <3>1 DEF CameraStates
    <3>. QED
      BY <3>1, <3>2, <3>3, <3>4 DEF KioskInv, KioskTypeOK, KioskFits, CameraStates
  <2>2. CASE KioskSettled
    <3>. DEFINE p == [load |-> "this", camera |-> "ready", age |-> 0]
    <3>1. p \in Pages /\ p.load = "this" /\ p.camera = "ready" /\ p.age = 0
      BY <1>1 DEF Pages
    <3>2. pages = <<p>> /\ linked = TRUE /\ ipad = "ready" /\ camera = [on |-> TRUE, age |-> 0]
      BY <2>2 DEF KioskSettled
    <3>. HIDE DEF p
    <3>3. /\ pages \in Seq(Pages) /\ Len(pages) = 1 /\ pages # <<>> /\ pages[1] = p
          /\ DOMAIN pages = {1}
      BY <3>1, <3>2
    <3>4. IsOn(pages) = TRUE
      <4>1. \A i \in DOMAIN pages : pages[i].age < StaleAfter /\ pages[i].camera # "failed"
        BY <3>1, <3>3
      <4>2. 1 \in {i \in DOMAIN pages : pages[i].age < StaleAfter}
        BY <3>3, <4>1
      <4>. QED
        BY <4>1, <4>2 DEF IsOn
    <3>5. camera \in CameraStates /\ camera.on = TRUE
      BY <1>1, <3>2 DEF CameraStates
    <3>. QED
      BY <3>1, <3>2, <3>3, <3>4, <3>5 DEF KioskInv, KioskTypeOK, KioskFits, CameraStates
  <2>. QED
    BY <2>1, <2>2 DEF Init
<1>3. HubTypeOK
  BY <1>1 DEF Init, HubInit, HubSettled, HubTypeOK
<1>4. BoothTypes
  <2>1. printer = [condition |-> "unknown", age |-> 0] \/ printer = [condition |-> "ready", age |-> 0]
    BY DEF Init, NoStatus
  <2>2. printer \in [condition : Conditions, age : 0..PrinterGrace]
    BY <1>1, <2>1
  <2>. QED
    BY <2>2 DEF Init, BoothTypes, Stocks
<1>5. ReporterTypes
  <2>1. timer \in -1..Interval
    BY DEF Init, Interval
  <2>2. sent \in Sends
    <3>1. \/ sent = [printer |-> "none", lottery |-> "none"]
          \/ sent = [printer |-> "ready", lottery |-> "prizes"]
      BY DEF Init, NothingSent
    <3>2. {"ready", "none"} \subseteq Conditions \cup {"none"}
      OBVIOUS
    <3>. QED
      BY <3>1, <3>2 DEF Sends, Stocks
  <2>. QED
    BY <2>1, <2>2, BlankIsHeartbeat DEF Init, ReporterTypes, Stages
<1>6. LateTypes /\ ObserverTypes
  BY <1>1, BlankIsHeartbeat DEF Init, NoLate, LateTypes, ObserverTypes, Interval
<1>7. Parts
  BY <1>2, <1>3, <1>4, <1>5, <1>6 DEF Parts
<1>8. ~Settled /\ calm = 0 /\ smooth = 0
  BY EnoughIsLong DEF Init, Settled
<1>9. PagesFit /\ MessageFits /\ NewsFits
  BY <1>8 DEF PagesFit, MessageFits, NewsFits
<1>10. AgesFit
  BY <1>7, <1>8, CountsAre DEF AgesFit
<1>11. TimerFits
  BY <1>8 DEF Init, TimerFits, Interval
<1>12. HeardFits
  <2>1. Heard(smooth, seen, Remaining)
    BY <1>7, <1>8, CountsAre, RemainingNow, HeardAtOnce
  <2>2. "silent" \notin open
    BY DEF Init, HubInit, HubSettled
  <2>. QED
    BY <2>1, <2>2 DEF HeardFits
<1>. QED
  BY <1>7, <1>9, <1>10, <1>11, <1>12 DEF ReportsInv

\* Every step keeps the invariant.
LEMMA InvStep ==
  ASSUME ReportsInv, [Next]_vars
  PROVE  ReportsInv'
<1>1. Parts /\ Before
  BY DEF ReportsInv, Before
<1>2. Parts'
  BY <1>1, PartsStep
<1>3. After'
  BY <1>1, <1>2, TroubleStep, ChangeStep, EngineStep, TimerFiresStep, ReadingStep,
     DeliveredStep, HubStep, TickStep DEF Next
<1>. QED
  BY <1>2, <1>3 DEF ReportsInv, After

\* The invariant holds in every behaviour.
THEOREM ReportsInvHolds == Spec => []ReportsInv
<1>1. Init => ReportsInv
  BY InitFits
<1>2. ReportsInv /\ [Next]_vars => ReportsInv'
  BY InvStep
<1>. QED
  BY <1>1, <1>2, PTL DEF Spec

\* Every variable keeps its type, whatever arrives late, however long it runs.
THEOREM ReportsTypes == Spec => []TypeOK
<1>1. ReportsInv => TypeOK
  BY TypesInParts DEF ReportsInv
<1>. QED
  BY <1>1, ReportsInvHolds, PTL

\* The engine never rests with nothing to send it on: there is a report under
\* way, or a timer that starts one, whatever failed before.
THEOREM ReporterGoesOn == Spec => [](engine => at # "idle" \/ timer >= 0)
<1>1. ReportsInv => (engine => at # "idle" \/ timer >= 0)
  <2>. SUFFICES ASSUME ReportsInv, engine, at = "idle" PROVE timer >= 0
    OBVIOUS
  <2>1. timer \in -1..1 /\ timer # -1
    BY RemainingNow DEF ReportsInv, TimerFits, Interval
  <2>. QED
    BY <2>1
<1>. QED
  BY <1>1, ReportsInvHolds, PTL

\* Reloads, reconnections and reports that were lost leave the engine's camera
\* the iPad's own, as soon as what they left listed has gone stale.
THEOREM CameraComesRight == Spec => [](calm >= StaleAfter => camera.on = (ipad = "ready"))
<1>1. ReportsInv => (calm >= StaleAfter => camera.on = (ipad = "ready"))
  <2>. SUFFICES ASSUME ReportsInv, calm >= StaleAfter PROVE camera.on = (ipad = "ready")
    OBVIOUS
  <2>1. KioskInv /\ PagesFit /\ calm \in Nat
    BY CountsAre, EnoughIsLong DEF ReportsInv, Parts
  <2>. QED
    BY <2>1, CameraIsRight
<1>. QED
  BY <1>1, ReportsInvHolds, PTL

\* In time is over when calm is Enough: what is left is a booth shown.
LEMMA InvShows ==
  ASSUME ReportsInv
  PROVE  AlertsAreRight
<1>. Parts /\ TimerFits /\ HeardFits /\ NewsFits
  BY DEF ReportsInv
<1>. SUFFICES ASSUME calm = Enough
              PROVE  BoothIsShown /\ "silent" \notin open
  BY DEF AlertsAreRight, BoothIsShown
<1>1. /\ calm = Settling + 3 /\ Settled /\ Settling \in Nat /\ smooth \in 0..3
      /\ seen \in -1..(Silent + 1) /\ Silent \in Nat /\ 2 <= Silent
  BY EnoughIsLong, CountsAre, TwoIntervals DEF Settled
<1>2. Remaining \in 0..2
  BY RemainingNow
<1>3. BoothIsShown
  <2>1. Left \in 0..2
    BY <1>2 DEF Left, Interval
  <2>2. ~InTime(calm, Left)
    BY <1>1, <2>1 DEF InTime, Interval
  <2>. QED
    BY <1>1, <2>2 DEF NewsFits
<1>4. smooth = 3 /\ engine
  <2>1. smooth >= calm \/ smooth = 3
    BY TwoIntervals DEF TimerFits
  <2>2. smooth = 3
    BY <1>1, <2>1
  <2>. QED
    BY <2>2 DEF TimerFits
<1>5. Heard(3, seen, Remaining)
  BY <1>4 DEF HeardFits
<1>6. seen \in 0..Silent
  BY <1>1, <1>2, <1>5 DEF Heard, Interval
<1>. QED
  BY <1>3, <1>6 DEF HeardFits

\* With the booth on and nothing new for as long as the graces take, the open
\* alerts are what is wrong at the booth, and it isn't called silent.
THEOREM AlertsComeRight == Spec => []AlertsAreRight
<1>1. ReportsInv => AlertsAreRight
  BY InvShows
<1>. QED
  BY <1>1, ReportsInvHolds, PTL

\* The step that opens a silence comes after trouble.
LEMMA SilenceIsEarned ==
  ASSUME ReportsInv, [Next]_vars, open' \ open = {"silent"}
  PROVE  smooth <= 2 * Interval
<1>. Parts /\ HubTypeOK /\ ReporterTypes /\ LateTypes /\ TimerFits /\ HeardFits
  BY DEF ReportsInv, Parts
<1>1. "silent" \in open' /\ "silent" \notin open
  OBVIOUS
<1>2. \A heartbeat \in Heartbeats : ~EvaluateHeartbeat(heartbeat)
  BY <1>1, HeartbeatIsHeard
<1>3. message \in Heartbeats /\ late.heartbeat \in Heartbeats
  BY DEF ReporterTypes, LateTypes
<1>4. SilenceCheck
  <2>1. open' # open
    BY <1>1
  <2>2. ~Delivered /\ ~AnswerLost
    BY <1>2, <1>3 DEF Delivered, AnswerLost
  <2>3. ~LateArrives
    BY <1>2, <1>3, <2>1 DEF LateArrives, hub
  <2>4. ~Tick /\ ~WindowMovesOn
    BY <2>1 DEF Tick, HubAges, WindowMovesOn, WindowMoves
  <2>. QED
    BY <2>1, <2>2, <2>3, <2>4
       DEF Next, TimerFires, TokenFails, ReadsBooth, ReadsLottery, LotteryUnread, RequestFails,
           LateLost, PrinterTurns, LotteryTurns, PageOpens, PageMoves, StreamEnds,
           EngineStarts, EngineStops, hub, vars
<1>5. Quiet
  BY <1>1, <1>4 DEF SilenceCheck, EvaluateSilence
<1>6. SUFFICES ASSUME ~ (smooth <= 2) PROVE FALSE
  BY TwoIntervals
<1>7. /\ smooth \in 0..3 /\ Remaining \in 0..2 /\ seen \in -1..(Silent + 1)
      /\ Silent \in Nat /\ 2 <= Silent
  BY CountsAre, RemainingNow, TwoIntervals
<1>8. smooth = 3
  BY <1>6, <1>7
<1>9. engine
  BY <1>8 DEF TimerFits
<1>10. Heard(3, seen, Remaining)
  BY <1>8, <1>9 DEF HeardFits
<1>11. seen \in 0..Silent
  BY <1>7, <1>10 DEF Heard, Interval
<1>. QED
  BY <1>5, <1>7, <1>11 DEF Quiet

\* No silence opens once reports have had an interval, and a slow request's,
\* to get through.
THEOREM SilencesAreReal == Spec => SilenceIsReal
<1>1. ReportsInv /\ [Next]_vars => [open' \ open = {"silent"} => smooth <= 2 * Interval]_vars
  BY SilenceIsEarned
<1>. QED
  BY <1>1, ReportsInvHolds, PTL DEF Spec, SilenceIsReal

=============================================================================
