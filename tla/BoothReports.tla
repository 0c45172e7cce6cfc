----------------------------- MODULE BoothReports -----------------------------
(***************************************************************************)
(* From the booth to the people on call: the engine's reporter, which sends*)
(* a heartbeat every interval and on news, over a network that loses and   *)
(* delays requests and answers, to the Hub's alerts.  The camera's news    *)
(* come from the kiosk pages.                                              *)
(*                                                                         *)
(* A tick is the reporter's interval.  A report ends in the tick it began, *)
(* or in the next when its request is slow: its requests are aborted after *)
(* 15 s.  The booth's clock only goes forward.                             *)
(*                                                                         *)
(* Definitions whose comment starts with "Fault:" are not the code: each   *)
(* is the definition after it with a plausible bug.                        *)
(***************************************************************************)
EXTENDS KioskPages, HubAlerts

CONSTANTS
    Conditions,     \* what the printer may be in
    PrinterGrace,   \* the Hub's minute for the printer, in ticks
    MaxChanges,     \* bound: what happens at the booth and in the Hub's windows
    MaxTroubles     \* bound: what the network and the power do

Interval == 1

\* The Hub's three minutes are more than two of the reporter's half minutes,
\* and the printer's minute is over before a page's minute and a half, and the
\* camera's two minutes, are.
ASSUME ReportsAssumption ==
    /\ 2 * Interval <= Silent
    /\ PrinterGrace \in Nat /\ PrinterGrace <= StaleAfter + CameraGrace
    /\ {"ready", "unknown"} \subseteq Conditions
    /\ Conditions \subseteq {"ready", "paper-out", "cover-open", "unknown"}
    /\ MaxChanges \in Nat /\ MaxTroubles \in Nat

VARIABLES
    engine,     \* its process runs
    printer,    \* getStatus: the condition, and the ticks since changedAt
    lottery,    \* the active event's: "prizes", or live and "empty"
    at,         \* the report under way: what it waits for, "idle" without one
    message,    \* its heartbeat
    sendAgain,
    sent,       \* lastSentPrinter and lastSentLottery, "none" before the first
    timer,      \* ticks left, -1 while its own report is under way
    late,       \* a heartbeat the booth gave up on that the Hub may still get
    changes, troubles,      \* observers: how many so far
    calm,       \* observer: ticks since anything changed or went wrong
    smooth      \* observer: ticks since anything went wrong, or the engine began

booth == <<engine, printer, lottery>>
reporter == <<at, message, sendAgain, sent, timer>>
observers == <<changes, troubles, calm, smooth>>
vars == <<kiosk, hub, booth, reporter, late, observers>>

Stocks == {"prizes", "empty"}

Blank == [printer |-> "unknown", printerPast |-> FALSE,
          camera |-> FALSE, cameraPast |-> FALSE, lottery |-> "unread"]
NoLate == [state |-> "none", heartbeat |-> Blank]

\* The news the Hub has by then: a page is taken as gone, its grace passes,
\* and a report goes out, perhaps a slow one.
Enough == StaleAfter + CameraGrace + 3 * Interval

TypeOK ==
    /\ KioskTypeOK /\ HubTypeOK
    /\ engine \in BOOLEAN /\ lottery \in Stocks
    /\ printer \in [condition : Conditions, age : 0..PrinterGrace]
    /\ at \in {"idle", "token", "lottery", "answer", "slow"}
    /\ message \in Heartbeats /\ sendAgain \in BOOLEAN
    /\ sent \in [printer : Conditions \cup {"none"}, lottery : Stocks \cup {"unread", "none"}]
    /\ timer \in -1..Interval
    /\ late \in [state : {"none", "newest", "older"}, heartbeat : Heartbeats]
    /\ changes \in 0..MaxChanges /\ troubles \in 0..MaxTroubles
    /\ calm \in 0..Enough /\ smooth \in 0..(2 * Interval + 1)

NoStatus == [condition |-> "unknown", age |-> 0]
NothingSent == [printer |-> "none", lottery |-> "none"]

\* A booth that never reported, and one whose evening is under way.
Init ==
    /\ lottery = "prizes" /\ at = "idle" /\ message = Blank /\ sendAgain = FALSE
    /\ late = NoLate /\ changes = 0 /\ troubles = 0 /\ calm = 0 /\ smooth = 0
    /\ \/ /\ KioskInit /\ HubInit
          /\ engine = FALSE /\ printer = NoStatus /\ sent = NothingSent /\ timer = -1
       \/ /\ KioskSettled /\ HubSettled
          /\ engine = TRUE /\ printer = [condition |-> "ready", age |-> 0]
          /\ sent = [printer |-> "ready", lottery |-> "prizes"] /\ timer = Interval

-----------------------------------------------------------------------------
(***************************************************************************)
(* What the observers count.                                               *)
(***************************************************************************)

Changed ==
    /\ changes < MaxChanges /\ changes' = changes + 1
    /\ calm' = 0 /\ UNCHANGED <<troubles, smooth>>

Troubled ==
    /\ troubles < MaxTroubles /\ troubles' = troubles + 1
    /\ calm' = 0 /\ smooth' = 0 /\ UNCHANGED changes

-----------------------------------------------------------------------------
(***************************************************************************)
(* The reporter.                                                           *)
(***************************************************************************)

\* report(), where there is something to say: one at a time.
ReportsIf(news) ==
    /\ at' = IF news /\ at = "idle" THEN "token" ELSE at
    /\ sendAgain' = (sendAgain \/ (news /\ at # "idle"))

\* Fault: a failed report doesn't schedule the next one.
RearmedAfter(failed) == IF timer = -1 /\ ~failed THEN Interval ELSE timer

\* `.finally(schedule)', whether it failed or not.
ArmedAfter(failed) == IF timer = -1 THEN Interval ELSE timer

\* report's own finally: a change during it sends another.
Ends(failed) ==
    /\ at' = IF sendAgain THEN "token" ELSE "idle"
    /\ sendAgain' = FALSE
    /\ message' = Blank
    /\ timer' = ArmedAfter(failed)

Fails == Troubled /\ Ends(TRUE) /\ UNCHANGED sent

\* schedule's timer.
TimerFires ==
    /\ engine /\ timer = 0 /\ timer' = -1
    /\ ReportsIf(TRUE)
    /\ UNCHANGED <<kiosk, hub, booth, message, sent, late, observers>>

\* The session can't be renewed.
TokenFails ==
    /\ at = "token" /\ Fails
    /\ UNCHANGED <<kiosk, hub, booth, late>>

\* The printer and the camera are read; the lottery after an await.
ReadsBooth ==
    /\ at = "token" /\ at' = "lottery"
    /\ message' = [Blank EXCEPT
          !.printer = printer.condition,
          !.printerPast = printer.condition # "unknown" /\ printer.age >= PrinterGrace,
          !.camera = camera.on, !.cameraPast = camera.age >= CameraGrace]
    /\ UNCHANGED <<kiosk, hub, booth, sendAgain, sent, timer, late, observers>>

ReadsLottery ==
    /\ at = "lottery" /\ at' = "answer"
    /\ message' = [message EXCEPT !.lottery = lottery]
    /\ UNCHANGED <<kiosk, hub, booth, sendAgain, sent, timer, late, observers>>

\* The heartbeat goes without it.
LotteryUnread ==
    /\ at = "lottery" /\ at' = "answer" /\ Troubled
    /\ UNCHANGED <<kiosk, hub, booth, message, sendAgain, sent, timer, late>>

\* Lost, or the booth stops waiting for one that is still on its way.
RequestFails(delayed) ==
    /\ at \in {"answer", "slow"} /\ Fails
    /\ delayed => late = NoLate
    /\ late' = IF delayed THEN [state |-> "newest", heartbeat |-> message] ELSE late
    /\ UNCHANGED <<kiosk, hub, booth>>

\* The Hub has a newer one than the late one now.
Overtakes == late' = IF late.state = "newest" THEN [late EXCEPT !.state = "older"] ELSE late

Delivered ==
    /\ at \in {"answer", "slow"}
    /\ EvaluateHeartbeat(message) /\ Overtakes
    /\ sent' = [printer |-> message.printer, lottery |-> message.lottery]
    /\ Ends(FALSE)
    /\ UNCHANGED <<kiosk, booth, observers>>

\* The Hub has it, and the booth doesn't know.
AnswerLost ==
    /\ at \in {"answer", "slow"}
    /\ EvaluateHeartbeat(message) /\ Overtakes
    /\ Fails
    /\ UNCHANGED <<kiosk, booth>>

-----------------------------------------------------------------------------
(***************************************************************************)
(* The Hub.                                                                *)
(***************************************************************************)

\* Fault: the status is overwritten whichever is newer.
Stores(heartbeat) == TRUE

\* booth_status keeps the newest sentAt.
IsNewest(heartbeat) == heartbeat.state = "newest"

LateArrives ==
    /\ late.state # "none" /\ late' = NoLate
    /\ IF IsNewest(late) THEN EvaluateHeartbeat(late.heartbeat) ELSE UNCHANGED hub
    /\ calm' = IF late.state = "newest" THEN 0 ELSE calm
    /\ UNCHANGED <<kiosk, booth, reporter, changes, troubles, smooth>>

LateLost ==
    /\ late.state # "none" /\ late' = NoLate
    /\ UNCHANGED <<kiosk, hub, booth, reporter, observers>>

SilenceCheck ==
    /\ EvaluateSilence
    /\ UNCHANGED <<kiosk, booth, reporter, late, observers>>

WindowMovesOn ==
    /\ WindowMoves /\ Changed
    /\ UNCHANGED <<kiosk, booth, reporter, late>>

-----------------------------------------------------------------------------
(***************************************************************************)
(* The booth.                                                              *)
(***************************************************************************)

\* The subscription compares with what was sent last, not what is on its way.
PrinterTurns(condition) ==
    /\ engine /\ printer.condition # condition /\ Changed
    /\ printer' = [condition |-> condition, age |-> 0]
    /\ ReportsIf(sent.printer # condition)
    /\ UNCHANGED <<kiosk, hub, engine, lottery, message, sent, timer, late>>

\* lotteryChanged reports at a flip; an event that starts or ends tells no one.
LotteryTurns(told) ==
    /\ engine /\ Changed
    /\ \E stock \in Stocks \ {lottery} :
          /\ lottery' = stock
          /\ ReportsIf(told /\ (sent.lottery \in {"none", "unread"}
                                  \/ (stock = "empty") # (sent.lottery = "empty")))
    /\ UNCHANGED <<kiosk, hub, engine, printer, message, sent, timer, late>>

\* By itself, after its stream dropped, or as it is back.
PageOpens ==
    /\ engine /\ Changed
    /\ \/ ipad # "away" /\ PageConnects(ipad, FALSE)
       \/ \E news \in {"ready", "failed"} : PageConnects(news, TRUE)
    /\ ReportsIf(Flips)
    /\ UNCHANGED <<hub, booth, message, sent, timer, late>>

PageMoves ==
    /\ engine /\ Changed
    /\ \/ \E news \in {"ready", "failed"}, told \in BOOLEAN : CameraTurns(news, told)
       \/ \E now \in {ipad, "away"} : PageDrops(now)
    /\ ReportsIf(Flips)
    /\ UNCHANGED <<hub, booth, message, sent, timer, late>>

\* In the engine's own time.
StreamEnds ==
    /\ PageLeaves /\ calm' = 0
    /\ ReportsIf(Flips)
    /\ UNCHANGED <<hub, booth, message, sent, timer, late, changes, troubles, smooth>>

\* start: a report at once, and the interval's timer.
EngineStarts ==
    /\ ~engine /\ engine' = TRUE
    /\ at' = "token" /\ timer' = Interval
    /\ calm' = 0
    /\ UNCHANGED <<kiosk, hub, printer, lottery, message, sendAgain, sent, late,
                   changes, troubles, smooth>>

\* A crash or a power cut, at any point of a report.
EngineStops ==
    /\ engine /\ engine' = FALSE /\ Troubled
    /\ KioskStops /\ printer' = NoStatus
    /\ at' = "idle" /\ message' = Blank /\ sendAgain' = FALSE
    /\ sent' = NothingSent /\ timer' = -1
    /\ UNCHANGED <<hub, lottery, late>>

\* Time passes once nothing is due: the timer first, and one tick for a
\* request.
Tick ==
    /\ timer # 0 /\ at \in {"idle", "answer"}
    /\ timer' = IF timer > 0 THEN timer - 1 ELSE timer
    /\ KioskAges /\ HubAges
    /\ IF at = "answer"
       THEN at' = "slow" /\ sendAgain' = (sendAgain \/ Flips)
       ELSE ReportsIf(Flips)
    /\ printer' = [printer EXCEPT !.age = IF @ < PrinterGrace THEN @ + 1 ELSE @]
    /\ calm' = IF ~engine \/ (ipad # "away" /\ ~linked) THEN 0
               ELSE IF calm < Enough THEN calm + 1 ELSE calm
    /\ smooth' = IF ~engine THEN 0 ELSE IF smooth <= 2 * Interval THEN smooth + 1 ELSE smooth
    /\ UNCHANGED <<engine, lottery, message, sent, late, changes, troubles>>

-----------------------------------------------------------------------------
Next ==
    \/ TimerFires \/ TokenFails \/ ReadsBooth \/ ReadsLottery \/ LotteryUnread
    \/ \E delayed \in BOOLEAN : RequestFails(delayed)
    \/ Delivered \/ AnswerLost
    \/ LateArrives \/ LateLost \/ SilenceCheck \/ WindowMovesOn
    \/ \E condition \in Conditions : PrinterTurns(condition)
    \/ \E told \in BOOLEAN : LotteryTurns(told)
    \/ PageOpens \/ PageMoves \/ StreamEnds \/ EngineStarts \/ EngineStops
    \/ Tick

\* Time goes on, and the Hub's minute comes.
Spec == Init /\ [][Next]_vars /\ WF_vars(Tick) /\ WF_vars(SilenceCheck)

-----------------------------------------------------------------------------
(***************************************************************************)
(* Properties.                                                             *)
(***************************************************************************)

\* With the booth on and nothing new for as long as the graces take, the open
\* alerts are what is wrong at the booth: the iPad and its camera themselves,
\* not what the engine has listed of them.
AlertsAreRight ==
    calm = Enough =>
        /\ printer.condition # "unknown" =>
              open \cap {"paper-out", "cover-open"} = {printer.condition} \ {"ready"}
        /\ "out-of-stock" \in open <=> lottery = "empty"
        /\ "camera-off" \in open <=> live /\ ipad # "ready"
        /\ "silent" \notin open

\* A silence is a booth that was off or out of reach: none opens once reports
\* have had an interval, and a slow request's, to get through.
SilenceIsReal ==
    [][open' \ open = {"silent"} => smooth <= 2 * Interval]_vars

\* A booth that stays off in its window is called silent, one that never
\* reported as well.
SilenceShows == [](live /\ ~engine => <>("silent" \in open \/ engine \/ ~live))

=============================================================================
