------------------------- MODULE PrinterMaintenance -------------------------
(***************************************************************************)
(* From the printer's status to what guests see: the policy that turns the *)
(* status into a maintenance reason after a while, the maintenance switch  *)
(* (staff's, kept in SQLite, and the printer's, kept in memory), and the   *)
(* channel that tells a kiosk page, over a connection that comes and goes  *)
(* with the page and with the engine.                                      *)
(*                                                                         *)
(* Time is counted in ticks, and a timer that is due fires before the next *)
(* one: a tick is longer than the event loop ever lags.  A status change   *)
(* may still come first.                                                   *)
(*                                                                         *)
(* Definitions whose comment starts with "Fault:" are not the code: each   *)
(* is the definition after it with a plausible bug.                        *)
(***************************************************************************)
EXTENDS Integers, Sequences

CONSTANTS
    EnterTicks,        \* enterMs
    DisconnectTicks,   \* disconnectMs
    LeaveTicks,        \* leaveMs
    MaxInbox           \* bound: commands on the way to the page

ASSUME DelaysAssumption ==
    /\ EnterTicks \in Nat \ {0} /\ DisconnectTicks \in Nat /\ LeaveTicks \in Nat \ {0}
    /\ EnterTicks <= DisconnectTicks
    /\ MaxInbox \in Nat \ {0, 1}

VARIABLES
    status,      \* the printer's, as it last emitted it
    watching,    \* the engine started the printer and the policy (it serves pages before)
    heard,       \* the printer has reported since the engine's start
    fault,       \* the policy's, and so the maintenance switch's printerFault
    since,       \* ticks since unprintableSince, -1 when undefined
    timer,       \* what the pending timer sets fault to, and when
    manual,      \* staff's switch
    automatic,   \* whether a printer fault counts
    page,        \* the kiosk page: its connection, and what it last heard
    inbox,       \* commands on the way to it: the "enabled" of each
    badFor,      \* observer: ticks the printer has not been able to print
    goodFor      \* observer: ticks it has

Printer == INSTANCE PrinterStatus

policy == <<heard, fault, since, timer>>
switch == <<manual, automatic>>
channel == <<page, inbox>>
observers == <<badFor, goodFor>>
vars == <<status, watching, policy, switch, channel, observers>>

\* One more tick than any delay: the observers count no further.
Long == DisconnectTicks + LeaveTicks + 1
NoTimer == [to |-> FALSE, left |-> -1]

TypeOK ==
    /\ status \in Printer!Conditions
    /\ watching \in BOOLEAN /\ heard \in BOOLEAN /\ fault \in BOOLEAN
    /\ manual \in BOOLEAN /\ automatic \in BOOLEAN
    /\ since \in -1..Long
    /\ timer \in [to : BOOLEAN, left : -1..DisconnectTicks + LeaveTicks]
    /\ page \in [connected : BOOLEAN, maintenance : BOOLEAN]
    /\ inbox \in Seq(BOOLEAN) /\ Len(inbox) <= MaxInbox
    /\ badFor \in 0..Long /\ goodFor \in 0..Long

\* get().enabled
EnabledWith(m, a, f) == m \/ (a /\ f)
Enabled == EnabledWith(manual, automatic, fault)

\* A fresh engine process: its memory is empty, staff's switch is read back.
Boots ==
    /\ status' = "unknown" /\ watching' = FALSE
    /\ heard' = FALSE /\ fault' = FALSE /\ since' = -1 /\ timer' = NoTimer
    /\ automatic' = TRUE
    /\ badFor' = 0 /\ goodFor' = 0

Init ==
    /\ status = "unknown" /\ watching = FALSE
    /\ heard = FALSE /\ fault = FALSE /\ since = -1 /\ timer = NoTimer
    /\ manual \in BOOLEAN /\ automatic = TRUE
    /\ page = [connected |-> FALSE, maintenance |-> FALSE] /\ inbox = <<>>
    /\ badFor = 0 /\ goodFor = 0

-----------------------------------------------------------------------------
(***************************************************************************)
(* The channel: a command reaches the page if it is connected when it is   *)
(* sent; a connection opens with the switch as it stands.                  *)
(***************************************************************************)

\* Staff's switches leave a place on the way to the page for the policy's.
Room == Len(inbox) < MaxInbox
RoomForStaff == Len(inbox) < MaxInbox - 1

Broadcast(enabled) ==
    inbox' = IF page.connected THEN Append(inbox, enabled) ELSE inbox

\* Fault: the pages hear the printer's reason by itself.
TellFault(m, a, f) ==
    IF (a /\ f) # (automatic /\ fault) THEN Broadcast(a /\ f) ELSE UNCHANGED inbox

\* change(): an in-memory switch moved; the pages hear of it if that opens or
\* closes the booth.
TellFlip(m, a, f) ==
    LET enabled == EnabledWith(m, a, f) IN
    IF enabled # Enabled THEN Broadcast(enabled) ELSE UNCHANGED inbox

\* Fault: the state is read before the connection is listed, across an await.
OpenedLate == <<>>

\* The switch is read and the page listed in one step.
OpenedWith == <<Enabled>>

PageConnects ==
    /\ ~page.connected
    /\ page' = [page EXCEPT !.connected = TRUE]
    /\ inbox' = OpenedWith
    /\ UNCHANGED <<status, watching, policy, switch, observers>>

PageHears ==
    /\ page.connected /\ inbox # <<>>
    /\ page' = [page EXCEPT !.maintenance = Head(inbox)]
    /\ inbox' = Tail(inbox)
    /\ UNCHANGED <<status, watching, policy, switch, observers>>

\* What was on the way is lost.
PageLeaves ==
    /\ page.connected
    /\ page' = [page EXCEPT !.connected = FALSE]
    /\ inbox' = <<>>
    /\ UNCHANGED <<status, watching, policy, switch, observers>>

-----------------------------------------------------------------------------
(***************************************************************************)
(* The policy.                                                             *)
(***************************************************************************)

KeepFault == fault' = fault /\ UNCHANGED inbox

setFault(active) ==
    /\ timer' = NoTimer
    /\ fault' = active
    /\ TellFlip(manual, automatic, active)

\* Fault: any change of status starts the outage anew.
SinceRestarted == 0

SinceKept == IF since = -1 THEN 0 ELSE since

\* Fault: the timer runs on.
TimerLeftOn == timer

TimerCleared == NoTimer

\* A status that can print: the leave timer is started once.
EvaluatePrintable ==
    /\ since' = -1
    /\ timer' = CASE ~fault -> TimerCleared
                  [] fault /\ timer = NoTimer -> [to |-> FALSE, left |-> LeaveTicks]
                  [] OTHER -> timer
    /\ KeepFault

Delay(s) == IF Printer!Reported(s) THEN EnterTicks ELSE DisconnectTicks

\* Fault: an outage that has lasted already waits for a timer too.
CountsAtFirstWord(s) == ~heard /\ Printer!Reported(s)

\* The first word after a start counts at once, any other when the outage has
\* lasted.
Counts(s) == (~heard /\ Printer!Reported(s)) \/ SinceKept >= Delay(s)

\* A status that cannot print.
EvaluateUnprintable(s) ==
    /\ since' = SinceKept
    /\ CASE fault -> timer' = TimerCleared /\ KeepFault
         [] ~fault /\ Counts(s) -> setFault(TRUE)
         [] OTHER -> timer' = [to |-> TRUE, left |-> Delay(s) - SinceKept] /\ KeepFault

evaluate(s) ==
    /\ heard' = (heard \/ Printer!Reported(s))
    /\ IF Printer!CanPrint(s) THEN EvaluatePrintable ELSE EvaluateUnprintable(s)
    /\ IF Printer!CanPrint(s) # Printer!CanPrint(status) THEN badFor' = 0 /\ goodFor' = 0
                                                      ELSE UNCHANGED observers

\* Serving pages for a while, the engine starts the printer and the policy.
StartWatching ==
    /\ ~watching /\ Room
    /\ watching' = TRUE
    /\ evaluate(status)
    /\ UNCHANGED <<status, switch, page>>

\* The printer emits its status: another one, or the same with another
\* condition of the same effect (paper-out after cover-open, Feed held).
StatusEmitted ==
    /\ watching /\ Room
    /\ Printer!Next
    /\ evaluate(status')
    /\ UNCHANGED <<watching, switch, page>>

TimerFires ==
    /\ timer.left = 0 /\ Room
    /\ setFault(timer.to)
    /\ UNCHANGED <<status, watching, heard, since, switch, page, observers>>

Tick ==
    /\ watching /\ timer.left # 0
    /\ timer' = [timer EXCEPT !.left = IF @ > 0 THEN @ - 1 ELSE @]
    /\ since' = IF since \in 0..(Long - 1) THEN since + 1 ELSE since
    /\ badFor' = IF ~Printer!CanPrint(status) /\ badFor < Long THEN badFor + 1 ELSE badFor
    /\ goodFor' = IF Printer!CanPrint(status) /\ goodFor < Long THEN goodFor + 1 ELSE goodFor
    /\ UNCHANGED <<status, watching, heard, fault, switch, channel>>

-----------------------------------------------------------------------------
(***************************************************************************)
(* Staff, and restarts.                                                    *)
(***************************************************************************)

\* Always sent, whether or not it opens or closes the booth.
setManual(enabled) ==
    /\ RoomForStaff
    /\ manual' = enabled
    /\ Broadcast(EnabledWith(enabled, automatic, fault))
    /\ UNCHANGED <<status, watching, policy, automatic, page, observers>>

setAutomatic(next) ==
    /\ RoomForStaff
    /\ automatic' = next
    /\ TellFlip(manual, next, fault)
    /\ UNCHANGED <<status, watching, policy, manual, page, observers>>

\* The engine goes, and its connections with it.
Restart ==
    /\ Boots
    /\ page' = [page EXCEPT !.connected = FALSE]
    /\ inbox' = <<>>
    /\ UNCHANGED manual

Next ==
    \/ PageConnects \/ PageHears \/ PageLeaves
    \/ StartWatching \/ StatusEmitted \/ TimerFires \/ Tick
    \/ \E b \in BOOLEAN : setManual(b) \/ setAutomatic(b)
    \/ Restart

\* Time passes, timers fire, the page reconnects and its stream is delivered.
Fairness ==
    /\ WF_vars(Tick) /\ WF_vars(TimerFires) /\ WF_vars(StartWatching)
    /\ WF_vars(PageConnects) /\ WF_vars(PageHears)

Spec == Init /\ [][Next]_vars /\ Fairness

-----------------------------------------------------------------------------
(***************************************************************************)
(* What must hold.                                                         *)
(***************************************************************************)

\* The printer closes the booth for its first word after a start, or after an
\* outage as long as its kind asks for without a break: a cover opened and
\* shut, or a quick replug, does not.
FaultIsEarned ==
    [][~fault /\ fault' =>
        \/ ~heard /\ heard'
        \/ badFor >= Delay(status')]_vars

\* It opens again only after it could print for the whole delay.
LeaveIsEarned == [][fault /\ ~fault' /\ heard' => goodFor >= LeaveTicks]_vars

\* However the status flaps between kinds of outage, none lasts longer than
\* the longest delay without closing the booth, and none outlives its repair
\* by more than the leave delay.
OutageShows ==
    /\ badFor > DisconnectTicks => fault
    /\ badFor > EnterTicks /\ status = "fault" => fault
    /\ goodFor > LeaveTicks => ~fault

\* What a connected page heard last, or is about to hear last, is whether the
\* booth is in maintenance: no switch by staff, printer or restart is missed,
\* and one reason ending never opens a booth another one closed.
PageKnows ==
    page.connected => IF inbox = <<>> THEN page.maintenance = Enabled
                      ELSE inbox[Len(inbox)] = Enabled

\* A printer that stays broken ends with the page closed, and one that stays
\* ready with staff's switch off ends with the page open.
PageSettles ==
    /\ <>[](watching /\ ~Printer!CanPrint(status) /\ automatic /\ page.connected)
        => <>[]page.maintenance
    /\ <>[](watching /\ Printer!CanPrint(status) /\ ~manual /\ page.connected)
        => <>[]~page.maintenance

\* What the printer watch's acceptance criteria say of a restart with the cover
\* open, that the booth comes back up already in printer maintenance: when the
\* printer's first word says it cannot print, no page shows the booth open.
ComesBackClosed ==
    [][~heard /\ heard' /\ status' = "fault" /\ automatic
        => ~(page.connected /\ inbox = <<>> /\ ~page.maintenance)]_vars

=============================================================================
