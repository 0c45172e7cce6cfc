----------------------------- MODULE Experience -----------------------------
(***************************************************************************)
(* The Shutter's Experience page by itself: its reducer under timers, the  *)
(* answers the engine may give at any moment (late ones included), and the *)
(* operator's commands and maintenance switch, which wait for the guest.   *)
(* The effects of a render run before a tap or a message changes the page, *)
(* as React flushes them before it renders again.  Reloading and opening the  *)
(* Darkroom both leave the page; it comes back from scratch.               *)
(*                                                                         *)
(* Definitions whose comment starts with "Fault:" are not the code: each   *)
(* is the definition after it with a plausible bug.                        *)
(***************************************************************************)
EXTENDS ExperienceMachine

CONSTANTS
    Visits, Refs,
    MaxAttempts,   \* bound: print attempts of one page load
    WaitTicks      \* steps KIOSK_RELOAD_IDLE_TIMEOUT_MS is counted in

ASSUME AttemptsAssumption == MaxAttempts \in Nat \ {0} /\ WaitTicks \in Nat \ {0}

VARIABLES
    state,        \* the reducer's
    pending,      \* the reload or Darkroom command waiting, with how much of its 90 s is over
    maintenance,  \* the switch as the page last heard it, and how much of its 90 s is over
    shown,        \* the maintenance screen
    switch        \* maintenance on the engine, which restates it on every (re)connection

vars == <<state, pending, maintenance, shown, switch>>
commands == <<pending, maintenance, shown, switch>>

NoCommand == [mode |-> "none", waited |-> 0]
NotHeard == [known |-> FALSE, enabled |-> FALSE, waited |-> 0]

TypeOK ==
    /\ state \in ExperienceState(Visits, Refs)
    /\ pending \in [mode : {"none", "now", "when-idle"}, waited : 0..WaitTicks]
    /\ maintenance \in [known : BOOLEAN, enabled : BOOLEAN, waited : 0..WaitTicks]
    /\ shown \in BOOLEAN
    /\ switch \in BOOLEAN

Init ==
    /\ state = initialExperienceState
    /\ pending = NoCommand
    /\ maintenance = NotHeard
    /\ shown = FALSE
    /\ switch = FALSE

-----------------------------------------------------------------------------
(***************************************************************************)
(* Commands.                                                               *)
(***************************************************************************)

\* Fault: the start screen is not looked for, only the time.
DueOnTime(mode, waited) == mode = "now" \/ waited = WaitTicks

\* getKioskCommandTiming: "run".
Due(mode, waited) == mode = "now" \/ state.phase = "idle" \/ waited = WaitTicks

CommandDue == pending.mode # "none" /\ Due(pending.mode, pending.waited)

\* isMaintenanceShown, and whether the screen has yet to follow it.
MaintenanceScreen ==
    maintenance.enabled /\ (shown \/ Due("when-idle", maintenance.waited))
EffectsFlushed == ~CommandDue /\ MaintenanceScreen = shown

\* A newer command takes the place of one that waits, and waits from now.  It
\* comes down a connection that opened with the maintenance switch.
CommandArrives(mode) ==
    /\ EffectsFlushed /\ maintenance.known
    /\ pending' = [mode |-> mode, waited |-> 0]
    /\ UNCHANGED <<state, maintenance, shown, switch>>

SwitchMaintenance ==
    /\ switch' = ~switch
    /\ UNCHANGED <<state, pending, maintenance, shown>>

\* Fault: only the first message of a page load is taken.
HeardFirst ==
    IF maintenance.known THEN maintenance
    ELSE [known |-> TRUE, enabled |-> switch, waited |-> 0]

Heard ==
    IF maintenance.known /\ maintenance.enabled = switch THEN maintenance
    ELSE [known |-> TRUE, enabled |-> switch, waited |-> 0]

\* The engine states its switch: it changed, or the page (re)connected.
HearMaintenance ==
    /\ EffectsFlushed
    /\ maintenance' = Heard
    /\ UNCHANGED <<state, pending, shown, switch>>

\* Time goes by since it was asked for.
CommandWaited ==
    /\ pending.mode = "when-idle" /\ pending.waited < WaitTicks
    /\ pending' = [pending EXCEPT !.waited = @ + 1]
    /\ UNCHANGED <<state, maintenance, shown, switch>>
MaintenanceWaited ==
    /\ maintenance.enabled /\ maintenance.waited < WaitTicks
    /\ maintenance' = [maintenance EXCEPT !.waited = @ + 1]
    /\ UNCHANGED <<state, pending, shown, switch>>

\* The page reloads or leaves for the Darkroom, and starts from scratch.
RunCommand ==
    /\ CommandDue
    /\ state' = initialExperienceState
    /\ pending' = NoCommand
    /\ maintenance' = NotHeard
    /\ shown' = FALSE
    /\ UNCHANGED switch

ShowOrHide ==
    /\ MaintenanceScreen # shown
    /\ shown' = MaintenanceScreen
    /\ UNCHANGED <<state, pending, maintenance, switch>>

-----------------------------------------------------------------------------
(***************************************************************************)
(* The visit.                                                              *)
(***************************************************************************)

\* The button is disabled during maintenance (and without a camera).
Start ==
    /\ EffectsFlushed
    /\ state.phase = "idle" /\ ~shown
    /\ state.next <= MaxAttempts
    /\ \E hasLottery \in BOOLEAN : state' = StartRequested(state, hasLottery)
    /\ UNCHANGED commands

PhaseTimer ==
    /\ state.phase \in TimedPhases
    /\ state' = PhaseElapsed(state)
    /\ UNCHANGED commands

\* PRINT_ATTEMPT_TIMEOUT_MS in one of its phases.
AttemptTimesOut ==
    /\ state.phase \in AttemptBudgetPhases /\ state.attempt # 0
    /\ state' = PrintFailed(state, state.attempt)
    /\ UNCHANGED commands

\* The camera and the engine: whatever they say, of this attempt or an earlier
\* one, whenever they say it.
Answer ==
    /\ EffectsFlushed
    /\ \/ \E v \in Visits : state' = VisitStarted(state, v)
       \/ \E attempt \in 1..(state.next - 1) :
            \/ state' = PhotoCaptured(state, attempt)
            \/ \E ref \in Refs, lottery \in BOOLEAN, v \in Visits \cup {None} :
                state' = ReceiptPrepared(state, attempt, ref, lottery, v)
            \/ state' = PrintSucceeded(state, attempt)
            \/ state' = PrintFailed(state, attempt)
    /\ UNCHANGED commands

Next ==
    \/ Start \/ PhaseTimer \/ AttemptTimesOut \/ Answer
    \/ \E mode \in {"now", "when-idle"} : CommandArrives(mode)
    \/ SwitchMaintenance \/ HearMaintenance \/ CommandWaited \/ MaintenanceWaited
    \/ RunCommand \/ ShowOrHide

\* Timers fire, effects run, and the engine's switch reaches the page (the
\* channel sends it at once and again on every reconnection).
Fairness ==
    /\ WF_vars(PhaseTimer) /\ WF_vars(AttemptTimesOut)
    /\ WF_vars(CommandWaited) /\ WF_vars(MaintenanceWaited)
    /\ WF_vars(RunCommand) /\ WF_vars(ShowOrHide)
    /\ WF_vars(HearMaintenance)

Spec == Init /\ [][Next]_vars /\ Fairness

-----------------------------------------------------------------------------
(***************************************************************************)
(* What must hold.                                                         *)
(***************************************************************************)

\* A visit the kiosk leaves has an end to report: completed when the ticket
\* printed, failed otherwise, and one per visit.
EveryVisitEnds ==
    /\ state.phase \in {"cameraExiting", "receiptReady"} => state.end = "completed"
    /\ state.phase = "resetting" => state.end = "failed"
    /\ state.end # None => state.attempt = 0 /\ state.ref = None

\* Whatever the camera, the engine and the printer do or fail to do, the kiosk
\* comes back to its start screen.
BackToIdle == (state.phase # "idle") ~> (state.phase = "idle")

\* An operator's reload always happens, even if newer ones keep replacing it.
CommandsRun == (pending.mode # "none") ~> (pending.mode = "none")

\* Maintenance that stays on, once operators stop reloading the page, is shown
\* and stays shown, however often the channel reconnects and restates it.
MaintenanceShows == <>[](switch /\ pending.mode = "none") => <>[]shown

=============================================================================
