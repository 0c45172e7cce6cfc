-------------------------- MODULE ExperienceMachine --------------------------
(***************************************************************************)
(* The Shutter's guest flow: experienceReducer, one operator per action,   *)
(* each from the state before to the state after.  An action that does not *)
(* apply leaves the state as it is.  The photo and the draw result are     *)
(* left out: they come with the ticket number and are only shown.          *)
(*                                                                         *)
(* Definitions whose comment starts with "Fault:" are not the code: each   *)
(* is the definition after it with a plausible bug.                        *)
(***************************************************************************)
EXTENDS Integers, Nothing

CONSTANT
    CountdownStart   \* seconds counted down before the photo (COUNTDOWN_START)

ASSUME CountdownAssumption == CountdownStart \in Nat \ {0}

Phases == {"idle", "introExiting", "countdown", "smile", "capturing", "preparing",
           "spinning", "slotResult", "instructions", "printing", "cameraExiting",
           "receiptReady", "resetting", "resettingButtonRepositioning",
           "resettingButtonRevealing"}

ExperienceState(visits, refs) ==
    [phase : Phases, countdown : 0..CountdownStart, hasLottery : BOOLEAN,
     ref : refs \cup {None}, next : Nat \ {0}, attempt : Nat,
     visit : visits \cup {None}, end : {None, "completed", "failed"}]

\* countdown and attempt are 0 where the code has null.
initialExperienceState ==
    [phase |-> "idle", countdown |-> 0, hasLottery |-> FALSE, ref |-> None,
     next |-> 1, attempt |-> 0, visit |-> None, end |-> None]

BeginReset(s) ==
    [s EXCEPT !.phase = "resetting", !.countdown = 0, !.ref = None, !.attempt = 0]

PrintAttemptPhases ==
    {"capturing", "preparing", "spinning", "slotResult", "instructions", "printing"}

-----------------------------------------------------------------------------

StartRequested(s, hasLottery) ==
    IF s.phase # "idle" THEN s
    ELSE [s EXCEPT !.phase = "introExiting", !.countdown = 0, !.hasLottery = hasLottery,
                   !.ref = None, !.attempt = 0, !.visit = None, !.end = None]

VisitStarted(s, visit) ==
    IF s.phase = "idle" \/ s.visit # None THEN s ELSE [s EXCEPT !.visit = visit]

AutoResetElapsed(s) ==
    IF s.phase # "receiptReady" THEN s
    ELSE [BeginReset(s) EXCEPT !.phase = "resettingButtonRepositioning"]

StartButtonAnimationCompleted(s) ==
    CASE s.phase = "resettingButtonRepositioning" ->
            [s EXCEPT !.phase = "resettingButtonRevealing"]
      [] s.phase = "resettingButtonRevealing" -> [s EXCEPT !.phase = "idle"]
      [] OTHER -> s

CameraAnimationCompleted(s) ==
    CASE s.phase = "introExiting" ->
            [s EXCEPT !.phase = "countdown", !.countdown = CountdownStart]
      [] s.phase = "cameraExiting" -> [s EXCEPT !.phase = "receiptReady"]
      [] s.phase = "resetting" -> [s EXCEPT !.phase = "resettingButtonRepositioning"]
      [] OTHER -> s

\* Fault: the countdown runs past its last second.
CountdownOverrun(s) ==
    CASE s.phase # "countdown" -> s
      [] s.phase = "countdown" /\ s.countdown < 0 ->
            [s EXCEPT !.phase = "smile", !.countdown = 0]
      [] OTHER -> [s EXCEPT !.countdown = @ - 1]

CountdownTicked(s) ==
    CASE s.phase # "countdown" -> s
      [] s.phase = "countdown" /\ s.countdown <= 1 ->
            [s EXCEPT !.phase = "smile", !.countdown = 0]
      [] OTHER -> [s EXCEPT !.countdown = @ - 1]

SmileElapsed(s) ==
    IF s.phase # "smile" THEN s
    ELSE [s EXCEPT !.phase = "capturing", !.attempt = s.next, !.next = @ + 1]

-----------------------------------------------------------------------------
(***************************************************************************)
(* Results of a print attempt.  Each names its attempt: a late result of   *)
(* an earlier one must not move this guest's visit.                        *)
(***************************************************************************)

HasMatchingPrintAttempt(s, attempt) == s.attempt = attempt

PhotoCaptured(s, attempt) ==
    IF s.phase = "capturing" /\ HasMatchingPrintAttempt(s, attempt)
    THEN [s EXCEPT !.phase = "preparing"] ELSE s

\* Fault: the visit the kiosk has wins over the one the draw was linked to.
PreparedKeepingVisit(s, attempt, ref, hasLottery, visit) ==
    IF s.phase = "preparing" /\ HasMatchingPrintAttempt(s, attempt)
    THEN [s EXCEPT !.hasLottery = s.hasLottery \/ hasLottery,
                   !.phase = IF s.hasLottery \/ hasLottery THEN "spinning" ELSE "printing",
                   !.ref = ref,
                   !.visit = IF @ # None THEN @ ELSE visit]
    ELSE s

\* Without a lottery there is nothing to reveal.
ReceiptPrepared(s, attempt, ref, hasLottery, visit) ==
    IF s.phase = "preparing" /\ HasMatchingPrintAttempt(s, attempt)
    THEN [s EXCEPT !.hasLottery = s.hasLottery \/ hasLottery,
                   !.phase = IF s.hasLottery \/ hasLottery THEN "spinning" ELSE "printing",
                   !.ref = ref,
                   !.visit = IF visit # None THEN visit ELSE @]
    ELSE s

ReelsStopped(s) == IF s.phase = "spinning" THEN [s EXCEPT !.phase = "slotResult"] ELSE s
SlotResultElapsed(s) ==
    IF s.phase = "slotResult" THEN [s EXCEPT !.phase = "instructions"] ELSE s
InstructionsElapsed(s) ==
    IF s.phase = "instructions" THEN [s EXCEPT !.phase = "printing"] ELSE s

PrintSucceeded(s, attempt) ==
    IF s.phase = "printing" /\ HasMatchingPrintAttempt(s, attempt)
    THEN [s EXCEPT !.phase = "cameraExiting", !.countdown = 0, !.ref = None,
                   !.attempt = 0, !.end = "completed"]
    ELSE s

\* Fault: the visit's end is not kept for the engine.
PrintFailedUnreported(s, attempt) ==
    IF s.phase \in PrintAttemptPhases /\ HasMatchingPrintAttempt(s, attempt)
    THEN BeginReset(s) ELSE s

PrintFailed(s, attempt) ==
    IF s.phase \in PrintAttemptPhases /\ HasMatchingPrintAttempt(s, attempt)
    THEN [BeginReset(s) EXCEPT !.end = "failed"] ELSE s

-----------------------------------------------------------------------------
(***************************************************************************)
(* Timers.  Every phase with a fixed length has one, and every animated    *)
(* transition a fallback for a missed animation event, so what a phase     *)
(* does on its own is one operator: the event and its fallback dispatch    *)
(* the same action.                                                        *)
(***************************************************************************)

TimedPhases == Phases \ {"idle", "capturing", "preparing", "printing"}

PhaseElapsed(s) ==
    CASE s.phase \in {"introExiting", "cameraExiting", "resetting"} -> CameraAnimationCompleted(s)
      [] s.phase \in {"resettingButtonRepositioning", "resettingButtonRevealing"} ->
            StartButtonAnimationCompleted(s)
      [] s.phase = "countdown" -> CountdownTicked(s)
      [] s.phase = "smile" -> SmileElapsed(s)
      [] s.phase = "spinning" -> ReelsStopped(s)
      [] s.phase = "slotResult" -> SlotResultElapsed(s)
      [] s.phase = "instructions" -> InstructionsElapsed(s)
      [] s.phase = "receiptReady" -> AutoResetElapsed(s)
      [] OTHER -> s

\* Fault: no budget for the printing half.
PrepareBudgetPhases == {"capturing", "preparing"}

\* Phases that share the print attempt's 45 s budget, each with its own.
AttemptBudgetPhases == {"capturing", "preparing", "printing"}

=============================================================================
