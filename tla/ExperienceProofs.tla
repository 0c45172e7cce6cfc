--------------------------- MODULE ExperienceProofs ---------------------------
(***************************************************************************)
(* The Experience page by itself, whatever the camera and the engine       *)
(* answer and whenever, for any visits and tickets, any countdown and any  *)
(* number of attempts: in which phases a visit has an end to report, and   *)
(* in which an attempt or a ticket.                                        *)
(***************************************************************************)
EXTENDS Experience, TLAPS

USE CountdownAssumption, AttemptsAssumption

States == ExperienceState(Visits, Refs)

\* A visit under way has no end yet, the guest who leaves has one; a ticket and
\* an attempt are of the attempt's phases only.
EndFits(s) ==
    /\ s.phase \in {"introExiting", "countdown", "smile"} \cup PrintAttemptPhases => s.end = None
    /\ s.phase \notin PrintAttemptPhases => s.attempt = 0 /\ s.ref = None
    /\ s.phase \in {"cameraExiting", "receiptReady"} => s.end = "completed"
    /\ s.phase = "resetting" => s.end = "failed"

Fits(s) == s \in States /\ EndFits(s)

ExperienceInv == TypeOK /\ EndFits(state)

-----------------------------------------------------------------------------
(***************************************************************************)
(* Each action of the reducer leads from a state that fits to one.         *)
(***************************************************************************)

LEMMA InitialFits == Fits(initialExperienceState)
<1>1. /\ "idle" \in Phases /\ 0 \in 0..CountdownStart /\ 1 \in Nat \ {0}
      /\ "idle" \notin PrintAttemptPhases
  BY DEF Phases, PrintAttemptPhases
<1>. QED
  BY <1>1 DEF Fits, EndFits, States, ExperienceState, initialExperienceState

LEMMA StartFits ==
  ASSUME NEW s, Fits(s), NEW lottery \in BOOLEAN
  PROVE  Fits(StartRequested(s, lottery))
<1>1. CASE s.phase = "idle"
  <2>. DEFINE t == [s EXCEPT !.phase = "introExiting", !.countdown = 0, !.hasLottery = lottery,
                             !.ref = None, !.attempt = 0, !.visit = None, !.end = None]
  <2>1. "introExiting" \in Phases /\ 0 \in 0..CountdownStart /\ "introExiting" \notin PrintAttemptPhases
    BY DEF Phases, PrintAttemptPhases
  <2>2. /\ t \in States /\ t.phase = "introExiting"
        /\ t.ref = None /\ t.attempt = 0 /\ t.end = None
    BY <2>1 DEF Fits, States, ExperienceState
  <2>. HIDE DEF t
  <2>3. Fits(t)
    BY <2>1, <2>2 DEF Fits, EndFits
  <2>. QED
    BY <1>1, <2>3 DEF StartRequested, t
<1>. QED
  BY <1>1 DEF StartRequested

LEMMA VisitFits ==
  ASSUME NEW s, Fits(s), NEW v \in Visits
  PROVE  Fits(VisitStarted(s, v))
<1>. DEFINE t == [s EXCEPT !.visit = v]
<1>1. t \in States /\ t.phase = s.phase /\ t.ref = s.ref /\ t.attempt = s.attempt /\ t.end = s.end
  BY DEF Fits, States, ExperienceState
<1>. HIDE DEF t
<1>2. Fits(t)
  BY <1>1 DEF Fits, EndFits
<1>. QED
  BY <1>2 DEF VisitStarted, t

\* Only the phase and the countdown move, between two phases that ask the same
\* of an end.
LEMMA MoveFits ==
  ASSUME NEW s, Fits(s), NEW phase \in Phases, NEW countdown \in 0..CountdownStart,
         \/ s.phase \in {"introExiting", "countdown"} /\ phase \in {"countdown", "smile"}
         \/ s.phase = "cameraExiting" /\ phase = "receiptReady"
         \/ /\ s.phase \in {"resetting", "resettingButtonRepositioning", "resettingButtonRevealing"}
            /\ phase \in {"resettingButtonRepositioning", "resettingButtonRevealing", "idle"}
         \/ s.phase \in PrintAttemptPhases /\ phase \in PrintAttemptPhases
  PROVE  Fits([s EXCEPT !.phase = phase, !.countdown = countdown])
<1>. DEFINE t == [s EXCEPT !.phase = phase, !.countdown = countdown]
<1>1. t \in States /\ t.phase = phase /\ t.ref = s.ref /\ t.attempt = s.attempt /\ t.end = s.end
  BY DEF Fits, States, ExperienceState
<1>. HIDE DEF t
<1>2. Fits(t)
  BY <1>1 DEF Fits, EndFits, PrintAttemptPhases
<1>. QED
  BY <1>2 DEF t

\* Without the countdown.
LEMMA PhaseFits ==
  ASSUME NEW s, Fits(s), NEW phase \in Phases,
         \/ s.phase = "cameraExiting" /\ phase = "receiptReady"
         \/ /\ s.phase \in {"resetting", "resettingButtonRepositioning", "resettingButtonRevealing"}
            /\ phase \in {"resettingButtonRepositioning", "resettingButtonRevealing", "idle"}
         \/ s.phase \in PrintAttemptPhases /\ phase \in PrintAttemptPhases
  PROVE  Fits([s EXCEPT !.phase = phase])
<1>1. s.countdown \in 0..CountdownStart
  BY DEF Fits, States, ExperienceState
<1>2. Fits([s EXCEPT !.phase = phase, !.countdown = s.countdown])
  BY <1>1, MoveFits
<1>3. [s EXCEPT !.phase = phase, !.countdown = s.countdown] = [s EXCEPT !.phase = phase]
  BY DEF Fits, States, ExperienceState
<1>. QED
  BY <1>2, <1>3

LEMMA CameraFits ==
  ASSUME NEW s, Fits(s)
  PROVE  Fits(CameraAnimationCompleted(s))
<1>1. /\ {"countdown", "receiptReady", "resettingButtonRepositioning"} \subseteq Phases
      /\ CountdownStart \in 0..CountdownStart
  BY DEF Phases
<1>2. CASE s.phase = "introExiting"
  <2>1. CameraAnimationCompleted(s) = [s EXCEPT !.phase = "countdown", !.countdown = CountdownStart]
    BY <1>2 DEF CameraAnimationCompleted
  <2>2. Fits([s EXCEPT !.phase = "countdown", !.countdown = CountdownStart])
    BY <1>1, <1>2, MoveFits, Zenon
  <2>. QED
    BY <2>1, <2>2
<1>3. CASE s.phase = "cameraExiting"
  <2>1. CameraAnimationCompleted(s) = [s EXCEPT !.phase = "receiptReady"]
    BY <1>3 DEF CameraAnimationCompleted
  <2>. QED
    BY <1>1, <1>3, <2>1, PhaseFits
<1>4. CASE s.phase = "resetting"
  <2>1. CameraAnimationCompleted(s) = [s EXCEPT !.phase = "resettingButtonRepositioning"]
    BY <1>4 DEF CameraAnimationCompleted
  <2>. QED
    BY <1>1, <1>4, <2>1, PhaseFits
<1>. QED
  BY <1>2, <1>3, <1>4 DEF CameraAnimationCompleted

LEMMA ButtonFits ==
  ASSUME NEW s, Fits(s)
  PROVE  Fits(StartButtonAnimationCompleted(s))
<1>1. {"resettingButtonRevealing", "idle"} \subseteq Phases
  BY DEF Phases
<1>2. CASE s.phase = "resettingButtonRepositioning"
  <2>1. StartButtonAnimationCompleted(s) = [s EXCEPT !.phase = "resettingButtonRevealing"]
    BY <1>2 DEF StartButtonAnimationCompleted
  <2>. QED
    BY <1>1, <1>2, <2>1, PhaseFits
<1>3. CASE s.phase = "resettingButtonRevealing"
  <2>1. StartButtonAnimationCompleted(s) = [s EXCEPT !.phase = "idle"]
    BY <1>3 DEF StartButtonAnimationCompleted
  <2>. QED
    BY <1>1, <1>3, <2>1, PhaseFits
<1>. QED
  BY <1>2, <1>3 DEF StartButtonAnimationCompleted

LEMMA CountdownFits ==
  ASSUME NEW s, Fits(s)
  PROVE  Fits(CountdownTicked(s))
<1>1. {"countdown", "smile"} \subseteq Phases /\ 0 \in 0..CountdownStart
  BY DEF Phases
<1>2. CASE s.phase = "countdown" /\ s.countdown <= 1
  <2>1. CountdownTicked(s) = [s EXCEPT !.phase = "smile", !.countdown = 0]
    BY <1>2 DEF CountdownTicked
  <2>2. Fits([s EXCEPT !.phase = "smile", !.countdown = 0])
    BY <1>1, <1>2, MoveFits, Zenon
  <2>. QED
    BY <2>1, <2>2
<1>3. CASE s.phase = "countdown" /\ ~(s.countdown <= 1)
  <2>. DEFINE n == s.countdown - 1
  <2>1. n \in 0..CountdownStart
    BY <1>3 DEF Fits, States, ExperienceState
  <2>2. CountdownTicked(s) = [s EXCEPT !.phase = "countdown", !.countdown = n]
    <3>1. CountdownTicked(s) = [s EXCEPT !.countdown = n]
      BY <1>3 DEF CountdownTicked
    <3>2. [s EXCEPT !.countdown = n] = [s EXCEPT !.phase = "countdown", !.countdown = n]
      BY <1>3 DEF Fits, States, ExperienceState
    <3>. QED
      BY <3>1, <3>2
  <2>. HIDE DEF n
  <2>3. Fits([s EXCEPT !.phase = "countdown", !.countdown = n])
    BY <1>1, <1>3, <2>1, MoveFits, Zenon
  <2>. QED
    BY <2>2, <2>3
<1>. QED
  BY <1>2, <1>3 DEF CountdownTicked

\* An attempt of its own.
LEMMA SmileFits ==
  ASSUME NEW s, Fits(s)
  PROVE  Fits(SmileElapsed(s))
<1>1. CASE s.phase = "smile"
  <2>. DEFINE t == [s EXCEPT !.phase = "capturing", !.attempt = s.next, !.next = s.next + 1]
  <2>1. "capturing" \in Phases /\ "capturing" \in PrintAttemptPhases
    BY DEF Phases, PrintAttemptPhases
  <2>2. s.next \in Nat /\ s.next + 1 \in Nat \ {0}
    BY DEF Fits, States, ExperienceState
  <2>3. t \in States /\ t.phase = "capturing" /\ t.end = s.end
    BY <2>1, <2>2 DEF Fits, States, ExperienceState
  <2>4. SmileElapsed(s) = t
    BY <1>1 DEF SmileElapsed, Fits, States, ExperienceState
  <2>. HIDE DEF t
  <2>5. Fits(t)
    BY <1>1, <2>1, <2>3 DEF Fits, EndFits
  <2>. QED
    BY <2>4, <2>5
<1>. QED
  BY <1>1 DEF SmileElapsed

LEMMA PhotoFits ==
  ASSUME NEW s, Fits(s), NEW attempt
  PROVE  Fits(PhotoCaptured(s, attempt))
<1>1. "preparing" \in Phases /\ {"capturing", "preparing"} \subseteq PrintAttemptPhases
  BY DEF Phases, PrintAttemptPhases
<1>2. s.phase = "capturing" => Fits([s EXCEPT !.phase = "preparing"])
  BY <1>1, PhaseFits
<1>. QED
  BY <1>2 DEF PhotoCaptured

LEMMA ReceiptFits ==
  ASSUME NEW s, Fits(s), NEW attempt, NEW ref \in Refs, NEW lottery \in BOOLEAN,
         NEW v \in Visits \cup {None}
  PROVE  Fits(ReceiptPrepared(s, attempt, ref, lottery, v))
<1>. DEFINE t == ReceiptPrepared(s, attempt, ref, lottery, v)
<1>1. CASE s.phase = "preparing" /\ attempt = s.attempt
  <2>1. /\ {"spinning", "printing"} \subseteq Phases
        /\ {"preparing", "spinning", "printing"} \subseteq PrintAttemptPhases
    BY DEF Phases, PrintAttemptPhases
  <2>2. /\ t \in States /\ t.phase \in {"spinning", "printing"} /\ t.end = s.end
    BY <1>1, <2>1 DEF Fits, States, ExperienceState, ReceiptPrepared, HasMatchingPrintAttempt
  <2>. HIDE DEF t
  <2>3. Fits(t)
    BY <1>1, <2>1, <2>2 DEF Fits, EndFits
  <2>. QED
    BY <2>3 DEF t
<1>2. CASE ~(s.phase = "preparing" /\ attempt = s.attempt)
  BY <1>2 DEF ReceiptPrepared, HasMatchingPrintAttempt
<1>. QED
  BY <1>1, <1>2

LEMMA RevealFits ==
  ASSUME NEW s, Fits(s)
  PROVE  Fits(ReelsStopped(s)) /\ Fits(SlotResultElapsed(s)) /\ Fits(InstructionsElapsed(s))
<1>1. /\ {"slotResult", "instructions", "printing"} \subseteq Phases
      /\ {"spinning", "slotResult", "instructions", "printing"} \subseteq PrintAttemptPhases
  BY DEF Phases, PrintAttemptPhases
<1>2. s.phase = "spinning" => Fits([s EXCEPT !.phase = "slotResult"])
  BY <1>1, PhaseFits
<1>3. s.phase = "slotResult" => Fits([s EXCEPT !.phase = "instructions"])
  BY <1>1, PhaseFits
<1>4. s.phase = "instructions" => Fits([s EXCEPT !.phase = "printing"])
  BY <1>1, PhaseFits
<1>. QED
  BY <1>2, <1>3, <1>4 DEF ReelsStopped, SlotResultElapsed, InstructionsElapsed

\* The tickets came out: the visit ends as completed.
LEMMA SuccessFits ==
  ASSUME NEW s, Fits(s), NEW attempt
  PROVE  Fits(PrintSucceeded(s, attempt))
<1>. DEFINE t == [s EXCEPT !.phase = "cameraExiting", !.countdown = 0, !.ref = None,
                           !.attempt = 0, !.end = "completed"]
<1>1. /\ "cameraExiting" \in Phases /\ 0 \in 0..CountdownStart
      /\ "cameraExiting" \notin PrintAttemptPhases
  BY DEF Phases, PrintAttemptPhases
<1>2. /\ t \in States /\ t.phase = "cameraExiting" /\ t.ref = None /\ t.attempt = 0
      /\ t.end = "completed"
  BY <1>1 DEF Fits, States, ExperienceState
<1>. HIDE DEF t
<1>3. Fits(t)
  BY <1>1, <1>2 DEF Fits, EndFits
<1>. QED
  BY <1>3 DEF PrintSucceeded, t

\* The attempt failed, in any of its phases: the visit ends as failed.
LEMMA FailureFits ==
  ASSUME NEW s, Fits(s), NEW attempt
  PROVE  Fits(PrintFailed(s, attempt))
<1>. DEFINE t == PrintFailed(s, attempt)
<1>1. CASE s.phase \in PrintAttemptPhases /\ attempt = s.attempt
  <2>1. "resetting" \in Phases /\ 0 \in 0..CountdownStart /\ "resetting" \notin PrintAttemptPhases
    BY DEF Phases, PrintAttemptPhases
  <2>2. t \in States /\ t.phase = "resetting" /\ t.ref = None /\ t.attempt = 0 /\ t.end = "failed"
    BY <1>1, <2>1 DEF Fits, States, ExperienceState, PrintFailed, BeginReset,
                      HasMatchingPrintAttempt
  <2>. HIDE DEF t
  <2>3. Fits(t)
    BY <2>1, <2>2 DEF Fits, EndFits
  <2>. QED
    BY <2>3 DEF t
<1>2. CASE ~(s.phase \in PrintAttemptPhases /\ attempt = s.attempt)
  BY <1>2 DEF PrintFailed, HasMatchingPrintAttempt
<1>. QED
  BY <1>1, <1>2

\* The ticket shown is dropped, and its visit's end kept.
LEMMA ResetFits ==
  ASSUME NEW s, Fits(s)
  PROVE  Fits(AutoResetElapsed(s))
<1>. DEFINE t == AutoResetElapsed(s)
<1>1. CASE s.phase = "receiptReady"
  <2>1. /\ "resettingButtonRepositioning" \in Phases /\ 0 \in 0..CountdownStart
        /\ "resettingButtonRepositioning" \notin PrintAttemptPhases
    BY DEF Phases, PrintAttemptPhases
  <2>2. t \in States /\ t.phase = "resettingButtonRepositioning" /\ t.ref = None /\ t.attempt = 0
    BY <1>1, <2>1 DEF Fits, States, ExperienceState, AutoResetElapsed, BeginReset
  <2>. HIDE DEF t
  <2>3. Fits(t)
    BY <2>1, <2>2 DEF Fits, EndFits
  <2>. QED
    BY <2>3 DEF t
<1>. QED
  BY <1>1 DEF AutoResetElapsed

\* Whatever a phase does when its time is over.
LEMMA ElapsedFits ==
  ASSUME NEW s, Fits(s)
  PROVE  Fits(PhaseElapsed(s))
<1>1. PhaseElapsed(s) \in {CameraAnimationCompleted(s), StartButtonAnimationCompleted(s),
                           CountdownTicked(s), SmileElapsed(s), ReelsStopped(s),
                           SlotResultElapsed(s), InstructionsElapsed(s), AutoResetElapsed(s), s}
  BY DEF PhaseElapsed
<1>. QED
  BY <1>1, CameraFits, ButtonFits, CountdownFits, SmileFits, RevealFits, ResetFits

-----------------------------------------------------------------------------
(***************************************************************************)
(* Each action of the page.                                                *)
(***************************************************************************)

LEMMA ExperienceInvInit == Init => ExperienceInv
<1>. SUFFICES ASSUME Init PROVE ExperienceInv
  OBVIOUS
<1>1. Fits(state)
  BY InitialFits DEF Init
<1>2. /\ pending = [mode |-> "none", waited |-> 0] /\ 0 \in 0..WaitTicks
      /\ maintenance = [known |-> FALSE, enabled |-> FALSE, waited |-> 0]
      /\ shown = FALSE /\ switch = FALSE
  BY DEF Init, NoCommand, NotHeard
<1>. QED
  BY <1>1, <1>2 DEF ExperienceInv, TypeOK, Fits, States

\* The commands keep their types.
CommandsFit ==
    /\ pending \in [mode : {"none", "now", "when-idle"}, waited : 0..WaitTicks]
    /\ maintenance \in [known : BOOLEAN, enabled : BOOLEAN, waited : 0..WaitTicks]
    /\ shown \in BOOLEAN /\ switch \in BOOLEAN

\* A command, the switch or the wait leaves the visit alone.
LEMMA CommandsKeepTypes ==
  ASSUME ExperienceInv,
         \/ \E mode \in {"now", "when-idle"} : CommandArrives(mode)
         \/ SwitchMaintenance \/ HearMaintenance \/ CommandWaited \/ MaintenanceWaited
         \/ ShowOrHide
  PROVE  state' = state /\ CommandsFit'
<1>1. CommandsFit
  BY DEF ExperienceInv, TypeOK, CommandsFit
<1>2. 0 \in 0..WaitTicks
  OBVIOUS
<1>3. ASSUME NEW mode \in {"now", "when-idle"}, CommandArrives(mode)
      PROVE  state' = state /\ CommandsFit'
  BY <1>1, <1>2, <1>3 DEF CommandArrives, CommandsFit
<1>4. CASE SwitchMaintenance
  BY <1>1, <1>4 DEF SwitchMaintenance, CommandsFit
<1>5. CASE HearMaintenance
  <2>1. Heard \in [known : BOOLEAN, enabled : BOOLEAN, waited : 0..WaitTicks]
    BY <1>1, <1>2 DEF Heard, CommandsFit
  <2>. QED
    BY <1>1, <1>5, <2>1 DEF HearMaintenance, CommandsFit
<1>6. CASE CommandWaited
  <2>1. pending.waited + 1 \in 0..WaitTicks
    BY <1>1, <1>6 DEF CommandWaited, CommandsFit
  <2>2. pending' = [pending EXCEPT !.waited = pending.waited + 1]
    BY <1>1, <1>6 DEF CommandWaited, CommandsFit
  <2>3. pending' \in [mode : {"none", "now", "when-idle"}, waited : 0..WaitTicks]
    BY <1>1, <2>1, <2>2 DEF CommandsFit
  <2>. QED
    BY <1>1, <1>6, <2>3 DEF CommandWaited, CommandsFit
<1>7. CASE MaintenanceWaited
  <2>1. maintenance.waited + 1 \in 0..WaitTicks
    BY <1>1, <1>7 DEF MaintenanceWaited, CommandsFit
  <2>2. maintenance' = [maintenance EXCEPT !.waited = maintenance.waited + 1]
    BY <1>1, <1>7 DEF MaintenanceWaited, CommandsFit
  <2>3. maintenance' \in [known : BOOLEAN, enabled : BOOLEAN, waited : 0..WaitTicks]
    BY <1>1, <2>1, <2>2 DEF CommandsFit
  <2>. QED
    BY <1>1, <1>7, <2>3 DEF MaintenanceWaited, CommandsFit
<1>8. CASE ShowOrHide
  <2>1. MaintenanceScreen \in BOOLEAN
    BY <1>1 DEF MaintenanceScreen, CommandsFit, Due
  <2>. QED
    BY <1>1, <1>8, <2>1 DEF ShowOrHide, CommandsFit
<1>. QED
  BY <1>3, <1>4, <1>5, <1>6, <1>7, <1>8

\* An answer, late or not, of this attempt or another.
LEMMA AnswerFits == Fits(state) /\ Answer => Fits(state')
<1>. SUFFICES ASSUME Fits(state), Answer PROVE Fits(state')
  OBVIOUS
<1>. QED
  BY VisitFits, PhotoFits, ReceiptFits, SuccessFits, FailureFits DEF Answer

LEMMA ExperienceInvNext == ExperienceInv /\ [Next]_vars => ExperienceInv'
<1>. SUFFICES ASSUME ExperienceInv, [Next]_vars PROVE ExperienceInv'
  OBVIOUS
<1>1. Fits(state) /\ CommandsFit
  BY DEF ExperienceInv, TypeOK, Fits, States, CommandsFit
<1>2. ASSUME Fits(state'), CommandsFit' PROVE ExperienceInv'
  BY <1>2 DEF ExperienceInv, TypeOK, Fits, States, CommandsFit
<1>3. UNCHANGED commands => CommandsFit'
  BY <1>1 DEF commands, CommandsFit
<1>4. CASE Start
  BY <1>4, <1>1, <1>2, <1>3, StartFits DEF Start
<1>5. CASE PhaseTimer
  BY <1>5, <1>1, <1>2, <1>3, ElapsedFits DEF PhaseTimer
<1>6. CASE AttemptTimesOut
  BY <1>6, <1>1, <1>2, <1>3, FailureFits DEF AttemptTimesOut
<1>7. CASE Answer
  <2>1. UNCHANGED commands
    BY <1>7 DEF Answer
  <2>. QED
    BY <1>7, <2>1, <1>1, <1>2, <1>3, AnswerFits
<1>8. CASE RunCommand
  <2>1. /\ pending' = [mode |-> "none", waited |-> 0] /\ 0 \in 0..WaitTicks
        /\ maintenance' = [known |-> FALSE, enabled |-> FALSE, waited |-> 0]
        /\ shown' = FALSE /\ switch' = switch
    BY <1>8 DEF RunCommand, NoCommand, NotHeard
  <2>2. CommandsFit'
    BY <1>1, <2>1 DEF CommandsFit
  <2>. QED
    BY <1>8, <2>2, <1>2, InitialFits DEF RunCommand
<1>9. CASE \/ \E mode \in {"now", "when-idle"} : CommandArrives(mode)
           \/ SwitchMaintenance \/ HearMaintenance \/ CommandWaited \/ MaintenanceWaited
           \/ ShowOrHide
  BY <1>9, <1>1, <1>2, CommandsKeepTypes
<1>10. CASE UNCHANGED vars
  BY <1>10, <1>1, <1>2, <1>3 DEF vars, commands
<1>. QED
  BY <1>4, <1>5, <1>6, <1>7, <1>8, <1>9, <1>10 DEF Next

-----------------------------------------------------------------------------
(***************************************************************************)
(* The theorems.                                                           *)
(***************************************************************************)

LEMMA ExperienceInvHolds == Spec => []ExperienceInv
  BY ExperienceInvInit, ExperienceInvNext, PTL DEF Spec

\* The reducer's state, the commands and the maintenance screen keep their
\* types, for any countdown, visits, tickets and attempts.
THEOREM ExperienceTypes == Spec => []TypeOK
<1>1. ExperienceInv => TypeOK
  BY DEF ExperienceInv
<1>. QED
  BY <1>1, ExperienceInvHolds, PTL

\* A visit the kiosk leaves has its one end to report, whatever was answered,
\* timed out or reloaded on the way.
THEOREM VisitsEnd == Spec => []EveryVisitEnds
<1>1. ExperienceInv => EveryVisitEnds
  BY DEF ExperienceInv, EndFits, EveryVisitEnds, TypeOK, ExperienceState, Phases
<1>. QED
  BY <1>1, ExperienceInvHolds, PTL

=============================================================================
