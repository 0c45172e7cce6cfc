----------------------------- MODULE GuestVisit -----------------------------
(***************************************************************************)
(* A guest's visit from end to end: the Experience on the iPad, the calls  *)
(* it makes to the engine over the network, the engine's tickets module    *)
(* (prepare, the store of prepared receipts, print) and the visit table.   *)
(*                                                                         *)
(* A call is handled in steps with awaits between them, so calls of the    *)
(* same and of different guests interleave.  The kiosk can lose the        *)
(* connection of a call at any point and give up on it while the engine    *)
(* still works on it, the page can reload, the engine can restart.  Times  *)
(* are left out: a budget or a lifetime may run out whenever it is under   *)
(* way.  Rendering, prizes and printer conditions are left out: a render   *)
(* or a print works or fails, the printer gate lets a job pass or not, and *)
(* a draw comes with a lottery and with a lottery ticket or without.       *)
(*                                                                         *)
(* Definitions whose comment starts with "Fault:" are not the code: each   *)
(* is the definition after it with a plausible bug.                        *)
(***************************************************************************)
EXTENDS ExperienceMachine, Visits, FiniteSets

CONSTANTS
    MaxGuests,      \* bound: taps on Start
    Lotteries,      \* whether draws may run against a lottery, or not, or either
    PrintRetries,   \* PRINT_PREPARED_RECEIPT_RETRIES
    MaxLate,        \* bound: calls still out when the next guest starts
    MaxFaults       \* bound: lost connections, page reloads and engine restarts

ASSUME GuestsAssumption ==
    /\ Guests = 1..MaxGuests /\ MaxGuests \in Nat
    /\ Lotteries \subseteq BOOLEAN
    /\ PrintRetries \in Nat /\ MaxLate \in Nat /\ MaxFaults \in Nat

VARIABLES
    kiosk,    \* the Experience's reducer state
    guest,    \* the last guest who tapped Start
    calls,    \* the kiosk's calls, on the wire or in the engine
    store,    \* prepared receipts waiting to be printed
    draws,    \* the committed draws in order, by guest; a ticket number is a position
    photos,   \* observer: photo receipts that came out of the printer, by draw
    faults    \* faults so far

vars == <<kiosk, guest, calls, store, draws, photos, faults, visit>>
engine == <<store, draws, photos, visit>>

Refs == DOMAIN draws
Stages == {"sent", "rendering", "drawn", "photo", "ticket", "answered", "failed", "notFound"}

\* heard: the kiosk still waits for the answer.  A call knows the guest it is
\* of only for the properties.
Call(op, ref, id, end, try) ==
    [op |-> op, guest |-> guest, attempt |-> kiosk.attempt, heard |-> TRUE, stage |-> "sent",
     ref |-> ref, visit |-> id, end |-> end, try |-> try, lottery |-> FALSE, ticket |-> FALSE]

Job(ref, photoPrinted, ticket) == [ref |-> ref, photoPrinted |-> photoPrinted, ticket |-> ticket]

CallType ==
    [op : {"startVisit", "prepareReceipt", "printPreparedReceipt", "endVisit"},
     guest : Guests, attempt : Nat, heard : BOOLEAN, stage : Stages, ref : Refs \cup {None},
     visit : VisitIds \cup {None}, end : {None, "completed", "failed"},
     try : 0..PrintRetries, lottery : BOOLEAN, ticket : BOOLEAN]

TypeOK ==
    /\ kiosk \in ExperienceState(VisitIds, Refs)
    /\ guest \in 0..MaxGuests
    /\ \A c \in calls : c \in CallType
    /\ \A j \in store : j \in [ref : Refs, photoPrinted : BOOLEAN, ticket : BOOLEAN]
    /\ \A r \in Refs : draws[r] \in Guests
    /\ DOMAIN photos = Refs
    /\ faults \in 0..MaxFaults
    /\ \A v \in VisitIds : visit[v] \in VisitRow(Refs)

Init ==
    /\ kiosk = initialExperienceState
    /\ guest = 0
    /\ calls = {}
    /\ store = {}
    /\ draws = <<>>
    /\ photos = <<>>
    /\ faults = 0
    /\ visit = <<>>

-----------------------------------------------------------------------------
(***************************************************************************)
(* The page.  A dispatch moves the reducer and runs the effects that       *)
(* depend on what it changed.                                              *)
(***************************************************************************)

\* Entering "printing" asks for the prepared receipt; a visit and its end, once
\* both known, are reported (and nothing waits for the answer).
Effects(s) ==
    {Call("printPreparedReceipt", s.ref, None, None, 0) :
        x \in {1} \cap IF s.phase = "printing" /\ kiosk.phase # "printing" THEN {1} ELSE {}}
    \cup
    {[Call("endVisit", None, s.visit, s.end, 0) EXCEPT !.heard = FALSE, !.attempt = 0] :
        x \in {1} \cap IF /\ s.visit # None /\ s.end # None
                          /\ <<s.visit, s.end>> # <<kiosk.visit, kiosk.end>> THEN {1} ELSE {}}

Dispatch(s, rest) == kiosk' = s /\ calls' = rest \cup Effects(s)

\* The intro leaves: the engine is told, whether or not it answers.
Start(hasLottery) ==
    /\ kiosk.phase = "idle"
    /\ guest < MaxGuests /\ Cardinality(calls) <= MaxLate
    /\ guest' = guest + 1
    /\ kiosk' = StartRequested(kiosk, hasLottery)
    /\ calls' = calls \cup
        {[Call("startVisit", None, None, None, 0) EXCEPT !.guest = guest + 1, !.attempt = 0]}
    /\ UNCHANGED <<engine, faults>>

\* The phases that time themselves out run one after the other up to one that
\* waits for the engine, the camera or a guest: no answer tells them apart
\* (VisitStarted only asks for "idle", and no call of the attempt is under way
\* in them), so they are one step here.  Experience has each.
CountedDown(s) ==
    IF s.phase = "countdown" THEN CountdownTicked([s EXCEPT !.countdown = 1]) ELSE s

\* An action that does not apply leaves the state as it is, so they compose.
Elapsed ==
    LET taken == SmileElapsed(CountedDown(CameraAnimationCompleted(kiosk)))
        shown == InstructionsElapsed(SlotResultElapsed(ReelsStopped(taken)))
    IN  StartButtonAnimationCompleted(StartButtonAnimationCompleted(AutoResetElapsed(shown)))

PhaseTimers ==
    /\ kiosk.phase \in TimedPhases
    /\ Dispatch(Elapsed, calls)
    /\ UNCHANGED <<guest, engine, faults>>

\* The photo is taken and sent with the visit id known by then, if any.
TakePhoto ==
    /\ kiosk.phase = "capturing"
    /\ Dispatch(PhotoCaptured(kiosk, kiosk.attempt),
                calls \cup {Call("prepareReceipt", None, kiosk.visit, None, 0)})
    /\ UNCHANGED <<guest, engine, faults>>

\* The camera fails, or the attempt's budget for this phase is used up.
AttemptFails ==
    /\ kiosk.phase \in AttemptBudgetPhases
    /\ Dispatch(PrintFailed(kiosk, kiosk.attempt), calls)
    /\ UNCHANGED <<guest, engine, faults>>

-----------------------------------------------------------------------------
(***************************************************************************)
(* Answers.  The effects also drop an answer once their attempt is over,   *)
(* which is when the reducer ignores it.                                   *)
(***************************************************************************)

HearAnswer(c) ==
    /\ c.heard /\ c.stage = "answered"
    /\ Dispatch(CASE c.op = "startVisit" -> VisitStarted(kiosk, c.visit)
                  [] c.op = "prepareReceipt" ->
                        ReceiptPrepared(kiosk, c.attempt, c.ref, c.lottery, c.visit)
                  [] c.op = "printPreparedReceipt" -> PrintSucceeded(kiosk, c.attempt)
                  [] OTHER -> kiosk,
                calls \ {c})
    /\ UNCHANGED <<guest, engine, faults>>

\* Retried whatever became of the attempt, unless the engine has no such job.
MayRetry(c) ==
    c.op = "printPreparedReceipt" /\ c.stage # "notFound" /\ c.try < PrintRetries

\* What the page does when a call fails; only a failed photo or print shows.
OnFailure(c, rest) ==
    IF MayRetry(c)
    THEN Dispatch(kiosk, rest \cup {[c EXCEPT !.stage = "sent", !.try = @ + 1,
                                              !.ticket = FALSE]})
    ELSE Dispatch(IF c.op \in {"prepareReceipt", "printPreparedReceipt"}
                  THEN PrintFailed(kiosk, c.attempt) ELSE kiosk, rest)

HearFailure(c) ==
    /\ c.heard /\ c.stage \in {"failed", "notFound"}
    /\ OnFailure(c, calls \ {c})
    /\ UNCHANGED <<guest, engine, faults>>

\* The connection breaks: the page sees a failure, and a request the engine
\* got goes on without it.
LoseConnection(c) ==
    /\ faults < MaxFaults /\ faults' = faults + 1
    /\ c.heard /\ c.stage \notin {"failed", "notFound"}
    /\ OnFailure(c, (calls \ {c}) \cup
                    IF c.stage = "answered" THEN {} ELSE {[c EXCEPT !.heard = FALSE]})
    /\ UNCHANGED <<guest, engine>>

\* A request cut off before the engine had it may never arrive.
NeverArrives(c) ==
    /\ ~c.heard /\ c.stage = "sent"
    /\ calls' = calls \ {c}
    /\ UNCHANGED <<kiosk, guest, engine, faults>>

\* The page reloads (an operator's command, a crash): its state starts over and
\* nothing it asked for is heard.
Reload ==
    /\ faults < MaxFaults /\ faults' = faults + 1
    /\ kiosk # initialExperienceState
    /\ kiosk' = initialExperienceState
    /\ calls' = {[c EXCEPT !.heard = FALSE] : c \in {d \in calls : d.stage \in
                    {"sent", "rendering", "drawn", "photo", "ticket"}}}
    /\ UNCHANGED <<guest, engine>>

-----------------------------------------------------------------------------
(***************************************************************************)
(* The engine.                                                             *)
(***************************************************************************)

Moves(c, d) == calls' = (calls \ {c}) \cup {d}
\* The answer reaches the page only if it still waits.
Answers(c, d) == calls' = (calls \ {c}) \cup IF c.heard THEN {d} ELSE {}

startVisit(c) ==
    /\ c.op = "startVisit" /\ c.stage = "sent"
    /\ VisitStart(c.guest)
    /\ Answers(c, [c EXCEPT !.stage = "answered", !.visit = Len(visit) + 1])
    /\ UNCHANGED <<kiosk, guest, store, draws, photos, faults>>

endVisit(c) ==
    /\ c.op = "endVisit" /\ c.stage = "sent"
    /\ VisitEnd(c.visit, c.end)
    /\ calls' = calls \ {c}
    /\ UNCHANGED <<kiosk, guest, store, draws, photos, faults>>

\* The printer gate, before anything is spent: refused or let through.
BeginPrepare(c) ==
    /\ c.op = "prepareReceipt" /\ c.stage = "sent"
    /\ \/ Answers(c, [c EXCEPT !.stage = "failed"])
       \/ Moves(c, [c EXCEPT !.stage = "rendering"])
    /\ UNCHANGED <<kiosk, guest, engine, faults>>

\* The receipt is laid out; then the draw and its visit commit together.
CommitDraw(c) ==
    /\ c.op = "prepareReceipt" /\ c.stage = "rendering"
    /\ \E landed \in VisitIds \cup {Len(visit) + 1}, lottery \in Lotteries :
        /\ VisitCaptured(c.visit, Len(draws) + 1, c.guest, landed)
        /\ Moves(c, [c EXCEPT !.stage = "drawn", !.ref = Len(draws) + 1, !.visit = landed,
                              !.lottery = lottery])
    /\ draws' = Append(draws, c.guest)
    /\ photos' = Append(photos, 0)
    /\ UNCHANGED <<kiosk, guest, store, faults>>

\* The lottery ticket, if there is one, is laid out (a failure leaves it out)
\* and the job kept.
KeepJob(c) ==
    /\ c.op = "prepareReceipt" /\ c.stage = "drawn"
    /\ \E ticket \in {FALSE, c.lottery} : store' = store \cup {Job(c.ref, FALSE, ticket)}
    /\ Answers(c, [c EXCEPT !.stage = "answered"])
    /\ UNCHANGED <<kiosk, guest, draws, photos, visit, faults>>

\* Laying out the photo fails, or laying it out again with the ticket number
\* that was free.
PrepareFails(c) ==
    /\ c.op = "prepareReceipt" /\ c.stage \in {"rendering", "drawn"}
    /\ Answers(c, [c EXCEPT !.stage = "failed"])
    /\ UNCHANGED <<kiosk, guest, engine, faults>>

JobsOf(ref) == {j \in store : j.ref = ref}

StoreWithout(j) == store \ {j}

\* The gate again; then the job is taken out while it prints.
TakeJob(c) ==
    /\ c.op = "printPreparedReceipt" /\ c.stage = "sent"
    /\ \/ /\ Answers(c, [c EXCEPT !.stage = "failed"])
          /\ UNCHANGED store
       \/ /\ JobsOf(c.ref) = {}
          /\ Answers(c, [c EXCEPT !.stage = "notFound"])
          /\ UNCHANGED store
       \/ \E j \in JobsOf(c.ref) :
          /\ store' = StoreWithout(j)
          /\ Moves(c, [c EXCEPT !.stage = IF j.photoPrinted THEN "ticket" ELSE "photo",
                                !.ticket = j.ticket])
    /\ UNCHANGED <<kiosk, guest, draws, photos, visit, faults>>

\* The photo receipt comes out and is remembered.
PrintPhoto(c) ==
    /\ c.op = "printPreparedReceipt" /\ c.stage = "photo"
    /\ photos' = [photos EXCEPT ![c.ref] = @ + 1]
    /\ Moves(c, [c EXCEPT !.stage = "ticket"])
    /\ UNCHANGED <<kiosk, guest, store, draws, visit, faults>>

\* The lottery ticket comes out, or there is none: printed in full.
FinishPrint(c) ==
    /\ c.op = "printPreparedReceipt" /\ c.stage = "ticket"
    /\ VisitPrinted(c.ref)
    /\ Answers(c, [c EXCEPT !.stage = "answered"])
    /\ UNCHANGED <<kiosk, guest, store, draws, photos, faults>>

\* Fault: what already came out is forgotten.
UnprintedJob(c) == Job(c.ref, FALSE, c.ticket)

RestOfJob(c) == Job(c.ref, c.stage = "ticket", c.ticket)

\* The printer refuses or stalls: what did not come out goes back.
PrintFails(c) ==
    /\ c.op = "printPreparedReceipt"
    /\ c.stage = "photo" \/ (c.stage = "ticket" /\ c.ticket)
    /\ store' = store \cup {RestOfJob(c)}
    /\ Answers(c, [c EXCEPT !.stage = "failed"])
    /\ UNCHANGED <<kiosk, guest, draws, photos, visit, faults>>

\* PREPARED_RECEIPT_TTL_MS ran out.
Expire(j) ==
    /\ store' = store \ {j}
    /\ UNCHANGED <<kiosk, guest, calls, draws, photos, visit, faults>>

\* The engine dies and boots: what it was doing and what it kept in memory is
\* gone, and the visits left open are closed.
Restart ==
    /\ faults < MaxFaults /\ faults' = faults + 1
    /\ store' = {}
    /\ VisitCloseStale
    /\ calls' = {c \in calls : c.stage \in {"sent", "answered", "failed", "notFound"}}
                \cup {[c EXCEPT !.stage = "failed"] : c \in {d \in calls : d.heard /\
                        d.stage \in {"rendering", "drawn", "photo", "ticket"}}}
    /\ UNCHANGED <<kiosk, guest, draws, photos>>

Next ==
    \/ \E hasLottery \in Lotteries : Start(hasLottery)
    \/ PhaseTimers \/ TakePhoto \/ AttemptFails \/ Reload \/ Restart
    \/ \E c \in calls :
        \/ HearAnswer(c) \/ HearFailure(c) \/ LoseConnection(c) \/ NeverArrives(c)
        \/ startVisit(c) \/ endVisit(c)
        \/ BeginPrepare(c) \/ CommitDraw(c) \/ KeepJob(c) \/ PrepareFails(c)
        \/ TakeJob(c) \/ PrintPhoto(c) \/ FinishPrint(c) \/ PrintFails(c)
    \/ \E j \in store : Expire(j)

Spec == Init /\ [][Next]_vars

-----------------------------------------------------------------------------
(***************************************************************************)
(* What must hold.                                                         *)
(***************************************************************************)

\* However Starts, late draws and restarts interleave, at most one visit is
\* open: there is one kiosk.
OneOpenVisit == \A v, w \in VisitIds : Open(v) /\ Open(w) => v = w

\* A draw is in exactly one visit, so no guest's draw is lost to the figures or
\* counted twice.
DrawInOneVisit ==
    \A r \in Refs : Cardinality({v \in VisitIds : visit[v].draw = r}) = 1

\* An ended visit is completed exactly when its tickets came out in full,
\* whatever the kiosk saw and in whichever order the reports arrive.
CompletedMeansPrinted ==
    \A v \in VisitIds : ~Open(v) => (visit[v].reason = "completed" <=> visit[v].printed)

\* A guest never gets a second photo receipt, and a job being printed is
\* nowhere else: not in the store, not in another call.
PhotoPrintsOnce ==
    /\ \A r \in Refs : photos[r] <= 1
    /\ \A c, d \in {x \in calls : x.stage \in {"photo", "ticket"}} :
        /\ JobsOf(c.ref) = {}
        /\ c.ref = d.ref => c = d

\* The outcome and the ticket on the kiosk are those of the guest in front of
\* it, and the visit it will report the end of is the one of that ticket.
TicketIsTheGuests ==
    kiosk.ref # None => draws[kiosk.ref] = guest /\ visit[kiosk.visit].draw = kiosk.ref

\* An ended visit never reopens, and only tickets that came out change how it
\* ended; a visit keeps the draw it has.
EndsStand ==
    [][\A v \in VisitIds :
        /\ visit[v].draw # None => visit'[v].draw = visit[v].draw
        /\ ~Open(v) /\ visit'[v].reason # visit[v].reason =>
            visit'[v].reason = "completed" /\ visit'[v].printed]_vars

\* What the guest visit's page says of a late draw: even once its guest's visit
\* ended it still belongs to that visit, never to the next guest's.
DrawJoinsItsGuestsVisit ==
    \A v \in VisitIds : visit[v].draw # None => draws[visit[v].draw] = visit[v].guest

=============================================================================
