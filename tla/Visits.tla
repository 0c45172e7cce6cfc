------------------------------- MODULE Visits -------------------------------
(***************************************************************************)
(* The engine's visit table and its writers (domains/visit): one row per   *)
(* guest's pass through the booth.  Each operation is one synchronous      *)
(* SQLite transaction.  Times are left out but for the order they imply:   *)
(* whether an open visit is recent enough for a draw to join it depends on *)
(* a clock that jumps, so it may or may not be.  Print attempts are only   *)
(* counted and left out.  A write that fails is logged and skipped; that   *)
(* case (a broken database) is not modelled.                               *)
(*                                                                         *)
(* Definitions whose comment starts with "Fault:" are not the code: each   *)
(* is the definition after it with a plausible bug.                        *)
(***************************************************************************)
EXTENDS Integers, Sequences, Nothing

CONSTANT
    Guests    \* who came to the booth, one per tap on Start (not stored: no guest data)

VARIABLE visit   \* the rows in insertion order; a visit's id is its position

VisitIds == DOMAIN visit

\* guest is an observer: whose call inserted the row.
VisitRow(refs) ==
    [guest : Guests, draw : refs \cup {None}, printed : BOOLEAN,
     reason : {None, "completed", "failed", "abandoned"}]

\* ended_at and end_reason are only ever set together.
Open(v) == visit[v].reason = None

\* Fault: how the kiosk or the next Start saw it end is kept.
ReasonAsSeen(row, reason) == reason

\* Fault: the name of the step instead of an end reason.
StepAsReason(row, reason) == IF row.printed THEN "printed" ELSE reason

\* Tickets printed in full make a visit completed, whatever was seen.
CompletedIfPrinted(row, reason) == IF row.printed THEN "completed" ELSE reason

\* Fault: a visit already ended ends again.
EndedAgain(row, reason) == [row EXCEPT !.reason = CompletedIfPrinted(row, reason)]

Ended(row, reason) ==
    IF row.reason # None THEN row ELSE [row EXCEPT !.reason = CompletedIfPrinted(row, reason)]

\* Fault: nothing is closed.
LeaveOpen == visit

CloseOpenVisits == [v \in VisitIds |-> Ended(visit[v], "abandoned")]

NewVisit(by, draw) ==
    [guest |-> by, draw |-> draw, printed |-> FALSE, reason |-> None]

-----------------------------------------------------------------------------

\* The next Start ends the visit left open.
VisitStart(by) == visit' = Append(CloseOpenVisits, NewVisit(by, None))

\* Fault: a visit that drew takes another draw.
LinkableAgain(id) == id \in VisitIds

\* The visit the kiosk named takes the draw, even ended, unless it drew.
Linkable(id) == id \in VisitIds /\ visit[id].draw = None

\* Open visits that have not drawn; a draw without a visit joins one of them if
\* it started in the last two minutes.
Joinable == {v \in VisitIds : Open(v) /\ visit[v].draw = None}

\* The visit a draw lands in: the one named, else the one it joins, else its
\* own new one.
VisitCaptured(id, ref, by, landed) ==
    \/ /\ Linkable(id)
       /\ landed = id
       /\ visit' = [visit EXCEPT ![id].draw = ref]
    \/ /\ ~Linkable(id)
       /\ landed \in Joinable
       /\ visit' = [visit EXCEPT ![landed].draw = ref]
    \/ /\ ~Linkable(id)
       /\ landed = Len(visit) + 1
       /\ visit' = Append(CloseOpenVisits, NewVisit(by, ref))

\* Fault: only a visit still open becomes completed.
PrintedRowWhileOpen(row) == [row EXCEPT !.printed = TRUE]

PrintedRow(row) ==
    [row EXCEPT !.printed = TRUE, !.reason = IF @ = None THEN None ELSE "completed"]

\* Both tickets came out: the draw's visit, maybe already ended, completed.
VisitPrinted(ref) ==
    visit' = [v \in VisitIds |-> IF visit[v].draw = ref THEN PrintedRow(visit[v]) ELSE visit[v]]

\* Only the first end counts.
VisitEnd(id, reason) ==
    visit' = [v \in VisitIds |-> IF v = id THEN Ended(visit[v], reason) ELSE visit[v]]

VisitCloseStale == visit' = CloseOpenVisits

=============================================================================
