------------------------------ MODULE HubAlerts ------------------------------
(***************************************************************************)
(* The Hub's alerts of one booth: what a heartbeat opens and closes, what  *)
(* the minute's silence check opens and closes, and the booth's windows.   *)
(* Each function is one transaction.                                       *)
(*                                                                         *)
(* A heartbeat is a record: the printer's condition, whether the lottery   *)
(* is live and out of prizes ("unread" when the booth couldn't tell), the  *)
(* camera, and whether each age is past its grace on the booth's clock.    *)
(*                                                                         *)
(* Definitions whose comment starts with "Fault:" are not the code: each   *)
(* is the definition after it with a plausible bug.                        *)
(***************************************************************************)
EXTENDS Integers

CONSTANT Silent     \* v_silent, in ticks

ASSUME SilentAssumption == Silent \in Nat \ {0}

VARIABLES
    open,       \* the keys of the booth's alerts that aren't resolved
    seen,       \* ticks since last_seen_at, -1 for a booth without a status
    live,       \* now is in one of the booth's windows
    liveFor     \* ticks since the window began

hub == <<open, seen, live, liveFor>>

Alerts == {"paper-out", "cover-open", "out-of-stock", "camera-off", "silent"}

Heartbeats ==
    [printer : {"ready", "paper-out", "cover-open", "unknown"}, printerPast : BOOLEAN,
     camera : BOOLEAN, cameraPast : BOOLEAN,
     lottery : {"prizes", "empty", "unread"}]

HubTypeOK ==
    /\ open \subseteq Alerts /\ seen \in -1..(Silent + 1)
    /\ live \in BOOLEAN /\ liveFor \in 0..(Silent + 1)

\* A booth that never reported, before its first window.
HubInit == open = {} /\ seen = -1 /\ live = FALSE /\ liveFor = 0

\* One that reports, in its window, with nothing wrong.
HubSettled == open = {} /\ seen = 0 /\ live = TRUE /\ liveFor = 0

-----------------------------------------------------------------------------
\* The wanted rows of evaluate_heartbeat.
Wanted(heartbeat) ==
    {key \in Alerts :
        \/ key = "paper-out" /\ heartbeat.printer = key
        \/ /\ key = "cover-open" /\ heartbeat.printer = key
           /\ heartbeat.printerPast \/ key \in open
        \/ key = "out-of-stock" /\ heartbeat.lottery = "empty"
        \/ /\ key = "camera-off" /\ ~heartbeat.camera /\ live
           /\ heartbeat.cameraPast \/ key \in open}

\* Its closed ones.  A heartbeat is proof of life; what it doesn't know, it
\* leaves.
Closed(heartbeat) ==
    {key \in open :
        \/ key = "silent"
        \/ /\ key \in {"paper-out", "cover-open"}
           /\ heartbeat.printer # "unknown" /\ key \notin Wanted(heartbeat)
        \/ key = "out-of-stock" /\ heartbeat.lottery = "prizes"
        \/ key = "camera-off" /\ (~live \/ heartbeat.camera)}

\* evaluate_heartbeat, for one no older than the stored one.
EvaluateHeartbeat(heartbeat) ==
    /\ seen' = 0
    /\ open' = (open \ Closed(heartbeat)) \cup Wanted(heartbeat)
    /\ UNCHANGED <<live, liveFor>>

\* Fault: an inner join: a booth that never reported is never silent.
QuietOnceSeen == live /\ seen > Silent /\ liveFor > Silent

\* greatest(last_seen_at, since), which skips a null.
Quiet == live /\ liveFor > Silent /\ (seen = -1 \/ seen > Silent)

EvaluateSilence ==
    /\ open' = IF ~live THEN open \ {"silent", "camera-off"}
               ELSE IF Quiet THEN open \cup {"silent"} ELSE open
    /\ UNCHANGED <<seen, live, liveFor>>

\* A window begins or ends.
WindowMoves ==
    /\ live' = ~live /\ liveFor' = 0
    /\ UNCHANGED <<open, seen>>

\* Time passes: the ages count no further than one past the silence.
Older(age) == IF age > Silent THEN age ELSE age + 1

HubAges ==
    /\ seen' = IF seen = -1 THEN seen ELSE Older(seen)
    /\ liveFor' = IF live THEN Older(liveFor) ELSE 0
    /\ UNCHANGED <<open, live>>

=============================================================================
