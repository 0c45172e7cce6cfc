---------------------------- MODULE BoothPrinter ----------------------------
(***************************************************************************)
(* The engine's side of the receipt printer: the loop that holds one USB   *)
(* connection and reads status packets from it, and the queue of print     *)
(* jobs written through the same connection.  The two run side by side:    *)
(* the connection may be lost, reopened or stopped while a job is being    *)
(* written, and the status may turn under it.                              *)
(*                                                                         *)
(* The printer itself is external: it can be unplugged, break and recover  *)
(* at any time, it reports each change once asked to (Automatic Status     *)
(* Back), and a raster that was cut off leaves it waiting for the rest     *)
(* until its buffer is cleared.  That the TM-T20III honours the clear is   *)
(* taken from the code.                                                    *)
(*                                                                         *)
(* Definitions whose comment starts with "Fault:" are not the code: each   *)
(* is the definition after it with a plausible bug.                        *)
(***************************************************************************)
EXTENDS Integers, Sequences

CONSTANTS
    MaxQueue,     \* bound: jobs waiting
    MaxPackets,   \* bound: status packets not yet read
    AsbRetries    \* asbRetries

ASSUME BoundsAssumption ==
    MaxQueue \in Nat \ {0} /\ MaxPackets \in Nat \ {0} /\ AsbRetries \in Nat

VARIABLES
    printer,      \* the hardware
    packets,      \* what it sent and the engine has not read
    status,
    loop,         \* where run() stands
    link,         \* the connection jobs are written through is there
    held,         \* the USB device is claimed
    asb,          \* readUntilGone: whether it heard a packet, and resends so far
    stop,         \* where stop() stands
    needsBufferClear,
    queue,        \* jobs waiting, each whether it respects the status (enforceStatus)
    job           \* the job being written

jobs == <<queue, job>>
loopVars == <<status, loop, link, held, asb>>
vars == <<printer, packets, loopVars, stop, needsBufferClear, jobs>>

Reports == {"ready", "fault"}
Silent == [heard |-> FALSE, resends |-> 0]
\* cut: how the raster the printer is inside of was cut off.
PrinterType == [plugged : BOOLEAN, condition : Reports, asb : BOOLEAN,
                cut : {"no", "abort", "error"}]
\* clear: its bytes begin with DLE DC4 fn 8.
JobType == [writing : BOOLEAN, enforce : BOOLEAN, aborted : BOOLEAN, clear : BOOLEAN]
NoJob == [writing |-> FALSE, enforce |-> FALSE, aborted |-> FALSE, clear |-> FALSE]

running == stop \in {"no", "writing"}

TypeOK ==
    /\ printer \in PrinterType
    /\ packets \in Seq(Reports) /\ Len(packets) <= MaxPackets
    /\ status \in Reports \cup {"unknown", "disconnected"}
    /\ loop \in {"opening", "arming", "reading", "closing", "backoff", "done"}
    /\ link \in BOOLEAN /\ held \in BOOLEAN
    /\ asb \in [heard : BOOLEAN, resends : 0..AsbRetries]
    /\ stop \in {"no", "writing", "waiting", "stopped"}
    /\ needsBufferClear \in BOOLEAN
    /\ queue \in Seq(BOOLEAN) /\ Len(queue) <= MaxQueue
    /\ job \in JobType

\* The engine has just started it.
Init ==
    /\ printer \in [plugged : BOOLEAN, condition : Reports, asb : {FALSE}, cut : {"no"}]
    /\ packets = <<>>
    /\ status = "unknown" /\ loop = "opening" /\ link = FALSE /\ held = FALSE /\ asb = Silent
    /\ stop = "no"
    /\ needsBufferClear = FALSE
    /\ queue = <<>> /\ job = NoJob

-----------------------------------------------------------------------------
(***************************************************************************)
(* The printer.                                                            *)
(***************************************************************************)

engine == <<loopVars, stop, needsBufferClear, jobs>>

\* The cable, or the power and with it what the printer was told and sent.
Unplug ==
    /\ printer.plugged
    /\ \/ printer' = [printer EXCEPT !.plugged = FALSE]
       \/ printer' = [printer EXCEPT !.plugged = FALSE, !.asb = FALSE, !.cut = "no"]
    /\ packets' = <<>>
    /\ UNCHANGED engine

Plug ==
    /\ ~printer.plugged
    /\ \E condition \in Reports :
        printer' = [printer EXCEPT !.plugged = TRUE, !.condition = condition]
    /\ UNCHANGED <<packets, engine>>

ConditionChanges ==
    /\ printer.plugged /\ Len(packets) < MaxPackets
    /\ \E condition \in Reports \ {printer.condition} :
        /\ printer' = [printer EXCEPT !.condition = condition]
        /\ packets' = IF printer.asb THEN Append(packets, condition) ELSE packets
    /\ UNCHANGED engine

\* GS a on is taken: answered with a packet, unless a cut-off raster eats it.
TakesAsbOn ==
    /\ printer.plugged
    /\ \/ /\ Len(packets) < MaxPackets
          /\ printer' = [printer EXCEPT !.asb = TRUE]
          /\ packets' = Append(packets, printer.condition)
       \/ /\ printer.cut # "no" \/ Len(packets) = MaxPackets
          /\ UNCHANGED <<printer, packets>>

-----------------------------------------------------------------------------
(***************************************************************************)
(* The connection.                                                         *)
(***************************************************************************)

\* Fault: a job goes on when its printer is gone.
AbortingFault(s, enforce) == enforce /\ s = "fault"

\* What aborts a job: the connection, and with enforceStatus a fault.
Aborting(s, enforce) == s = "disconnected" \/ (enforce /\ s = "fault")

\* A changed status is emitted: the job being written hears it.
update(s) ==
    /\ status' = s
    /\ job' = [job EXCEPT !.aborted =
                @ \/ (job.writing /\ s # status /\ Aborting(s, job.enforce))]
    /\ UNCHANGED queue

\* Fault: what the last connection said still stands.
OpenedStatusKept == status

OpenedStatus == "unknown"

OpenSucceeds ==
    /\ loop = "opening" /\ printer.plugged
    /\ held' = TRUE
    /\ IF running
       THEN /\ link' = TRUE /\ asb' = Silent
            /\ loop' = "arming"
            /\ update(OpenedStatus)
       ELSE loop' = "closing" /\ UNCHANGED <<link, asb, status, jobs>>
    /\ UNCHANGED <<printer, packets, stop, needsBufferClear>>

\* No printer, or it cannot be claimed.
OpenFails ==
    /\ loop = "opening"
    /\ IF running THEN loop' = "backoff" /\ update("disconnected")
                  ELSE loop' = "done" /\ UNCHANGED <<status, jobs>>
    /\ UNCHANGED <<printer, packets, link, held, asb, stop, needsBufferClear>>

\* The loop's own GS a, at first or again.  The write has no limit: it waits for
\* as long as the printer takes no data.  Only then the loop looks whether it
\* still runs.
Arm ==
    /\ loop = "arming"
    /\ TakesAsbOn
    /\ IF running THEN loop' = "reading" /\ UNCHANGED link
                  ELSE loop' = "closing" /\ link' = FALSE
    /\ UNCHANGED <<status, held, asb, stop, needsBufferClear, jobs>>

\* Fault: one resend too many.
MayResendOneMore == ~asb.heard /\ asb.resends <= AsbRetries

MayResend == ~asb.heard /\ asb.resends < AsbRetries

\* Silent for asbRetryMs.  The read that says so may have begun before stop().
Resend ==
    /\ loop = "reading" /\ MayResend
    /\ loop' = "arming"
    /\ asb' = [asb EXCEPT !.resends = @ + 1]
    /\ UNCHANGED <<printer, packets, status, link, held, stop, needsBufferClear, jobs>>

\* Between two reads the loop looks whether it still runs, and lets go if not.
AfterRead ==
    IF running THEN UNCHANGED <<loop, link>> ELSE loop' = "closing" /\ link' = FALSE

ReadPacket ==
    /\ loop = "reading" /\ printer.plugged /\ packets # <<>>
    /\ packets' = Tail(packets)
    /\ asb' = [asb EXCEPT !.heard = TRUE]
    /\ update(Head(packets))
    /\ AfterRead
    /\ UNCHANGED <<printer, held, stop, needsBufferClear>>

ReadEmpty ==
    /\ loop = "reading" /\ ~running
    /\ AfterRead
    /\ UNCHANGED <<printer, packets, status, held, asb, stop, needsBufferClear, jobs>>

\* A read or a GS a fails: unplugged, or an error of USB.  A stopping loop
\* leaves its connection to stop().
ConnectionLost ==
    /\ loop \in {"arming", "reading"}
    /\ IF running
       THEN loop' = "closing" /\ link' = FALSE /\ update("disconnected")
       ELSE loop' = "done" /\ UNCHANGED <<link, status, jobs>>
    /\ UNCHANGED <<printer, packets, held, asb, stop, needsBufferClear>>

\* Transfers in flight are cancelled, the device is released.
Closed ==
    /\ loop = "closing"
    /\ held' = FALSE
    /\ loop' = IF running THEN "backoff" ELSE "done"
    /\ UNCHANGED <<printer, packets, status, link, asb, stop, needsBufferClear, jobs>>

\* Its time is over, a printer was plugged in, or stop() woke it.
BackoffEnds ==
    /\ loop = "backoff"
    /\ loop' = IF running THEN "opening" ELSE "done"
    /\ UNCHANGED <<printer, packets, status, link, held, asb, stop, needsBufferClear, jobs>>

-----------------------------------------------------------------------------
(***************************************************************************)
(* Stopping: status back is turned off, for half a second at most, before  *)
(* the loop is told; it may lose and regain the printer meanwhile.         *)
(***************************************************************************)

StopBegins ==
    /\ stop = "no"
    /\ stop' = IF link THEN "writing" ELSE "waiting"
    /\ UNCHANGED <<printer, packets, loopVars, needsBufferClear, jobs>>

StopWritten ==
    /\ stop = "writing"
    /\ stop' = "waiting"
    /\ \/ printer.plugged /\ printer' = [printer EXCEPT !.asb = FALSE]
       \/ UNCHANGED printer
    /\ UNCHANGED <<packets, loopVars, needsBufferClear, jobs>>

\* Fault: what the loop left behind is not looked for.
HeldAsLeft == held

\* A connection the loop left behind is closed here.
HeldAfterStop == held /\ ~link

StopEnds ==
    /\ stop = "waiting" /\ loop = "done"
    /\ stop' = "stopped"
    /\ held' = HeldAfterStop
    /\ link' = FALSE
    /\ UNCHANGED <<printer, packets, status, loop, asb, needsBufferClear, jobs>>

-----------------------------------------------------------------------------
(***************************************************************************)
(* Jobs, one at a time in the order of the calls.                          *)
(***************************************************************************)

print(enforce) ==
    /\ Len(queue) < MaxQueue
    /\ queue' = Append(queue, enforce)
    /\ UNCHANGED <<printer, packets, loopVars, stop, needsBufferClear, job>>

Turn == ~job.writing /\ queue # <<>>

Refused(enforce) == ~link \/ status = "disconnected" \/ (enforce /\ status # "ready")

RefuseJob ==
    /\ Turn /\ Refused(Head(queue))
    /\ queue' = Tail(queue)
    /\ UNCHANGED <<printer, packets, loopVars, stop, needsBufferClear, job>>

WriteJob ==
    /\ Turn /\ ~Refused(Head(queue))
    /\ queue' = Tail(queue)
    /\ job' = [writing |-> TRUE, enforce |-> Head(queue), aborted |-> FALSE,
               clear |-> needsBufferClear]
    /\ UNCHANGED <<printer, packets, loopVars, stop, needsBufferClear>>

\* Fault: a stalled job is only logged.
StallLogged == job

StallAborts == [job EXCEPT !.aborted = TRUE]

\* stallMs without the printer taking it.
Stall ==
    /\ job.writing /\ ~job.aborted
    /\ job' = StallAborts
    /\ UNCHANGED <<printer, packets, loopVars, stop, needsBufferClear, queue>>

\* The printer took every byte: its ESC @ and GS a among them, and the clear
\* before them if there is one.  Aborting comes too late.
WriteDone ==
    /\ job.writing /\ held /\ printer.plugged
    /\ \E cut \in {"no"} \cup IF job.clear THEN {} ELSE {printer.cut} :
        printer' = [printer EXCEPT !.cut = cut, !.asb = (cut = "no") \/ @]
    /\ packets' = IF printer'.cut = "no" /\ Len(packets) < MaxPackets
                  THEN Append(packets, printer.condition) ELSE packets
    /\ needsBufferClear' = FALSE
    /\ job' = NoJob
    /\ UNCHANGED <<loopVars, stop, queue>>

\* Fault: what an earlier job left is forgotten.
ClearAsAborted == job.aborted

ClearAfterFailure == needsBufferClear \/ job.aborted

\* The transfer is cancelled, by the abort or with its connection, or fails by
\* itself; some bytes went out before.
WriteFails ==
    /\ job.writing
    /\ \E cut \in {printer.cut, IF job.aborted THEN "abort" ELSE "error"} :
        printer' = [printer EXCEPT !.cut = IF @ = "no" THEN cut ELSE @]
    /\ needsBufferClear' = ClearAfterFailure
    /\ job' = NoJob
    /\ UNCHANGED <<packets, loopVars, stop, queue>>

-----------------------------------------------------------------------------

Loop ==
    \/ OpenSucceeds \/ OpenFails \/ Arm \/ Resend \/ ReadPacket \/ ReadEmpty
    \/ ConnectionLost \/ Closed \/ BackoffEnds

Next ==
    \/ Unplug \/ Plug \/ ConditionChanges
    \/ Loop
    \/ StopBegins \/ StopWritten \/ StopEnds
    \/ \E enforce \in BOOLEAN : print(enforce)
    \/ RefuseJob \/ WriteJob \/ Stall \/ WriteDone \/ WriteFails

Unplugged == ~printer.plugged /\ ConnectionLost

\* The loop's awaits return (an open answers, a close is bounded, a backoff is
\* a timer, a read has a timeout, a transfer to a printer that is gone fails),
\* the job's turn comes, the stall timer fires, and a cancelled or closed
\* transfer ends.  Nothing makes a printer that is there take the loop's GS a.
Fairness ==
    /\ WF_vars(OpenSucceeds \/ OpenFails) /\ SF_vars(Unplugged) /\ WF_vars(Closed)
    /\ WF_vars(BackoffEnds) /\ WF_vars(ReadEmpty)
    /\ WF_vars(StopWritten) /\ WF_vars(StopEnds)
    /\ WF_vars(RefuseJob \/ WriteJob) /\ WF_vars(Stall)
    /\ WF_vars(job.aborted /\ (WriteDone \/ WriteFails))

Spec == Init /\ [][Next]_vars /\ Fairness

-----------------------------------------------------------------------------
(***************************************************************************)
(* What must hold.                                                         *)
(***************************************************************************)

\* No guest's job goes on into a printer the engine knows is gone, and none
\* that respects the status into one it knows to be at fault or has heard
\* nothing of, however the connection and the status turned since it began.
FaultsAbort ==
    job.writing =>
        /\ status = "disconnected" => job.aborted
        /\ job.enforce /\ status # "ready" => job.aborted
        /\ ~link /\ running => job.aborted

\* After an aborted job the next one starts with a buffer clear, and so do the
\* ones after it until one went through.  (A job whose transfer fails by itself
\* is not aborted: what it left in the printer is not cleared.)
AbortedJobsAreCleared ==
    [][WriteJob /\ printer.cut = "abort" => job'.clear]_vars

\* stop() lets go of the printer, whatever it interrupted.
StopReleases == stop = "stopped" => ~held /\ ~link

Pending == Len(queue) + IF job.writing THEN 1 ELSE 0

\* The loop waits for a printer that is there to take its GS a.
Untaken == loop = "arming" /\ printer.plugged

\* Jobs keep being answered while there are any: a silent, broken or unplugged
\* printer hangs none.  Nor does it hang stop(), wherever stop() meets the loop,
\* but for one that stays plugged in and never takes the loop's own GS a.
JobsSettle ==
    /\ []<>(Pending = 0) \/ []<><<Pending' < Pending>>_vars
    /\ (stop # "no" ~> stop = "stopped") \/ <>[]Untaken

\* The status as PrinterStatus promises it.
Status == INSTANCE PrinterStatus
StatusSpec == Status!Spec

=============================================================================
