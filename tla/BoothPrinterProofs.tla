-------------------------- MODULE BoothPrinterProofs --------------------------
(***************************************************************************)
(* What the loop, stop() and the job being written may rely on of each     *)
(* other, for queues, packets and resends of any number: from it, that no  *)
(* job goes on into a printer known to be gone or at fault, that a cut-off *)
(* raster is cleared, that stop() lets go, and that the status is the one  *)
(* PrinterStatus promises.                                                 *)
(***************************************************************************)
EXTENDS BoothPrinter, SequenceTheorems, TLAPS

\* Jobs have a connection exactly while the loop reads from it, or when the
\* loop that lost it left it to stop(); without one, the device is let go of
\* and the status says nothing of the printer.
ConnectionFits ==
    /\ loop \in {"arming", "reading"} => link /\ status # "disconnected"
    /\ link => loop \in {"arming", "reading", "done"}
    /\ loop \in {"opening", "backoff"} => ~held
    /\ loop = "done" => ~running /\ (held => link)
    /\ running /\ loop \in {"opening", "closing", "backoff"} =>
          status \in {"unknown", "disconnected"}

\* A raster an abort cut off is remembered until a job clears it.
CutIsRemembered ==
    printer.cut = "abort" => needsBufferClear /\ (job.writing => job.clear)

StoppedFits == stop = "stopped" => loop = "done" /\ ~held /\ ~link

PrinterInv == TypeOK /\ ConnectionFits /\ CutIsRemembered /\ FaultsAbort /\ StoppedFits

-----------------------------------------------------------------------------
\* A changed status is heard by the job being written: it stays one, and a job
\* the new status is against is aborted by now.
LEMMA UpdateAborts ==
  ASSUME TypeOK, NEW s \in Reports \cup {"unknown", "disconnected"}, update(s)
  PROVE  /\ job' \in JobType /\ queue' = queue /\ status' = s
         /\ job'.writing = job.writing /\ job'.enforce = job.enforce
         /\ job'.clear = job.clear
         /\ job.aborted => job'.aborted
         /\ job.writing /\ s # status /\ Aborting(s, job.enforce) => job'.aborted
  BY DEF update, TypeOK, JobType

\* The printer's packets are emptied or get one more while there is room.
PacketsFit(sent) == sent \in Seq(Reports) /\ Len(sent) <= MaxPackets

LEMMA PacketsMove ==
  ASSUME PacketsFit(packets)
  PROVE  /\ PacketsFit(<<>>)
         /\ \A report \in Reports :
               Len(packets) < MaxPackets => PacketsFit(Append(packets, report))
<1>1. PacketsFit(<<>>)
  BY BoundsAssumption, EmptySeq DEF PacketsFit
<1>2. ASSUME NEW report \in Reports, Len(packets) < MaxPackets
      PROVE  PacketsFit(Append(packets, report))
  <2>1. Len(packets) \in Nat /\ MaxPackets \in Nat
    BY BoundsAssumption, LenProperties DEF PacketsFit
  <2>. QED
    BY <1>2, <2>1, AppendProperties DEF PacketsFit
<1>. QED
  BY <1>1, <1>2

\* The printer's own changes.
LEMMA PrinterChanges ==
  ASSUME PrinterInv, Unplug \/ Plug \/ ConditionChanges
  PROVE  PrinterInv' /\ status' = status
<1>1. /\ UNCHANGED <<status, loop, link, held, asb, stop, needsBufferClear, queue, job>>
      /\ printer' \in PrinterType /\ printer'.cut \in {"no", printer.cut}
      /\ packets' \in Seq(Reports) /\ Len(packets') <= MaxPackets
  <2>. USE DEF PrinterInv, TypeOK, engine, loopVars, jobs
  <2>1. CASE Unplug
    <3>1. printer' \in PrinterType /\ printer'.cut \in {"no", printer.cut}
      BY <2>1 DEF Unplug, PrinterType
    <3>2. PacketsFit(packets')
      BY <2>1, PacketsMove DEF Unplug, PacketsFit
    <3>. QED
      BY <2>1, <3>1, <3>2 DEF Unplug, PacketsFit
  <2>2. CASE Plug
    BY <2>2 DEF PrinterType, Plug
  <2>3. CASE ConditionChanges
    <3>1. printer' \in PrinterType /\ printer'.cut = printer.cut
      BY <2>3 DEF ConditionChanges, PrinterType
    <3>2. PacketsFit(packets')
      BY <2>3, PacketsMove DEF ConditionChanges, PacketsFit
    <3>. QED
      BY <2>3, <3>1, <3>2 DEF ConditionChanges, PacketsFit
  <2>. QED
    BY <2>1, <2>2, <2>3
<1>. QED
  BY <1>1 DEF PrinterInv, TypeOK, ConnectionFits, CutIsRemembered, FaultsAbort, StoppedFits,
     running

\* The printer is asked for its status back: all that changes at the engine is
\* where the loop stands.
LEMMA AsbTaken ==
  ASSUME PrinterInv, TakesAsbOn
  PROVE  /\ printer' \in PrinterType /\ printer'.cut = printer.cut
         /\ packets' \in Seq(Reports) /\ Len(packets') <= MaxPackets
<1>. USE DEF PrinterInv, TypeOK, TakesAsbOn
<1>1. printer' \in PrinterType /\ printer'.cut = printer.cut /\ printer.condition \in Reports
  BY DEF PrinterType
<1>2. PacketsFit(packets')
  BY <1>1, PacketsMove DEF PacketsFit
<1>. QED
  BY <1>1, <1>2 DEF PacketsFit

\* GS a, at first and while the printer is silent; a loop that was stopped while
\* it waited lets go.
LEMMA LoopAsks ==
  ASSUME PrinterInv, Arm \/ Resend
  PROVE  PrinterInv' /\ status' = status
<1>. USE DEF PrinterInv, TypeOK, ConnectionFits, CutIsRemembered, FaultsAbort, StoppedFits,
             running, jobs
<1>1. CASE Arm
  <2>1. /\ printer' \in PrinterType /\ printer'.cut = printer.cut
        /\ packets' \in Seq(Reports) /\ Len(packets') <= MaxPackets
    BY <1>1, AsbTaken DEF Arm
  <2>. QED
    BY <1>1, <2>1 DEF Arm
<1>2. CASE Resend
  <2>1. asb.resends + 1 \in 0..AsbRetries
    BY <1>2, BoundsAssumption DEF Resend, MayResend
  <2>2. asb' \in [heard : BOOLEAN, resends : 0..AsbRetries]
    BY <1>2, <2>1 DEF Resend
  <2>. QED
    BY <1>2, <2>2 DEF Resend
<1>. QED
  BY <1>1, <1>2

\* A new connection: what the last one said is over, and a job written through
\* that one was aborted with it.
LEMMA Opens ==
  ASSUME PrinterInv, OpenSucceeds \/ OpenFails
  PROVE  PrinterInv' /\ [Status!Next]_status
<1>. USE DEF PrinterInv, TypeOK, ConnectionFits, CutIsRemembered, FaultsAbort, StoppedFits,
             running
<1>1. CASE OpenSucceeds /\ running
  <2>1. update("unknown") /\ loop = "opening" /\ loop' = "arming" /\ link' /\ held' /\ asb' = Silent
        /\ UNCHANGED <<printer, packets, stop, needsBufferClear>>
    BY <1>1 DEF OpenSucceeds, OpenedStatus
  <2>2. job.writing => job.aborted
    BY <1>1, <2>1
  <2>3. asb' \in [heard : BOOLEAN, resends : 0..AsbRetries]
    BY <2>1, BoundsAssumption DEF Silent
  <2>5. TypeOK'
    BY <1>1, <2>1, <2>3, UpdateAborts
  <2>6. ConnectionFits' /\ CutIsRemembered' /\ StoppedFits'
    BY <1>1, <2>1, UpdateAborts
  <2>7. FaultsAbort'
    BY <1>1, <2>1, <2>2, UpdateAborts
  <2>4. [Status!Next]_status
    BY <1>1, <2>1, UpdateAborts DEF Status!Next, Status!Connects
  <2>. QED
    BY <2>4, <2>5, <2>6, <2>7
<1>2. CASE OpenSucceeds /\ ~running
  BY <1>2 DEF OpenSucceeds, jobs
<1>3. CASE OpenFails /\ running
  <2>1. update("disconnected") /\ loop = "opening" /\ loop' = "backoff"
        /\ UNCHANGED <<printer, packets, link, held, asb, stop, needsBufferClear>>
    BY <1>3 DEF OpenFails
  <2>2. job.writing => job.aborted
    BY <1>3, <2>1
  <2>3. PrinterInv'
    BY <1>3, <2>1, <2>2, UpdateAborts
  <2>4. [Status!Next]_status
    BY <1>3, <2>1, UpdateAborts DEF Status!Next, Status!Loses
  <2>. QED
    BY <2>3, <2>4
<1>4. CASE OpenFails /\ ~running
  BY <1>4 DEF OpenFails, jobs
<1>. QED
  BY <1>1, <1>2, <1>3, <1>4

\* The printer's word, and a job the word is against is aborted.
LEMMA Reads ==
  ASSUME PrinterInv, ReadPacket \/ ReadEmpty
  PROVE  PrinterInv' /\ [Status!Next]_status
<1>. USE DEF PrinterInv, TypeOK, ConnectionFits, CutIsRemembered, FaultsAbort, StoppedFits,
             running
<1>1. CASE ReadPacket
  <2>1. /\ loop = "reading" /\ packets # <<>> /\ packets' = Tail(packets)
        /\ asb' = [asb EXCEPT !.heard = TRUE]
        /\ UNCHANGED <<printer, held, stop, needsBufferClear>>
        /\ IF running THEN UNCHANGED <<loop, link>> ELSE loop' = "closing" /\ link' = FALSE
    BY <1>1 DEF ReadPacket, AfterRead
  <2>2. Head(packets) \in Reports /\ PacketsFit(packets')
    BY <2>1, BoundsAssumption, HeadTailProperties DEF PacketsFit
  <2>3. update(Head(packets))
    BY <1>1 DEF ReadPacket
  <2>4. PrinterInv'
    <3>1. asb' \in [heard : BOOLEAN, resends : 0..AsbRetries]
      BY <2>1
    <3>2. TypeOK'
      <4>1. link' \in BOOLEAN /\ loop' \in {"reading", "closing"}
        BY <2>1
      <4>. QED
        BY <2>1, <2>2, <2>3, <3>1, <4>1, UpdateAborts DEF PacketsFit
    <3>3. ConnectionFits' /\ CutIsRemembered' /\ StoppedFits'
      BY <2>1, <2>2, <2>3, UpdateAborts DEF Reports
    <3>4. FaultsAbort'
      BY <2>1, <2>2, <2>3, UpdateAborts DEF Reports, Aborting
    <3>. QED
      BY <3>2, <3>3, <3>4
  <2>5. [Status!Next]_status
    <3>1. Status!Reports(Head(packets)) /\ Head(packets) \in Status!Conditions
      BY <2>1, <2>2, <2>3, UpdateAborts DEF Status!Reports, Status!Reported, Status!Conditions,
         Reports
    <3>. QED
      BY <3>1 DEF Status!Next
  <2>. QED
    BY <2>4, <2>5
<1>2. CASE ReadEmpty
  BY <1>2 DEF ReadEmpty, AfterRead, jobs
<1>. QED
  BY <1>1, <1>2

\* A lost connection takes the job with it; a stopping loop leaves its own.
LEMMA Loses ==
  ASSUME PrinterInv, ConnectionLost
  PROVE  PrinterInv' /\ [Status!Next]_status
<1>. USE DEF PrinterInv, TypeOK, ConnectionFits, CutIsRemembered, FaultsAbort, StoppedFits,
             running
<1>1. CASE running
  <2>1. /\ update("disconnected") /\ loop \in {"arming", "reading"}
        /\ loop' = "closing" /\ link' = FALSE
        /\ UNCHANGED <<printer, packets, held, asb, stop, needsBufferClear>>
    BY <1>1 DEF ConnectionLost
  <2>2. PrinterInv'
    BY <1>1, <2>1, UpdateAborts DEF Aborting
  <2>3. [Status!Next]_status
    BY <1>1, <2>1, UpdateAborts DEF Status!Next, Status!Loses
  <2>. QED
    BY <2>2, <2>3
<1>2. CASE ~running
  BY <1>2 DEF ConnectionLost, jobs
<1>. QED
  BY <1>1, <1>2

\* A released device, and the wait after it.
LEMMA Rests ==
  ASSUME PrinterInv, Closed \/ BackoffEnds
  PROVE  PrinterInv' /\ status' = status
<1>. USE DEF PrinterInv, TypeOK, ConnectionFits, CutIsRemembered, FaultsAbort, StoppedFits,
             running, jobs
<1>1. CASE Closed
  BY <1>1 DEF Closed
<1>2. CASE BackoffEnds
  BY <1>2 DEF BackoffEnds
<1>. QED
  BY <1>1, <1>2

\* A loop that is done has let go, or left its connection to stop().
LEMMA Stops ==
  ASSUME PrinterInv, StopBegins \/ StopWritten \/ StopEnds
  PROVE  PrinterInv' /\ status' = status
<1>. USE DEF PrinterInv, TypeOK, ConnectionFits, CutIsRemembered, FaultsAbort, StoppedFits,
             running
<1>1. CASE StopBegins
  BY <1>1 DEF StopBegins, loopVars, jobs
<1>2. CASE StopWritten
  <2>1. printer' \in PrinterType /\ printer'.cut = printer.cut
    BY <1>2 DEF StopWritten, PrinterType
  <2>. QED
    BY <1>2, <2>1 DEF StopWritten, loopVars, jobs
<1>3. CASE StopEnds
  BY <1>3 DEF StopEnds, HeldAfterStop, jobs
<1>. QED
  BY <1>1, <1>2, <1>3

\* A job is only begun through a connection, in a status it accepts.
LEMMA JobsQueue ==
  ASSUME PrinterInv, (\E enforce \in BOOLEAN : print(enforce)) \/ RefuseJob \/ WriteJob
  PROVE  PrinterInv' /\ status' = status
<1>. USE DEF PrinterInv, TypeOK, ConnectionFits, CutIsRemembered, FaultsAbort, StoppedFits,
             running
<1>1. ASSUME NEW enforce \in BOOLEAN, print(enforce) PROVE PrinterInv' /\ status' = status
  BY <1>1, BoundsAssumption DEF print, loopVars
<1>2. CASE RefuseJob
  BY <1>2, BoundsAssumption DEF RefuseJob, Turn, loopVars
<1>3. CASE WriteJob
  <2>1. /\ Head(queue) \in BOOLEAN /\ queue' \in Seq(BOOLEAN) /\ Len(queue') <= MaxQueue
        /\ UNCHANGED <<printer, packets, status, loop, link, held, asb, stop, needsBufferClear>>
    BY <1>3, BoundsAssumption DEF WriteJob, Turn, loopVars
  <2>2. /\ job' \in JobType /\ job'.clear = needsBufferClear /\ job'.writing
        /\ job'.enforce = Head(queue) /\ ~job'.aborted
    BY <1>3, <2>1 DEF WriteJob, JobType
  <2>3. link /\ status # "disconnected" /\ (Head(queue) => status = "ready")
    BY <1>3, <2>1 DEF WriteJob, Refused
  <2>. QED
    BY <2>1, <2>2, <2>3
<1>. QED
  BY <1>1, <1>2, <1>3

\* A job ends, and what it left in the printer is remembered.
LEMMA JobsEnd ==
  ASSUME PrinterInv, Stall \/ WriteDone \/ WriteFails
  PROVE  PrinterInv' /\ status' = status
<1>. USE DEF PrinterInv, TypeOK, ConnectionFits, CutIsRemembered, FaultsAbort, StoppedFits,
             running
<1>1. CASE Stall
  BY <1>1 DEF Stall, StallAborts, JobType, loopVars
<1>2. CASE WriteDone
  <2>1. /\ printer' \in PrinterType
        /\ printer'.cut = "abort" => ~job.clear /\ printer.cut = "abort"
    <3>1. PICK cut \in {"no"} \cup IF job.clear THEN {} ELSE {printer.cut} :
             printer' = [printer EXCEPT !.cut = cut, !.asb = (cut = "no") \/ @]
      BY <1>2 DEF WriteDone
    <3>2. cut \in {"no", "abort", "error"}
      BY <3>1 DEF PrinterType
    <3>3. (cut = "no") \/ printer.asb \in BOOLEAN
      BY DEF PrinterType
    <3>. QED
      BY <3>1, <3>2, <3>3 DEF PrinterType
  <2>3. PacketsFit(packets')
    <3>1. printer.condition \in Reports
      BY DEF PrinterType
    <3>. QED
      BY <1>2, <3>1, PacketsMove DEF WriteDone, PacketsFit
  <2>2. printer'.cut # "abort"
    BY <1>2, <2>1 DEF WriteDone
  <2>. QED
    BY <1>2, <2>1, <2>2, <2>3 DEF WriteDone, NoJob, JobType, PacketsFit, loopVars
<1>3. CASE WriteFails
  <2>1. printer' \in PrinterType /\ (printer'.cut = "abort" => needsBufferClear')
    BY <1>3 DEF WriteFails, PrinterType, ClearAfterFailure
  <2>2. needsBufferClear' \in BOOLEAN
    BY <1>3 DEF WriteFails, ClearAfterFailure, JobType
  <2>. QED
    BY <1>3, <2>1, <2>2 DEF WriteFails, NoJob, JobType, loopVars
<1>. QED
  BY <1>1, <1>2, <1>3

-----------------------------------------------------------------------------
\* Every step keeps the invariant, and is one of PrinterStatus or none of it.
LEMMA StepKeeps ==
  ASSUME PrinterInv, [Next]_vars
  PROVE  PrinterInv' /\ [Status!Next]_status
<1>1. CASE Loop
  BY <1>1, LoopAsks, Opens, Reads, Loses, Rests DEF Loop
<1>2. CASE Next /\ ~Loop
  BY <1>2, PrinterChanges, Stops, JobsQueue, JobsEnd DEF Next
<1>3. CASE UNCHANGED vars
  BY <1>3 DEF vars, loopVars, jobs, PrinterInv, TypeOK, ConnectionFits, CutIsRemembered,
     FaultsAbort, StoppedFits, running
<1>. QED
  BY <1>1, <1>2, <1>3

\* The printer's connection, its status, the job being written and a stop under
\* way fit each other in every reachable state.
THEOREM PrinterInvHolds == Spec => []PrinterInv
<1>1. Init => PrinterInv
  <2>1. ASSUME Init PROVE TypeOK
    <3>1. printer \in PrinterType /\ job \in JobType
      BY <2>1 DEF Init, PrinterType, JobType, NoJob
    <3>2. packets \in Seq(Reports) /\ Len(packets) = 0 /\ queue \in Seq(BOOLEAN) /\ Len(queue) = 0
      BY <2>1, EmptySeq DEF Init
    <3>3. asb \in [heard : BOOLEAN, resends : 0..AsbRetries]
      BY <2>1, BoundsAssumption DEF Init, Silent
    <3>4. /\ status = "unknown" /\ loop = "opening" /\ link = FALSE /\ held = FALSE
          /\ stop = "no" /\ needsBufferClear = FALSE
      BY <2>1 DEF Init
    <3>5. Len(packets) <= MaxPackets /\ Len(queue) <= MaxQueue
      BY <3>2, BoundsAssumption
    <3>. QED
      BY <3>1, <3>2, <3>3, <3>4, <3>5 DEF TypeOK
  <2>2. Init => ConnectionFits /\ CutIsRemembered /\ FaultsAbort /\ StoppedFits
    BY DEF Init, ConnectionFits, CutIsRemembered, FaultsAbort, StoppedFits, running, NoJob
  <2>. QED
    BY <2>1, <2>2 DEF PrinterInv
<1>2. PrinterInv /\ [Next]_vars => PrinterInv'
  BY StepKeeps
<1>. QED
  BY <1>1, <1>2, PTL DEF Spec

\* The loop's and the jobs' records keep their types.
THEOREM PrinterTypes == Spec => []TypeOK
<1>1. PrinterInv => TypeOK
  BY DEF PrinterInv
<1>. QED
  BY <1>1, PrinterInvHolds, PTL

\* No job goes on into a printer known to be gone, nor one that respects the
\* status into one not known to be ready (runJob's subscription).
THEOREM JobsAbortOnFaults == Spec => []FaultsAbort
<1>1. PrinterInv => FaultsAbort
  BY DEF PrinterInv
<1>. QED
  BY <1>1, PrinterInvHolds, PTL

\* stop() lets go of the printer, whatever it interrupted.
THEOREM StopLetsGo == Spec => []StopReleases
<1>1. PrinterInv => StopReleases
  BY DEF PrinterInv, StoppedFits, StopReleases
<1>. QED
  BY <1>1, PrinterInvHolds, PTL

\* A raster an abort cut off is cleared by the next job, and by those after it
\* until one went through (needsBufferClear).
THEOREM CutRastersAreCleared == Spec => AbortedJobsAreCleared
<1>1. PrinterInv /\ [Next]_vars => [WriteJob /\ printer.cut = "abort" => job'.clear]_vars
  BY DEF PrinterInv, CutIsRemembered, WriteJob
<1>. QED
  BY <1>1, PrinterInvHolds, PTL DEF Spec, AbortedJobsAreCleared

\* The status booth-printer emits is what the policy is promised: it starts
\* unknown, only the printer's word makes it ready or a fault, and a lost
\* connection ends what the printer said.
THEOREM StatusIsPromised == Spec => StatusSpec
<1>1. Init => status = "unknown"
  BY DEF Init
<1>2. PrinterInv /\ [Next]_vars => [Status!Next]_status
  BY StepKeeps
<1>. QED
  BY <1>1, <1>2, PrinterInvHolds, PTL DEF Spec, StatusSpec, Status!Spec

=============================================================================
