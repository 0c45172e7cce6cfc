----------------------- MODULE PrinterMaintenanceProofs -----------------------
(***************************************************************************)
(* The policy's one timer and the two reasons of the maintenance switch,   *)
(* for any delays and any length of the stream to the page: what the timer *)
(* is armed for in each of the policy's states, and what the page has yet  *)
(* to hear.                                                                *)
(***************************************************************************)
EXTENDS PrinterMaintenance, SequenceTheorems, TLAPS

USE DelaysAssumption

\* Before the engine starts the policy, its memory is a fresh process's.
BootFits ==
    ~watching =>
        /\ status = "unknown" /\ ~heard /\ ~fault /\ since = -1 /\ timer = NoTimer
        /\ badFor = 0 /\ goodFor = 0

\* Through an outage the policy counts what the observer does, and closes the
\* booth when the rest of the present kind's delay is over.
OutageFits ==
    watching /\ ~Printer!CanPrint(status) =>
        /\ since = badFor /\ goodFor = 0
        /\ fault => timer = NoTimer
        /\ ~fault => timer.to /\ timer.left = Delay(status) - since /\ since <= Delay(status)

\* Once the printer can print, only a booth it closed has a timer, armed when
\* the printer was first ready.
RepairFits ==
    watching /\ Printer!CanPrint(status) =>
        /\ since = -1 /\ badFor = 0
        /\ ~fault => timer = NoTimer
        /\ fault => ~timer.to /\ timer.left = LeaveTicks - goodFor /\ goodFor <= LeaveTicks

PolicyInv == TypeOK /\ BootFits /\ OutageFits /\ RepairFits

-----------------------------------------------------------------------------
\* A command sent with room for it leaves a stream of commands.
LEMMA SentFits ==
  ASSUME TypeOK, Room, NEW enabled \in BOOLEAN, Broadcast(enabled) \/ UNCHANGED inbox
  PROVE  inbox' \in Seq(BOOLEAN) /\ Len(inbox') <= MaxInbox
<1>1. CASE UNCHANGED inbox
  BY <1>1 DEF TypeOK
<1>2. CASE Broadcast(enabled) /\ page.connected
  <2>1. inbox' = Append(inbox, enabled)
    BY <1>2 DEF Broadcast
  <2>. QED
    BY <2>1, AppendProperties DEF TypeOK, Room
<1>3. CASE Broadcast(enabled) /\ ~page.connected
  BY <1>3 DEF Broadcast, TypeOK
<1>. QED
  BY <1>1, <1>2, <1>3

LEMMA EnabledIsBoolean == TypeOK => Enabled \in BOOLEAN
  BY DEF TypeOK, Enabled, EnabledWith

\* A change of the switches is told, or makes no difference.
LEMMA FlipFits ==
  ASSUME TypeOK, Room, NEW m \in BOOLEAN, NEW a \in BOOLEAN, NEW f \in BOOLEAN,
         TellFlip(m, a, f)
  PROVE  inbox' \in Seq(BOOLEAN) /\ Len(inbox') <= MaxInbox
<1>1. EnabledWith(m, a, f) \in BOOLEAN
  BY DEF EnabledWith
<1>2. Broadcast(EnabledWith(m, a, f)) \/ UNCHANGED inbox
  BY DEF TellFlip
<1>. QED
  BY <1>1, <1>2, SentFits

-----------------------------------------------------------------------------
(***************************************************************************)
(* The policy.                                                             *)
(***************************************************************************)

LEMMA PolicyInvInit == Init => PolicyInv
<1>. SUFFICES ASSUME Init PROVE PolicyInv
  OBVIOUS
<1>1. /\ timer = [to |-> FALSE, left |-> -1]
      /\ page = [connected |-> FALSE, maintenance |-> FALSE] /\ inbox = <<>>
  BY DEF Init, NoTimer
<1>2. /\ timer \in [to : BOOLEAN, left : -1..DisconnectTicks + LeaveTicks]
      /\ page \in [connected : BOOLEAN, maintenance : BOOLEAN]
      /\ inbox \in Seq(BOOLEAN) /\ Len(inbox) <= MaxInbox
  BY <1>1
<1>3. TypeOK
  <2>1. since \in -1..Long /\ badFor \in 0..Long /\ goodFor \in 0..Long
    BY DEF Init, Long
  <2>2. status \in Printer!Conditions
    BY DEF Init, Printer!Conditions
  <2>. QED
    BY <1>2, <2>1, <2>2 DEF Init, TypeOK
<1>. QED
  BY <1>3 DEF Init, PolicyInv, BootFits, OutageFits, RepairFits

\* What a status that cannot print leads to.
LEMMA UnprintableFits ==
  ASSUME PolicyInv, Room, watching', status' \in Printer!Conditions,
         ~Printer!CanPrint(status'), ~watching => status' = status,
         evaluate(status'), UNCHANGED <<manual, automatic, page>>
  PROVE  PolicyInv'
<1>1. PICK s : s = status'
  OBVIOUS
<1>2. /\ heard' = (heard \/ Printer!Reported(s)) /\ since' = SinceKept
      /\ \/ fault /\ timer' = NoTimer /\ KeepFault
         \/ ~fault /\ Counts(s) /\ setFault(TRUE)
         \/ /\ ~fault /\ ~Counts(s) /\ KeepFault
            /\ timer' = [to |-> TRUE, left |-> Delay(s) - SinceKept]
  BY <1>1 DEF evaluate, EvaluateUnprintable, TimerCleared
<1>3. /\ Printer!CanPrint(status) => badFor' = 0 /\ goodFor' = 0
      /\ ~Printer!CanPrint(status) => UNCHANGED <<badFor, goodFor>>
  BY DEF evaluate, observers, Printer!CanPrint
<1>4. /\ Delay(s) \in Nat \ {0} /\ Delay(s) <= DisconnectTicks
      /\ Long = DisconnectTicks + LeaveTicks + 1 /\ Long \in Nat
  BY DEF Delay, Long
<1>5. /\ SinceKept \in 0..Long /\ since' = badFor' /\ goodFor' = 0
      /\ badFor' \in 0..Long
  <2>1. CASE ~watching
    BY <2>1, <1>2, <1>3, <1>4 DEF PolicyInv, BootFits, SinceKept, Printer!CanPrint
  <2>2. CASE watching /\ Printer!CanPrint(status)
    BY <2>2, <1>2, <1>3, <1>4 DEF PolicyInv, RepairFits, SinceKept
  <2>3. CASE watching /\ ~Printer!CanPrint(status)
    BY <2>3, <1>2, <1>3, <1>4 DEF PolicyInv, OutageFits, SinceKept, TypeOK
  <2>. QED
    BY <2>1, <2>2, <2>3
<1>6. /\ heard' \in BOOLEAN /\ fault' \in BOOLEAN
      /\ inbox' \in Seq(BOOLEAN) /\ Len(inbox') <= MaxInbox
  <2>1. CASE KeepFault
    BY <2>1, <1>2 DEF KeepFault, PolicyInv, TypeOK, Printer!Reported
  <2>2. CASE setFault(TRUE)
    BY <2>2, <1>2, FlipFits DEF setFault, PolicyInv, TypeOK, Printer!Reported
  <2>. QED
    BY <2>1, <2>2, <1>2
<1>7. /\ fault' => timer' = NoTimer
      /\ ~fault' => /\ timer' = [to |-> TRUE, left |-> Delay(s) - since']
                    /\ since' < Delay(s)
  <2>1. CASE fault
    BY <2>1, <1>2 DEF KeepFault
  <2>2. CASE ~fault /\ Counts(s)
    BY <2>2, <1>2 DEF setFault
  <2>3. CASE ~fault /\ ~Counts(s)
    <3>1. timer' = [to |-> TRUE, left |-> Delay(s) - SinceKept] /\ ~fault'
      <4>1. timer' = [to |-> TRUE, left |-> Delay(s) - SinceKept] /\ KeepFault
        BY <2>3, <1>2
      <4>. QED
        BY <4>1, <2>3 DEF KeepFault
    <3>2. SinceKept < Delay(s) /\ since' = SinceKept
      BY <2>3, <1>2, <1>4, <1>5 DEF Counts
    <3>. QED
      BY <3>1, <3>2
  <2>. QED
    BY <2>1, <2>2, <2>3
<1>8. timer' \in [to : BOOLEAN, left : -1..DisconnectTicks + LeaveTicks]
  <2>1. CASE fault'
    <3>1. timer' = [to |-> FALSE, left |-> -1]
      BY <2>1, <1>7 DEF NoTimer
    <3>. QED
      BY <3>1
  <2>2. CASE ~fault'
    <3>1. PICK n : n = Delay(s) - since'
      OBVIOUS
    <3>2. n \in 0..DisconnectTicks /\ timer' = [to |-> TRUE, left |-> n]
      BY <2>2, <3>1, <1>7, <1>4, <1>5, <1>2
    <3>. QED
      BY <3>2
  <2>. QED
    BY <2>1, <2>2
<1>9. TypeOK'
  BY <1>1, <1>2, <1>4, <1>5, <1>6, <1>8 DEF PolicyInv, TypeOK
<1>10. OutageFits'
  BY <1>1, <1>5, <1>7, <1>4, <1>2 DEF OutageFits, Delay
<1>. QED
  BY <1>9, <1>10 DEF PolicyInv, BootFits, RepairFits

\* What is left of the leave delay.
LEMMA RestOfDelay ==
  ASSUME NEW n \in Nat, n <= LeaveTicks PROVE LeaveTicks - n \in 0..LeaveTicks
  OBVIOUS

\* What a status that can print leads to.
LEMMA PrintableFits ==
  ASSUME PolicyInv, Room, watching', status' \in Printer!Conditions,
         Printer!CanPrint(status'), ~watching => status' = status,
         evaluate(status'), UNCHANGED <<manual, automatic, page>>
  PROVE  PolicyInv'
<1>1. /\ watching /\ heard' \in BOOLEAN
      /\ since' = -1 /\ UNCHANGED <<fault, inbox>>
      /\ ~fault => timer' = NoTimer
      /\ fault /\ timer = NoTimer => timer' = [to |-> FALSE, left |-> LeaveTicks]
      /\ fault /\ timer # NoTimer => timer' = timer
  BY DEF evaluate, EvaluatePrintable, KeepFault, TimerCleared, PolicyInv, TypeOK, BootFits,
         Printer!Reported, Printer!CanPrint
<1>2. /\ ~Printer!CanPrint(status) => badFor' = 0 /\ goodFor' = 0
      /\ Printer!CanPrint(status) => UNCHANGED <<badFor, goodFor>>
  BY DEF evaluate, observers, Printer!CanPrint
<1>3. Long \in Nat /\ LeaveTicks \in Nat /\ DisconnectTicks \in Nat
  BY DEF Long
<1>4. /\ badFor' = 0 /\ goodFor' \in 0..Long
      /\ fault' => timer' = [to |-> FALSE, left |-> LeaveTicks - goodFor'] /\ goodFor' <= LeaveTicks
  <2>1. CASE Printer!CanPrint(status) /\ fault
    <3>1. timer # NoTimer /\ timer = [to |-> FALSE, left |-> LeaveTicks - goodFor]
      BY <2>1, <1>1, <1>3 DEF PolicyInv, RepairFits, TypeOK, NoTimer
    <3>. QED
      BY <3>1, <2>1, <1>1, <1>2 DEF PolicyInv, RepairFits, TypeOK
  <2>2. CASE Printer!CanPrint(status) /\ ~fault
    BY <2>2, <1>1, <1>2 DEF PolicyInv, RepairFits, TypeOK
  <2>3. CASE ~Printer!CanPrint(status)
    BY <2>3, <1>1, <1>2, <1>3 DEF PolicyInv, OutageFits
  <2>. QED
    BY <2>1, <2>2, <2>3
<1>5. timer' \in [to : BOOLEAN, left : -1..DisconnectTicks + LeaveTicks]
  <2>1. CASE fault'
    <3>1. PICK n : n = LeaveTicks - goodFor'
      OBVIOUS
    <3>2. n \in 0..LeaveTicks /\ timer' = [to |-> FALSE, left |-> n]
      <4>1. goodFor' <= LeaveTicks /\ goodFor' \in Nat
        BY <2>1, <1>3, <1>4
      <4>2. timer' = [to |-> FALSE, left |-> LeaveTicks - goodFor']
        BY <2>1, <1>4
      <4>. QED
        BY <4>1, <4>2, <3>1, RestOfDelay
    <3>. QED
      BY <3>2
  <2>2. CASE ~fault'
    <3>1. timer' = [to |-> FALSE, left |-> -1]
      BY <2>2, <1>1 DEF NoTimer
    <3>. QED
      BY <3>1
  <2>. QED
    BY <2>1, <2>2
<1>6. TypeOK'
  BY <1>1, <1>3, <1>4, <1>5 DEF PolicyInv, TypeOK
<1>7. RepairFits'
  BY <1>1, <1>4, <1>3 DEF RepairFits
<1>. QED
  BY <1>6, <1>7 DEF PolicyInv, BootFits, OutageFits

LEMMA StatusFits ==
  ASSUME PolicyInv, Room, watching', status' \in Printer!Conditions,
         ~watching => status' = status,
         evaluate(status'), UNCHANGED <<manual, automatic, page>>
  PROVE  PolicyInv'
  BY UnprintableFits, PrintableFits

LEMMA TimerFits ==
  ASSUME PolicyInv, TimerFires
  PROVE  PolicyInv'
<1>1. /\ timer.left = 0 /\ Room /\ watching /\ UNCHANGED <<status, watching, since, page>>
      /\ UNCHANGED <<heard, manual, automatic, badFor, goodFor>>
      /\ timer' = NoTimer /\ fault' = timer.to /\ TellFlip(manual, automatic, timer.to)
  BY DEF TimerFires, setFault, PolicyInv, BootFits, NoTimer, switch, observers
<1>2. fault' \in BOOLEAN /\ inbox' \in Seq(BOOLEAN) /\ Len(inbox') <= MaxInbox
  BY <1>1, FlipFits DEF PolicyInv, TypeOK
<1>3. TypeOK'
  BY <1>1, <1>2 DEF PolicyInv, TypeOK, NoTimer, Long
<1>4. OutageFits'
  BY <1>1 DEF PolicyInv, OutageFits, NoTimer
<1>5. RepairFits'
  BY <1>1 DEF PolicyInv, RepairFits, NoTimer
<1>. QED
  BY <1>1, <1>3, <1>4, <1>5 DEF PolicyInv, BootFits

LEMMA TickFits ==
  ASSUME PolicyInv, Tick
  PROVE  PolicyInv'
<1>1. /\ watching /\ timer.left # 0
      /\ timer' = [timer EXCEPT !.left = IF @ > 0 THEN @ - 1 ELSE @]
      /\ UNCHANGED <<status, watching, heard, fault, manual, automatic, page, inbox>>
  BY DEF Tick, switch, channel
<1>2. /\ since' = IF since \in 0..(Long - 1) THEN since + 1 ELSE since
      /\ badFor' = IF ~Printer!CanPrint(status) /\ badFor < Long THEN badFor + 1 ELSE badFor
      /\ goodFor' = IF Printer!CanPrint(status) /\ goodFor < Long THEN goodFor + 1 ELSE goodFor
  BY DEF Tick
<1>3. Long = DisconnectTicks + LeaveTicks + 1 /\ Long \in Nat
  BY DEF Long
<1>4. /\ timer'.to = timer.to
      /\ timer'.left = IF timer.left > 0 THEN timer.left - 1 ELSE timer.left
      /\ timer' \in [to : BOOLEAN, left : -1..DisconnectTicks + LeaveTicks]
      /\ timer = NoTimer => timer' = NoTimer
  <2>1. timer \in [to : BOOLEAN, left : -1..DisconnectTicks + LeaveTicks]
    BY DEF PolicyInv, TypeOK
  <2>2. CASE timer.left > 0
    <3>1. timer' = [timer EXCEPT !.left = timer.left - 1]
      BY <2>2, <1>1
    <3>2. timer # NoTimer
      BY <2>2 DEF NoTimer
    <3>. QED
      BY <2>1, <2>2, <3>1, <3>2
  <2>3. CASE ~(timer.left > 0)
    <3>1. timer' = timer
      BY <2>1, <2>3, <1>1
    <3>. QED
      BY <2>1, <2>3, <3>1
  <2>. QED
    BY <2>2, <2>3
<1>5. TypeOK'
  <2>1. since' \in -1..Long /\ badFor' \in 0..Long /\ goodFor' \in 0..Long
    BY <1>2, <1>3 DEF PolicyInv, TypeOK
  <2>. QED
    BY <1>1, <1>4, <2>1 DEF PolicyInv, TypeOK
<1>6. OutageFits'
  <2>1. CASE fault
    BY <2>1, <1>1, <1>2, <1>3, <1>4 DEF PolicyInv, OutageFits, TypeOK
  <2>2. CASE ~fault
    <3>1. Delay(status) \in Nat /\ Delay(status) <= DisconnectTicks /\ Delay(status') = Delay(status)
      BY <1>1 DEF Delay
    <3>2. SUFFICES ASSUME ~Printer!CanPrint(status)
                   PROVE  /\ since' = badFor' /\ goodFor' = 0
                          /\ timer'.to /\ timer'.left = Delay(status) - since'
                          /\ since' <= Delay(status)
      BY <2>2, <3>1, <1>1 DEF OutageFits
    <3>3. /\ since = badFor /\ goodFor = 0 /\ since \in 0..Long
          /\ timer.to /\ timer.left = Delay(status) - since /\ since <= Delay(status)
      BY <2>2, <3>2, <1>1 DEF PolicyInv, OutageFits, TypeOK
    <3>4. since < Delay(status) /\ since < Long
      BY <3>1, <3>3, <1>1, <1>3
    <3>5. since' = since + 1 /\ badFor' = badFor + 1 /\ goodFor' = goodFor
      BY <3>2, <3>3, <3>4, <1>2, <1>3
    <3>6. timer'.to = timer.to /\ timer'.left = timer.left - 1
      BY <3>1, <3>3, <3>4, <1>3, <1>4
    <3>. QED
      BY <3>1, <3>3, <3>4, <3>5, <3>6
  <2>. QED
    BY <2>1, <2>2
<1>7. RepairFits'
  BY <1>1, <1>2, <1>3, <1>4 DEF PolicyInv, RepairFits, TypeOK
<1>. QED
  BY <1>1, <1>5, <1>6, <1>7 DEF PolicyInv, BootFits

\* The page, staff and their switches leave the policy alone.
LEMMA SwitchFits ==
  ASSUME PolicyInv,
         \/ PageConnects \/ PageHears \/ PageLeaves
         \/ \E b \in BOOLEAN : setManual(b) \/ setAutomatic(b)
         \/ UNCHANGED vars
  PROVE  PolicyInv'
<1>1. UNCHANGED <<status, watching, policy, observers>>
  BY DEF PageConnects, PageHears, PageLeaves, setManual, setAutomatic, vars
<1>2. /\ manual' \in BOOLEAN /\ automatic' \in BOOLEAN
      /\ page' \in [connected : BOOLEAN, maintenance : BOOLEAN]
      /\ inbox' \in Seq(BOOLEAN) /\ Len(inbox') <= MaxInbox
  <2>1. CASE PageConnects
    <3>1. /\ page' = [page EXCEPT !.connected = TRUE] /\ inbox' = <<Enabled>>
          /\ page \in [connected : BOOLEAN, maintenance : BOOLEAN] /\ Enabled \in BOOLEAN
          /\ UNCHANGED <<manual, automatic>>
      BY <2>1, EnabledIsBoolean DEF PageConnects, OpenedWith, PolicyInv, TypeOK, switch
    <3>2. page' \in [connected : BOOLEAN, maintenance : BOOLEAN]
      BY <3>1
    <3>. QED
      BY <3>1, <3>2 DEF PolicyInv, TypeOK
  <2>2. CASE PageHears
    <3>1. inbox # <<>> /\ inbox \in Seq(BOOLEAN)
      BY <2>2 DEF PageHears, PolicyInv, TypeOK
    <3>2. /\ Head(inbox) \in BOOLEAN /\ Tail(inbox) \in Seq(BOOLEAN)
          /\ Len(Tail(inbox)) <= Len(inbox)
      BY <3>1, HeadTailProperties
    <3>3. /\ page' = [page EXCEPT !.maintenance = Head(inbox)] /\ inbox' = Tail(inbox)
          /\ page \in [connected : BOOLEAN, maintenance : BOOLEAN]
          /\ UNCHANGED <<manual, automatic>>
      BY <2>2 DEF PageHears, PolicyInv, TypeOK, switch
    <3>4. page' \in [connected : BOOLEAN, maintenance : BOOLEAN]
      BY <3>2, <3>3
    <3>. QED
      BY <3>2, <3>3, <3>4 DEF PolicyInv, TypeOK
  <2>3. CASE PageLeaves
    <3>1. /\ page' = [page EXCEPT !.connected = FALSE] /\ inbox' = <<>>
          /\ page \in [connected : BOOLEAN, maintenance : BOOLEAN]
          /\ UNCHANGED <<manual, automatic>>
      BY <2>3 DEF PageLeaves, PolicyInv, TypeOK, switch
    <3>2. page' \in [connected : BOOLEAN, maintenance : BOOLEAN]
      BY <3>1
    <3>. QED
      BY <3>1, <3>2 DEF PolicyInv, TypeOK
  <2>4. ASSUME NEW b \in BOOLEAN, setManual(b)
        PROVE  /\ manual' \in BOOLEAN /\ automatic' \in BOOLEAN /\ UNCHANGED page
               /\ inbox' \in Seq(BOOLEAN) /\ Len(inbox') <= MaxInbox
    <3>1. Room /\ EnabledWith(b, automatic, fault) \in BOOLEAN
      BY <2>4 DEF setManual, RoomForStaff, Room, PolicyInv, TypeOK, EnabledWith
    <3>. QED
      BY <2>4, <3>1, SentFits DEF setManual, PolicyInv, TypeOK
  <2>5. ASSUME NEW b \in BOOLEAN, setAutomatic(b)
        PROVE  /\ manual' \in BOOLEAN /\ automatic' \in BOOLEAN /\ UNCHANGED page
               /\ inbox' \in Seq(BOOLEAN) /\ Len(inbox') <= MaxInbox
    <3>1. Room /\ TellFlip(manual, b, fault)
      BY <2>5 DEF setAutomatic, RoomForStaff, Room, PolicyInv, TypeOK
    <3>. QED
      BY <2>5, <3>1, FlipFits DEF setAutomatic, PolicyInv, TypeOK
  <2>6. CASE UNCHANGED vars
    BY <2>6 DEF vars, switch, channel, PolicyInv, TypeOK
  <2>. QED
    BY <2>1, <2>2, <2>3, <2>4, <2>5, <2>6 DEF PolicyInv, TypeOK
<1>3. TypeOK'
  BY <1>1, <1>2 DEF PolicyInv, TypeOK, policy, observers
<1>. QED
  BY <1>1, <1>3 DEF PolicyInv, BootFits, OutageFits, RepairFits, policy, observers, Delay

LEMMA PolicyInvNext == PolicyInv /\ [Next]_vars => PolicyInv'
<1>. SUFFICES ASSUME PolicyInv, [Next]_vars PROVE PolicyInv'
  OBVIOUS
<1>1. CASE StartWatching
  <2>1. evaluate(status') /\ status' \in Printer!Conditions
    BY <1>1 DEF StartWatching, PolicyInv, TypeOK, evaluate, EvaluateUnprintable, Counts, Delay,
                EvaluatePrintable, SinceKept
  <2>. QED
    BY <1>1, <2>1, StatusFits DEF StartWatching, switch
<1>2. CASE StatusEmitted
  <2>1. status' \in Printer!Conditions
    BY <1>2 DEF StatusEmitted, Printer!Next, Printer!Connects, Printer!Loses, Printer!Reports,
                Printer!Conditions
  <2>. QED
    BY <1>2, <2>1, StatusFits DEF StatusEmitted, switch
<1>3. CASE Restart
  <2>1. /\ Boots /\ manual' = manual /\ inbox' = <<>>
        /\ page' = [page EXCEPT !.connected = FALSE]
        /\ page \in [connected : BOOLEAN, maintenance : BOOLEAN]
        /\ timer' = [to |-> FALSE, left |-> -1]
    BY <1>3 DEF Restart, Boots, PolicyInv, TypeOK, NoTimer
  <2>2. /\ page' \in [connected : BOOLEAN, maintenance : BOOLEAN]
        /\ timer' \in [to : BOOLEAN, left : -1..DisconnectTicks + LeaveTicks]
        /\ inbox' \in Seq(BOOLEAN) /\ Len(inbox') <= MaxInbox
    <3>1. page' \in [connected : BOOLEAN, maintenance : BOOLEAN]
      BY <2>1
    <3>2. timer' \in [to : BOOLEAN, left : -1..DisconnectTicks + LeaveTicks]
      BY <2>1
    <3>. QED
      BY <2>1, <3>1, <3>2
  <2>3. TypeOK'
    <3>1. since' \in -1..Long /\ badFor' \in 0..Long /\ goodFor' \in 0..Long
      BY <2>1 DEF Boots, Long
    <3>2. status' \in Printer!Conditions
      BY <2>1 DEF Boots, Printer!Conditions
    <3>3. manual' \in BOOLEAN
      BY <2>1 DEF PolicyInv, TypeOK
    <3>. QED
      BY <2>1, <2>2, <3>1, <3>2, <3>3 DEF Boots, TypeOK
  <2>. QED
    BY <2>1, <2>3 DEF Boots, PolicyInv, BootFits, OutageFits, RepairFits
<1>. QED
  BY <1>1, <1>2, <1>3, TimerFits, TickFits, SwitchFits DEF Next

-----------------------------------------------------------------------------
\* What the page has yet to hear last is the switch as it stands.
LEMMA PageKnowsNext == TypeOK /\ PageKnows /\ [Next]_vars => PageKnows'
<1>. SUFFICES ASSUME TypeOK, PageKnows, [Next]_vars PROVE PageKnows'
  OBVIOUS
<1>. DEFINE Told(b) ==
         /\ UNCHANGED page /\ b = Enabled'
         /\ Broadcast(b) \/ (b = Enabled /\ UNCHANGED inbox)
<1>1. ASSUME NEW b \in BOOLEAN, Told(b) PROVE PageKnows'
  <2>1. CASE ~page.connected
    BY <2>1, <1>1 DEF PageKnows
  <2>2. CASE page.connected /\ inbox' = Append(inbox, b)
    <3>1. Len(inbox) \in Nat /\ inbox' # <<>> /\ inbox'[Len(inbox')] = b
      BY <2>2, AppendProperties, LenProperties DEF TypeOK
    <3>. QED
      BY <3>1, <1>1 DEF PageKnows
  <2>3. CASE page.connected /\ b = Enabled /\ UNCHANGED inbox
    BY <2>3, <1>1 DEF PageKnows
  <2>. QED
    BY <2>1, <2>2, <2>3, <1>1 DEF Broadcast
<1>2. ASSUME UNCHANGED <<page, inbox, manual, automatic, fault>> PROVE PageKnows'
  BY <1>2 DEF PageKnows, Enabled
<1>3. ASSUME NEW m \in BOOLEAN, NEW a \in BOOLEAN, NEW f \in BOOLEAN,
             TellFlip(m, a, f), manual' = m, automatic' = a, fault' = f, UNCHANGED page
      PROVE  PageKnows'
  <2>1. EnabledWith(m, a, f) = Enabled' /\ EnabledWith(m, a, f) \in BOOLEAN
    BY <1>3 DEF Enabled, EnabledWith
  <2>2. \/ Broadcast(EnabledWith(m, a, f))
        \/ EnabledWith(m, a, f) = Enabled /\ UNCHANGED inbox
    BY <1>3 DEF TellFlip
  <2>. QED
    BY <2>1, <2>2, <1>1, <1>3
<1>4. ASSUME NEW s, evaluate(s), UNCHANGED <<manual, automatic, page>> PROVE PageKnows'
  <2>1. CASE KeepFault
    BY <2>1, <1>2, <1>4 DEF KeepFault
  <2>2. CASE setFault(TRUE)
    BY <2>2, <1>3, <1>4 DEF setFault, TypeOK
  <2>. QED
    BY <2>1, <2>2, <1>4 DEF evaluate, EvaluatePrintable, EvaluateUnprintable
<1>5. CASE PageConnects
  <2>1. inbox' = <<Enabled>> /\ UNCHANGED <<manual, automatic, fault>>
    BY <1>5 DEF PageConnects, OpenedWith, switch, policy
  <2>2. Enabled' = Enabled /\ inbox' # <<>> /\ inbox'[Len(inbox')] = Enabled
    BY <2>1 DEF Enabled
  <2>. QED
    BY <2>2 DEF PageKnows
<1>6. CASE PageHears
  <2>1. /\ inbox # <<>> /\ inbox \in Seq(BOOLEAN) /\ page.connected
        /\ page \in [connected : BOOLEAN, maintenance : BOOLEAN]
        /\ page' = [page EXCEPT !.maintenance = Head(inbox)] /\ inbox' = Tail(inbox)
        /\ UNCHANGED <<manual, automatic, fault>>
    BY <1>6 DEF PageHears, TypeOK, switch, policy
  <2>2. page'.maintenance = Head(inbox) /\ Enabled' = Enabled
    BY <2>1 DEF Enabled
  <2>3. inbox[Len(inbox)] = Enabled
    BY <2>1 DEF PageKnows
  <2>4. CASE Len(inbox) = 1
    <3>1. inbox' = <<>> /\ Head(inbox) = inbox[Len(inbox)]
      BY <2>1, <2>4, HeadTailProperties, EmptySeq
    <3>. QED
      BY <3>1, <2>2, <2>3 DEF PageKnows
  <2>5. CASE Len(inbox) # 1
    <3>1. /\ inbox' \in Seq(BOOLEAN) /\ Len(inbox') = Len(inbox) - 1 /\ Len(inbox') \in Nat \ {0}
          /\ \A i \in 1..Len(inbox') : inbox'[i] = inbox[i + 1]
      BY <2>1, <2>5, HeadTailProperties, LenProperties, EmptySeq
    <3>2. inbox' # <<>> /\ inbox'[Len(inbox')] = inbox[Len(inbox)]
      BY <3>1, <2>1, LenProperties
    <3>. QED
      BY <3>2, <2>2, <2>3 DEF PageKnows
  <2>. QED
    BY <2>4, <2>5
<1>7. CASE PageLeaves
  <2>1. page' = [page EXCEPT !.connected = FALSE] /\ page \in [connected : BOOLEAN, maintenance : BOOLEAN]
    BY <1>7 DEF PageLeaves, TypeOK
  <2>2. ~page'.connected
    BY <2>1
  <2>. QED
    BY <2>2 DEF PageKnows
<1>8. CASE StartWatching
  BY <1>8, <1>4 DEF StartWatching, switch
<1>9. CASE StatusEmitted
  <2>1. PICK s : s = status'
    OBVIOUS
  <2>. QED
    BY <1>9, <2>1, <1>4 DEF StatusEmitted, switch
<1>10. CASE TimerFires
  BY <1>10, <1>3 DEF TimerFires, setFault, switch, TypeOK
<1>11. CASE Tick
  BY <1>11, <1>2 DEF Tick, switch, channel
<1>12. ASSUME NEW b \in BOOLEAN, setManual(b) PROVE PageKnows'
  <2>1. EnabledWith(b, automatic, fault) = Enabled' /\ EnabledWith(b, automatic, fault) \in BOOLEAN
    BY <1>12 DEF setManual, policy, Enabled, EnabledWith, TypeOK
  <2>. QED
    BY <2>1, <1>1, <1>12 DEF setManual
<1>13. ASSUME NEW b \in BOOLEAN, setAutomatic(b) PROVE PageKnows'
  BY <1>13, <1>3 DEF setAutomatic, policy, TypeOK
<1>14. CASE Restart
  <2>1. page' = [page EXCEPT !.connected = FALSE] /\ page \in [connected : BOOLEAN, maintenance : BOOLEAN]
    BY <1>14 DEF Restart, TypeOK
  <2>2. ~page'.connected
    BY <2>1
  <2>. QED
    BY <2>2 DEF PageKnows
<1>15. CASE UNCHANGED vars
  BY <1>15, <1>2 DEF vars, policy, switch, channel
<1>. QED
  BY <1>5, <1>6, <1>7, <1>8, <1>9, <1>10, <1>11, <1>12, <1>13, <1>14, <1>15 DEF Next

-----------------------------------------------------------------------------
(***************************************************************************)
(* The theorems.                                                           *)
(***************************************************************************)

\* The policy's timer, and what it has counted, are those its state calls for.
THEOREM PolicyInvHolds == Spec => []PolicyInv
<1>. QED
  BY PolicyInvInit, PolicyInvNext, PTL DEF Spec

\* The status, the policy, the switch and the stream keep their types, for any
\* delays.
THEOREM MaintenanceTypes == Spec => []TypeOK
<1>1. PolicyInv => TypeOK
  BY DEF PolicyInv
<1>. QED
  BY <1>1, PolicyInvHolds, PTL

\* An outage closes the booth within its kind's delay, and a repair opens it
\* within the leave delay.
THEOREM OutagesShow == Spec => []OutageShows
<1>1. PolicyInv => OutageShows
  <2>. SUFFICES ASSUME PolicyInv PROVE OutageShows
    OBVIOUS
  <2>1. CASE ~watching
    BY <2>1 DEF PolicyInv, BootFits, OutageShows
  <2>2. CASE watching /\ ~Printer!CanPrint(status) /\ ~fault
    <3>1. /\ badFor = since /\ goodFor = 0 /\ since <= Delay(status)
          /\ badFor \in Nat
      BY <2>2 DEF PolicyInv, OutageFits, TypeOK, Long
    <3>2. Delay(status) <= DisconnectTicks /\ Delay(status) \in Nat
      BY DEF Delay
    <3>3. status = "fault" => Delay(status) = EnterTicks
      BY DEF Delay, Printer!Reported
    <3>. QED
      BY <3>1, <3>2, <3>3 DEF OutageShows
  <2>3. CASE watching /\ ~Printer!CanPrint(status) /\ fault
    BY <2>3 DEF PolicyInv, OutageFits, OutageShows
  <2>4. CASE watching /\ Printer!CanPrint(status)
    BY <2>4 DEF PolicyInv, RepairFits, OutageShows, TypeOK, Long
  <2>. QED
    BY <2>1, <2>2, <2>3, <2>4
<1>. QED
  BY <1>1, PolicyInvHolds, PTL

\* No change of staff's switch or the printer's, no restart and no
\* reconnection leaves a page with an old answer as its last.
THEOREM PagesKnow == Spec => []PageKnows
<1>1. Init => PageKnows
  BY DEF Init, PageKnows
<1>. QED
  BY <1>1, PageKnowsNext, MaintenanceTypes, PTL DEF Spec

\* Only the printer's first word, or a whole delay without a break, closes the
\* booth.
THEOREM FaultsAreEarned == Spec => FaultIsEarned
<1>1. PolicyInv /\ [Next]_vars => [~fault /\ fault' => \/ ~heard /\ heard'
                                                     \/ badFor >= Delay(status')]_vars
  <2>. SUFFICES ASSUME PolicyInv, Next, ~fault, fault'
                PROVE  (~heard /\ heard') \/ badFor >= Delay(status')
    OBVIOUS
  <2>1. ASSUME evaluate(status'), ~watching => status' = status
        PROVE  (~heard /\ heard') \/ badFor >= Delay(status')
    <3>1. PICK s : s = status'
      OBVIOUS
    <3>2. heard' = (heard \/ Printer!Reported(s)) /\ Counts(s)
      BY <2>1, <3>1 DEF evaluate, EvaluatePrintable, EvaluateUnprintable, KeepFault
    <3>3. SinceKept >= Delay(s) => badFor >= Delay(s)
      <4>1. Delay(s) \in Nat \ {0}
        BY DEF Delay
      <4>2. since # -1 => since = badFor
        BY DEF PolicyInv, BootFits, OutageFits, RepairFits
      <4>. QED
        BY <4>1, <4>2 DEF SinceKept
    <3>. QED
      BY <3>1, <3>2, <3>3 DEF Counts
  <2>2. CASE StartWatching
    <3>1. evaluate(status') /\ status' = status
      BY <2>2 DEF StartWatching
    <3>. QED
      BY <3>1, <2>1
  <2>3. CASE StatusEmitted
    BY <2>3, <2>1 DEF StatusEmitted
  <2>4. CASE TimerFires
    <3>1. timer.left = 0 /\ timer.to /\ status' = status /\ timer # NoTimer
      <4>1. timer.left = 0 /\ fault' = timer.to /\ status' = status
        BY <2>4 DEF TimerFires, setFault
      <4>2. timer # NoTimer
        BY <4>1 DEF NoTimer
      <4>. QED
        BY <4>1, <4>2, Zenon
    <3>2. watching /\ ~Printer!CanPrint(status)
      BY <3>1 DEF PolicyInv, BootFits, RepairFits
    <3>3. since = badFor /\ 0 = Delay(status) - since /\ since \in Int
      BY <3>1, <3>2 DEF PolicyInv, OutageFits, TypeOK
    <3>4. Delay(status) \in Nat
      BY DEF Delay
    <3>. QED
      BY <3>1, <3>3, <3>4
  <2>5. CASE PageConnects \/ PageHears \/ PageLeaves \/ Tick \/ Restart
    BY <2>5 DEF PageConnects, PageHears, PageLeaves, Tick, Restart, Boots, policy
  <2>6. CASE \E b \in BOOLEAN : setManual(b) \/ setAutomatic(b)
    BY <2>6 DEF setManual, setAutomatic, policy
  <2>. QED
    BY <2>2, <2>3, <2>4, <2>5, <2>6 DEF Next
<1>. QED
  BY <1>1, PolicyInvHolds, PTL DEF Spec, FaultIsEarned

\* Only the whole leave delay of a printer that can print opens it again.
THEOREM LeavesAreEarned == Spec => LeaveIsEarned
<1>1. PolicyInv /\ [Next]_vars => [fault /\ ~fault' /\ heard' => goodFor >= LeaveTicks]_vars
  <2>. SUFFICES ASSUME PolicyInv, Next, fault, ~fault', heard'
                PROVE  goodFor >= LeaveTicks
    OBVIOUS
  <2>1. ASSUME NEW s, evaluate(s) PROVE FALSE
    BY <2>1 DEF evaluate, EvaluatePrintable, EvaluateUnprintable, KeepFault
  <2>2. CASE StartWatching \/ StatusEmitted
    <3>1. PICK s : s = status'
      OBVIOUS
    <3>. QED
      BY <2>2, <2>1, <3>1 DEF StartWatching, StatusEmitted
  <2>3. CASE TimerFires
    <3>1. timer.left = 0 /\ ~timer.to /\ timer # NoTimer
      <4>1. timer.left = 0 /\ fault' = timer.to
        BY <2>3 DEF TimerFires, setFault
      <4>. QED
        BY <4>1 DEF NoTimer
    <3>2. watching /\ Printer!CanPrint(status)
      BY <3>1 DEF PolicyInv, BootFits, OutageFits
    <3>3. 0 = LeaveTicks - goodFor /\ goodFor \in Nat
      BY <3>1, <3>2 DEF PolicyInv, RepairFits, TypeOK, Long
    <3>. QED
      BY <3>3
  <2>4. CASE PageConnects \/ PageHears \/ PageLeaves \/ Tick \/ Restart
    BY <2>4 DEF PageConnects, PageHears, PageLeaves, Tick, Restart, Boots, policy
  <2>5. CASE \E b \in BOOLEAN : setManual(b) \/ setAutomatic(b)
    BY <2>5 DEF setManual, setAutomatic, policy
  <2>. QED
    BY <2>2, <2>3, <2>4, <2>5 DEF Next
<1>. QED
  BY <1>1, PolicyInvHolds, PTL DEF Spec, LeaveIsEarned

=============================================================================
