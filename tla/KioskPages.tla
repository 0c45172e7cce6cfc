------------------------------ MODULE KioskPages ------------------------------
(***************************************************************************)
(* The booth's camera as the engine knows it: the iPad's page, its streams *)
(* to the kiosk channel, the status it reports over them, and the state    *)
(* the engine derives from the pages it has listed.                        *)
(*                                                                         *)
(* A stream the iPad lost stays listed until the engine notices; the page  *)
(* that reconnects, or was loaded again, is listed beside it.  A tick is   *)
(* KIOSK_STATUS_REPORT_INTERVAL_MS; stale reports are looked for in it.    *)
(***************************************************************************)
EXTENDS Integers, Sequences, SequencesExt

CONSTANTS
    StaleAfter,     \* KIOSK_STATUS_STALE_AFTER_MS, in ticks
    CameraGrace,    \* v_camera_grace, in ticks: the camera's age counts to it
    MaxPages        \* bound: streams listed at once

ASSUME PagesAssumption ==
    /\ StaleAfter \in Nat \ {0} /\ CameraGrace \in Nat /\ MaxPages \in Nat \ {0}

VARIABLES
    ipad,       \* its camera is "ready" or "failed", or it is "away"
    linked,     \* the iPad's page has its stream: the last one listed
    pages,      \* the channel's pages, in the order they connected
    camera      \* the engine's camera state, and the ticks since it flipped

kiosk == <<ipad, linked, pages, camera>>

\* A page is listed under its load's id: "this" load of the iPad's, or a
\* "past" one.
Pages == [load : {"this", "past"}, camera : {"none", "ready", "failed"},
          age : 0..StaleAfter]

KioskTypeOK ==
    /\ ipad \in {"ready", "failed", "away"} /\ linked \in BOOLEAN
    /\ pages \in Seq(Pages) /\ Len(pages) <= MaxPages
    /\ camera \in [on : BOOLEAN, age : 0..CameraGrace]

NoCamera == [on |-> FALSE, age |-> 0]

KioskInit == ipad = "away" /\ linked = FALSE /\ pages = <<>> /\ camera = NoCamera

\* With its iPad there, and its camera.
KioskSettled ==
    /\ ipad = "ready" /\ linked = TRUE
    /\ pages = <<[load |-> "this", camera |-> "ready", age |-> 0]>>
    /\ camera = [on |-> TRUE, age |-> 0]

-----------------------------------------------------------------------------
\* isOn, with getKioskCameraHealth: a page is there and none there failed.
IsOn(listed) ==
    LET present == {i \in DOMAIN listed : listed[i].age < StaleAfter} IN
    present # {} /\ \A i \in present : listed[i].camera # "failed"

\* refresh, on every change of the pages and every check.
Lists(listed) ==
    /\ pages' = listed
    /\ camera' = IF IsOn(listed) = camera.on THEN camera
                 ELSE [on |-> IsOn(listed), age |-> 0]

Flips == camera'.on # camera.on

\* reportStatus: the first page listed with this id.
Reported(listed, news) ==
    LET own == {i \in DOMAIN listed : listed[i].load = "this"} IN
    IF own = {} THEN listed
    ELSE [listed EXCEPT ![CHOOSE i \in own : \A j \in own : i <= j] =
             [@ EXCEPT !.camera = news, !.age = 0]]

\* The stream opens and the page reports: after a reconnection, or loaded anew.
PageConnects(news, loaded) ==
    /\ ~linked /\ Len(pages) < MaxPages
    /\ LET before == IF loaded THEN [i \in DOMAIN pages |-> [pages[i] EXCEPT !.load = "past"]]
                     ELSE pages IN
       Lists(Reported(Append(before, [load |-> "this", camera |-> "none", age |-> 0]), news))
    /\ linked' = TRUE /\ ipad' = news

\* The iPad loses its stream, or goes; the engine still lists the page.
PageDrops(now) ==
    /\ linked /\ linked' = FALSE
    /\ ipad' = now
    /\ UNCHANGED <<pages, camera>>

\* The report of it may be lost: the next one says so too.
CameraTurns(news, told) ==
    /\ linked /\ ipad # news /\ ipad' = news
    /\ Lists(IF told THEN Reported(pages, news) ELSE pages)
    /\ UNCHANGED linked

\* removePage: the engine notices that a stream ended.
PageLeaves ==
    /\ \E i \in DOMAIN pages :
          /\ linked => i # Len(pages)
          /\ Lists(RemoveAt(pages, i))
    /\ UNCHANGED <<ipad, linked>>

\* The engine's process ends: its streams with it.
KioskStops ==
    /\ linked' = FALSE /\ pages' = <<>> /\ camera' = NoCamera
    /\ UNCHANGED ipad

\* A tick: the page reports, the rest grow older, stale ones are looked for.
KioskAges ==
    LET waited == [i \in DOMAIN pages |->
                      [pages[i] EXCEPT !.age = IF @ < StaleAfter THEN @ + 1 ELSE @]]
        aged == IF linked THEN Reported(waited, ipad) ELSE waited
        older == [camera EXCEPT !.age = IF @ < CameraGrace THEN @ + 1 ELSE @] IN
    /\ pages' = aged
    /\ camera' = IF IsOn(aged) = camera.on THEN older
                 ELSE [on |-> IsOn(aged), age |-> 0]
    /\ UNCHANGED <<ipad, linked>>

=============================================================================
