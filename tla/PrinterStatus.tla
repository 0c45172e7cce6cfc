---------------------------- MODULE PrinterStatus ----------------------------
(***************************************************************************)
(* What the watched printer promises to those who follow its status: a     *)
(* connection starts unknown, only the printer's own word makes it ready   *)
(* or at fault, and after a lost connection nothing the printer said       *)
(* before it still stands.  BoothPrinter implements it; PrinterMaintenance *)
(* relies on it.                                                           *)
(*                                                                         *)
(* "fault" stands for any of paper-out, cover-open and error; "ready" for  *)
(* no condition that stops a print (paper-near-end does not).              *)
(***************************************************************************)

VARIABLE status

Conditions == {"unknown", "ready", "fault", "disconnected"}

\* Not connected or not answering yet.
Reported(s) == s \in {"ready", "fault"}
CanPrint(s) == s = "ready"

Connects == status = "disconnected" /\ status' = "unknown"
Loses == status # "disconnected" /\ status' = "disconnected"
Reports(s) == status # "disconnected" /\ Reported(s) /\ status' = s

Next == Connects \/ Loses \/ \E s \in Conditions : Reports(s)

Spec == status = "unknown" /\ [][Next]_status

=============================================================================
