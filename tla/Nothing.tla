------------------------------- MODULE Nothing -------------------------------
(***************************************************************************)
(* The value the kiosk and the engine both mean by null: no visit, no      *)
(* ticket, no draw.                                                        *)
(***************************************************************************)
EXTENDS Naturals

CONSTANT None

\* It is no visit, no ticket and no word for how a visit ended.
ASSUME NoneAssumption == None \notin Nat \cup {"completed", "failed", "abandoned"}

=============================================================================
