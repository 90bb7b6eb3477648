------------------------------ MODULE MCCheckin ------------------------------
(***************************************************************************)
(* Checkin for TLC.                                                        *)
(***************************************************************************)
EXTENDS Checkin, TLC

\* A window from the second hour of an evening past midnight.
Night == {[from |-> 1, to |-> 0]}
=============================================================================
