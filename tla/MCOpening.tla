----------------------------- MODULE MCOpening ------------------------------
(***************************************************************************)
(* TLC instance of the opening.  Three seats are the least at which the    *)
(* first mulligan is free and a departure leaves a game behind; a hand of  *)
(* two makes a mulligan to nothing happen at the third one.                *)
(***************************************************************************)
EXTENDS Opening
=============================================================================
