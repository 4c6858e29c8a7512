----------------------------- MODULE MCSession ------------------------------
(***************************************************************************)
(* TLC instance of a ruled game on the server: three players, so that an   *)
(* elimination or a departure leaves a game behind, one of whom uses       *)
(* automation; the two others are interchangeable.                         *)
(***************************************************************************)
EXTENDS Session, TLC

CONSTANTS ann, bob, cid

MCPlayer == {ann, bob, cid}
MCAutomated == {ann}
MCNobody == {}
Others == Permutations(MCPlayer \ MCAutomated)

\* Three accepted commands let somebody pause, somebody else get priority and
\* pass; the second game is there for what the first one leaves behind.
MCTwoGames == <<3, 1>>
MCOneGame == <<1>>
=============================================================================
