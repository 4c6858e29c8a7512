----------------------------- MODULE MCPriority -----------------------------
(***************************************************************************)
(* TLC instances of the priority machine.  Seats are numbers, because the  *)
(* code computes with them, so there is no symmetry to declare.            *)
(***************************************************************************)
EXTENDS Priority

\* Bound of the run about the turn order: nobody attacks, which leaves room for
\* a longer queue of extra turns at a table of three.
NobodyAttacks == st.combat.attacked = {}
=============================================================================
