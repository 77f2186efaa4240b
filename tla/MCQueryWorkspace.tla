-------------------------- MODULE MCQueryWorkspace ---------------------------
(* A small instance of QueryWorkspace: two calls over two tabs. *)
EXTENDS QueryWorkspace, TLC

CONSTANTS j1, j2, t1, t2

MCTwoCalls == {j1, j2}
MCTwoTabs  == {t1, t2}

(* Calls are interchangeable, and so are tabs. *)
MCSymmetry == Permutations(JobIds) \cup Permutations(Tabs)

(* late and lost never shrink, and once one of them is not empty only the types
   are left to check: such states are checked, and not explored from. *)
MCInOrder == late = {} /\ lost = {}
==============================================================================
