---------------------------- MODULE MCResultCache ----------------------------
(***************************************************************************)
(* ResultCache for TLC: two window calls and a count over two sorts and    *)
(* two filters.                                                            *)
(***************************************************************************)
EXTENDS ResultCache

MCFirstView == [sort |-> "asc", filter |-> "all"]
==============================================================================
