------------------------------ MODULE MCPager ------------------------------
(* Pager for TLC: the sets are small and interchangeable.                  *)
EXTENDS Pager, TLC

Symmetry ==
  Permutations(Frames) \cup Permutations(Fds) \cup Permutations(PageNos)
    \cup Permutations(Value) \cup Permutations(Holder)
=============================================================================
