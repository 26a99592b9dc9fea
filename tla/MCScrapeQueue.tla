---------------------------- MODULE MCScrapeQueue ----------------------------
(* ScrapeQueue for TLC: interchangeable targets and accounts.              *)
EXTENDS ScrapeQueue, TLC

Symmetry == Permutations(Targets) \cup Permutations(Accounts)
=============================================================================
