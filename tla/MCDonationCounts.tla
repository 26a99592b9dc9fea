--------------------------- MODULE MCDonationCounts ---------------------------
(* DonationCounts for TLC: donors that are interchangeable.                *)
EXTENDS DonationCounts, TLC

DonorSymmetry == Permutations(Donors \ Excluded)
=============================================================================
