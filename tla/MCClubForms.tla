---------------------------- MODULE MCClubForms -----------------------------
(***************************************************************************)
(* Two clubs.  Batches of two and three computers, single ones with the    *)
(* numbers that the batches are about to use, counts and numbers out of    *)
(* range; addresses that are allowed and one that is not; sums around 0    *)
(* and around the largest integer, tariffs around the longest.             *)
(***************************************************************************)
EXTENDS ClubForms, TLC

MCAmounts   == {-1, 0, MaxInteger + 1}
MCCells     == {-2, -1, 2 * MaxInteger + 2}
MCDurations == {-1, 0, 1, MaxMinutes}

Symmetry ==
  Permutations(Clubs) \union Permutations(Requests)
=============================================================================
