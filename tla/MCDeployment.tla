---------------------------- MODULE MCDeployment ----------------------------
(***************************************************************************)
(* One or two owners, one of them with the superadmin's e-mail, two clubs, *)
(* and decisions that overlap; the process stops up to MaxCrashes times.   *)
(* The lengths are those of the identifiers in alembic/versions; a column  *)
(* of 49 characters is what an operator needs to make.                     *)
(***************************************************************************)
EXTENDS Deployment, TLC

MCNames == <<19, 22, 25, 28, 49, 41, 30, 36, 31, 26>>

Symmetry == Permutations(Clubs) \union Permutations(Requests)
=============================================================================
