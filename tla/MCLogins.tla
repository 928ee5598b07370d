------------------------------ MODULE MCLogins ------------------------------
(***************************************************************************)
(* The bucket of one address, two requests in a second; a tick is half a   *)
(* second, and a token lives for one.  A login and a use of its token, or  *)
(* two of either, while others log in from the address, too.               *)
(***************************************************************************)
EXTENDS Logins, TLC

CONSTANTS login

MCLimit   == login :> 2
MCSeconds == login :> 1

Symmetry == Permutations(Requests)
=============================================================================
