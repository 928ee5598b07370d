-------------------------- MODULE ClubModeration ----------------------------
(***************************************************************************)
(* The superadmin's handlers that suspend and reopen a club                *)
(* (web/superadmin.py).                                                    *)
(***************************************************************************)
EXTENDS Transactions

(* block_club and restore_club read the club without a lock and write its  *)
(* status at commit, if it differs from what was read.                     *)

ClubStatusSetBy(r) == IF call[r].op = "block_club" THEN "blocked" ELSE "active"

ReadClub(r) ==
  LET c == call[r] IN
  /\ Doing(r, {"block_club", "restore_club"}, "start")
  /\ \/ c.actor \notin SuperAdmins /\ Refuse(r, "403")
     \/ /\ c.actor \in SuperAdmins
        /\ orm' = [orm EXCEPT ![r].club = clubs[c.club]]
        /\ UNCHANGED lockedBy
        /\ Proceed(r, "commit")

ModerateClub(r) ==
  LET c == call[r].club IN
  /\ Doing(r, {"block_club", "restore_club"}, "commit")
  /\ clubs' = [clubs EXCEPT ![c] = Column(@, orm[r].club, ClubStatusSetBy(r))]
  /\ Commit(r, "done")
  /\ UNCHANGED <<balance, pcs, bookings, orders, payments, ledger>>

ModerationStep(r) == ReadClub(r) \/ ModerateClub(r)

=============================================================================
