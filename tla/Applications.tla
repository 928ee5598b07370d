---------------------------- MODULE Applications ----------------------------
(***************************************************************************)
(* Registration, the applications of clubs and the superadmin's decisions: *)
(* web/auth.py register and owner_register, web/admin.py add_club, and     *)
(* approve, reject, block and restore of web/superadmin.py.                *)
(*                                                                         *)
(* Each handler reads, without a lock, and commits later what it decided   *)
(* from what it read.  A commit writes the columns that differ from what   *)
(* was read, in one transaction, and it may fail.  A club is created by at *)
(* most one request, so a request carries the club it may create.          *)
(***************************************************************************)
EXTENDS Integers, FiniteSets

CONSTANTS
  Emails,     \* a user is known by the e-mail; the phone is checked likewise
  Clubs,
  Requests,
  None

Roles      == {"user", "pending_owner", "admin", "superadmin"}
ClubStatus == {"pending", "active", "blocked", "rejected"}
Decisions  == {"approve", "reject", "block", "restore"}
Ops        == {"register", "owner_register", "add_club"} \union Decisions
Answers    == {None, "done", "taken", "denied", "error"}

ASSUME ApplicationsAssumption ==
  None \notin Emails \union Clubs \union Roles \union ClubStatus \union Ops

VARIABLES
  role,      \* users.role, None for an e-mail nobody has
  owner,     \* clubs.owner_id, None while there is no such club
  status,    \* clubs.status
  req,       \* the requests: what they read, and how they ended
  approved   \* history: clubs that were approved or restored once

vars == <<role, owner, status, req, approved>>

ReqType ==
  [op : Ops \union {None}, email : Emails \union {None}, club : Clubs \union {None},
   role : Roles \union {None}, status : ClubStatus \union {None},
   open : BOOLEAN, answer : Answers]

NotSent ==
  [op |-> None, email |-> None, club |-> None, role |-> None, status |-> None,
   open |-> FALSE, answer |-> None]

CanApply == {"admin"}                        \* CLUB_ADMIN_ROLES; no code sets "owner"
Creates(op) == op \in {"owner_register", "add_club"}

Unclaimed(c) == \A r \in Requests : req[r].club = c => ~ Creates(req[r].op)

-----------------------------------------------------------------------------
(* What is read first.                                                     *)
Ended(op, e, c, a) ==
  [NotSent EXCEPT !.op = op, !.email = e, !.club = c, !.answer = a]

Pending(op, e, c) ==
  [NotSent EXCEPT !.op = op, !.email = e, !.club = c, !.open = TRUE,
                  !.role = IF e = None THEN None ELSE role[e],
                  !.status = IF c = None THEN None ELSE status[c]]

(* SELECT the user of this e-mail.                                         *)
Register(r, op, e, c) ==
  /\ \/ op = "register" /\ c = None
     \/ op = "owner_register" /\ c # None /\ Unclaimed(c)
  /\ req' = [req EXCEPT ![r] =
               IF role[e] # None THEN Ended(op, e, None, "taken") ELSE Pending(op, e, c)]

(* get_current_user, and the role it loaded.                               *)
AddClub(r, e, c) ==
  /\ role[e] # None
  /\ Unclaimed(c)
  /\ req' = [req EXCEPT ![r] =
               IF role[e] \notin CanApply
               THEN Ended("add_club", e, None, "denied") ELSE Pending("add_club", e, c)]

(* The club and, with selectinload, its owner.                             *)
Decide(r, op, c) ==
  /\ op \in Decisions
  /\ owner[c] # None
  /\ req' = [req EXCEPT ![r] = Pending(op, owner[c], c)]

Send(r) ==
  /\ req[r].op = None
  /\ \/ \E op \in {"register", "owner_register"}, e \in Emails, c \in Clubs \union {None} :
          Register(r, op, e, c)
     \/ \E e \in Emails, c \in Clubs : AddClub(r, e, c)
     \/ \E op \in Decisions, c \in Clubs : Decide(r, op, c)
  /\ UNCHANGED <<role, owner, status, approved>>

-----------------------------------------------------------------------------
(* What is written at the commit.                                          *)
NewStatus(op) ==
  CASE op = "reject" -> "rejected"
    [] op = "block" -> "blocked"
    [] OTHER -> "active"

(* A slip: restore forgets the owner who was never approved.               *)
NewRoleOfUsersOnly(op, read) ==
  CASE op = "approve" -> "admin"
    [] op = "restore" /\ read = "user" -> "admin"
    [] op = "reject" /\ read = "pending_owner" -> "user"
    [] OTHER -> read

NewRole(op, read) ==
  CASE op = "approve" -> "admin"
    [] op = "restore" /\ read \in {"pending_owner", "user"} -> "admin"
    [] op = "reject" /\ read = "pending_owner" -> "user"
    [] OTHER -> read

(* Only what differs from what was read is in the UPDATE.                  *)
Column(current, read, new) == IF new = read THEN current ELSE new

Finish(r, a) == req' = [req EXCEPT ![r].open = FALSE, ![r].answer = a]

(* A slip: applicants may use the CRM at once.                             *)
RoleOfNewAdmin(op) == IF op = "register" THEN "user" ELSE "admin"

(* INSERT the user, and the application of an owner with it.               *)
RoleOfNew(op) == IF op = "register" THEN "user" ELSE "pending_owner"

InsertClub(e, c) ==
  /\ owner' = [owner EXCEPT ![c] = e]
  /\ status' = [status EXCEPT ![c] = "pending"]

(* A slip: the owner is committed first, and then the club is lost.        *)
InsertOwnerOnly(e, c) ==
  InsertClub(e, c) \/ UNCHANGED <<owner, status>>

InsertApplication(e, c) == InsertClub(e, c)

CommitRegister(r) ==
  LET q == req[r] IN
  /\ q.op \in {"register", "owner_register"}
  /\ role[q.email] = None
  /\ role' = [role EXCEPT ![q.email] = RoleOfNew(q.op)]
  /\ IF q.op = "register" THEN UNCHANGED <<owner, status>>
     ELSE InsertApplication(q.email, q.club)
  /\ Finish(r, "done")
  /\ UNCHANGED approved

(* The unique index on users.email: an IntegrityError nobody handles.      *)
CommitTwice(r) ==
  /\ req[r].op \in {"register", "owner_register"}
  /\ role[req[r].email] # None
  /\ Finish(r, "error")
  /\ UNCHANGED <<role, owner, status, approved>>

CommitClub(r) ==
  /\ req[r].op = "add_club"
  /\ InsertClub(req[r].email, req[r].club)
  /\ Finish(r, "done")
  /\ UNCHANGED <<role, approved>>

CommitDecision(r) ==
  LET q == req[r] IN
  /\ q.op \in Decisions
  /\ status' = [status EXCEPT ![q.club] = Column(@, q.status, NewStatus(q.op))]
  /\ role' = [role EXCEPT ![q.email] = Column(@, q.role, NewRole(q.op, q.role))]
  /\ approved' = IF q.op \in {"approve", "restore"} THEN approved \union {q.club} ELSE approved
  /\ Finish(r, "done")
  /\ UNCHANGED owner

CommitFails(r) ==
  /\ Finish(r, "error")
  /\ UNCHANGED <<role, owner, status, approved>>

Commit(r) ==
  /\ req[r].open
  /\ \/ CommitRegister(r)
     \/ CommitTwice(r)
     \/ CommitClub(r)
     \/ CommitDecision(r)
     \/ CommitFails(r)

Init ==
  /\ role = [e \in Emails |-> None]
  /\ owner = [c \in Clubs |-> None]
  /\ status = [c \in Clubs |-> None]
  /\ req = [r \in Requests |-> NotSent]
  /\ approved = {}

Next == \E r \in Requests : Send(r) \/ Commit(r)

Spec == Init /\ [][Next]_vars

-----------------------------------------------------------------------------
TypeOK ==
  /\ role \in [Emails -> Roles \union {None}]
  /\ owner \in [Clubs -> Emails \union {None}]
  /\ status \in [Clubs -> ClubStatus \union {None}]
  /\ req \in [Requests -> ReqType]
  /\ approved \subseteq Clubs

Owned(e) == {c \in Clubs : owner[c] = e}

(* An owner waiting for moderation owns no club that is shown to players,  *)
(* whichever decisions about it overlap: approve and restore both see to   *)
(* the role of the owner they read.                                        *)
PendingOwnerHasNoActiveClub ==
  \A e \in Emails : role[e] = "pending_owner" =>
    \A c \in Owned(e) : status[c] # "active"

(* "Access to the CRM appears only after the approval" (README.md:108).    *)
AdminWasApproved ==
  \A e \in Emails : role[e] = "admin" => Owned(e) \intersect approved # {}

(* The owner and the application are one commit: no owner waits for a      *)
(* moderation that has nothing to moderate.                                *)
PendingOwnerHasApplied ==
  \A e \in Emails : role[e] = "pending_owner" => Owned(e) # {}

=============================================================================
