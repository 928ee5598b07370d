-------------------------- MODULE DeploymentProofs --------------------------
(***************************************************************************)
(* The role of an owner agrees with what was decided about the clubs, for  *)
(* any number of owners, clubs and overlapping decisions; crashes,         *)
(* restarts and migrations undo nothing of it; the worker serves the whole *)
(* schema with every column filled; and the superadmin is there to         *)
(* moderate.                                                               *)
(***************************************************************************)
EXTENDS Deployment, Sums

OpenOf(ops) == {r \in Requests : req[r].open /\ req[r].op \in ops}

(* A club has been claimed by who creates it, once; until then nobody owns *)
(* it.                                                                     *)
ClaimInv ==
  /\ \A c \in Clubs : owner[c] # None => ~ Unclaimed(c)
  /\ \A r \in OpenOf({"owner_register", "add_club"}) :
       /\ req[r].club \in Clubs
       /\ owner[req[r].club] = None
       /\ \A s \in OpenOf({"owner_register", "add_club"}) :
            s # r => req[s].club # req[r].club

(* A club is never given away: its owner is who was read with it.          *)
DecisionInv ==
  \A r \in OpenOf(Decisions) :
    /\ req[r].club \in Clubs
    /\ req[r].email \in Emails
    /\ owner[req[r].club] = req[r].email
    /\ req[r].role # "pending_owner" => role[req[r].email] # "pending_owner"

(* Who registers sends an e-mail; who owns or will own a club is a user.   *)
UserInv ==
  /\ \A r \in Requests :
       req[r].op \in {"register", "owner_register", "add_club"} => req[r].email \in Emails
  /\ \A r \in OpenOf({"add_club"}) : role[req[r].email] # None
  /\ \A c \in Clubs : owner[c] # None => role[owner[c]] # None

IInv ==
  /\ TypeOK
  /\ ClaimInv
  /\ DecisionInv
  /\ UserInv
  /\ PendingOwnerHasNoActiveClub
  /\ AdminWasApproved
  /\ PendingOwnerHasApplied

-----------------------------------------------------------------------------
(* Nobody has a role, and nothing is sent.                                 *)
THEOREM InitIInv == Init => IInv
<1> SUFFICES ASSUME Init PROVE IInv
  OBVIOUS
<1>1. TypeOK
  BY DEF Init, TypeOK, NotSent, ReqType, Answers
<1>2. ClaimInv /\ DecisionInv
  BY DEF Init, ClaimInv, DecisionInv, OpenOf, NotSent
<1>3. UserInv
  BY ApplicationsAssumption DEF Init, UserInv, OpenOf, NotSent, Ops
<1>4. PendingOwnerHasNoActiveClub /\ AdminWasApproved /\ PendingOwnerHasApplied
  BY ApplicationsAssumption DEF Init, PendingOwnerHasNoActiveClub, AdminWasApproved,
     PendingOwnerHasApplied, Roles
<1> QED
  BY <1>1, <1>2, <1>3, <1>4 DEF IInv

(* What a request has read concerns nobody but itself.                     *)
LEMMA SendKeepsIInv ==
  ASSUME IInv, NEW r \in Requests, Send(r)
  PROVE  IInv'
<1> USE ApplicationsAssumption
<1>1. TypeOK /\ req[r].op = None /\ UNCHANGED <<role, owner, status, approved>>
  BY DEF Send, IInv
<1>2. \/ \E op \in {"register", "owner_register"}, e \in Emails, c \in Clubs \union {None} :
           Register(r, op, e, c)
      \/ \E e \in Emails, c \in Clubs : AddClub(r, e, c)
      \/ \E op \in Decisions, c \in Clubs : Decide(r, op, c)
  BY DEF Send
<1>3. ASSUME NEW op \in Ops, NEW e \in Emails \union {None}, NEW c \in Clubs \union {None}
      PROVE  /\ Pending(op, e, c) \in ReqType
             /\ Pending(op, e, c).op = op
             /\ Pending(op, e, c).email = e
             /\ Pending(op, e, c).club = c
  BY <1>1 DEF Pending, ReqType, NotSent, TypeOK, Answers
<1>4. ASSUME NEW op \in Ops, NEW e \in Emails \union {None}, NEW c \in Clubs \union {None},
             NEW a \in Answers
      PROVE  /\ Ended(op, e, c, a) \in ReqType
             /\ Ended(op, e, c, a).op = op
             /\ Ended(op, e, c, a).email = e
             /\ ~ Ended(op, e, c, a).open
  BY DEF Ended, ReqType, NotSent
<1>5. /\ req' = [req EXCEPT ![r] = req'[r]]
      /\ req'[r] \in ReqType
      /\ req'[r].op \in {"register", "owner_register", "add_club"} => req'[r].email \in Emails
      /\ req'[r].open /\ req'[r].op \in {"owner_register", "add_club"}
           => req'[r].club \in Clubs /\ Unclaimed(req'[r].club)
      /\ req'[r].open /\ req'[r].op = "add_club" => role[req'[r].email] # None
      /\ req'[r].open /\ req'[r].op \in Decisions =>
           /\ req'[r].club \in Clubs /\ req'[r].email = owner[req'[r].club]
           /\ req'[r].email \in Emails /\ req'[r].role = role[req'[r].email]
  <2>1. CASE \E op \in {"register", "owner_register"}, e \in Emails, c \in Clubs \union {None} :
               Register(r, op, e, c)
    <3>1. PICK op \in {"register", "owner_register"}, e \in Emails, c \in Clubs \union {None} :
            Register(r, op, e, c)
      BY <2>1
    <3>2. /\ req' = [req EXCEPT ![r] = req'[r]]
          /\ req'[r] \in {Ended(op, e, None, "taken"), Pending(op, e, c)}
      BY <1>1, <3>1 DEF Register, TypeOK
    <3>3. op \in Ops /\ op \notin Decisions /\ op # "add_club" /\ "taken" \in Answers
      BY DEF Ops, Decisions, Answers
    <3>4. req'[r] \in ReqType
      BY <1>3, <1>4, <3>2, <3>3
    <3>5. req'[r].op = op /\ req'[r].email = e /\ (req'[r].open => req'[r].club = c)
      BY <1>3, <1>4, <3>2, <3>3
    <3> QED
      BY <3>1, <3>2, <3>3, <3>4, <3>5 DEF Register
  <2>2. CASE \E e \in Emails, c \in Clubs : AddClub(r, e, c)
    <3>1. PICK e \in Emails, c \in Clubs : AddClub(r, e, c)
      BY <2>2
    <3>2. /\ req' = [req EXCEPT ![r] = req'[r]]
          /\ req'[r] \in {Ended("add_club", e, None, "denied"), Pending("add_club", e, c)}
      BY <1>1, <3>1 DEF AddClub, TypeOK
    <3>3. "add_club" \in Ops /\ "add_club" \notin Decisions /\ "denied" \in Answers
      BY DEF Ops, Decisions, Answers
    <3>4. req'[r] \in ReqType
      BY <1>3, <1>4, <3>2, <3>3
    <3>5. req'[r].op = "add_club" /\ req'[r].email = e /\ (req'[r].open => req'[r].club = c)
      BY <1>3, <1>4, <3>2, <3>3
    <3> QED
      BY <3>1, <3>2, <3>3, <3>4, <3>5 DEF AddClub
  <2>3. CASE \E op \in Decisions, c \in Clubs : Decide(r, op, c)
    <3>1. PICK op \in Decisions, c \in Clubs : Decide(r, op, c)
      BY <2>3
    <3>2. req' = [req EXCEPT ![r] = Pending(op, owner[c], c)] /\ owner[c] \in Emails
      BY <1>1, <3>1 DEF Decide, TypeOK
    <3>3. op \in Ops /\ op \notin {"register", "owner_register", "add_club"}
      BY DEF Ops, Decisions
    <3>4. req'[r] = Pending(op, owner[c], c)
      BY <1>1, <3>2 DEF TypeOK
    <3>5. req'[r] \in ReqType
      BY <1>3, <3>2, <3>3, <3>4
    <3>6. /\ req'[r].op = op /\ req'[r].email = owner[c] /\ req'[r].club = c
          /\ req'[r].role = role[owner[c]]
      BY <3>2, <3>4 DEF Pending, NotSent
    <3> QED
      BY <3>1, <3>2, <3>3, <3>4, <3>5, <3>6
  <2> QED
    BY <1>2, <2>1, <2>2, <2>3
<1>6. TypeOK'
  BY <1>1, <1>5 DEF TypeOK
<1>7. \A s \in Requests \ {r} : req'[s] = req[s]
  BY <1>1, <1>5 DEF TypeOK
<1>8. ~ Creates(req[r].op)
  BY <1>1 DEF Creates, Ops
<1>9. ClaimInv'
  <2>1. \A c \in Clubs : owner[c] # None => ~ Unclaimed(c)'
    BY <1>1, <1>7, <1>8 DEF IInv, ClaimInv, Unclaimed
  <2>2. \A s \in Requests : req'[s].op \in {"owner_register", "add_club"} <=> Creates(req'[s].op)
    BY DEF Creates
  <2>3. ASSUME NEW s \in OpenOf({"owner_register", "add_club"})', s # r
        PROVE  /\ req[s].open /\ req[s].op \in {"owner_register", "add_club"} /\ req'[s] = req[s]
               /\ req[s].club \in Clubs /\ owner[req[s].club] = None
               /\ req'[r].open /\ req'[r].op \in {"owner_register", "add_club"}
                    => req[s].club # req'[r].club
    BY <1>5, <1>7, <2>3 DEF IInv, ClaimInv, OpenOf, Unclaimed, Creates
  <2>4. req'[r].open /\ req'[r].op \in {"owner_register", "add_club"}
          => owner[req'[r].club] = None
    BY <1>5 DEF IInv, ClaimInv
  <2> QED
    BY <1>1, <1>5, <2>1, <2>3, <2>4 DEF ClaimInv, OpenOf, IInv
<1>10. DecisionInv'
  BY <1>1, <1>5, <1>7 DEF IInv, DecisionInv, OpenOf
<1>11. UserInv'
  BY <1>1, <1>5, <1>7 DEF IInv, UserInv, OpenOf
<1>12. (PendingOwnerHasNoActiveClub /\ AdminWasApproved /\ PendingOwnerHasApplied)'
  BY <1>1 DEF IInv, PendingOwnerHasNoActiveClub, AdminWasApproved, PendingOwnerHasApplied, Owned
<1> QED
  BY <1>6, <1>9, <1>10, <1>11, <1>12 DEF IInv

-----------------------------------------------------------------------------
(* How a request ends does not matter to the others.                       *)
LEMMA FinishedTypes ==
  ASSUME IInv, NEW r \in Requests, req[r].open, NEW a \in {"done", "error"}, Finish(r, a)
  PROVE  /\ req' \in [Requests -> ReqType]
         /\ ~ req'[r].open
         /\ \A s \in Requests \ {r} : req'[s] = req[s]
         /\ \A s \in Requests : /\ req'[s].op = req[s].op /\ req'[s].club = req[s].club
                                /\ req'[s].email = req[s].email /\ req'[s].role = req[s].role
<1> USE DEF IInv, TypeOK, Finish
<1>1. req[r] \in ReqType /\ a \in Answers
  BY DEF Answers
<1>2. req' = [req EXCEPT ![r] = [req[r] EXCEPT !.open = FALSE, !.answer = a]]
  OBVIOUS
<1>3. [req[r] EXCEPT !.open = FALSE, !.answer = a] \in ReqType
  BY <1>1 DEF ReqType
<1>4. \A s \in Requests \ {r} : req'[s] = req[s]
  BY <1>2
<1>5. req'[r] = [req[r] EXCEPT !.open = FALSE, !.answer = a]
  BY <1>2
<1>6. /\ req'[r].open = FALSE /\ req'[r].op = req[r].op /\ req'[r].club = req[r].club
      /\ req'[r].email = req[r].email /\ req'[r].role = req[r].role
  BY <1>1, <1>5 DEF ReqType
<1> QED
  BY <1>2, <1>3, <1>4, <1>6

(* A request that ends and writes nothing.                                 *)
LEMMA ErrorKeepsIInv ==
  ASSUME IInv, NEW r \in Requests, req[r].open, Finish(r, "error"),
         UNCHANGED <<role, owner, status, approved>>
  PROVE  IInv'
<1>1. /\ req' \in [Requests -> ReqType]
      /\ ~ req'[r].open
      /\ \A s \in Requests \ {r} : req'[s] = req[s]
      /\ \A s \in Requests : /\ req'[s].op = req[s].op /\ req'[s].club = req[s].club
                             /\ req'[s].email = req[s].email /\ req'[s].role = req[s].role
  BY FinishedTypes
<1>2. TypeOK'
  BY <1>1 DEF IInv, TypeOK
<1>4. ClaimInv'
  BY <1>1 DEF IInv, ClaimInv, Unclaimed, OpenOf
<1>5. DecisionInv' /\ UserInv'
  BY <1>1 DEF IInv, DecisionInv, UserInv, OpenOf
<1>6. (PendingOwnerHasNoActiveClub /\ AdminWasApproved /\ PendingOwnerHasApplied)'
  BY DEF IInv, PendingOwnerHasNoActiveClub, AdminWasApproved, PendingOwnerHasApplied, Owned
<1> QED
  BY <1>2, <1>4, <1>5, <1>6 DEF IInv

(* A new user, and the first application.                                  *)
LEMMA RegisterKeepsIInv ==
  ASSUME IInv, NEW r \in Requests, req[r].open, CommitRegister(r)
  PROVE  IInv'
<1> DEFINE e == req[r].email
           c == req[r].club
<1> USE ApplicationsAssumption
<1>1. /\ req' \in [Requests -> ReqType]
      /\ ~ req'[r].open
      /\ \A s \in Requests \ {r} : req'[s] = req[s]
      /\ \A s \in Requests : /\ req'[s].op = req[s].op /\ req'[s].club = req[s].club
                             /\ req'[s].email = req[s].email /\ req'[s].role = req[s].role
  BY FinishedTypes DEF CommitRegister
<1>2. TypeOK /\ e \in Emails /\ role[e] = None /\ approved' = approved
  BY DEF IInv, UserInv, CommitRegister
<1>3. /\ role' = [role EXCEPT ![e] = RoleOfNew(req[r].op)]
      /\ RoleOfNew(req[r].op) \in {"user", "pending_owner"}
  BY DEF CommitRegister, RoleOfNew
<1>4. \A d \in Clubs : owner[d] # e
  BY <1>2 DEF IInv, UserInv
<1>5. \/ /\ req[r].op = "register" /\ UNCHANGED <<owner, status>>
         /\ role'[e] = "user"
      \/ /\ req[r].op = "owner_register" /\ c \in Clubs /\ owner[c] = None
         /\ owner' = [owner EXCEPT ![c] = e]
         /\ status' = [status EXCEPT ![c] = "pending"]
         /\ role'[e] = "pending_owner"
  <2>1. CASE req[r].op = "register"
    BY <1>2, <1>3, <2>1 DEF CommitRegister, RoleOfNew, TypeOK
  <2>2. CASE req[r].op = "owner_register"
    BY <1>2, <1>3, <2>2 DEF CommitRegister, RoleOfNew, InsertApplication, InsertClub,
       IInv, ClaimInv, OpenOf, TypeOK
  <2> QED
    BY <2>1, <2>2 DEF CommitRegister
<1>6. TypeOK'
  BY <1>1, <1>2, <1>3, <1>5 DEF TypeOK, Roles, ClubStatus
<1>7. \A d \in Clubs : \/ owner'[d] = owner[d] /\ status'[d] = status[d]
                       \/ /\ d = c /\ owner'[d] = e /\ status'[d] = "pending"
                          /\ req[r].op = "owner_register"
  BY <1>2, <1>5 DEF TypeOK
<1>8. \A f \in Emails \ {e} : role'[f] = role[f]
  BY <1>2, <1>3 DEF TypeOK
<1>9. role'[e] \in {"user", "pending_owner"} /\ role'[e] # None
  BY <1>2, <1>3 DEF TypeOK, Roles
<1>10. ClaimInv'
  <2>1. \A s \in Requests \ {r} : req'[s].open /\ req'[s].op \in {"owner_register", "add_club"} =>
          /\ req[s].club \in Clubs /\ owner[req[s].club] = None
          /\ req[r].op = "owner_register" => req[s].club # c
    BY <1>1 DEF IInv, ClaimInv, OpenOf
  <2>2. \A s \in Requests \ {r} : req'[s].open /\ req'[s].op \in {"owner_register", "add_club"} =>
          owner'[req[s].club] = None
    BY <1>7, <2>1
  <2>3. \A d \in Clubs : owner'[d] # None => ~ Unclaimed(d)'
    BY <1>1, <1>7 DEF IInv, ClaimInv, Unclaimed, Creates
  <2> QED
    BY <1>1, <2>1, <2>2, <2>3 DEF IInv, ClaimInv, OpenOf
<1>11. DecisionInv'
  <2>1. ASSUME NEW s \in OpenOf(Decisions)'
        PROVE  /\ s \in OpenOf(Decisions) /\ req'[s] = req[s]
    BY <1>1 DEF OpenOf
  <2>2. ASSUME NEW s \in OpenOf(Decisions)
        PROVE  /\ req[s].club \in Clubs /\ req[s].email \in Emails
               /\ owner[req[s].club] = req[s].email /\ req[s].email # e
               /\ owner[req[s].club] # None
               /\ req[s].role # "pending_owner" => role[req[s].email] # "pending_owner"
    BY <1>4 DEF IInv, DecisionInv
  <2> QED
    BY <1>5, <1>7, <1>8, <2>1, <2>2 DEF DecisionInv, TypeOK
<1>12. UserInv'
  <2>1. \A f \in Emails : role[f] # None => role'[f] # None
    BY <1>8, <1>9
  <2>2. \A s \in Requests : req'[s].op \in {"register", "owner_register", "add_club"} =>
          req'[s].email \in Emails
    BY <1>1 DEF IInv, UserInv
  <2>3. \A s \in OpenOf({"add_club"})' : role'[req'[s].email] # None
    BY <1>1, <2>1, <2>2 DEF IInv, UserInv, OpenOf
  <2>4. \A d \in Clubs : owner'[d] # None => role'[owner'[d]] # None
    <3>1. \A d \in Clubs : owner[d] # None => owner[d] \in Emails /\ role[owner[d]] # None
      BY <1>2 DEF IInv, UserInv, TypeOK
    <3> QED
      BY <1>7, <1>9, <2>1, <3>1
  <2> QED
    BY <2>2, <2>3, <2>4 DEF UserInv
<1>13. PendingOwnerHasNoActiveClub'
  BY <1>4, <1>7, <1>8 DEF IInv, PendingOwnerHasNoActiveClub, Owned
<1>14. AdminWasApproved'
  <2>1. \A f \in Emails : role'[f] = "admin" => f # e /\ role[f] = "admin"
    BY <1>8, <1>9
  <2>2. \A f \in Emails : f # e => Owned(f) \subseteq Owned(f)'
    BY <1>4, <1>5, <1>7 DEF Owned
  <2> QED
    BY <1>2, <2>1, <2>2 DEF IInv, AdminWasApproved
<1>15. PendingOwnerHasApplied'
  <2>1. ASSUME NEW f \in Emails, f = e, role'[f] = "pending_owner"
        PROVE  Owned(f)' # {}
    <3>1. c \in Clubs /\ owner'[c] = f
      BY <1>2, <1>5, <2>1 DEF TypeOK
    <3> QED
      BY <3>1 DEF Owned
  <2>2. ASSUME NEW f \in Emails, f # e, role'[f] = "pending_owner"
        PROVE  Owned(f)' # {}
    <3>1. role[f] = "pending_owner"
      BY <1>8, <2>2
    <3>2. PICK d \in Clubs : owner[d] = f
      BY <3>1 DEF IInv, PendingOwnerHasApplied, Owned
    <3>3. owner'[d] = f
      BY <1>2, <1>5, <3>2, <2>2 DEF TypeOK
    <3> QED
      BY <3>3 DEF Owned
  <2> QED
    BY <2>1, <2>2 DEF PendingOwnerHasApplied
<1> QED
  BY <1>6, <1>10, <1>11, <1>12, <1>13, <1>14, <1>15 DEF IInv

(* A further club of an owner.                                             *)
LEMMA ClubKeepsIInv ==
  ASSUME IInv, NEW r \in Requests, req[r].open, CommitClub(r)
  PROVE  IInv'
<1> DEFINE e == req[r].email
           c == req[r].club
<1> USE ApplicationsAssumption
<1>1. /\ req' \in [Requests -> ReqType]
      /\ ~ req'[r].open
      /\ \A s \in Requests \ {r} : req'[s] = req[s]
      /\ \A s \in Requests : /\ req'[s].op = req[s].op /\ req'[s].club = req[s].club
                             /\ req'[s].email = req[s].email /\ req'[s].role = req[s].role
  BY FinishedTypes DEF CommitClub
<1>2. /\ TypeOK /\ e \in Emails /\ role[e] # None /\ c \in Clubs /\ owner[c] = None
      /\ role' = role /\ approved' = approved /\ req[r].op = "add_club"
  BY DEF IInv, UserInv, ClaimInv, OpenOf, CommitClub
<1>3. owner' = [owner EXCEPT ![c] = e] /\ status' = [status EXCEPT ![c] = "pending"]
  BY DEF CommitClub, InsertClub
<1>4. TypeOK'
  BY <1>1, <1>2, <1>3 DEF TypeOK, ClubStatus
<1>5. /\ owner'[c] = e /\ status'[c] = "pending"
      /\ \A d \in Clubs \ {c} : owner'[d] = owner[d] /\ status'[d] = status[d]
  BY <1>2, <1>3 DEF TypeOK
<1>6. ClaimInv'
  <2>1. \A s \in Requests \ {r} : req'[s].open /\ req'[s].op \in {"owner_register", "add_club"} =>
          req[s].club \in Clubs /\ owner[req[s].club] = None /\ req[s].club # c
    BY <1>1, <1>2 DEF IInv, ClaimInv, OpenOf
  <2>2. \A d \in Clubs : owner'[d] # None => ~ Unclaimed(d)'
    BY <1>1, <1>2, <1>5 DEF IInv, ClaimInv, Unclaimed, Creates
  <2> QED
    BY <1>1, <1>5, <2>1, <2>2 DEF IInv, ClaimInv, OpenOf
<1>7. DecisionInv'
  <2>1. ASSUME NEW s \in OpenOf(Decisions)'
        PROVE  /\ s \in OpenOf(Decisions) /\ req'[s] = req[s]
    BY <1>1 DEF OpenOf
  <2>2. ASSUME NEW s \in OpenOf(Decisions)
        PROVE  /\ req[s].club \in Clubs /\ req[s].email \in Emails
               /\ owner[req[s].club] = req[s].email /\ req[s].club # c
               /\ req[s].role # "pending_owner" => role[req[s].email] # "pending_owner"
    BY <1>2 DEF IInv, DecisionInv
  <2> QED
    BY <1>2, <1>5, <2>1, <2>2 DEF DecisionInv
<1>8. UserInv'
  BY <1>1, <1>2, <1>5 DEF IInv, UserInv, OpenOf
<1>9. PendingOwnerHasNoActiveClub'
  BY <1>2, <1>5 DEF IInv, PendingOwnerHasNoActiveClub, Owned
<1>10. \A f \in Emails : Owned(f) \subseteq Owned(f)'
  BY <1>2, <1>5 DEF Owned
<1>11. AdminWasApproved' /\ PendingOwnerHasApplied'
  BY <1>2, <1>10 DEF IInv, AdminWasApproved, PendingOwnerHasApplied
<1> QED
  BY <1>4, <1>6, <1>7, <1>8, <1>9, <1>11 DEF IInv

(* A decision writes the role of the owner whose club it decides about; an *)
(* owner who waits again would need a role that no decision gives.         *)
LEMMA DecisionKeepsIInv ==
  ASSUME IInv, NEW r \in Requests, req[r].open, CommitDecision(r)
  PROVE  IInv'
<1> DEFINE e == req[r].email
           c == req[r].club
           op == req[r].op
<1> USE ApplicationsAssumption
<1>1. /\ req' \in [Requests -> ReqType]
      /\ ~ req'[r].open
      /\ \A s \in Requests \ {r} : req'[s] = req[s]
      /\ \A s \in Requests : /\ req'[s].op = req[s].op /\ req'[s].club = req[s].club
                             /\ req'[s].email = req[s].email /\ req'[s].role = req[s].role
  BY FinishedTypes DEF CommitDecision
<1>2. /\ TypeOK /\ op \in Decisions /\ c \in Clubs /\ e \in Emails /\ owner[c] = e
      /\ req[r].role # "pending_owner" => role[e] # "pending_owner"
      /\ owner' = owner
      /\ approved' = IF op \in {"approve", "restore"} THEN approved \union {c} ELSE approved
  BY DEF IInv, DecisionInv, OpenOf, CommitDecision
<1>3. /\ status' = [status EXCEPT ![c] = Column(status[c], req[r].status, NewStatus(op))]
      /\ role' = [role EXCEPT ![e] = Column(role[e], req[r].role, NewRole(op, req[r].role))]
  BY <1>2 DEF CommitDecision, TypeOK
<1>4. /\ NewStatus(op) \in ClubStatus
      /\ NewStatus(op) = "active" => op \in {"approve", "restore"}
  BY <1>2 DEF NewStatus, ClubStatus, Decisions
<1>5. role[e] # None
  BY <1>2 DEF IInv, UserInv
<1>6. \/ role'[e] = role[e]
      \/ role'[e] = "user"
      \/ role'[e] = "admin" /\ op \in {"approve", "restore"}
  BY <1>2, <1>3 DEF TypeOK, Column, NewRole, Decisions
<1>7. \A f \in Emails \ {e} : role'[f] = role[f]
  BY <1>2, <1>3 DEF TypeOK
<1>8. \/ status'[c] = status[c]
      \/ status'[c] = NewStatus(op)
  BY <1>2, <1>3 DEF TypeOK, Column
<1>9. \A d \in Clubs \ {c} : status'[d] = status[d]
  BY <1>2, <1>3 DEF TypeOK
<1>10. op \in {"approve", "restore"} => role'[e] # "pending_owner"
  <2>1. req[r].role # "pending_owner" /\ op \in {"approve", "restore"} => role'[e] # "pending_owner"
    BY <1>2, <1>6
  <2>2. req[r].role = "pending_owner" /\ op \in {"approve", "restore"} => role'[e] = "admin"
    BY <1>2, <1>3 DEF TypeOK, Column, NewRole
  <2> QED
    BY <2>1, <2>2
<1>11. TypeOK'
  <2>1. role'[e] \in Roles \union {None}
    BY <1>2, <1>6 DEF TypeOK, Roles
  <2>2. role' \in [Emails -> Roles \union {None}]
    BY <1>2, <1>3, <1>7, <2>1 DEF TypeOK
  <2>3. status'[c] \in ClubStatus \union {None}
    BY <1>2, <1>4, <1>8 DEF TypeOK
  <2>4. status' \in [Clubs -> ClubStatus \union {None}]
    BY <1>2, <1>3, <1>9, <2>3 DEF TypeOK
  <2> QED
    BY <1>1, <1>2, <2>2, <2>4 DEF TypeOK
<1>12. \A f \in Emails : /\ role'[f] = "pending_owner" => role[f] = "pending_owner"
                         /\ role[f] # None => role'[f] # None
  BY <1>5, <1>6, <1>7 DEF Roles
<1>13. ClaimInv'
  BY <1>1, <1>2 DEF IInv, ClaimInv, Unclaimed, OpenOf
<1>14. DecisionInv'
  BY <1>1, <1>2, <1>12 DEF IInv, DecisionInv, OpenOf
<1>15. UserInv'
  <2>1. \A d \in Clubs : owner[d] # None => owner[d] \in Emails
    BY <1>2 DEF TypeOK
  <2> QED
    BY <1>1, <1>2, <1>12, <2>1 DEF IInv, UserInv, OpenOf
<1>16. PendingOwnerHasNoActiveClub'
  BY <1>2, <1>4, <1>8, <1>9, <1>10, <1>12 DEF IInv, PendingOwnerHasNoActiveClub, Owned
<1>17. AdminWasApproved'
  <2>1. ASSUME NEW f \in Emails, role'[f] = "admin", role[f] # "admin"
        PROVE  Owned(f)' \intersect approved' # {}
    <3>1. CASE f # e
      BY <1>7, <2>1, <3>1
    <3>2. CASE f = e
      <4>1. op \in {"approve", "restore"}
        BY <1>6, <2>1, <3>2
      <4>2. c \in Clubs /\ owner'[c] = f /\ c \in approved'
        BY <1>2, <3>2, <4>1
      <4> QED
        BY <4>2 DEF Owned
    <3> QED
      BY <3>1, <3>2
  <2>3. approved \subseteq approved' /\ \A f : Owned(f)' = Owned(f)
    BY <1>2 DEF Owned
  <2> QED
    BY <2>1, <2>3 DEF IInv, AdminWasApproved
<1>18. PendingOwnerHasApplied'
  BY <1>2, <1>12 DEF IInv, PendingOwnerHasApplied, Owned
<1> QED
  BY <1>11, <1>13, <1>14, <1>15, <1>16, <1>17, <1>18 DEF IInv

-----------------------------------------------------------------------------
(* Every step keeps the strengthened invariant.                            *)
THEOREM StepIInv == IInv /\ [Next]_vars => IInv'
<1> SUFFICES ASSUME IInv, [Next]_vars PROVE IInv'
  OBVIOUS
<1>1. ASSUME NEW r \in Requests, Send(r) PROVE IInv'
  BY <1>1, SendKeepsIInv
<1>2. ASSUME NEW r \in Requests, Commit(r) PROVE IInv'
  <2>1. CASE CommitRegister(r)
    BY <1>2, <2>1, RegisterKeepsIInv DEF Commit
  <2>2. CASE CommitTwice(r)
    BY <1>2, <2>2, ErrorKeepsIInv DEF Commit, CommitTwice
  <2>3. CASE CommitClub(r)
    BY <1>2, <2>3, ClubKeepsIInv DEF Commit
  <2>4. CASE CommitDecision(r)
    BY <1>2, <2>4, DecisionKeepsIInv DEF Commit
  <2>5. CASE CommitFails(r)
    BY <1>2, <2>5, ErrorKeepsIInv DEF Commit, CommitFails
  <2> QED
    BY <1>2, <2>1, <2>2, <2>3, <2>4, <2>5 DEF Commit
<1>3. CASE UNCHANGED vars
  BY <1>3 DEF vars, IInv, TypeOK, ClaimInv, DecisionInv, UserInv, OpenOf, Unclaimed,
     PendingOwnerHasNoActiveClub, AdminWasApproved, PendingOwnerHasApplied, Owned
<1> QED
  BY <1>1, <1>2, <1>3 DEF Next

(* An owner who waits for moderation owns no club that players see.        *)
THEOREM PendingOwnersStayHidden == Spec => []PendingOwnerHasNoActiveClub
<1>1. IInv => PendingOwnerHasNoActiveClub
  BY DEF IInv
<1> QED
  BY InitIInv, StepIInv, <1>1, PTL DEF Spec

(* Whoever has access to the CRM owns a club that was approved once.       *)
THEOREM AdminsWereApproved == Spec => []AdminWasApproved
<1>1. IInv => AdminWasApproved
  BY DEF IInv
<1> QED
  BY InitIInv, StepIInv, <1>1, PTL DEF Spec

(* Whoever waits for moderation has applied for a club.                    *)
THEOREM PendingOwnersApplied == Spec => []PendingOwnerHasApplied
<1>1. IInv => PendingOwnerHasApplied
  BY DEF IInv
<1> QED
  BY InitIInv, StepIInv, <1>1, PTL DEF Spec

-----------------------------------------------------------------------------
(* The schema always is that of the first so many revisions, which is what *)
(* alembic's version says unless a stamp has named the head too early.     *)
VersionInv ==
  /\ version \in 0 .. Head10
  /\ blind \in BOOLEAN
  /\ \E v \in 0 .. Head10 : schema = 1 .. v
  /\ blind => version = Head10 /\ Head10 \notin schema
  /\ VersionTellsSchema

(* Requests are open only while the worker serves them.                    *)
ProcessInv ==
  /\ phase \in Phases
  /\ phase # "serving" => \A r \in Requests : ~ req[r].open
  /\ ServedSchemaIsWhole

(* Since the start nobody has read that the superadmin is anything else.   *)
BossInv ==
  phase = "serving" /\ configured /\ ~ own =>
    /\ role[Boss] = "superadmin"
    /\ \A r \in OpenOf(Decisions) : req[r].email = Boss => req[r].role = "superadmin"

-----------------------------------------------------------------------------
(* Revisions on rows.                                                      *)
DatabaseRows ==
  [booking : Statuses9 \union {NoValue}, paid : Int \union {NoValue},
   duration : Int \union {NoValue}, minutes : Int \union {NoValue},
   bonus : Int \union {NoValue}, club : BOOLEAN, mode : {"request", NoValue},
   twins : BOOLEAN]

(* The columns that the first v revisions have added are filled.           *)
FilledUpTo(v, d) ==
  /\ v >= 3 /\ d.booking # NoValue => d.paid # NoValue
  /\ v >= 10 /\ d.club => d.mode # NoValue
  /\ v >= 7 /\ d.duration # NoValue =>
       d.minutes # NoValue /\ d.bonus # NoValue /\ d.minutes + d.bonus = d.duration

GoodRows(v) == {d \in DatabaseRows : FilledUpTo(v, d)}

LEMMA RevisionFills ==
  ASSUME NEW n \in Nat, NEW d \in GoodRows(n - 1)
  PROVE  Filled(n, d) \in GoodRows(n)
<1> USE MigrationsAssumption
<1>1. d \in DatabaseRows /\ FilledUpTo(n - 1, d)
  BY DEF GoodRows
<1>2. CASE n = 3 /\ d.booking # NoValue
  <2>1. Filled(n, d) = [d EXCEPT !.paid = 0]
    BY <1>2 DEF Filled
  <2> QED
    BY <1>1, <1>2, <2>1 DEF GoodRows, DatabaseRows, FilledUpTo
<1>3. CASE n = 7 /\ d.duration # NoValue
  <2> DEFINE e == [d EXCEPT !.minutes = d.duration, !.bonus = 0]
  <2>1. Filled(n, d) = e
    BY <1>3 DEF Filled
  <2>2. d.duration \in Int
    BY <1>1, <1>3 DEF DatabaseRows
  <2>3. /\ e \in DatabaseRows /\ e.minutes = d.duration /\ e.bonus = 0
        /\ e.duration = d.duration /\ e.booking = d.booking /\ e.paid = d.paid
    <3> DEFINE f == [d EXCEPT !.minutes = d.duration]
    <3>1. /\ f \in DatabaseRows /\ f.minutes = d.duration
          /\ f.duration = d.duration /\ f.booking = d.booking /\ f.paid = d.paid
      BY <1>1, <2>2 DEF DatabaseRows
    <3>2. e = [f EXCEPT !.bonus = 0]
      OBVIOUS
    <3> HIDE DEF e, f
    <3> QED
      BY <3>1, <3>2 DEF DatabaseRows
  <2> HIDE DEF e
  <2>4. FilledUpTo(n, e)
    BY <1>1, <1>3, <2>2, <2>3 DEF FilledUpTo
  <2> QED
    BY <2>1, <2>3, <2>4 DEF GoodRows
<1>4. CASE n = 10 /\ d.club
  <2> DEFINE e == [d EXCEPT !.mode = "request"]
  <2>1. Filled(n, d) = e
    BY <1>4 DEF Filled
  <2>2. /\ e \in DatabaseRows /\ e.mode = "request" /\ e.booking = d.booking /\ e.paid = d.paid
        /\ e.duration = d.duration /\ e.minutes = d.minutes /\ e.bonus = d.bonus
    BY <1>1 DEF DatabaseRows
  <2> HIDE DEF e
  <2>3. FilledUpTo(n, e)
    BY <1>1, <1>4, <2>2 DEF FilledUpTo
  <2> QED
    BY <2>1, <2>2, <2>3 DEF GoodRows
<1>5. CASE /\ ~ (n = 3 /\ d.booking # NoValue)
           /\ ~ (n = 7 /\ d.duration # NoValue)
           /\ ~ (n = 10 /\ d.club)
  <2>1. Filled(n, d) = d
    BY <1>5 DEF Filled
  <2> QED
    BY <1>1, <1>5, <2>1 DEF GoodRows, DatabaseRows, FilledUpTo
<1> QED
  BY <1>2, <1>3, <1>4, <1>5

LEMMA DroppedKeepsFilled ==
  ASSUME NEW n \in Nat, NEW d \in GoodRows(n)
  PROVE  Dropped(n, d) \in GoodRows(n - 1)
<1> USE MigrationsAssumption
<1>1. d \in DatabaseRows /\ FilledUpTo(n, d)
  BY DEF GoodRows
<1>2. CASE n = 1
  BY <1>2 DEF Dropped, NoRows, GoodRows, DatabaseRows, FilledUpTo
<1>3. CASE n = 3
  <2> DEFINE e == [d EXCEPT !.paid = NoValue]
  <2>1. Dropped(n, d) = e
    BY <1>3 DEF Dropped
  <2>2. e \in DatabaseRows
    BY <1>1 DEF DatabaseRows
  <2> HIDE DEF e
  <2>3. FilledUpTo(n - 1, e)
    BY <1>3 DEF FilledUpTo
  <2> QED
    BY <2>1, <2>2, <2>3 DEF GoodRows
<1>4. CASE n = 7
  <2> DEFINE e == [d EXCEPT !.minutes = NoValue, !.bonus = NoValue]
  <2>1. Dropped(n, d) = e
    BY <1>4 DEF Dropped
  <2>2. e \in DatabaseRows /\ e.booking = d.booking /\ e.paid = d.paid
    BY <1>1 DEF DatabaseRows
  <2> HIDE DEF e
  <2>3. FilledUpTo(n - 1, e)
    BY <1>1, <1>4, <2>2 DEF FilledUpTo
  <2> QED
    BY <2>1, <2>2, <2>3 DEF GoodRows
<1>5. CASE n = 10
  <2> DEFINE e == [d EXCEPT !.mode = NoValue]
  <2>1. Dropped(n, d) = e
    BY <1>5 DEF Dropped
  <2>2. /\ e \in DatabaseRows /\ e.booking = d.booking /\ e.paid = d.paid
        /\ e.duration = d.duration /\ e.minutes = d.minutes /\ e.bonus = d.bonus
    BY <1>1 DEF DatabaseRows
  <2> HIDE DEF e
  <2>3. FilledUpTo(n - 1, e)
    BY <1>1, <1>5, <2>2 DEF FilledUpTo
  <2> QED
    BY <2>1, <2>2, <2>3 DEF GoodRows
<1>6. CASE n \notin {1, 3, 7, 10}
  <2>1. Dropped(n, d) = d
    BY <1>6 DEF Dropped
  <2> QED
    BY <1>1, <2>1 DEF GoodRows, FilledUpTo
<1> QED
  BY <1>2, <1>3, <1>4, <1>5, <1>6

(* The equation of a series of upgrades has a solution up to every         *)
(* revision; the definition chooses one.                                   *)
Chain(lo, hi, d, after) ==
  after = [n \in lo .. hi |-> IF n = lo THEN d ELSE Filled(n, after[n - 1])]

LEMMA ChainExists ==
  ASSUME NEW lo \in Int, NEW hi \in Int, lo <= hi, NEW d
  PROVE  \E after : Chain(lo, hi, d, after)
<1> DEFINE good == {n \in lo .. hi : \E after : Chain(lo, n, d, after)}
<1>1. lo \in good
  <2> DEFINE f == [n \in lo .. lo |-> d]
  <2>1. Chain(lo, lo, d, f)
    BY DEF Chain
  <2> QED
    BY <2>1
<1>2. ASSUME NEW n \in lo + 1 .. hi, n - 1 \in good
      PROVE  n \in good
  <2>1. PICK f : Chain(lo, n - 1, d, f)
    BY <1>2
  <2> DEFINE g == [m \in lo .. n |-> IF m = n THEN Filled(n, f[n - 1]) ELSE f[m]]
             h == [m \in lo .. n |-> IF m = lo THEN d ELSE Filled(m, g[m - 1])]
  <2>2. f = [m \in lo .. n - 1 |-> IF m = lo THEN d ELSE Filled(m, f[m - 1])]
    BY <2>1 DEF Chain
  <2>3. ASSUME NEW m \in lo .. n PROVE g[m] = h[m]
    <3>1. CASE m = n
      BY <3>1
    <3>2. CASE m # n
      <4>1. m \in lo .. n - 1 /\ g[m] = f[m]
        BY <3>2
      <4>2. CASE m = lo
        BY <2>2, <4>1, <4>2
      <4>3. CASE m # lo
        <5>1. m - 1 \in lo .. n - 1 /\ m - 1 \in lo .. n /\ m - 1 # n
          BY <4>1, <4>3
        <5>2. g[m - 1] = f[m - 1]
          BY <5>1
        <5> QED
          BY <2>2, <4>1, <4>3, <5>2
      <4> QED
        BY <4>2, <4>3
    <3> QED
      BY <3>1, <3>2
  <2>4. g = h
    BY <2>3
  <2>5. Chain(lo, n, d, g)
    BY <2>4 DEF Chain
  <2> QED
    BY <2>5
<1> HIDE DEF good
<1>3. lo .. hi \subseteq good
  BY <1>1, <1>2, IntervalInduction
<1> QED
  BY <1>3 DEF good

LEMMA ChainFills ==
  ASSUME NEW lo \in Nat, NEW hi \in Nat, lo <= hi, NEW d \in GoodRows(lo)
  PROVE  FilledBetween(lo, hi, d) \in GoodRows(hi)
<1> DEFINE after == CHOOSE f : Chain(lo, hi, d, f)
           good == {n \in lo .. hi : after[n] \in GoodRows(n)}
<1>1. FilledBetween(lo, hi, d) = after[hi]
  BY DEF FilledBetween, Chain
<1>2. Chain(lo, hi, d, after)
  BY ChainExists
<1> HIDE DEF after
<1>3. \A n \in lo .. hi : after[n] = IF n = lo THEN d ELSE Filled(n, after[n - 1])
  BY <1>2 DEF Chain
<1>4. lo \in good
  BY <1>3
<1>5. ASSUME NEW n \in lo + 1 .. hi, n - 1 \in good
      PROVE  n \in good
  <2>1. after[n - 1] \in GoodRows(n - 1) /\ n \in Nat /\ n \in lo .. hi /\ n # lo
    BY <1>5
  <2>2. Filled(n, after[n - 1]) \in GoodRows(n)
    BY <2>1, RevisionFills
  <2> QED
    BY <1>3, <2>1, <2>2
<1> HIDE DEF good
<1>6. lo .. hi \subseteq good
  BY <1>4, <1>5, IntervalInduction
<1> QED
  BY <1>1, <1>6 DEF good

-----------------------------------------------------------------------------
(* Nothing is done between a revision and itself.                          *)
LEMMA ChainStays ==
  ASSUME NEW n \in Nat, NEW d
  PROVE  FilledBetween(n, n, d) = d
<1> DEFINE after == CHOOSE f : Chain(n, n, d, f)
<1>1. FilledBetween(n, n, d) = after[n]
  BY DEF FilledBetween, Chain
<1>2. Chain(n, n, d, after)
  BY ChainExists
<1> HIDE DEF after
<1>3. after[n] = d
  BY <1>2 DEF Chain
<1> QED
  BY <1>1, <1>3

-----------------------------------------------------------------------------
(* The database is new, at some revision, or made by some create_all.      *)
THEOREM InitVersionInv == DatabaseInit => VersionInv
<1>0. Head10 = 10
  BY MigrationsAssumption
<1>1. ASSUME version = 0, blind = FALSE, schema = {} \/ schema = Revisions
      PROVE  VersionInv
  <2>1. \E v \in 0 .. Head10 : schema = 1 .. v
    <3>1. {} = 1 .. 0 /\ 0 \in 0 .. Head10 /\ Head10 \in 0 .. Head10
      BY <1>0
    <3> QED
      BY <1>1, <3>1 DEF Revisions
  <2>2. version \in 0 .. Head10 /\ ~ (version > 0)
    BY <1>0, <1>1
  <2> QED
    BY <1>1, <2>1, <2>2, Zenon DEF VersionInv, VersionTellsSchema
<1>2. ASSUME NEW n \in Revisions, version \in {0, n}, schema = 1 .. n, blind = FALSE
      PROVE  VersionInv
  <2>1. n \in 0 .. Head10 /\ version \in 0 .. Head10
    BY <1>0, <1>2 DEF Revisions
  <2>2. version > 0 => schema = 1 .. version
    BY <1>2
  <2> QED
    BY <1>2, <2>1, <2>2, Zenon DEF VersionInv, VersionTellsSchema
<1> QED
  BY <1>1, <1>2 DEF DatabaseInit

(* An upgrade that succeeds leaves the whole schema, unless the version    *)
(* was a blind stamp's; one that fails leaves everything.                  *)
LEMMA UpgradeKeepsVersionInv ==
  ASSUME VersionInv, Upgrade
  PROVE  /\ VersionInv'
         /\ version' = Head10 /\ ~ blind' => schema' = Revisions
<1> USE MigrationsAssumption
<1>1. PICK v \in 0 .. Head10 : schema = 1 .. v
  BY DEF VersionInv
<1>2. CASE UNCHANGED <<version, schema, blind>>
  <2>1. VersionInv'
    BY <1>2 DEF VersionInv, VersionTellsSchema
  <2>2. ASSUME version' = Head10, ~ blind' PROVE schema' = Revisions
    <3>1. version > 0 /\ version = Head10 /\ ~ blind
      BY <1>2, <2>2
    <3> QED
      BY <1>2, <3>1 DEF VersionInv, VersionTellsSchema, Revisions
  <2> QED
    BY <2>1, <2>2
<1>3. CASE Upgradable /\ version # Head10
  <2>1. \A n \in version + 1 .. Head10 : n \notin schema
    BY <1>3 DEF Upgradable
  <2>2. version' = Head10 /\ schema' = schema \union (version + 1 .. Head10) /\ blind' = blind
    BY <1>3 DEF Upgrade
  <2>3. version \in 0 .. Head10 /\ blind = FALSE
    BY <1>3 DEF VersionInv
  <2>4. schema = 1 .. version
    <3>1. CASE version = 0
      <4>1. 1 \in version + 1 .. Head10
        BY <3>1
      <4> QED
        BY <1>1, <2>1, <3>1, <4>1
    <3>2. CASE version > 0
      BY <2>3, <3>2 DEF VersionInv, VersionTellsSchema
    <3> QED
      BY <2>3, <3>1, <3>2
  <2>5. schema' = 1 .. Head10
    BY <2>2, <2>3, <2>4
  <2> QED
    BY <2>2, <2>3, <2>5 DEF VersionInv, VersionTellsSchema, Revisions
<1>4. CASE Upgradable /\ version = Head10
  BY <1>2, <1>4 DEF Upgrade
<1>5. CASE ~ Upgradable
  BY <1>2, <1>5 DEF Upgrade, databaseVars
<1> QED
  BY <1>3, <1>4, <1>5

(* The operator goes back by one revision, or stamps what create_all made. *)
LEMMA OperateKeepsVersionInv ==
  ASSUME VersionInv, Downgrade \/ Stamp
  PROVE  VersionInv'
<1> USE MigrationsAssumption
<1>1. PICK v \in 0 .. Head10 : schema = 1 .. v
  BY DEF VersionInv
<1>2. ASSUME Stamp PROVE VersionInv'
  <2>1. version' = Head10 /\ schema' = schema /\ blind' = (schema # Revisions)
    BY <1>2 DEF Stamp
  <2>2. Head10 \in schema => schema = Revisions
    <3>1. ASSUME Head10 \in 1 .. v PROVE v = Head10
      BY <3>1
    <3> QED
      BY <1>1, <3>1 DEF Revisions
  <2>3. Head10 \in 0 .. Head10
    OBVIOUS
  <2>4. blind' \in BOOLEAN /\ (blind' => Head10 \notin schema)
    BY <2>1, <2>2
  <2>5. ~ blind' => schema' = 1 .. version'
    BY <2>1 DEF Revisions
  <2> QED
    BY <1>1, <2>1, <2>3, <2>4, <2>5 DEF VersionInv, VersionTellsSchema
<1>3. ASSUME Downgrade, UNCHANGED <<version, schema, blind>> PROVE VersionInv'
  BY <1>3 DEF VersionInv, VersionTellsSchema
<1>4. ASSUME version > 0, Downgradable, schema' = schema \ {version},
             version' = version - 1, blind' = blind
      PROVE  VersionInv'
  <2>1. version \in schema /\ version \in 0 .. Head10 /\ blind = FALSE
    BY <1>4 DEF Downgradable, VersionInv
  <2>2. schema' = 1 .. version - 1
    BY <1>4, <2>1 DEF VersionInv, VersionTellsSchema
  <2>3. version' \in 0 .. Head10 /\ schema' = 1 .. version'
    BY <1>4, <2>1, <2>2
  <2> QED
    BY <1>4, <2>1, <2>3 DEF VersionInv, VersionTellsSchema
<1> QED
  BY <1>2, <1>3, <1>4 DEF Downgrade, databaseVars

-----------------------------------------------------------------------------
(* The columns stay filled.                                                *)
RowsFit(present, d) ==
  /\ d \in DatabaseRows
  /\ 3 \in present /\ d.booking # NoValue => d.paid # NoValue
  /\ 10 \in present /\ d.club => d.mode # NoValue
  /\ 7 \in present /\ d.duration # NoValue =>
       d.minutes # NoValue /\ d.bonus # NoValue /\ d.minutes + d.bonus = d.duration

RowsInv == RowsFit(schema, rows)

LEMMA RowsAreGood ==
  ASSUME NEW v \in 0 .. Head10, NEW d
  PROVE  RowsFit(1 .. v, d) <=> d \in GoodRows(v)
<1>1. v \in Nat
  BY MigrationsAssumption
<1>2. /\ 3 \in 1 .. v <=> v >= 3
      /\ 7 \in 1 .. v <=> v >= 7
      /\ 10 \in 1 .. v <=> v >= 10
  BY <1>1
<1> QED
  BY <1>2 DEF GoodRows, FilledUpTo, RowsFit

LEMMA RowsHaveFields ==
  ASSUME NEW d \in DatabaseRows
  PROVE  d = [booking |-> d.booking, paid |-> d.paid, duration |-> d.duration,
              minutes |-> d.minutes, bonus |-> d.bonus, club |-> d.club,
              mode |-> d.mode, twins |-> d.twins]
BY DEF DatabaseRows

LEMMA InitRowsInv == DatabaseInit => RowsInv
<1> SUFFICES ASSUME DatabaseInit PROVE RowsInv
  OBVIOUS
<1> USE MigrationsAssumption
<1>1. CASE rows = NoRows
  BY <1>1 DEF NoRows, RowsInv, RowsFit, DatabaseRows
<1>2. CASE \E n \in Revisions, twins \in BOOLEAN :
             schema = 1 .. n /\ rows = FilledBetween(1, n, OldRows(twins))
  <2>1. PICK n \in Revisions, twins \in BOOLEAN :
          schema = 1 .. n /\ rows = FilledBetween(1, n, OldRows(twins))
    BY <1>2
  <2>2. n \in Nat /\ 1 <= n /\ 1 \in Nat
    BY DEF Revisions
  <2> DEFINE d == OldRows(twins)
  <2>3. d \in DatabaseRows
    <3>1. NoRows \in DatabaseRows
      BY DEF NoRows, DatabaseRows
    <3>2. d = [booking |-> "active", paid |-> NoRows.paid, duration |-> 2,
               minutes |-> NoRows.minutes, bonus |-> NoRows.bonus, club |-> TRUE,
               mode |-> NoRows.mode, twins |-> twins]
      <4>1. d = [NoRows EXCEPT !.booking = "active", !.duration = 2, !.club = TRUE,
                                !.twins = twins]
        BY DEF OldRows
      <4>2. NoRows = [booking |-> NoRows.booking, paid |-> NoRows.paid,
                      duration |-> NoRows.duration, minutes |-> NoRows.minutes,
                      bonus |-> NoRows.bonus, club |-> NoRows.club,
                      mode |-> NoRows.mode, twins |-> NoRows.twins]
        BY <3>1, RowsHaveFields
      <4> HIDE DEF d
      <4> QED
        BY <4>1, <4>2
    <3>3. "active" \in Statuses9
      BY DEF Statuses9, Statuses5
    <3> HIDE DEF d
    <3> QED
      BY <3>1, <3>2, <3>3 DEF DatabaseRows
  <2> HIDE DEF d
  <2>4. d \in GoodRows(1)
    BY <2>3 DEF GoodRows, FilledUpTo
  <2>5. rows \in GoodRows(n)
    BY <2>1, <2>2, <2>4, ChainFills DEF d
  <2>6. n \in 0 .. Head10
    BY DEF Revisions
  <2> QED
    BY <2>1, <2>5, <2>6, RowsAreGood DEF RowsInv
<1> QED
  BY <1>1, <1>2 DEF DatabaseInit

LEMMA UpgradeKeepsRowsInv ==
  ASSUME VersionInv, RowsInv, Upgrade
  PROVE  RowsInv'
<1> USE MigrationsAssumption
<1>1. CASE Upgradable /\ version # Head10
  <2>1. version \in 0 .. Head10 /\ blind = FALSE
    BY <1>1 DEF VersionInv
  <2>2. schema = 1 .. version
    <3>1. CASE version = 0
      <4>1. 1 \notin schema
        BY <1>1, <3>1 DEF Upgradable
      <4> QED
        BY <3>1, <4>1 DEF VersionInv
    <3>2. CASE version > 0
      BY <2>1, <3>2 DEF VersionInv, VersionTellsSchema
    <3> QED
      BY <2>1, <3>1, <3>2
  <2>3. rows' = FilledBetween(version, Head10, rows) /\ schema' = 1 .. Head10
    BY <1>1, <2>1, <2>2 DEF Upgrade
  <2>4. version \in Nat /\ Head10 \in Nat /\ version <= Head10 /\ Head10 \in 0 .. Head10
    BY <2>1
  <2>5. rows \in GoodRows(version)
    BY <2>1, <2>2, RowsAreGood DEF RowsInv
  <2>6. rows' \in GoodRows(Head10)
    BY <2>3, <2>4, <2>5, ChainFills
  <2> QED
    BY <2>3, <2>4, <2>6, RowsAreGood DEF RowsInv
<1>2. CASE Upgradable /\ version = Head10
  <2>1. rows' = FilledBetween(Head10, Head10, rows) /\ schema' = schema
    BY <1>2 DEF Upgrade
  <2>2. rows' = rows
    BY <2>1, ChainStays
  <2> QED
    BY <2>1, <2>2 DEF RowsInv
<1>3. CASE ~ Upgradable
  BY <1>3 DEF Upgrade, databaseVars, RowsInv
<1> QED
  BY <1>1, <1>2, <1>3

LEMMA OperateKeepsRowsInv ==
  ASSUME VersionInv, RowsInv, Downgrade \/ Stamp
  PROVE  RowsInv'
<1> USE MigrationsAssumption
<1>1. ASSUME UNCHANGED <<schema, rows>> PROVE RowsInv'
  BY <1>1 DEF RowsInv
<1>2. ASSUME version > 0, Downgradable, rows' = Dropped(version, rows),
             schema' = schema \ {version}
      PROVE  RowsInv'
  <2>1. version \in 0 .. Head10 /\ version - 1 \in 0 .. Head10 /\ version \in Nat
    BY <1>2 DEF VersionInv
  <2>2. schema = 1 .. version /\ schema' = 1 .. version - 1
    BY <1>2, <2>1 DEF VersionInv, VersionTellsSchema, Downgradable
  <2>3. rows \in GoodRows(version)
    BY <2>1, <2>2, RowsAreGood DEF RowsInv
  <2>4. rows' \in GoodRows(version - 1)
    BY <1>2, <2>1, <2>3, DroppedKeepsFilled
  <2> QED
    BY <2>1, <2>2, <2>4, RowsAreGood DEF RowsInv
<1> QED
  BY <1>1, <1>2 DEF Downgrade, Stamp, databaseVars

(* The service has every column, and fills it.                             *)
LEMMA WriteKeepsRowsInv ==
  ASSUME RowsInv, WriteRows
  PROVE  RowsInv'
<1> USE MigrationsAssumption
<1>1. rows \in DatabaseRows /\ schema' = schema /\ RowsFit(schema, rows)
  BY DEF RowsInv, RowsFit, WriteRows
<1>2. rows = [booking |-> rows.booking, paid |-> rows.paid, duration |-> rows.duration,
              minutes |-> rows.minutes, bonus |-> rows.bonus, club |-> rows.club,
              mode |-> rows.mode, twins |-> rows.twins]
  BY <1>1, RowsHaveFields
<1>3. CASE AddTariff(1, 1)
  <2>1. rows' = [booking |-> rows.booking, paid |-> rows.paid, duration |-> 2,
                 minutes |-> 1, bonus |-> 1, club |-> rows.club,
                 mode |-> rows.mode, twins |-> rows.twins]
    <3>1. rows' = [rows EXCEPT !.duration = 2, !.minutes = 1, !.bonus = 1]
      BY <1>3 DEF AddTariff
    <3> QED
      BY <1>2, <3>1
  <2>2. rows' \in DatabaseRows
    BY <1>1, <2>1 DEF DatabaseRows
  <2> QED
    BY <1>1, <2>1, <2>2 DEF RowsInv, RowsFit
<1>4. ASSUME NEW s \in Statuses9, PlaceBooking(s, 1) PROVE RowsInv'
  <2>1. rows' = [booking |-> s, paid |-> 1, duration |-> rows.duration,
                 minutes |-> rows.minutes, bonus |-> rows.bonus, club |-> rows.club,
                 mode |-> rows.mode, twins |-> rows.twins]
    <3>1. rows' = [rows EXCEPT !.booking = s, !.paid = 1]
      BY <1>4 DEF PlaceBooking
    <3> QED
      BY <1>2, <3>1
  <2>2. rows' \in DatabaseRows
    BY <1>1, <1>4, <2>1 DEF DatabaseRows
  <2> QED
    BY <1>1, <2>1, <2>2 DEF RowsInv, RowsFit
<1>5. CASE rows.booking = "pending" /\ rows' = [rows EXCEPT !.booking = "rejected"]
  <2>1. rows' = [booking |-> "rejected", paid |-> rows.paid, duration |-> rows.duration,
                 minutes |-> rows.minutes, bonus |-> rows.bonus, club |-> rows.club,
                 mode |-> rows.mode, twins |-> rows.twins]
    BY <1>2, <1>5
  <2>2. rows' \in DatabaseRows
    BY <1>1, <2>1 DEF DatabaseRows, Statuses9
  <2>3. 3 \in schema => rows.paid # NoValue
    BY <1>1, <1>5 DEF RowsFit, Statuses9
  <2> QED
    BY <1>1, <2>1, <2>2, <2>3 DEF RowsInv, RowsFit
<1>6. CASE OpenClub
  <2>1. rows' = [booking |-> rows.booking, paid |-> rows.paid, duration |-> rows.duration,
                 minutes |-> rows.minutes, bonus |-> rows.bonus, club |-> TRUE,
                 mode |-> "request", twins |-> rows.twins]
    <3>1. rows' = [rows EXCEPT !.club = TRUE, !.mode = "request"]
      BY <1>6 DEF OpenClub
    <3> QED
      BY <1>2, <3>1
  <2>2. rows' \in DatabaseRows
    BY <1>1, <2>1 DEF DatabaseRows
  <2> QED
    BY <1>1, <2>1, <2>2 DEF RowsInv, RowsFit
<1>7. {"pending", "active"} \subseteq Statuses9
  BY DEF Statuses9, Statuses5
<1> QED
  BY <1>3, <1>4, <1>5, <1>6, <1>7 DEF WriteRows

-----------------------------------------------------------------------------
DInv == IInv /\ VersionInv /\ RowsInv /\ ProcessInv /\ BossInv

(* The database is there before the first start.                           *)
THEOREM InitDInv == DeploymentInit => DInv
<1> SUFFICES ASSUME DeploymentInit PROVE DInv
  OBVIOUS
<1>1. IInv /\ VersionInv /\ RowsInv
  BY InitIInv, InitVersionInv, InitRowsInv DEF DeploymentInit
<1>2. ProcessInv /\ BossInv
  BY DEF DeploymentInit, Init, NotSent, ProcessInv, BossInv, Phases, ServedSchemaIsWhole
<1> QED
  BY <1>1, <1>2 DEF DInv

LEMMA VarsKeepIInv ==
  ASSUME IInv, UNCHANGED vars
  PROVE  IInv'
BY StepIInv

LEMMA StartKeepsDInv ==
  ASSUME DInv, Start
  PROVE  DInv'
<1>1. IInv'
  BY VarsKeepIInv DEF DInv, Start
<1>2. VersionInv' /\ (version' = Head10 /\ ~ blind' => schema' = Revisions)
  BY UpgradeKeepsVersionInv DEF DInv, Start
<1>3. ProcessInv' /\ BossInv'
  BY <1>2 DEF DInv, Start, ProcessInv, BossInv, Phases, ServedSchemaIsWhole, vars
<1>4. RowsInv'
  BY UpgradeKeepsRowsInv DEF DInv, Start
<1> QED
  BY <1>1, <1>2, <1>3, <1>4 DEF DInv

(* The superadmin's account owns clubs or not, and was approved or not:    *)
(* being a superadmin contradicts nothing.                                 *)
LEMMA BootstrapKeepsDInv ==
  ASSUME DInv, Bootstrap
  PROVE  DInv'
<1> USE DEF DInv
<1>1. /\ UNCHANGED <<owner, status, req, approved, version, schema, rows, blind>>
      /\ phase' = "serving" /\ phase = "migrated" /\ configured' = configured
  BY DEF Bootstrap, databaseVars
<1>2. \A r \in Requests : ~ req[r].open
  BY <1>1 DEF ProcessInv
<1>3. /\ role' \in [Emails -> Roles \union {None}]
      /\ \A e \in Emails : role'[e] = role[e] \/ role'[e] = "superadmin"
      /\ configured => role'[Boss] = "superadmin"
  BY DeploymentAssumption DEF Bootstrap, BossPromoted, IInv, TypeOK, Roles
<1>4. IInv'
  <2>1. TypeOK'
    BY <1>1, <1>3 DEF IInv, TypeOK
  <2>2. ClaimInv' /\ DecisionInv'
    BY <1>1, <1>2 DEF IInv, ClaimInv, DecisionInv, OpenOf, Unclaimed
  <2>3. UserInv'
    <3>1. \A e \in Emails : role[e] # None => role'[e] # None
      BY <1>3, ApplicationsAssumption DEF Roles
    <3> QED
      BY <1>1, <1>2, <3>1 DEF IInv, UserInv, OpenOf, TypeOK
  <2>4. (PendingOwnerHasNoActiveClub /\ AdminWasApproved /\ PendingOwnerHasApplied)'
    BY <1>1, <1>3 DEF IInv, PendingOwnerHasNoActiveClub, AdminWasApproved,
       PendingOwnerHasApplied, Owned
  <2> QED
    BY <2>1, <2>2, <2>3, <2>4 DEF IInv
<1>5. VersionInv' /\ RowsInv'
  BY <1>1 DEF VersionInv, VersionTellsSchema, RowsInv
<1>6. ProcessInv' /\ BossInv'
  BY <1>1, <1>2, <1>3 DEF ProcessInv, BossInv, Phases, ServedSchemaIsWhole, OpenOf
<1> QED
  BY <1>4, <1>5, <1>6

(* The start fails, and nothing was open.                                  *)
LEMMA BootstrapRaisesKeepsDInv ==
  ASSUME DInv, BootstrapRaises
  PROVE  DInv'
<1>1. /\ UNCHANGED <<vars, version, schema, rows, blind, configured, own>>
      /\ phase' = "down" /\ phase = "migrated"
  BY DEF BootstrapRaises, databaseVars
<1>2. IInv'
  BY <1>1, VarsKeepIInv DEF DInv
<1>3. VersionInv' /\ RowsInv'
  BY <1>1 DEF DInv, VersionInv, VersionTellsSchema, RowsInv
<1>4. ProcessInv' /\ BossInv'
  BY <1>1 DEF DInv, ProcessInv, BossInv, Phases, ServedSchemaIsWhole, vars
<1> QED
  BY <1>2, <1>3, <1>4 DEF DInv

(* Only requests end.                                                      *)
LEMMA CrashKeepsDInv ==
  ASSUME DInv, Crash
  PROVE  DInv'
<1> USE DEF DInv
<1>1. /\ UNCHANGED <<role, owner, status, approved, version, schema, rows, blind>>
      /\ phase' = "down"
      /\ req' = [r \in Requests |-> Lost(req[r])]
  BY DEF Crash, tableVars, databaseVars
<1>2. \A r \in Requests : /\ req'[r] \in ReqType /\ ~ req'[r].open
                          /\ req'[r].op = req[r].op /\ req'[r].club = req[r].club
                          /\ req'[r].email = req[r].email
  BY <1>1 DEF Lost, IInv, TypeOK, ReqType, Answers
<1>3. IInv'
  <2>1. TypeOK'
    BY <1>1, <1>2 DEF IInv, TypeOK
  <2>2. ClaimInv' /\ DecisionInv' /\ UserInv'
    BY <1>1, <1>2 DEF IInv, ClaimInv, DecisionInv, UserInv, OpenOf, Unclaimed
  <2>3. (PendingOwnerHasNoActiveClub /\ AdminWasApproved /\ PendingOwnerHasApplied)'
    BY <1>1 DEF IInv, PendingOwnerHasNoActiveClub, AdminWasApproved,
       PendingOwnerHasApplied, Owned
  <2> QED
    BY <2>1, <2>2, <2>3 DEF IInv
<1>4. VersionInv' /\ RowsInv' /\ ProcessInv' /\ BossInv'
  BY <1>1, <1>2 DEF VersionInv, VersionTellsSchema, RowsInv, ProcessInv, BossInv, Phases,
     ServedSchemaIsWhole
<1> QED
  BY <1>3, <1>4

(* Without the tables there is nobody and no club, and nothing was open.   *)
LEMMA OperateKeepsDInv ==
  ASSUME DInv, Operate
  PROVE  DInv'
<1> USE DEF DInv
<1>1. phase = "down" /\ UNCHANGED <<req, phase, configured, crashes, own>>
  BY DEF Operate, processVars
<1>2. \A r \in Requests : ~ req[r].open
  BY <1>1 DEF ProcessInv
<1>3. VersionInv' /\ RowsInv'
  BY OperateKeepsVersionInv, OperateKeepsRowsInv DEF Operate
<1>4. ASSUME UNCHANGED tableVars PROVE IInv'
  BY <1>1, <1>4, VarsKeepIInv DEF tableVars, vars
<1>5. ASSUME role' = [e \in Emails |-> None],
             owner' = [c \in Clubs |-> None], status' = [c \in Clubs |-> None],
             approved' = {}
      PROVE  IInv'
  <2>1. TypeOK'
    BY <1>1, <1>5 DEF IInv, TypeOK
  <2>2. ClaimInv' /\ DecisionInv' /\ UserInv'
    BY <1>1, <1>2, <1>5 DEF IInv, ClaimInv, DecisionInv, UserInv, OpenOf
  <2>3. (PendingOwnerHasNoActiveClub /\ AdminWasApproved /\ PendingOwnerHasApplied)'
    BY <1>5, ApplicationsAssumption DEF PendingOwnerHasNoActiveClub, AdminWasApproved,
       PendingOwnerHasApplied, Roles
  <2> QED
    BY <2>1, <2>2, <2>3 DEF IInv
<1>6. IInv'
  BY <1>4, <1>5 DEF Operate
<1>7. ProcessInv' /\ BossInv'
  BY <1>1, <1>2 DEF ProcessInv, BossInv, ServedSchemaIsWhole
<1> QED
  BY <1>3, <1>6, <1>7

-----------------------------------------------------------------------------
(* A request reads that the account is a superadmin's as long as it is.    *)
LEMMA SendKeepsBossInv ==
  ASSUME IInv, BossInv, NEW r \in Requests, phase = "serving", Send(r),
         UNCHANGED <<phase, configured>>, ~ own' => ~ own
  PROVE  BossInv'
<1>1. TypeOK /\ role' = role /\ DOMAIN req = Requests
  BY DEF IInv, TypeOK, Send
<1>2. /\ \A q \in Requests \ {r} : req'[q] = req[q]
      /\ req'[r].open /\ req'[r].op \in Decisions => req'[r].role = role[req'[r].email]
  <2>1. ASSUME NEW op \in {"register", "owner_register"}, NEW e \in Emails,
               NEW c \in Clubs \union {None}, Register(r, op, e, c)
        PROVE  /\ req' = [req EXCEPT ![r] = req'[r]]
               /\ req'[r].op \notin Decisions
    BY <1>1, <2>1 DEF Register, Ended, Pending, NotSent, Decisions
  <2>2. ASSUME NEW e \in Emails, NEW c \in Clubs, AddClub(r, e, c)
        PROVE  /\ req' = [req EXCEPT ![r] = req'[r]]
               /\ req'[r].op \notin Decisions
    BY <1>1, <2>2 DEF AddClub, Ended, Pending, NotSent, Decisions
  <2>3. ASSUME NEW op \in Decisions, NEW c \in Clubs, Decide(r, op, c)
        PROVE  /\ req' = [req EXCEPT ![r] = req'[r]]
               /\ req'[r].role = role[req'[r].email]
    BY <1>1, <2>3 DEF Decide, Pending, NotSent
  <2> QED
    BY <1>1, <2>1, <2>2, <2>3 DEF Send
<1>3. \A q \in Requests \ {r} : q \in OpenOf(Decisions)' => q \in OpenOf(Decisions)
  BY <1>2 DEF OpenOf
<1>4. r \in OpenOf(Decisions)' => req'[r].role = role[req'[r].email]
  BY <1>2 DEF OpenOf
<1>5. OpenOf(Decisions)' \subseteq Requests
  BY DEF OpenOf
<1> QED
  BY <1>1, <1>2, <1>3, <1>4, <1>5 DEF BossInv

(* Whoever has the superadmin's role keeps it in every decision but an     *)
(* approval of a club of its own.                                          *)
LEMMA CommitKeepsBossInv ==
  ASSUME IInv, BossInv, NEW r \in Requests, phase = "serving", Commit(r),
         UNCHANGED <<phase, configured>>,
         ~ own' => ~ own /\ ~ (req[r].op = "approve" /\ req[r].email = Boss
                               /\ req'[r].answer = "done")
  PROVE  BossInv'
<1> SUFFICES ASSUME configured, ~ own' PROVE BossInv'
  BY DEF BossInv
<1> USE DeploymentAssumption, ApplicationsAssumption
<1>1. /\ TypeOK /\ req[r].open /\ role[Boss] = "superadmin"
      /\ \A q \in OpenOf(Decisions) : req[q].email = Boss => req[q].role = "superadmin"
  BY DEF IInv, BossInv, Commit
<1>2. Finish(r, "done") \/ Finish(r, "error")
  BY DEF Commit, CommitRegister, CommitTwice, CommitClub, CommitDecision, CommitFails
<1>3. /\ \A q \in Requests \ {r} : req'[q] = req[q]
      /\ ~ req'[r].open
  BY <1>1, <1>2 DEF Finish, TypeOK, ReqType
<1>4. role'[Boss] = "superadmin"
  <2>1. CASE CommitRegister(r)
    <3>1. req[r].email # Boss
      BY <1>1, <2>1 DEF CommitRegister, Roles
    <3> QED
      BY <1>1, <2>1, <3>1 DEF CommitRegister, TypeOK
  <2>2. CASE CommitDecision(r)
    <3> DEFINE q == req[r]
    <3>1. q.op \in Decisions /\ r \in OpenOf(Decisions)
      BY <1>1, <2>2 DEF CommitDecision, OpenOf
    <3>2. CASE q.email # Boss
      BY <1>1, <2>2, <3>2 DEF CommitDecision, TypeOK
    <3>3. CASE q.email = Boss
      <4>1. q.role = "superadmin"
        BY <1>1, <3>1, <3>3
      <4>2. req'[r].answer = "done"
        BY <1>1, <2>2 DEF CommitDecision, Finish, TypeOK, ReqType
      <4>3. q.op # "approve"
        BY <3>3, <4>2
      <4>4. NewRole(q.op, q.role) = q.role
        BY <4>1, <4>3 DEF NewRole
      <4> QED
        BY <1>1, <2>2, <3>3, <4>4 DEF CommitDecision, Column, TypeOK
    <3> QED
      BY <3>2, <3>3
  <2>3. CASE UNCHANGED role
    BY <1>1, <2>3
  <2> QED
    BY <2>1, <2>2, <2>3 DEF Commit, CommitTwice, CommitClub, CommitFails
<1>5. \A q \in OpenOf(Decisions)' : q \in OpenOf(Decisions) /\ req'[q] = req[q]
  BY <1>3 DEF OpenOf
<1> QED
  BY <1>1, <1>4, <1>5 DEF BossInv

LEMMA ServeKeepsDInv ==
  ASSUME DInv, NEW r \in Requests, Serve(r)
  PROVE  DInv'
<1> USE DEF DInv
<1>1. /\ phase = "serving" /\ UNCHANGED <<version, schema, rows, blind, phase, configured>>
      /\ Send(r) \/ Commit(r)
  BY DEF Serve, databaseVars
<1>2. IInv'
  BY <1>1, StepIInv DEF Next
<1>3. VersionInv' /\ RowsInv' /\ ProcessInv'
  BY <1>1 DEF VersionInv, VersionTellsSchema, RowsInv, ProcessInv, ServedSchemaIsWhole
<1>4. ASSUME Send(r) PROVE BossInv'
  <2>1. req[r].op # "approve"
    BY <1>4, ApplicationsAssumption DEF Send, Ops, Decisions
  <2> QED
    BY <1>1, <1>4, <2>1, SendKeepsBossInv DEF Serve
<1>5. ASSUME Commit(r) PROVE BossInv'
  BY <1>1, <1>5, CommitKeepsBossInv DEF Serve, Commit
<1> QED
  BY <1>1, <1>2, <1>3, <1>4, <1>5

(* Every step of the container, of the operator and of a request.          *)
THEOREM StepDInv == DInv /\ [DeploymentNext]_deployVars => DInv'
<1> SUFFICES ASSUME DInv, [DeploymentNext]_deployVars PROVE DInv'
  OBVIOUS
<1>1. ASSUME UNCHANGED <<vars, version, schema, blind, phase, configured, own>>, RowsInv'
      PROVE  DInv'
  <2>1. IInv'
    BY <1>1, VarsKeepIInv DEF DInv
  <2> QED
    BY <1>1, <2>1 DEF DInv, VersionInv, VersionTellsSchema, ProcessInv, ServedSchemaIsWhole,
       BossInv, OpenOf, vars
<1>2. CASE Write
  <2>1. UNCHANGED <<vars, version, schema, blind, phase, configured, own>>
    BY <1>2 DEF Write, WriteRows, processVars
  <2>2. RowsInv'
    BY <1>2, WriteKeepsRowsInv DEF Write, DInv
  <2> QED
    BY <1>1, <2>1, <2>2
<1>3. CASE UNCHANGED deployVars
  <2>1. UNCHANGED <<vars, version, schema, rows, blind, phase, configured, own>>
    BY <1>3 DEF deployVars, processVars, databaseVars
  <2>2. RowsInv'
    BY <2>1 DEF RowsInv, DInv
  <2> QED
    BY <1>1, <2>1, <2>2
<1> QED
  BY <1>2, <1>3, StartKeepsDInv, BootstrapKeepsDInv, BootstrapRaisesKeepsDInv,
     CrashKeepsDInv, OperateKeepsDInv, ServeKeepsDInv DEF DeploymentNext

(* Crashes, restarts and migrations undo nothing of what the decisions     *)
(* about clubs have promised.                                              *)
THEOREM DecisionsSurviveCrashes ==
  DeploymentSpec =>
    [](PendingOwnerHasNoActiveClub /\ AdminWasApproved /\ PendingOwnerHasApplied)
<1>1. DInv => PendingOwnerHasNoActiveClub /\ AdminWasApproved /\ PendingOwnerHasApplied
  BY DEF DInv, IInv
<1> QED
  BY InitDInv, StepDInv, <1>1, PTL DEF DeploymentSpec

(* alembic_version tells which revisions are there (env.py:45): a command  *)
(* that fails half-way leaves nothing behind.  Only the stamp of a         *)
(* database that lacks some of them makes it wrong.                        *)
THEOREM VersionTellsSchemaHolds == DeploymentSpec => []VersionTellsSchema
<1>1. DInv => VersionTellsSchema
  BY DEF DInv, VersionInv
<1> QED
  BY InitDInv, StepDInv, <1>1, PTL DEF DeploymentSpec

(* The worker runs on all revisions (docker-entrypoint.sh:1), unless a     *)
(* stamp was put on a database that lacked some.                           *)
THEOREM ServedSchemaIsWholeHolds == DeploymentSpec => []ServedSchemaIsWhole
<1>1. DInv => ServedSchemaIsWhole
  BY DEF DInv, ProcessInv
<1> QED
  BY InitDInv, StepDInv, <1>1, PTL DEF DeploymentSpec

(* Every row has its columns filled, whichever way the database has come:  *)
(* what the upgrades from one revision to another do is a recursive        *)
(* function, and each revision fills what it adds.                         *)
THEOREM ColumnsAreFilledHolds == DeploymentSpec => []ColumnsAreFilled
<1>1. DInv => ColumnsAreFilled
  BY DEF DInv, RowsInv, RowsFit, ColumnsAreFilled
<1> QED
  BY InitDInv, StepDInv, <1>1, PTL DEF DeploymentSpec

(* Whoever had its e-mail before, the superadmin's account moderates.      *)
THEOREM BossModeratesHolds == DeploymentSpec => []BossModerates
<1>1. DInv => BossModerates
  BY DEF DInv, BossInv, BossModerates
<1> QED
  BY InitDInv, StepDInv, <1>1, PTL DEF DeploymentSpec

=============================================================================
