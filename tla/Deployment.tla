----------------------------- MODULE Deployment -----------------------------
(***************************************************************************)
(* One container and its database.  docker-entrypoint.sh upgrades the      *)
(* database and then runs one worker; its start-up (main.py) adds games    *)
(* and sees to the superadmin's account; then it serves.  It may stop at   *)
(* any moment, and then every request that is open is gone; it is started  *)
(* again (restart: unless-stopped).  The requests are those of             *)
(* Applications, decided by whoever is a superadmin.                       *)
(***************************************************************************)
EXTENDS Applications, Migrations

CONSTANTS
  Boss,        \* SUPERADMIN_EMAIL
  MaxCrashes   \* bound on the times the process stops

ASSUME DeploymentAssumption == Boss \in Emails /\ MaxCrashes \in Nat

VARIABLES
  phase,       \* how far the start has come
  configured,  \* SUPERADMIN_EMAIL and SUPERADMIN_PASSWORD are set
  crashes,
  own          \* history: a club of the superadmin's account was approved since
               \* the start

tableVars   == <<role, owner, status, approved>>
processVars == <<phase, configured, crashes, own>>
deployVars  == <<vars, databaseVars, processVars>>

Phases == {"down", "migrated", "serving"}

-----------------------------------------------------------------------------
(* A slip: uvicorn is run although the upgrade failed.                     *)
StartAnyway ==
  /\ phase = "down"
  /\ Upgrade
  /\ phase' = "migrated"
  /\ configured' \in BOOLEAN
  /\ UNCHANGED <<vars, crashes, own>>

(* set -eu: uvicorn is not run if the upgrade fails.                       *)
Start ==
  /\ phase = "down"
  /\ Upgrade
  /\ phase' = IF version' = Head10 THEN "migrated" ELSE "down"
  /\ configured' \in BOOLEAN
  /\ UNCHANGED <<vars, crashes, own>>

(* A slip: an account that is there already stays what it is.              *)
BossAdded == IF role[Boss] = None THEN "superadmin" ELSE role[Boss]

BossPromoted == "superadmin"

(* bootstrap_superadmin reads the account, with every column of users.     *)
Bootstrap ==
  /\ phase = "migrated"
  /\ configured => 8 \in schema
  /\ phase' = "serving"
  /\ role' = IF configured THEN [role EXCEPT ![Boss] = BossPromoted] ELSE role
  /\ own' = FALSE
  /\ UNCHANGED <<owner, status, req, approved, databaseVars, configured, crashes>>

(* Without revision 8 that raises, and uvicorn ends.                       *)
BootstrapRaises ==
  /\ phase = "migrated"
  /\ configured /\ 8 \notin schema
  /\ phase' = "down"
  /\ UNCHANGED <<vars, databaseVars, configured, crashes, own>>

Lost(q) == IF q.open THEN [q EXCEPT !.open = FALSE, !.answer = "error"] ELSE q

Crash ==
  /\ phase # "down" /\ crashes < MaxCrashes
  /\ crashes' = crashes + 1
  /\ phase' = "down"
  /\ req' = [r \in Requests |-> Lost(req[r])]
  /\ UNCHANGED <<tableVars, databaseVars, configured, own>>

-----------------------------------------------------------------------------
Superadmins == {e \in Emails : role[e] = "superadmin"}

(* The revisions with the columns of the users and the clubs it reads and  *)
(* writes: without them it raises and nothing changes.                     *)
Needed(op) == IF op = "register" THEN {8} ELSE {8, 10}

Serve(r) ==
  /\ phase = "serving"
  /\ \/ /\ Send(r)
        /\ Needed(req'[r].op) \subseteq schema
        /\ req'[r].op \in Decisions => Superadmins # {}
     \/ Commit(r)
  /\ own' = (own \/ (req[r].open /\ req[r].op = "approve" /\ req[r].email = Boss
                      /\ req'[r].answer = "done"))
  /\ UNCHANGED <<databaseVars, phase, configured, crashes>>

(* The operator works on the database while the service is stopped; the    *)
(* tables of users and clubs go with revision 1.                           *)
Operate ==
  /\ phase = "down"
  /\ \/ Stamp /\ UNCHANGED tableVars
     \/ Downgrade /\ version' > 0 /\ UNCHANGED tableVars
     \/ /\ Downgrade /\ version' = 0
        /\ role' = [e \in Emails |-> None]
        /\ owner' = [c \in Clubs |-> None] /\ status' = [c \in Clubs |-> None]
        /\ approved' = {}
  /\ UNCHANGED <<req, processVars>>

Write ==
  /\ phase = "serving"
  /\ WriteRows
  /\ UNCHANGED <<vars, processVars>>

DeploymentInit ==
  /\ Init /\ DatabaseInit
  /\ phase = "down" /\ configured = FALSE /\ crashes = 0 /\ own = FALSE

DeploymentNext ==
  \/ Start \/ Bootstrap \/ BootstrapRaises \/ Crash \/ Operate \/ Write
  \/ \E r \in Requests : Serve(r)

DeploymentSpec == DeploymentInit /\ [][DeploymentNext]_deployVars

(* The container is started until it runs, and what has begun goes on.     *)
LiveDeployment ==
  DeploymentSpec /\ WF_deployVars(Start) /\ WF_deployVars(Bootstrap)

-----------------------------------------------------------------------------
(* The worker runs on the schema its models describe, unless a stamp has   *)
(* vouched for what was not there: an upgrade that is refused is never     *)
(* passed over (docker-entrypoint.sh:1), and no upgrade that succeeds      *)
(* leaves a revision out.                                                  *)
ServedSchemaIsWhole == phase # "down" /\ ~ blind => schema = Revisions

(* Whoever had the superadmin's e-mail before, and whatever the requests   *)
(* decided before a crash: after the start the account moderates, until a  *)
(* club of its own is approved, which makes it the admin of a club         *)
(* (superadmin.py:76).                                                     *)
BossModerates ==
  phase = "serving" /\ configured /\ ~ own => role[Boss] = "superadmin"

(* README.md:68 and the entrypoint: alembic upgrade head makes a database  *)
(* that has no tables ready for the service.                               *)
NewDatabaseIsServed ==
  (version = 0 /\ schema = {}) ~> (phase = "serving")

=============================================================================
