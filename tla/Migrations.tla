----------------------------- MODULE Migrations -----------------------------
(***************************************************************************)
(* alembic upgrade head, downgrade -1 and stamp head on the ten revisions  *)
(* of alembic/versions, by their places 1 .. 10.  PostgreSQL's DDL belongs *)
(* to the transaction, and env.py runs a command in one, so that a command *)
(* succeeds or changes nothing.                                            *)
(*                                                                         *)
(* What a revision does is told apart only as far as it depends on what is *)
(* there: it creates what must not exist yet, its constraints are checked  *)
(* against the rows, and it fills the columns it adds.  One row stands for *)
(* all rows of its table.                                                  *)
(***************************************************************************)
EXTENDS Integers, Sequences, FiniteSets

CONSTANTS
  Names,     \* how long the revisions' identifiers are
  Widths,    \* of alembic_version.version_num: 32, unless it was altered
  NoValue    \* SQL NULL, no column, no row

Head10 == Len(Names)
Revisions == 1 .. Head10

ASSUME MigrationsAssumption ==
  /\ Names \in Seq(Nat) /\ Head10 = 10
  /\ Widths \subseteq Nat
  /\ NoValue \notin Int /\ NoValue \notin {"pending", "request"}

VARIABLES
  width,
  version,   \* the revision alembic_version names, 0 for none
  schema,    \* the revisions whose changes are there
  rows,      \* the rows, as far as a revision looks at them
  blind      \* history: the stamp named a head that the schema had not reached

databaseVars == <<width, version, schema, rows, blind>>

-----------------------------------------------------------------------------
Statuses5 == {"active", "completed", "expired", "cancelled"}
Statuses9 == Statuses5 \union {"pending", "rejected"}

(* Of a table without rows every column is NoValue.                        *)
NoRows ==
  [booking |-> NoValue, paid |-> NoValue, duration |-> NoValue, minutes |-> NoValue,
   bonus |-> NoValue, club |-> FALSE, mode |-> NoValue, twins |-> FALSE]

(* Which rows let the constraints of a revision be created.                *)
Fits(n, d) == n = 5 => ~ d.twins /\ d.booking \in Statuses5 \union {NoValue}

(* A slip: revision 7 leaves the new columns of old tariffs empty.         *)
FilledFromThree(n, d) ==
  [d EXCEPT !.paid = IF n = 3 /\ d.booking # NoValue THEN 0 ELSE @,
            !.mode = IF n = 10 /\ d.club THEN "request" ELSE @]

(* The UPDATE statements of a revision, and its server default.            *)
Filled(n, d) ==
  CASE n = 3 /\ d.booking # NoValue  -> [d EXCEPT !.paid = 0]
    [] n = 7 /\ d.duration # NoValue -> [d EXCEPT !.minutes = d.duration, !.bonus = 0]
    [] n = 10 /\ d.club              -> [d EXCEPT !.mode = "request"]
    [] OTHER                         -> d

FilledBetween(lo, hi, d) ==
  LET after[n \in lo .. hi] == IF n = lo THEN d ELSE Filled(n, after[n - 1])
  IN after[hi]

(* Columns and tables are dropped, and what was in them is gone.           *)
Dropped(n, d) ==
  CASE n = 1  -> NoRows
    [] n = 3  -> [d EXCEPT !.paid = NoValue]
    [] n = 7  -> [d EXCEPT !.minutes = NoValue, !.bonus = NoValue]
    [] n = 10 -> [d EXCEPT !.mode = NoValue]
    [] OTHER  -> d

(* Revision 9 had let in statuses that its predecessor's constraint lacks. *)
FitsBefore(n, d) == n = 9 => d.booking \in Statuses5 \union {NoValue}

(* UPDATE alembic_version SET version_num = ...; 0 deletes the row.        *)
Named(n) == n = 0 \/ Names[n] <= width

-----------------------------------------------------------------------------
Upgradable ==
  \A n \in version + 1 .. Head10 : n \notin schema /\ Named(n) /\ Fits(n, rows)

(* A slip: the transaction ends with each revision, before its name is     *)
(* written, so that the first one that cannot be written stays behind.     *)
UpgradeByRevision ==
  IF Upgradable
  THEN /\ rows' = FilledBetween(version, Head10, rows)
       /\ schema' = Revisions
       /\ version' = Head10
       /\ UNCHANGED <<width, blind>>
  ELSE /\ schema' = schema \union
            {n \in version + 1 .. Head10 : \A m \in version + 1 .. n - 1 : Named(m)}
       /\ UNCHANGED <<width, version, rows, blind>>

Upgrade ==
  IF Upgradable
  THEN /\ rows' = FilledBetween(version, Head10, rows)
       /\ schema' = schema \union (version + 1 .. Head10)
       /\ version' = Head10
       /\ UNCHANGED <<width, blind>>
  ELSE UNCHANGED databaseVars

(* What a revision drops must be there.                                    *)
Downgradable ==
  version \in schema /\ FitsBefore(version, rows) /\ Named(version - 1)

Downgrade ==
  /\ version > 0
  /\ IF Downgradable
     THEN /\ rows' = Dropped(version, rows)
          /\ schema' = schema \ {version}
          /\ version' = version - 1
          /\ UNCHANGED <<width, blind>>
     ELSE UNCHANGED databaseVars

(* README.md:90: a database that the old create_all has made is stamped.   *)
(* The head is written, whatever that create_all knew of: nothing looks at *)
(* the schema.                                                             *)
Stamp ==
  /\ version = 0 /\ schema # {}
  /\ Named(Head10)
  /\ version' = Head10
  /\ blind' = (schema # Revisions)
  /\ UNCHANGED <<width, schema, rows>>

-----------------------------------------------------------------------------
(* The service, whose models have every column, writes rows; without the   *)
(* users' column of revision 8 or the clubs' of revision 10 it fails at    *)
(* the SELECT that comes before.                                           *)
AddTariff(minutes, bonus) ==
  rows' = [rows EXCEPT !.duration = minutes + bonus, !.minutes = minutes, !.bonus = bonus]

PlaceBooking(status, paid) ==
  rows' = [rows EXCEPT !.booking = status, !.paid = paid]

OpenClub == rows' = [rows EXCEPT !.club = TRUE, !.mode = "request"]

WriteRows ==
  /\ 8 \in schema
  /\ \/ AddTariff(1, 1)
     \/ 10 \in schema /\ \E status \in {"pending", "active"} : PlaceBooking(status, 1)
     \/ rows.booking = "pending" /\ rows' = [rows EXCEPT !.booking = "rejected"]
     \/ 10 \in schema /\ OpenClub
  /\ UNCHANGED <<width, version, schema, blind>>

(* A database without tables, one that an older version of this code has   *)
(* left at some revision with rows in it, or one without a version that    *)
(* the create_all of this code or of an older one has made.                *)
OldRows(twins) ==
  [NoRows EXCEPT !.booking = "active", !.duration = 2, !.club = TRUE, !.twins = twins]

DatabaseInit ==
  /\ width \in Widths /\ blind = FALSE
  /\ \/ version = 0 /\ schema = {} /\ rows = NoRows
     \/ \E n \in Revisions, twins \in BOOLEAN :
          /\ twins => n < 5
          /\ version \in {0, n}
          /\ version = n => \A m \in 1 .. n : Named(m)
          /\ schema = 1 .. n
          /\ rows = FilledBetween(1, n, OldRows(twins))
     \/ version = 0 /\ schema = Revisions /\ rows = NoRows

-----------------------------------------------------------------------------
DatabaseType ==
  /\ width \in Widths
  /\ version \in 0 .. Head10
  /\ schema \subseteq Revisions

(* What alembic_version says has happened has happened, and nothing else,  *)
(* however often an upgrade or a downgrade is refused or broken off: each  *)
(* of them is one transaction (env.py:45).  It is not so once a stamp has  *)
(* named the head of a database that lacks some of it.                     *)
VersionTellsSchema == version > 0 /\ ~ blind => schema = 1 .. version

(* The columns that revisions added have a value in every row, and the     *)
(* minutes of a tariff add up, whichever way up and down the database has  *)
(* come: finance summaries and sales compute with them.                    *)
ColumnsAreFilled ==
  /\ 3 \in schema /\ rows.booking # NoValue => rows.paid # NoValue
  /\ 10 \in schema /\ rows.club => rows.mode # NoValue
  /\ 7 \in schema /\ rows.duration # NoValue =>
       rows.minutes # NoValue /\ rows.bonus # NoValue
         /\ rows.minutes + rows.bonus = rows.duration

=============================================================================
