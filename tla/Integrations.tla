---------------------------- MODULE Integrations ----------------------------
(***************************************************************************)
(* The connection of a club to its 1C system: save_1c_integration and      *)
(* test_1c_integration of web/admin.py with core/integrations.py.  A save  *)
(* reads the row and writes later the columns that differ from what it     *)
(* read; a test reads the row, asks the outside system for up to ten       *)
(* seconds in a thread, and then writes the status.  No row is locked.     *)
(*                                                                         *)
(* Two columns stand for all that a form sets: url for base_url and        *)
(* health_path, secret for username and secret_env_key.                    *)
(***************************************************************************)
EXTENDS FormRequests

CONSTANTS
  Urls, BadUrls,   \* the addresses that are sent, and those that are refused
  Secrets

Settings == [url : Urls, secret : Secrets \union {None}]
Status   == {None, "ok", "failed"}
Row      == [url : Urls, secret : Secrets \union {None}, status : Status]

ASSUME IntegrationsAssumption == None \notin Settings \union Row

VARIABLES
  integration,   \* club_integrations, by club (uq_club_integrations_club_id)
  form,          \* the requests that save or test
  saved          \* history: the last save of a club that found nothing else
                 \* committed since it read, None after one that did

integrationVars == <<integration, form, saved>>

NoForm == [op |-> None, club |-> None, sent |-> None, read |-> None,
           phase |-> "unsent", result |-> None, answer |-> None]

SettingsOf(row) == [url |-> row.url, secret |-> row.secret]

EndForm(r, a) == form' = [form EXCEPT ![r].phase = "ended", ![r].answer = a]

-----------------------------------------------------------------------------
(* validate_integration_url resolves the host without an await.            *)
SendSave(r, c, s) ==
  /\ form' = [form EXCEPT ![r] =
       [NoForm EXCEPT !.op = "save", !.club = c, !.sent = s,
                      !.phase = IF s.url \in BadUrls THEN "ended" ELSE "find",
                      !.answer = IF s.url \in BadUrls THEN "invalid" ELSE None]]
  /\ UNCHANGED <<integration, saved>>

SendTest(r, c) ==
  /\ form' = [form EXCEPT ![r] = [NoForm EXCEPT !.op = "test", !.club = c, !.phase = "find"]]
  /\ UNCHANGED <<integration, saved>>

DenyForm(r, c) ==
  /\ MayBeDenied(c)
  /\ form' = [form EXCEPT ![r] =
       [NoForm EXCEPT !.club = c, !.phase = "ended", !.answer = "denied"]]
  /\ UNCHANGED <<integration, saved>>

FindIntegration(r) ==
  LET row == integration[form[r].club] IN
  /\ form[r].phase = "find"
  /\ IF form[r].op = "test" /\ row = None
     THEN EndForm(r, "not_configured")
     ELSE form' = [form EXCEPT ![r].read = row,
                               ![r].phase = IF form[r].op = "save" THEN "write" ELSE "check"]
  /\ UNCHANGED <<integration, saved>>

(* check_integration: the host may no longer resolve or be allowed, the    *)
(* system may answer, refuse or let the timeout pass; an exception that is *)
(* not foreseen is not caught, and the status stays as it was.             *)
CheckIntegration(r) ==
  /\ form[r].phase = "check"
  /\ \/ \E result \in {"ok", "failed"} :
          form' = [form EXCEPT ![r].phase = "touch", ![r].result = result]
     \/ EndForm(r, "error")
  /\ UNCHANGED <<integration, saved>>

-----------------------------------------------------------------------------
InsertIntegration(r) ==
  LET q == form[r] IN
  IF integration[q.club] # None
  THEN /\ EndForm(r, "error")
       /\ UNCHANGED <<integration, saved>>
  ELSE /\ integration' = [integration EXCEPT ![q.club] =
            [url |-> q.sent.url, secret |-> q.sent.secret, status |-> None]]
       /\ saved' = [saved EXCEPT ![q.club] = q.sent]
       /\ EndForm(r, "saved")

UpdateIntegration(r) ==
  LET q == form[r]
      row == integration[q.club] IN
  /\ integration' = [integration EXCEPT
       ![q.club].url = Written(@, q.read.url, q.sent.url),
       ![q.club].secret = Written(@, q.read.secret, q.sent.secret)]
  /\ saved' = [saved EXCEPT ![q.club] =
       IF SettingsOf(row) = SettingsOf(q.read) THEN q.sent ELSE None]
  /\ EndForm(r, "saved")

SaveIntegration(r) ==
  /\ form[r].phase = "write"
  /\ IF form[r].read = None THEN InsertIntegration(r) ELSE UpdateIntegration(r)

(* A slip: the whole object that the test holds is written back.           *)
TouchWholeRow(r) ==
  /\ form[r].phase = "touch"
  /\ integration' = [integration EXCEPT ![form[r].club] =
                       [form[r].read EXCEPT !.status = form[r].result]]
  /\ EndForm(r, form[r].result)
  /\ UNCHANGED saved

(* touch_integration_status                                                *)
TouchStatus(r) ==
  /\ form[r].phase = "touch"
  /\ integration' = [integration EXCEPT ![form[r].club].status =
                       Written(@, form[r].read.status, form[r].result)]
  /\ EndForm(r, form[r].result)
  /\ UNCHANGED saved

IntegrationFails(r) ==
  /\ form[r].phase \in {"find", "write", "touch"}
  /\ EndForm(r, "error")
  /\ UNCHANGED <<integration, saved>>

IntegrationStep(r) ==
  \/ FindIntegration(r) \/ CheckIntegration(r)
  \/ SaveIntegration(r) \/ TouchStatus(r) \/ IntegrationFails(r)

IntegrationInit ==
  /\ integration = [c \in Clubs |-> None]
  /\ form = [r \in Requests |-> NoForm]
  /\ saved = [c \in Clubs |-> None]

-----------------------------------------------------------------------------
IntegrationType ==
  /\ integration \in [Clubs -> Row \union {None}]
  /\ form \in [Requests ->
       [op : {"save", "test", None}, club : Clubs \union {None},
        sent : Settings \union {None}, read : Row \union {None},
        phase : {"unsent", "find", "check", "write", "touch", "ended"},
        result : Status,
        answer : Status \union {"saved", "invalid", "denied", "not_configured", "error"}]]
  /\ saved \in [Clubs -> Settings \union {None}]

(* The settings a club has are those its last save sent, all of them: a    *)
(* test that began before that save and ends after it takes none of them   *)
(* back, and no column of an earlier save is left between them.  The one   *)
(* exception is a save that read the row before another save changed it.   *)
SavedSettingsStay ==
  \A c \in Clubs : saved[c] # None => SettingsOf(integration[c]) = saved[c]

=============================================================================
