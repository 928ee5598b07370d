------------------------------- MODULE Logins -------------------------------
(***************************************************************************)
(* Logins and tokens: login_action of web/auth.py, which the limiter       *)
(* admits or not, api_login of api/auth.py, which does not ask it, and     *)
(* _user_from_token of core/dependencies.py, which /ws/user repeats.       *)
(*                                                                         *)
(* A login reads the user, and creates a token when the password has been  *)
(* checked; a token is decoded, and then its user is read.  iat and exp    *)
(* are whole seconds of the clock, a cutoff (users.tokens_invalid_before)  *)
(* has fractions.  No code sets a cutoff: whoever runs the service does.   *)
(***************************************************************************)
EXTENDS RateLimiter

CONSTANTS
  Accounts,
  Requests,
  Lifetime,     \* access_token_expire_minutes, in seconds
  LoginKey,     \* the key of web logins from one address
  None          \* SQL NULL, no claim, no answer yet

ASSUME LoginsAssumption ==
  /\ Lifetime \in Nat \ {0} /\ LoginKey \in Keys
  /\ None \notin Int \union {"issued", "accepted", "refused"}

VARIABLES
  account,   \* users.is_active and users.tokens_invalid_before
  request    \* the logins and the uses of tokens

loginVars  == <<account, request>>
loginsVars == <<vars, loginVars>>

Second(t) == t \div TicksPerSecond

NoRequest == [op |-> None, account |-> None, token |-> None, decoded |-> None,
              seen |-> None, phase |-> "unsent", answer |-> None]

Login(u, phase, answer) ==
  [op |-> "login", account |-> u, token |-> None, decoded |-> None, seen |-> None,
   phase |-> phase, answer |-> answer]

Use(u, token, phase, answer) ==
  [op |-> "use", account |-> u, token |-> token, decoded |-> now, seen |-> None,
   phase |-> phase, answer |-> answer]

(* at, the moment a token was created, is known to nobody.                 *)
(* A slip: the time of issue is rounded up.                                *)
IatRounded(t) == Second(t + TicksPerSecond - 1)

Iat(t) == Second(t)

Token(t) == [iat |-> Iat(t), exp |-> Second(t + Lifetime * TicksPerSecond), at |-> t]

(* One that an older version of the code issued, a tick before the start.  *)
OldToken == [Token(-1) EXCEPT !.iat = None]

Answer(r, a) == request' = [request EXCEPT ![r].phase = "ended", ![r].answer = a]

-----------------------------------------------------------------------------
LoginWeb(r, u) ==
  /\ request[r] = NoRequest
  /\ \/ /\ Admit(LoginKey)
        /\ request' = [request EXCEPT ![r] = Login(u, "find", None)]
     \/ /\ Deny(LoginKey)
        /\ request' = [request EXCEPT ![r] = Login(u, "ended", "limited")]
  /\ UNCHANGED account

LoginApi(r, u) ==
  /\ request[r] = NoRequest
  /\ request' = [request EXCEPT ![r] = Login(u, "find", None)]
  /\ UNCHANGED <<vars, account>>

(* The password is right or not.                                           *)
FindAccount(r) ==
  /\ request[r].phase = "find" /\ request[r].op = "login"
  /\ \/ Answer(r, "refused")
     \/ /\ account[request[r].account].active
        /\ request' = [request EXCEPT ![r].phase = "issue"]
  /\ UNCHANGED <<vars, account>>

IssueToken(r) ==
  /\ request[r].phase = "issue"
  /\ request' = [request EXCEPT ![r].phase = "ended", ![r].answer = "issued",
                                ![r].token = Token(now)]
  /\ UNCHANGED <<vars, account>>

-----------------------------------------------------------------------------
Issued(u) ==
  {OldToken} \union
  {request[q].token : q \in {p \in Requests : request[p].op = "login"
                                           /\ request[p].account = u
                                           /\ request[p].answer = "issued"}}

(* jwt.decode: expired when exp is less than the second it is.             *)
Expired(token) == token.exp < Second(now)

Decode(r, u, token) ==
  /\ request[r] = NoRequest
  /\ request' = [request EXCEPT ![r] =
       IF Expired(token) THEN Use(u, token, "ended", "refused")
                         ELSE Use(u, token, "find", None)]
  /\ UNCHANGED <<vars, account>>

(* A slip: an old token is refused even while the account has no cutoff.   *)
TokenRevokedAlways(cutoff, token) ==
  \/ token.iat = None
  \/ cutoff # None /\ token.iat * TicksPerSecond < cutoff

(* _token_revoked                                                          *)
TokenRevoked(cutoff, token) ==
  /\ cutoff # None
  /\ token.iat = None \/ token.iat * TicksPerSecond < cutoff

UserFromToken(r) ==
  LET q == request[r]
      user == account[q.account]
      accepted == user.active /\ ~ TokenRevoked(user.cutoff, q.token) IN
  /\ q.phase = "find" /\ q.op = "use"
  /\ request' = [request EXCEPT ![r].phase = "ended", ![r].seen = user,
                                ![r].answer = IF accepted THEN "accepted" ELSE "refused"]
  /\ UNCHANGED <<vars, account>>

-----------------------------------------------------------------------------
(* All tokens of an account are revoked; it is deactivated, or activated   *)
(* again, which an approval of its club does, too.                         *)
Revoke(u) == account' = [account EXCEPT ![u].cutoff = now]

Activate(u, active) == account' = [account EXCEPT ![u].active = active]

Operator(u) ==
  /\ Revoke(u) \/ \E active \in BOOLEAN : Activate(u, active)
  /\ UNCHANGED <<vars, request>>

(* The requests of a process that stops get no answer.                     *)
Restart ==
  /\ Reset
  /\ request' = [r \in Requests |->
       IF request[r].phase \in {"find", "issue"}
       THEN [request[r] EXCEPT !.phase = "ended", !.answer = "lost"] ELSE request[r]]
  /\ UNCHANGED account

(* Time passes, and others log in or register.                             *)
Others ==
  /\ Tick \/ \E k \in Keys : Admit(k) \/ Deny(k)
  /\ UNCHANGED loginVars

LoginsInit ==
  /\ Init
  /\ account = [u \in Accounts |-> [active |-> TRUE, cutoff |-> None]]
  /\ request = [r \in Requests |-> NoRequest]

LoginsNext ==
  \/ \E r \in Requests, u \in Accounts :
       \/ LoginWeb(r, u) \/ LoginApi(r, u)
       \/ \E token \in Issued(u) : Decode(r, u, token)
  \/ \E r \in Requests : FindAccount(r) \/ IssueToken(r) \/ UserFromToken(r)
  \/ \E u \in Accounts : Operator(u)
  \/ Restart \/ Others

LoginsSpec == LoginsInit /\ [][LoginsNext]_loginsVars

-----------------------------------------------------------------------------
(* No request gets in with a token that was issued before the cutoff its   *)
(* user had when it was read, however shortly before and although iat has  *)
(* no fraction, nor with one that has lived a second longer than it may.   *)
RevokedIsRefused ==
  \A r \in Requests : request[r].answer = "accepted" =>
    LET q == request[r] IN
    /\ q.seen.cutoff # None => q.token.at >= q.seen.cutoff
    /\ q.decoded < q.token.at + (Lifetime + 1) * TicksPerSecond

(* Whoever logs in again a second after the tokens were revoked stays      *)
(* logged in for the whole lifetime of the new token.                      *)
ValidIsAccepted ==
  \A r \in Requests : request[r].op = "use" /\ request[r].answer = "refused" =>
    LET q == request[r] IN
    \/ q.decoded > q.token.at + Lifetime * TicksPerSecond
    \/ ~ q.seen.active
    \/ q.seen.cutoff # None /\ q.token.at < q.seen.cutoff + TicksPerSecond

=============================================================================
