------------------------------ MODULE Sockets -------------------------------
(***************************************************************************)
(* core/ws.py and the two WebSocket endpoints of main.py: which socket the *)
(* managers hold for a computer or a user, while clients reconnect, and    *)
(* commands and events are sent.                                           *)
(*                                                                         *)
(* The code runs on one event loop: an action is what a task does between  *)
(* two awaits.  Clients close or break their connection, or send what the  *)
(* handler does not expect, at any time.                                   *)
(***************************************************************************)
EXTENDS Integers, FiniteSets

CONSTANTS
  Pcs, Users,     \* the keys of the two dictionaries
  Conns,          \* connections, each is opened once
  Senders,        \* tasks that send a command or an event
  None,
  MaxToken        \* bound on the tokens issued for a computer

Ids == Pcs \union Users

ASSUME SocketsAssumption ==
  /\ Pcs \intersect Users = {}
  /\ None \notin Conns \union Ids
  /\ MaxToken \in Nat

VARIABLES
  wsToken,      \* computers.ws_token_hash: the last token issued, 0 for none
  conn,         \* the connections and how far their handlers are
  registered,   \* manager.active_connections and user_manager.connections
  sending,      \* the socket a sender has taken and waits for
  rivals        \* history: the others of its id whose handler or whose
                \* sender was at work while a connection was open

vars == <<wsToken, conn, registered, sending, rivals>>

Phase == {"unused", "asking", "accepting", "open", "ended", "crashed"}

ConnType ==
  [id : Ids \union {None}, token : 0 .. MaxToken, phase : Phase, alive : BOOLEAN]

Unused == [id |-> None, token |-> 0, phase |-> "unused", alive |-> FALSE]
Idle   == [id |-> None, socket |-> None]

Enters(c, phase) == conn' = [conn EXCEPT ![c].phase = phase]

-----------------------------------------------------------------------------
(* The client.  A token of 0 is none, or one that was never issued.        *)
Connect(c, i, t) ==
  /\ conn[c].phase = "unused"
  /\ conn' = [conn EXCEPT ![c] =
                [id |-> i, token |-> t, phase |-> "asking", alive |-> TRUE]]
  /\ UNCHANGED <<wsToken, registered, sending, rivals>>

Drop(c) ==
  /\ conn[c].alive
  /\ conn' = [conn EXCEPT ![c].alive = FALSE]
  /\ UNCHANGED <<wsToken, registered, sending, rivals>>

(* issue_ws_token commits the hash of a new token.                         *)
IssueToken(p) ==
  /\ wsToken[p] < MaxToken
  /\ wsToken' = [wsToken EXCEPT ![p] = @ + 1]
  /\ UNCHANGED <<conn, registered, sending, rivals>>

-----------------------------------------------------------------------------
(* verify_pc_token, and for a user the JWT, whose claims are not modelled: *)
(* any token but 0 is one of theirs.                                       *)
TokenFits(c) ==
  /\ conn[c].token # 0
  /\ conn[c].id \in Pcs => conn[c].token = wsToken[conn[c].id]

(* The SELECT of the computer or the user has answered.                    *)
Authenticate(c) ==
  /\ conn[c].phase = "asking"
  /\ Enters(c, IF TokenFits(c) THEN "accepting" ELSE "ended")
  /\ UNCHANGED <<wsToken, registered, sending, rivals>>

(* A slip: a connection that is there already is kept.                     *)
RegisterFirst(c) ==
  registered' = [registered EXCEPT ![conn[c].id] = IF @ = None THEN c ELSE @]

Register(c) == registered' = [registered EXCEPT ![conn[c].id] = c]

OpenOf(i) == {d \in Conns : conn[d].id = i /\ conn[d].phase = "open"}

SendingTo(i) == {sending[s].socket : s \in {x \in Senders : sending[x].id = i}}

(* accept() has returned; it may do so when the client is gone already.    *)
Accept(c) ==
  /\ conn[c].phase = "accepting"
  /\ Enters(c, "open")
  /\ Register(c)
  /\ rivals' = [d \in Conns |->
                  IF d = c THEN OpenOf(conn[c].id) \union SendingTo(conn[c].id)
                  ELSE IF d \in OpenOf(conn[c].id) THEN rivals[d] \union {c}
                  ELSE rivals[d]]
  /\ UNCHANGED <<wsToken, sending>>

(* ... or raise, and the handler ends.                                     *)
AcceptFails(c) ==
  /\ conn[c].phase = "accepting"
  /\ ~ conn[c].alive
  /\ Enters(c, "ended")
  /\ UNCHANGED <<wsToken, registered, sending, rivals>>

(* A slip: users are not forgotten.                                        *)
DisconnectPcs(i) ==
  registered' = IF i \in Pcs THEN [registered EXCEPT ![i] = None] ELSE registered

(* disconnect(): whatever is registered for the id is forgotten.           *)
Disconnect(i) == registered' = [registered EXCEPT ![i] = None]

(* receive_text() raises WebSocketDisconnect.                              *)
Notice(c) ==
  /\ conn[c].phase = "open"
  /\ ~ conn[c].alive
  /\ Enters(c, "ended")
  /\ Disconnect(conn[c].id)
  /\ UNCHANGED <<wsToken, sending, rivals>>

(* It raises KeyError: the frame it got was not text.  Nobody catches it,  *)
(* the server closes the connection, and nothing is forgotten.             *)
BinaryFrame(c) ==
  /\ conn[c].phase = "open"
  /\ conn' = [conn EXCEPT ![c].phase = "crashed", ![c].alive = FALSE]
  /\ UNCHANGED <<wsToken, registered, sending, rivals>>

-----------------------------------------------------------------------------
(* send_command, send_event: the socket is looked up, then awaited.        *)
StartSend(s, i) ==
  /\ sending[s] = Idle
  /\ registered[i] # None
  /\ sending' = [sending EXCEPT ![s] = [id |-> i, socket |-> registered[i]]]
  /\ UNCHANGED <<wsToken, conn, registered, rivals>>

Finish(s) == sending' = [sending EXCEPT ![s] = Idle]

Delivered(s) ==
  /\ sending[s] # Idle
  /\ conn[sending[s].socket].alive
  /\ Finish(s)
  /\ UNCHANGED <<wsToken, conn, registered, rivals>>

(* safe_send_pc_command passes, send_event disconnects the user.           *)
SendFails(s) ==
  /\ sending[s] # Idle
  /\ ~ conn[sending[s].socket].alive
  /\ IF sending[s].id \in Users THEN Disconnect(sending[s].id) ELSE UNCHANGED registered
  /\ Finish(s)
  /\ UNCHANGED <<wsToken, conn, rivals>>

-----------------------------------------------------------------------------
Init ==
  /\ wsToken = [p \in Pcs |-> 0]
  /\ conn = [c \in Conns |-> Unused]
  /\ registered = [i \in Ids |-> None]
  /\ sending = [s \in Senders |-> Idle]
  /\ rivals = [c \in Conns |-> {}]

Handler(c) == Authenticate(c) \/ Accept(c) \/ AcceptFails(c) \/ Notice(c)

Next ==
  \/ \E c \in Conns, i \in Ids, t \in 0 .. MaxToken : Connect(c, i, t)
  \/ \E c \in Conns : Drop(c) \/ Handler(c) \/ BinaryFrame(c)
  \/ \E p \in Pcs : IssueToken(p)
  \/ \E s \in Senders : Delivered(s) \/ SendFails(s) \/ \E i \in Ids : StartSend(s, i)

Spec == Init /\ [][Next]_vars

(* The server notices at last that a client is gone: its ping fails.       *)
FairSpec == Spec /\ \A c \in Conns : WF_vars(Handler(c))

-----------------------------------------------------------------------------
TypeOK ==
  /\ wsToken \in [Pcs -> 0 .. MaxToken]
  /\ conn \in [Conns -> ConnType]
  /\ registered \in [Ids -> Conns \union {None}]
  /\ sending \in [Senders -> [id : Ids, socket : Conns] \union {Idle}]
  /\ rivals \in [Conns -> SUBSET Conns]

(* The dictionaries hold nothing of somebody else, and of the connections  *)
(* that have ended only those whose handler crashed, however reconnections,*)
(* late disconnects and failing sends overlap.                             *)
NoGhost ==
  \A i \in Ids : registered[i] # None =>
    /\ conn[registered[i]].id = i
    /\ conn[registered[i]].phase \in {"open", "crashed"}

(* Commands and events reach a client that keeps to one connection: as     *)
(* long as no other connection of its id is open, or is being written to,  *)
(* beside its own, nothing takes its registration away, not even what an   *)
(* earlier connection of it has left behind.                               *)
LoneIsReachable ==
  \A c \in Conns :
    /\ conn[c].phase = "open" /\ conn[c].alive
    /\ rivals[c] = {}
    => registered[conn[c].id] = c

(* A client that is gone does not stay registered: disconnects are noticed *)
(* even if nothing is sent to it, unless its handler has crashed.          *)
DeadIsForgotten ==
  \A i \in Ids, c \in Conns :
    /\ registered[i] = c
    /\ conn[c].phase = "open" /\ ~ conn[c].alive
    ~> registered[i] # c \/ conn[c].phase = "crashed"

=============================================================================
