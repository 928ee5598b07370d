--------------------------- MODULE SocketsProofs ----------------------------
(***************************************************************************)
(* Proofs about Sockets for any number of connections, computers, users    *)
(* and senders.                                                            *)
(***************************************************************************)
EXTENDS Sockets, TLAPS

(* A connection that is accepted or open belongs to an id.                 *)
Owned ==
  \A c \in Conns : conn[c].phase \in {"asking", "accepting", "open"} => conn[c].id \in Ids

(* Whoever could take the registration of an open connection away is known *)
(* as its rival: the others open, those being written to, and the one that *)
(* is registered in its place.                                             *)
RivalsKnown ==
  \A c \in Conns : conn[c].phase = "open" =>
    (OpenOf(conn[c].id) \union SendingTo(conn[c].id) \union {registered[conn[c].id]})
      \ {c, None} \subseteq rivals[c]

SocketsInv == TypeOK /\ NoGhost /\ Owned /\ RivalsKnown /\ LoneIsReachable

LEMMA NoneIsNoConn == None \notin Conns /\ None \notin Ids
  BY SocketsAssumption DEF Ids

LEMMA SocketsInit == Init => SocketsInv
<1>. SUFFICES ASSUME Init  PROVE SocketsInv
  OBVIOUS
<1>1. TypeOK
  BY SocketsAssumption DEF Init, TypeOK, Unused, Idle, ConnType, Phase
<1>2. NoGhost /\ Owned /\ RivalsKnown /\ LoneIsReachable
  BY DEF Init, NoGhost, Owned, RivalsKnown, LoneIsReachable, Unused
<1>. QED  BY <1>1, <1>2 DEF SocketsInv

(* A step that opens no connection, registers nobody, and takes sockets to *)
(* write to from the dictionaries only.                                    *)
Narrows ==
  /\ rivals' = rivals
  /\ \A c \in Conns :
       /\ conn'[c].phase = "open" => /\ conn[c].phase = "open" /\ conn'[c].id = conn[c].id
                                     /\ conn'[c].alive => conn[c].alive
       /\ conn'[c].phase \in {"asking", "accepting"} => conn'[c].id \in Ids
       /\ conn[c].phase \in {"open", "crashed"} => conn'[c].id = conn[c].id
  /\ \A i \in Ids :
       /\ registered'[i] \in {registered[i], None}
       /\ registered'[i] # None => conn'[registered[i]].phase \in {"open", "crashed"}
       /\ SendingTo(i)' \subseteq SendingTo(i) \union {registered[i]}

(* Nobody loses a registration that he alone can use.                      *)
KeepsLone ==
  \A c \in Conns :
    /\ conn'[c].phase = "open" /\ conn'[c].alive /\ rivals[c] = {}
    => registered'[conn[c].id] = registered[conn[c].id]

LEMMA Narrowed ==
  ASSUME SocketsInv, TypeOK', Narrows, KeepsLone
  PROVE  SocketsInv'
<1>1. TypeOK /\ NoGhost /\ Owned /\ RivalsKnown /\ LoneIsReachable
  BY DEF SocketsInv
<1>2. NoGhost'
  BY <1>1, NoneIsNoConn DEF NoGhost, Narrows, TypeOK
<1>3. Owned'
  BY <1>1 DEF Owned, Narrows
<1>4. RivalsKnown'
  <2>. SUFFICES ASSUME NEW c \in Conns, NEW i, conn'[c].phase = "open", conn'[c].id = i
                PROVE  (OpenOf(i)' \union SendingTo(i)' \union {registered'[i]}) \ {c, None}
                         \subseteq rivals'[c]
    BY DEF RivalsKnown, OpenOf, SendingTo
  <2>1. conn[c].phase = "open" /\ conn[c].id = i /\ i \in Ids /\ rivals'[c] = rivals[c]
    BY <1>1 DEF Narrows, Owned
  <2>2. OpenOf(i)' \subseteq OpenOf(i)
    BY <2>1 DEF OpenOf, Narrows
  <2>3. SendingTo(i)' \subseteq SendingTo(i) \union {registered[i]}
    BY <2>1 DEF Narrows
  <2>4. registered'[i] \in {registered[i], None}
    BY <2>1 DEF Narrows
  <2>. QED  BY <1>1, <2>1, <2>2, <2>3, <2>4 DEF RivalsKnown
<1>5. LoneIsReachable'
  BY <1>1 DEF LoneIsReachable, Narrows, KeepsLone, Owned
<1>. QED  BY <1>2, <1>3, <1>4, <1>5 DEF SocketsInv

(* A connection moves on, or its client goes, without a word to the        *)
(* dictionaries.                                                           *)
LEMMA ConnMoves ==
  ASSUME SocketsInv, TypeOK', NEW c \in Conns, NEW row,
         conn' = [conn EXCEPT ![c] = row], UNCHANGED <<registered, sending, rivals>>,
         row.phase = "open" => conn[c].phase = "open" /\ (row.alive => conn[c].alive),
         row.phase \in {"asking", "accepting", "open"} => row.id \in Ids,
         conn[c].phase = "open" => row.phase \in {"open", "crashed"} /\ row.id = conn[c].id,
         conn[c].phase = "crashed" => row.phase = "crashed" /\ row.id = conn[c].id
  PROVE  SocketsInv'
<1>1. conn'[c] = row /\ \A d \in Conns : d # c => conn'[d] = conn[d]
  BY DEF SocketsInv, TypeOK
<1>2. \A i \in Ids : registered[i] # None =>
        registered[i] \in Conns /\ conn[registered[i]].phase \in {"open", "crashed"}
  BY DEF SocketsInv, TypeOK, NoGhost
<1>3. \A i \in Ids : SendingTo(i)' = SendingTo(i)
  BY DEF SendingTo
<1>4. Narrows
  BY <1>1, <1>2, <1>3 DEF Narrows, SocketsInv, Owned
<1>5. KeepsLone
  BY DEF KeepsLone
<1>. QED  BY <1>4, <1>5, Narrowed

-----------------------------------------------------------------------------
LEMMA ConnectInv ==
  ASSUME SocketsInv, NEW c \in Conns, NEW i \in Ids, NEW t \in 0 .. MaxToken, Connect(c, i, t)
  PROVE  SocketsInv'
<1>1. TypeOK'
  BY DEF SocketsInv, Connect, TypeOK, ConnType, Phase
<1>. QED  BY <1>1, ConnMoves DEF Connect

LEMMA DropInv ==
  ASSUME SocketsInv, NEW c \in Conns, Drop(c)
  PROVE  SocketsInv'
<1>. DEFINE row == [conn[c] EXCEPT !.alive = FALSE]
<1>1. conn[c] \in ConnType /\ TypeOK
  BY DEF SocketsInv, TypeOK
<1>2. /\ row.id = conn[c].id /\ row.phase = conn[c].phase /\ row.alive = FALSE
      /\ row \in ConnType
  BY <1>1 DEF ConnType
<1>3. conn' = [conn EXCEPT ![c] = row] /\ UNCHANGED <<wsToken, registered, sending, rivals>>
  BY <1>1 DEF Drop, TypeOK
<1>. HIDE DEF row
<1>4. TypeOK'
  BY <1>1, <1>2, <1>3 DEF TypeOK
<1>. QED  BY <1>2, <1>3, <1>4, ConnMoves DEF SocketsInv, Owned

LEMMA BeforeOpenInv ==
  ASSUME SocketsInv, NEW c \in Conns, Authenticate(c) \/ AcceptFails(c)
  PROVE  SocketsInv'
<1>1. PICK p \in {"accepting", "ended"} : conn' = [conn EXCEPT ![c].phase = p]
  BY DEF Authenticate, AcceptFails, Enters
<1>. DEFINE row == [conn[c] EXCEPT !.phase = p]
<1>2. conn[c] \in ConnType /\ TypeOK /\ conn[c].phase \in {"asking", "accepting"}
  BY DEF SocketsInv, TypeOK, Authenticate, AcceptFails
<1>3. row.id = conn[c].id /\ row.phase = p /\ row \in ConnType
  BY <1>2 DEF ConnType, Phase
<1>4. conn' = [conn EXCEPT ![c] = row] /\ UNCHANGED <<wsToken, registered, sending, rivals>>
  BY <1>1, <1>2 DEF Authenticate, AcceptFails, TypeOK
<1>. HIDE DEF row
<1>5. TypeOK'
  BY <1>2, <1>3, <1>4 DEF TypeOK
<1>. QED  BY <1>2, <1>3, <1>4, <1>5, ConnMoves DEF SocketsInv, Owned

LEMMA BinaryFrameInv ==
  ASSUME SocketsInv, NEW c \in Conns, BinaryFrame(c)
  PROVE  SocketsInv'
<1>. DEFINE row == [conn[c] EXCEPT !.phase = "crashed", !.alive = FALSE]
<1>1. conn[c] \in ConnType /\ TypeOK /\ conn[c].phase = "open"
  BY DEF SocketsInv, TypeOK, BinaryFrame
<1>2. row.id = conn[c].id /\ row.phase = "crashed" /\ row \in ConnType
  BY <1>1 DEF ConnType, Phase
<1>3. conn' = [conn EXCEPT ![c] = row] /\ UNCHANGED <<wsToken, registered, sending, rivals>>
  BY <1>1 DEF BinaryFrame, TypeOK
<1>. HIDE DEF row
<1>4. TypeOK'
  BY <1>1, <1>2, <1>3 DEF TypeOK
<1>. QED  BY <1>1, <1>2, <1>3, <1>4, ConnMoves

(* Whoever ends is a rival of everybody else who is open with his id.      *)
LEMMA NoticeInv ==
  ASSUME SocketsInv, NEW c \in Conns, Notice(c)
  PROVE  SocketsInv'
<1>1. TypeOK /\ conn[c] \in ConnType /\ conn[c].phase = "open" /\ ~conn[c].alive
      /\ conn[c].id \in Ids
  BY DEF SocketsInv, TypeOK, Owned, Notice
<1>2. /\ conn' = [conn EXCEPT ![c].phase = "ended"]
      /\ registered' = [registered EXCEPT ![conn[c].id] = None]
      /\ UNCHANGED <<wsToken, sending, rivals>>
  BY DEF Notice, Enters, Disconnect
<1>3. TypeOK'
  BY <1>1, <1>2 DEF TypeOK, ConnType, Phase
<1>4. /\ conn'[c].phase = "ended" /\ conn'[c].id = conn[c].id
      /\ \A d \in Conns : d # c => conn'[d] = conn[d]
  BY <1>1, <1>2 DEF TypeOK, ConnType
<1>5. \A i \in Ids : registered'[i] = IF i = conn[c].id THEN None ELSE registered[i]
  BY <1>1, <1>2 DEF TypeOK
<1>6. \A i \in Ids : registered'[i] # None =>
        /\ registered'[i] = registered[i] /\ registered[i] \in Conns /\ registered[i] # c
        /\ conn[registered[i]].phase \in {"open", "crashed"}
  BY <1>1, <1>5 DEF SocketsInv, NoGhost, TypeOK
<1>7. \A i \in Ids : SendingTo(i)' = SendingTo(i)
  BY <1>2 DEF SendingTo
<1>8. Narrows
  BY <1>2, <1>4, <1>5, <1>6, <1>7 DEF Narrows, SocketsInv, Owned
<1>9. KeepsLone
  <2>. SUFFICES ASSUME NEW d \in Conns, conn'[d].phase = "open", rivals[d] = {}
                PROVE  registered'[conn[d].id] = registered[conn[d].id]
    BY DEF KeepsLone
  <2>1. d # c /\ conn[d].phase = "open" /\ conn[d].id \in Ids
    BY <1>4 DEF SocketsInv, Owned
  <2>2. conn[d].id # conn[c].id
    BY <1>1, <2>1, NoneIsNoConn DEF SocketsInv, RivalsKnown, OpenOf
  <2>. QED  BY <1>5, <2>1, <2>2
<1>. QED  BY <1>3, <1>8, <1>9, Narrowed

(* A send that fails concerns a rival, or a client that is gone.           *)
LEMMA SenderInv ==
  ASSUME SocketsInv, NEW s \in Senders,
         Delivered(s) \/ SendFails(s) \/ \E i \in Ids : StartSend(s, i)
  PROVE  SocketsInv'
<1>1. TypeOK
  BY DEF SocketsInv
<1>2. conn' = conn /\ rivals' = rivals /\ wsToken' = wsToken
  BY DEF Delivered, SendFails, StartSend
<1>3. \/ UNCHANGED registered
      \/ /\ SendFails(s) /\ sending[s].id \in Users
         /\ registered' = [registered EXCEPT ![sending[s].id] = None]
  BY DEF Delivered, SendFails, StartSend, Disconnect
<1>4. sending' = [sending EXCEPT ![s] = Idle]
        \/ \E i \in Ids : sending' = [sending EXCEPT ![s] = [id |-> i, socket |-> registered[i]]]
  BY DEF Delivered, SendFails, StartSend, Finish
<1>5. TypeOK'
  <2>1. registered' \in [Ids -> Conns \union {None}]
    BY <1>1, <1>3 DEF TypeOK
  <2>2. sending' \in [Senders -> [id : Ids, socket : Conns] \union {Idle}]
    <3>1. CASE sending' = [sending EXCEPT ![s] = Idle]
      BY <1>1, <3>1 DEF TypeOK
    <3>2. CASE \E i \in Ids : StartSend(s, i)
      BY <1>1, <3>2 DEF TypeOK, StartSend
    <3>. QED  BY <3>1, <3>2 DEF Delivered, SendFails, Finish
  <2>. QED  BY <1>1, <1>2, <2>1, <2>2 DEF TypeOK
<1>6. ASSUME NEW i \in Ids  PROVE SendingTo(i)' \subseteq SendingTo(i) \union {registered[i]}
  <2>. SUFFICES ASSUME NEW x \in Senders, sending'[x].id = i
                PROVE  sending'[x].socket \in SendingTo(i) \union {registered[i]}
    BY DEF SendingTo
  <2>1. CASE x # s
    BY <1>1, <1>4, <2>1 DEF TypeOK, SendingTo
  <2>2. CASE x = s
    BY <1>1, <1>4, <2>2, NoneIsNoConn DEF TypeOK, Idle
  <2>. QED  BY <2>1, <2>2
<1>7. \A i \in Ids : registered'[i] \in {registered[i], None}
  BY <1>1, <1>3 DEF TypeOK
<1>8. Narrows
  BY <1>2, <1>6, <1>7 DEF Narrows, SocketsInv, Owned, NoGhost
<1>9. KeepsLone
  <2>. SUFFICES ASSUME NEW d \in Conns, conn'[d].phase = "open", conn'[d].alive, rivals[d] = {},
                       registered'[conn[d].id] # registered[conn[d].id]
                PROVE  FALSE
    BY DEF KeepsLone
  <2>1. /\ conn[d].phase = "open" /\ conn[d].alive /\ conn[d].id \in Ids
        /\ SendFails(s) /\ sending[s].id = conn[d].id
    BY <1>1, <1>2, <1>3 DEF SocketsInv, Owned, TypeOK
  <2>2. sending[s].socket \in SendingTo(conn[d].id) /\ ~conn[sending[s].socket].alive
    BY <2>1 DEF SendingTo, SendFails
  <2>3. sending[s].socket \in {d, None}
    BY <2>1, <2>2 DEF SocketsInv, RivalsKnown
  <2>4. sending[s].socket # None
    BY <1>1, <2>1, NoneIsNoConn DEF TypeOK, SendFails
  <2>. QED  BY <2>1, <2>2, <2>3, <2>4
<1>. QED  BY <1>5, <1>8, <1>9, Narrowed

LEMMA AcceptInv ==
  ASSUME SocketsInv, NEW c \in Conns, Accept(c)
  PROVE  SocketsInv'
<1>. DEFINE i == conn[c].id
<1>1. TypeOK /\ NoGhost /\ Owned /\ RivalsKnown /\ LoneIsReachable
  BY DEF SocketsInv
<1>2. /\ conn' = [conn EXCEPT ![c].phase = "open"]
      /\ registered' = [registered EXCEPT ![i] = c]
      /\ wsToken' = wsToken /\ sending' = sending
      /\ conn[c].phase = "accepting"
  BY DEF Accept, Register, Enters
<1>3. i \in Ids
  BY <1>1, <1>2 DEF Owned
<1>4. /\ rivals'[c] = OpenOf(i) \union SendingTo(i)
      /\ \A d \in Conns : d # c =>
           rivals'[d] = IF d \in OpenOf(i) THEN rivals[d] \union {c} ELSE rivals[d]
  BY DEF Accept
<1>5. /\ conn'[c].phase = "open" /\ conn'[c].id = i
      /\ \A d \in Conns : d # c => conn'[d] = conn[d]
  BY <1>1, <1>2 DEF TypeOK, ConnType
<1>6. registered'[i] = c /\ \A j \in Ids : j # i => registered'[j] = registered[j]
  BY <1>1, <1>2, <1>3 DEF TypeOK
<1>7. \A j \in Ids : registered[j] # None => registered[j] \in Conns /\ registered[j] # c
  BY <1>1, <1>2 DEF NoGhost, TypeOK
<1>8. \A j \in Ids : /\ SendingTo(j)' = SendingTo(j)
                     /\ OpenOf(j)' \subseteq OpenOf(j) \union {c}
                     /\ c \in OpenOf(j)' => j = i
  BY <1>2, <1>5 DEF SendingTo, OpenOf
<1>9. TypeOK'
  <2>1. conn' \in [Conns -> ConnType]
    BY <1>1, <1>2 DEF TypeOK, ConnType, Phase
  <2>2. registered' \in [Ids -> Conns \union {None}]
    BY <1>1, <1>2, <1>3 DEF TypeOK
  <2>3. rivals' \in [Conns -> SUBSET Conns]
    <3>1. \A x \in Senders : sending[x].id = i => sending[x].socket \in Conns
      BY <1>1, <1>3, NoneIsNoConn DEF TypeOK, Idle
    <3>2. OpenOf(i) \subseteq Conns /\ SendingTo(i) \subseteq Conns
      BY <3>1 DEF OpenOf, SendingTo
    <3>. QED  BY <1>1, <3>2 DEF Accept, TypeOK
  <2>. QED  BY <1>1, <1>2, <2>1, <2>2, <2>3 DEF TypeOK
<1>10. NoGhost'
  BY <1>1, <1>5, <1>6, <1>7 DEF NoGhost
<1>11. Owned'
  BY <1>1, <1>3, <1>5 DEF Owned
<1>12. RivalsKnown'
  <2>. SUFFICES ASSUME NEW d \in Conns, NEW j, conn'[d].phase = "open", conn'[d].id = j
                PROVE  (OpenOf(j)' \union SendingTo(j)' \union {registered'[j]}) \ {d, None}
                         \subseteq rivals'[d]
    BY DEF RivalsKnown, OpenOf, SendingTo
  <2>1. CASE d = c
    <3>1. j = i /\ registered'[j] = c /\ rivals'[d] = OpenOf(j) \union SendingTo(j)
      BY <1>4, <1>5, <1>6, <2>1
    <3>. QED  BY <1>3, <1>8, <2>1, <3>1
  <2>2. CASE d # c
    <3>1. conn[d].phase = "open" /\ conn[d].id = j /\ j \in Ids /\ d \in OpenOf(j)
      BY <1>1, <1>5, <2>2 DEF Owned, OpenOf
    <3>2. (OpenOf(j) \union SendingTo(j) \union {registered[j]}) \ {d, None} \subseteq rivals[d]
      BY <1>1, <3>1 DEF RivalsKnown
    <3>3. j = i => rivals'[d] = rivals[d] \union {c}
      BY <1>4, <2>2, <3>1
    <3>4. rivals[d] \subseteq rivals'[d]
      BY <1>4, <2>2
    <3>5. /\ registered'[j] \in {registered[j], c}
          /\ registered'[j] = c => j = i \/ registered[j] = c
      BY <1>6, <3>1
    <3>. QED  BY <1>7, <1>8, <3>1, <3>2, <3>3, <3>4, <3>5
  <2>. QED  BY <2>1, <2>2
<1>13. LoneIsReachable'
  <2>. SUFFICES ASSUME NEW d \in Conns, conn'[d].phase = "open", conn'[d].alive, rivals'[d] = {}
                PROVE  registered'[conn'[d].id] = d
    BY DEF LoneIsReachable
  <2>1. CASE d = c
    BY <1>5, <1>6, <2>1
  <2>2. CASE d # c
    <3>1. conn'[d] = conn[d] /\ conn[d].id \in Ids /\ rivals[d] = {} /\ d \notin OpenOf(i)
      BY <1>1, <1>4, <1>5, <2>2 DEF Owned
    <3>2. conn[d].id # i
      BY <3>1 DEF OpenOf
    <3>. QED  BY <1>1, <1>6, <3>1, <3>2 DEF LoneIsReachable
  <2>. QED  BY <2>1, <2>2
<1>. QED  BY <1>9, <1>10, <1>11, <1>12, <1>13 DEF SocketsInv

LEMMA IssueInv ==
  ASSUME SocketsInv, NEW p \in Pcs, IssueToken(p)
  PROVE  SocketsInv'
<1>1. TypeOK /\ UNCHANGED <<conn, registered, sending, rivals>>
  BY DEF SocketsInv, IssueToken
<1>2. TypeOK'
  BY <1>1, SocketsAssumption DEF TypeOK, IssueToken
<1>. QED
  BY <1>1, <1>2 DEF SocketsInv, NoGhost, Owned, RivalsKnown, LoneIsReachable, OpenOf, SendingTo

LEMMA SocketsNext == SocketsInv /\ [Next]_vars => SocketsInv'
<1>. SUFFICES ASSUME SocketsInv, [Next]_vars  PROVE SocketsInv'
  OBVIOUS
<1>1. CASE UNCHANGED vars
  BY <1>1 DEF vars, SocketsInv, TypeOK, NoGhost, Owned, RivalsKnown, LoneIsReachable, OpenOf,
              SendingTo
<1>2. CASE Next
  <2>1. ASSUME NEW c \in Conns, Handler(c) \/ BinaryFrame(c)  PROVE SocketsInv'
    BY <2>1, BeforeOpenInv, AcceptInv, NoticeInv, BinaryFrameInv DEF Handler
  <2>2. ASSUME NEW c \in Conns, Drop(c)  PROVE SocketsInv'
    BY <2>2, DropInv
  <2>3. ASSUME NEW c \in Conns, NEW i \in Ids, NEW t \in 0 .. MaxToken, Connect(c, i, t)
        PROVE  SocketsInv'
    BY <2>3, ConnectInv
  <2>4. ASSUME NEW p \in Pcs, IssueToken(p)  PROVE SocketsInv'
    BY <2>4, IssueInv
  <2>5. ASSUME NEW s \in Senders,
               Delivered(s) \/ SendFails(s) \/ \E i \in Ids : StartSend(s, i)
        PROVE  SocketsInv'
    BY <2>5, SenderInv
  <2>. QED  BY <1>2, <2>1, <2>2, <2>3, <2>4, <2>5 DEF Next
<1>. QED  BY <1>1, <1>2

LEMMA SocketsInvariant == Spec => []SocketsInv
  BY SocketsInit, SocketsNext, PTL DEF Spec

(* Of the sockets whose handler has ended the dictionaries hold only those *)
(* whose handler crashed on a frame it could not read, and never one of    *)
(* another computer or user.                                               *)
THEOREM NoGhostHolds == Spec => []NoGhost
<1>1. SocketsInv => NoGhost
  BY DEF SocketsInv
<1>. QED  BY SocketsInvariant, <1>1, PTL

(* A client that keeps to one connection at a time stays registered as     *)
(* long as it lives, whatever was registered for it before and however     *)
(* many others come, go, crash or are written to.                          *)
THEOREM LoneIsReachableHolds == Spec => []LoneIsReachable
<1>1. SocketsInv => LoneIsReachable
  BY DEF SocketsInv
<1>. QED  BY SocketsInvariant, <1>1, PTL

=============================================================================
