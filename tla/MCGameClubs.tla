---------------------------- MODULE MCGameClubs -----------------------------
(***************************************************************************)
(* Small instances of GameClubs for TLC: two customers, the owner of a     *)
(* club and a superadmin; one computer; a standard tariff, a free one and  *)
(* one for other computers.  Each .cfg chooses the requests and the calls  *)
(* they may make.                                                          *)
(***************************************************************************)
EXTENDS LifecycleRefinement

CONSTANTS ann, bob, boss, root, club, pc1, std, gift, vip, cola, water,
          r1, r2, r3, r4

MCUsers         == {ann, bob, boss, root}
MCSuperAdmins   == {root}
MCClubs         == {club}
MCOwner         == [c \in {club} |-> boss]
MCPrepaid       == [c \in {club} |-> "prepaid"]
MCByRequest     == [c \in {club} |-> "request"]
MCDeposit       == [c \in {club} |-> 2]
MCPcs           == {pc1}
MCClubOf        == [p \in {pc1} |-> club]
MCPackages      == {std, gift, vip}
MCPrice         == std :> 3 @@ gift :> 0 @@ vip :> 4
MCMinutes       == [k \in MCPackages |-> 1]
MCFits          == {<<std, pc1>>, <<gift, pc1>>}
MCProducts      == {cola, water}
MCProductPrice  == cola :> 2 @@ water :> 0
MCProductClub   == [p \in MCProducts |-> club]
MCOpening       == ann :> 5 @@ bob :> 3 @@ boss :> 2 @@ root :> 0

ThreeRequests == {r1, r2, r3}
FourRequests == {r1, r2, r3, r4}

-----------------------------------------------------------------------------
Book(u, k)         == [op |-> "book_seat", actor |-> u, pc |-> pc1, package |-> k]
Free(u)            == [op |-> "free_seat", actor |-> u, pc |-> pc1]
Ask(u, t)          == [op |-> "create_booking_request", actor |-> u, pc |-> pc1, endsAt |-> t]
ConfirmOf(u, b)    == [op |-> "confirm_request", actor |-> u, booking |-> b]
RejectOf(u, b)     == [op |-> "reject_request", actor |-> u, booking |-> b]
SetStatus(u, s)    == [op |-> "update_computer_status", actor |-> u, pc |-> pc1, status |-> s]
Buy(u, p)          == [op |-> "buy_product", actor |-> u, product |-> p]
CompleteOf(u, o)   == [op |-> "complete_order", actor |-> u, order |-> o]
Kaspi(u, n)        == [op |-> "kaspi_test_top_up", actor |-> u, amount |-> n]
TopUpOf(u, v, n)   == [op |-> "top_up_balance", actor |-> u, user |-> v, amount |-> n]
Moderate(u, how)   == [op |-> how, actor |-> u, club |-> club]

(* What customers do by themselves, and by others only what credits them   *)
(* or frees the seat.                                                      *)
CustomerCalls ==
  [r \in Requests |->
     {Book(ann, std), Free(ann), Buy(ann, cola)}
       \cup (IF r = r1 THEN {Ask(ann, Null), Kaspi(ann, 1)}
             ELSE {Book(bob, std), Free(bob)})
       \cup (IF r = r2 THEN {Kaspi(ann, 2)} ELSE {})
       \cup (IF r = r3 THEN {Buy(ann, water), RejectOf(boss, r1), Free(boss),
                             SetStatus(boss, "free"),
                             TopUpOf(root, ann, 1), TopUpOf(root, root, 1),
                             TopUpOf(boss, ann, 1), TopUpOf(root, ann, 0),
                             CompleteOf(boss, r1), CompleteOf(bob, r1)}
             ELSE {})]

(* A request of ann with a deposit, beside it another or a sale to bob or  *)
(* the owner overriding the computer, two moderations of the request, and  *)
(* the superadmin closing and opening the club.                            *)
ManagerCalls ==
  r1 :> {Ask(ann, Null), Book(ann, gift), Book(ann, vip)}
    @@ r2 :> {Ask(ann, 1), Book(bob, std)} \cup {SetStatus(boss, s) : s \in PcStatus}
    @@ r3 :> {ConfirmOf(boss, r1), RejectOf(boss, r1), Moderate(root, "block_club")}
    @@ r4 :> {ConfirmOf(boss, r1), RejectOf(boss, r1), RejectOf(boss, r2), RejectOf(bob, r1),
              Free(boss), Moderate(root, "restore_club"), Moderate(boss, "block_club"),
              SetStatus(ann, "free")}

(* ann asks, asks or books again, and the owner confirms her first request.*)
ConfirmCalls ==
  r1 :> {Ask(ann, 1), Ask(ann, Null)}
    @@ r2 :> {Book(ann, std), Ask(ann, 1), Book(bob, std)}
    @@ r3 :> {ConfirmOf(boss, r1), RejectOf(boss, r1)}
=============================================================================
