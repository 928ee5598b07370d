----------------------------- MODULE ClubForms ------------------------------
(***************************************************************************)
(* The forms about a club side by side, while the superadmin blocks and    *)
(* restores it: its computers, its connection to 1C, rows that are only    *)
(* added, and the reviews of its clients.  A request sends one form.       *)
(***************************************************************************)
EXTENDS SeatNumbers, Integrations, Goods, Reviews

formsVars == <<vars, integrationVars, goodsVars, reviewVars>>

Unsent(r) ==
  req[r] = NotSent /\ form[r] = NoForm /\ sheet[r] = NoSheet /\ opinion[r] = NoOpinion

SeatForm(r) ==
  /\ \/ Unsent(r) /\ \E c \in Clubs :
          \/ \E n \in Counts : AddComputers(r, c, n)
          \/ \E n \in Numbers : AddComputer(r, c, n)
          \/ DenyComputers(r, c)
     \/ Commit(r) \/ CommitFails(r)
  /\ UNCHANGED <<integrationVars, goodsVars, reviewVars>>

IntegrationForm(r) ==
  /\ \/ Unsent(r) /\ \E c \in Clubs :
          SendTest(r, c) \/ DenyForm(r, c) \/ \E s \in Settings : SendSave(r, c, s)
     \/ IntegrationStep(r)
  /\ UNCHANGED <<vars, goodsVars, reviewVars>>

GoodsForm(r) ==
  /\ \/ /\ Unsent(r)
        /\ \/ \E n \in Amounts : AddProduct(r, n) \/ AddExpense(r, n)
           \/ \E n \in Amounts, paid, bonus \in Durations : AddPackage(r, n, paid, bonus)
           \/ \E cells \in SUBSET Cells : ImportProducts(r, cells)
           \/ BreakImport(r)
           \/ \E c \in Clubs : DenySheet(r, c)
     \/ GoodsStep(r)
  /\ UNCHANGED <<vars, integrationVars, reviewVars>>

ReviewForm(r) ==
  /\ \/ Unsent(r) /\ \E u \in Users, c \in Clubs, n \in Ratings, t \in Comments \union {None} :
          Submit(r, u, c, n, t)
     \/ ReviewStep(r)
  /\ UNCHANGED <<vars, integrationVars, goodsVars>>

ModerateClub(c) ==
  /\ Moderate(c)
  /\ UNCHANGED <<seats, req, integrationVars, goodsVars, reviewVars>>

FormsInit == Init /\ IntegrationInit /\ GoodsInit /\ ReviewInit

FormsNext ==
  \/ \E r \in Requests :
       SeatForm(r) \/ IntegrationForm(r) \/ GoodsForm(r) \/ ReviewForm(r)
  \/ \E c \in Clubs : ModerateClub(c)

FormsSpec == FormsInit /\ [][FormsNext]_formsVars

=============================================================================
