------------------------------- MODULE Goods --------------------------------
(***************************************************************************)
(* The forms of web/admin.py that only add rows: add_product,              *)
(* import_products, add_expense and add_package.  Each checks its fields,  *)
(* inserts all of its rows in one transaction, and relies on the check     *)
(* constraints of models.py for nothing but what the checks let through.   *)
(***************************************************************************)
EXTENDS FormRequests

CONSTANTS
  Amounts,       \* prices and sums that are sent
  Cells,         \* prices in a file, in halves
  Durations,     \* paid and bonus minutes that are sent
  MaxMinutes,    \* MAX_PACKAGE_DURATION_MINUTES
  MaxInteger     \* the largest value of an INTEGER column

ASSUME GoodsAssumption ==
  /\ Amounts \subseteq Int /\ Cells \subseteq Int /\ Durations \subseteq Int
  /\ MaxMinutes \in Nat \ {0} /\ MaxInteger \in Nat /\ MaxMinutes <= MaxInteger
  /\ None # "refused"

VARIABLES
  goods,    \* the rows of products, expenses and packages
  sheet     \* the requests: the rows they are about to insert

goodsVars == <<goods, sheet>>

NoSheet == [rows |-> {}, open |-> FALSE, answer |-> None]

Product(price) == [table |-> "products", price |-> price]
Expense(sum)   == [table |-> "expenses", amount |-> sum]
Package(price, paid, bonus) ==
  [table |-> "packages", price |-> price, paid |-> paid, bonus |-> bonus,
   duration |-> paid + bonus]

-----------------------------------------------------------------------------
(* What is answered at once, None to go on.                                *)
SendSheet(r, valid, rows) ==
  /\ sheet' = [sheet EXCEPT ![r] =
       [rows |-> IF valid THEN rows ELSE {}, open |-> valid,
        answer |-> IF valid THEN None ELSE "invalid"]]
  /\ UNCHANGED goods

DenySheet(r, c) ==
  /\ MayBeDenied(c)
  /\ sheet' = [sheet EXCEPT ![r].answer = "denied"]
  /\ UNCHANGED goods

AddProduct(r, price) == SendSheet(r, price >= 0, {Product(price)})

AddExpense(r, sum) == SendSheet(r, sum > 0, {Expense(sum)})

PackageFits(paid, bonus) ==
  paid >= 1 /\ bonus >= 0 /\ paid + bonus <= MaxMinutes

AddPackage(r, price, paid, bonus) ==
  SendSheet(r, price >= 0 /\ PackageFits(paid, bonus), {Package(price, paid, bonus)})

(* int(float(...)) cuts towards zero, so that minus a half becomes 0.      *)
Whole(cell) == IF cell >= 0 THEN cell \div 2 ELSE -((-cell) \div 2)

(* A slip: negative prices are not skipped.                                *)
ParsedAll(cells) == {Whole(x) : x \in cells}

(* parse_products_file skips the rows it cannot use, negative ones too.    *)
Parsed(cells) == {Whole(x) : x \in cells} \intersect Nat

ImportProducts(r, cells) ==
  SendSheet(r, TRUE, {Product(n) : n \in Parsed(cells)})

(* A price of inf, which int() does not take, or a damaged file raises     *)
(* what nobody catches: nothing of the file is added.                      *)
BreakImport(r) ==
  /\ sheet' = [sheet EXCEPT ![r].answer = "error"]
  /\ UNCHANGED goods

-----------------------------------------------------------------------------
(* The check constraints, in models.py and in the migrations.              *)
MeetsConstraints(row) ==
  CASE row.table = "products" -> row.price >= 0
    [] row.table = "expenses" -> row.amount > 0
    [] row.table = "packages" ->
         row.price >= 0 /\ row.duration > 0 /\ row.paid > 0 /\ row.bonus >= 0

NumberOf(row) == IF row.table = "expenses" THEN row.amount ELSE row.price

(* A number may be too large for its column: nothing checks that.          *)
Insertable(row) == MeetsConstraints(row) /\ NumberOf(row) <= MaxInteger

EndSheet(r, a) == sheet' = [sheet EXCEPT ![r].open = FALSE, ![r].answer = a]

CommitSheet(r) ==
  /\ sheet[r].open
  /\ IF \A row \in sheet[r].rows : Insertable(row)
     THEN goods' = goods \union sheet[r].rows /\ EndSheet(r, "done")
     ELSE UNCHANGED goods /\ EndSheet(r, "refused")

SheetFails(r) ==
  /\ sheet[r].open
  /\ EndSheet(r, "error")
  /\ UNCHANGED goods

GoodsStep(r) == CommitSheet(r) \/ SheetFails(r)

GoodsInit ==
  /\ goods = {}
  /\ sheet = [r \in Requests |-> NoSheet]

-----------------------------------------------------------------------------
(* A form whose checks pass is never refused by a constraint, so a row     *)
(* with a price below 0 never costs the other rows of an import; only a    *)
(* number too large for the database is refused there (admin.py:134        *)
(* converts it, nothing bounds it).                                        *)
ChecksCoverConstraints ==
  \A r \in Requests : sheet[r].answer = "refused" =>
    \E row \in sheet[r].rows : NumberOf(row) > MaxInteger

=============================================================================
