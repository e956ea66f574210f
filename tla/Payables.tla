------------------------------ MODULE Payables ------------------------------
(* What the business owes: suppliers and the status of purchase orders      *)
(* (supplier_service, purchase_service), expenses and their payments        *)
(* (expense_service). Goods receipts lock the purchase order; every other   *)
(* request reads and commits. The stock of a receipt is in StockLedger, the *)
(* drawer of a cash payment in Checkout.                                    *)
EXTENDS Desk, Integers, FiniteSets

CONSTANTS Suppliers, PurchaseOrders, OrderLines, Categories, Expenses,
          OrderedQty,   \* bound: units ordered on each line
          MaxAmount     \* bound: amount of an expense or a payment

ASSUME PayablesAssumption ==
  /\ OrderedQty \in Nat \ {0} /\ MaxAmount \in Nat \ {0} /\ Nil \notin Suppliers \cup Categories
  /\ OrderLines # {}

VARIABLES
  supplier,   \* suppliers: live or deleted
  po,         \* purchase_orders with the received_qty of their lines
  category,   \* expense_categories: live or deleted
  expense,    \* expenses with the sum of their live payments
  lax         \* history: expenses that a request without a check left overpaid

payVars == <<supplier, po, category, expense, lax>>

PurchaseOrder ==
  [status : {"none", "draft", "ordered", "partial", "received", "cancelled"},
   supplier : Suppliers \cup {Nil}, got : [OrderLines -> 0 .. OrderedQty]]
Expense == [status : {"none", "live", "deleted"}, category : Categories \cup {Nil}, due : 0 .. MaxAmount, paid : Nat]

PayablesTypeOK ==
  /\ supplier \in [Suppliers -> {"live", "deleted"}]
  /\ category \in [Categories -> {"live", "deleted"}]
  /\ po \in [PurchaseOrders -> PurchaseOrder]
  /\ expense \in [Expenses -> Expense] /\ lax \subseteq Expenses

PayablesInit ==
  /\ supplier = [s \in Suppliers |-> "live"] /\ category = [k \in Categories |-> "live"]
  /\ po = [p \in PurchaseOrders |-> [status |-> "none", supplier |-> Nil, got |-> [l \in OrderLines |-> 0]]]
  /\ expense = [e \in Expenses |-> [status |-> "none", category |-> Nil, due |-> 0, paid |-> 0]]
  /\ lax = {}

-----------------------------------------------------------------------------
(* Suppliers and purchase orders.                                           *)

InForce(s) == {p \in PurchaseOrders : po[p].supplier = s /\ po[p].status # "cancelled"}

CreateOrderRead(c, p, s) ==
  /\ po[p].status = "none" /\ \A d \in Clerks : desk[d].pc = "createPO" => desk[d].po # p
  /\ supplier[s] = "live"
  /\ Read(c, [pc |-> "createPO", po |-> p, supplier |-> s])
  /\ UNCHANGED payVars

CreatePurchaseOrder(c) ==
  LET t == desk[c] IN
  /\ t.pc = "createPO"
  /\ po' = [po EXCEPT ![t.po].status = "draft", ![t.po].supplier = t.supplier]
  /\ Commit(c, t.supplier, supplier[t.supplier] # "live")
  /\ UNCHANGED <<supplier, category, expense, lax>>

\* _ALLOWED_TRANSITIONS of update_purchase_order_status.
Allowed == [draft |-> {"ordered", "cancelled"}, ordered |-> {"cancelled"}]
CancelPartial == [draft |-> {"ordered", "cancelled"}, ordered |-> {"cancelled"}, partial |-> {"cancelled"}]
AllowPartial(from, to) == from \in DOMAIN CancelPartial /\ to \in CancelPartial[from]
AllowedTransition(from, to) == from \in DOMAIN Allowed /\ to \in Allowed[from]

OrderStatusRead(c, p, to) ==
  /\ AllowedTransition(po[p].status, to)
  /\ Read(c, [pc |-> "statusPO", po |-> p, seen |-> po[p].status, to |-> to])
  /\ UNCHANGED payVars

UpdatePurchaseOrderStatus(c) ==
  LET t == desk[c] IN
  /\ t.pc = "statusPO"
  /\ po' = [po EXCEPT ![t.po].status = t.to]
  /\ Commit(c, t.po, po[t.po].status # t.seen)
  /\ UNCHANGED <<supplier, category, expense, lax>>

\* create_purchase_receipt against an order, whose row it locks: received[l]
\* units of each line, none where the line names no order line.
StatusFromReceipt(got) == IF \A l \in OrderLines : got[l] >= OrderedQty THEN "received" ELSE "partial"

CreatePurchaseReceipt(p, received) ==
  LET got == [l \in OrderLines |-> po[p].got[l] + received[l]] IN
  /\ po[p].status \notin {"none", "cancelled"} /\ supplier[po[p].supplier] = "live"
  /\ \A l \in OrderLines : got[l] <= OrderedQty
  /\ po' = [po EXCEPT ![p].got = got, ![p].status = StatusFromReceipt(got)]
  /\ UNCHANGED <<supplier, category, expense, lax, desk, stale>>

DeleteSupplierRead(c, s) ==
  /\ supplier[s] = "live" /\ InForce(s) = {}
  /\ Read(c, [pc |-> "deleteSupplier", supplier |-> s])
  /\ UNCHANGED payVars

DeleteSupplier(c) ==
  LET s == desk[c].supplier IN
  /\ desk[c].pc = "deleteSupplier"
  /\ supplier' = [supplier EXCEPT ![s] = "deleted"]
  /\ Commit(c, s, InForce(s) # {})
  /\ UNCHANGED <<po, category, expense, lax>>

-----------------------------------------------------------------------------
(* Expenses.                                                                *)

ExpensesIn(k) == {e \in Expenses : expense[e].status = "live" /\ expense[e].category = k}
Overpaid(x) == x.paid > x.due

\* create_expense may come with payments, which it does not compare with the
\* amount.
CreateExpenseRead(c, e, k, due, paid) ==
  /\ expense[e].status = "none" /\ \A d \in Clerks : desk[d].pc = "createExpense" => desk[d].expense # e
  /\ category[k] = "live"
  /\ Read(c, [pc |-> "createExpense", expense |-> e, category |-> k, due |-> due, paid |-> paid])
  /\ UNCHANGED payVars

CreateExpense(c) ==
  LET t == desk[c]
      new == [status |-> "live", category |-> t.category, due |-> t.due, paid |-> t.paid] IN
  /\ t.pc = "createExpense"
  /\ expense' = [expense EXCEPT ![t.expense] = new]
  /\ lax' = IF Overpaid(new) THEN lax \cup {t.expense} ELSE lax
  /\ Commit(c, t.category, category[t.category] # "live")
  /\ UNCHANGED <<supplier, po, category>>

\* add_expense_payment: the sum of the payments is read, then the new one is
\* inserted.
WithinRemaining(x, amount) == x.paid + amount <= x.due

PaymentRead(c, e, amount) ==
  /\ expense[e].status = "live" /\ WithinRemaining(expense[e], amount)
  /\ Read(c, [pc |-> "payment", expense |-> e, amount |-> amount])
  /\ UNCHANGED payVars

AddExpensePayment(c) ==
  LET t == desk[c]
      x == expense[t.expense] IN
  /\ t.pc = "payment"
  /\ expense' = [expense EXCEPT ![t.expense].paid = @ + t.amount]
  /\ Commit(c, t.expense, x.status # "live" \/ ~WithinRemaining(x, t.amount))
  /\ UNCHANGED <<supplier, po, category, lax>>

\* update_expense does not look at the payments.
UpdateExpense(e, due) ==
  LET new == [expense[e] EXCEPT !.due = due] IN
  /\ expense[e].status = "live"
  /\ expense' = [expense EXCEPT ![e] = new]
  /\ lax' = IF Overpaid(new) THEN lax \cup {e} ELSE lax
  /\ UNCHANGED <<supplier, po, category, desk, stale>>

\* delete_expense deletes the payments that it has read.
DeleteExpenseRead(c, e) ==
  /\ expense[e].status = "live"
  /\ Read(c, [pc |-> "deleteExpense", expense |-> e, found |-> expense[e].paid])
  /\ UNCHANGED payVars

DeleteExpense(c) ==
  LET t == desk[c]
      left == expense[t.expense].paid - t.found IN
  /\ t.pc = "deleteExpense"
  /\ expense' = [expense EXCEPT ![t.expense].status = "deleted", ![t.expense].paid = IF left > 0 THEN left ELSE 0]
  /\ Commit(c, t.expense, FALSE)
  /\ UNCHANGED <<supplier, po, category, lax>>

NoExpenses(k) == ExpensesIn(k) = {}
DeleteCategoryRead(c, k) ==
  /\ category[k] = "live" /\ NoExpenses(k)
  /\ Read(c, [pc |-> "deleteCategory", category |-> k])
  /\ UNCHANGED payVars

DeleteExpenseCategory(c) ==
  LET k == desk[c].category IN
  /\ desk[c].pc = "deleteCategory"
  /\ category' = [category EXCEPT ![k] = "deleted"]
  /\ Commit(c, k, ~NoExpenses(k))
  /\ UNCHANGED <<supplier, po, expense, lax>>

-----------------------------------------------------------------------------

PurchaseWork(c) ==
  \/ \E p \in PurchaseOrders, s \in Suppliers : CreateOrderRead(c, p, s)
  \/ \E p \in PurchaseOrders, to \in {"ordered", "partial", "received", "cancelled"} : OrderStatusRead(c, p, to)
  \/ \E s \in Suppliers : DeleteSupplierRead(c, s)
  \/ CreatePurchaseOrder(c) \/ UpdatePurchaseOrderStatus(c) \/ DeleteSupplier(c)

ReceiveGoods == \E p \in PurchaseOrders, received \in [OrderLines -> 0 .. OrderedQty] : CreatePurchaseReceipt(p, received)

ExpenseWork(c) ==
  \/ \E e \in Expenses, k \in Categories, due \in 1 .. MaxAmount, paid \in 0 .. MaxAmount : CreateExpenseRead(c, e, k, due, paid)
  \/ \E e \in Expenses, amount \in 1 .. MaxAmount : PaymentRead(c, e, amount)
  \/ \E e \in Expenses, due \in 1 .. MaxAmount : UpdateExpense(e, due)
  \/ \E e \in Expenses : DeleteExpenseRead(c, e)
  \/ \E k \in Categories : DeleteCategoryRead(c, k)
  \/ CreateExpense(c) \/ AddExpensePayment(c) \/ DeleteExpense(c) \/ DeleteExpenseCategory(c)

PayablesNext == ReceiveGoods \/ \E c \in Clerks : PurchaseWork(c) \/ ExpenseWork(c)
PayablesSpec == PayablesInit /\ DeskInit /\ [][PayablesNext]_<<payVars, deskVars>>

-----------------------------------------------------------------------------

\* The status of a purchase order says what has arrived: it is received when
\* every line is, partly received when a receipt was booked, and a draft, ordered or
\* cancelled order has had no goods; the supplier of an order in force is not
\* deleted. Excepted are the rows that crossing requests wrote: a
\* cancellation takes no lock, although the receipt does.
OrderFollowsGoods ==
  /\ \A p \in PurchaseOrders \ stale :
       LET got == {po[p].got[l] : l \in OrderLines} IN
       /\ po[p].status = "received" <=> got = {OrderedQty}
       /\ po[p].status \in {"none", "draft", "ordered", "cancelled"} => got = {0}
  /\ \A s \in Suppliers \ stale : supplier[s] = "deleted" => InForce(s) \subseteq stale

\* Payments recorded one by one never exceed the expense, and an expense in
\* force is never in a deleted category. Excepted are expenses that were
\* created with larger payments or reduced afterwards, which nothing checks,
\* and those where two requests crossed.
PaidWithinDue ==
  /\ \A e \in Expenses \ (lax \cup stale) : expense[e].paid <= expense[e].due
  /\ \A k \in Categories \ stale : category[k] = "deleted" => ExpensesIn(k) = {}

\* What is owed follows the goods received and the payments made.
PayablesInOrder == OrderFollowsGoods /\ PaidWithinDue

=============================================================================
