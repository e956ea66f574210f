-------------------------- MODULE BackOfficeProofs --------------------------
(* Proofs about the back office: payables, the plant, the books and the     *)
(* catalogue, for any number of clerks whose requests read in one step and  *)
(* commit in another: a commit over a state that its request has not seen   *)
(* marks the row it writes as stale, and spoils no other row.               *)

EXTENDS Payables, Manufacturing, Accounting, Catalogue, Sums

\* A request that has committed is off its desk.
LEMMA DeskCleared ==
  ASSUME NEW c \in Clerks, NEW row, NEW outdated \in BOOLEAN, Commit(c, row, outdated), DOMAIN desk = Clerks
  PROVE  /\ DOMAIN desk' = Clerks /\ desk'[c].pc = "free" /\ \A d \in Clerks \ {c} : desk'[d] = desk[d]
         /\ stale \subseteq stale' /\ (outdated => row \in stale') /\ (~outdated => stale' = stale)
  BY DEF Commit, Free

\* A set whose members are all the same has at most one.
LEMMA AtMostOne == ASSUME NEW S, \A x, y \in S : x = y PROVE Cardinality(S) <= 1
  <1>1. CASE S = {}
    BY <1>1, FS_EmptySet
  <1>2. CASE S # {}
    <2>1. PICK x \in S : TRUE
      BY <1>2
    <2>2. S = {x}
      BY <2>1
    <2> QED
      BY <2>2, FS_Singleton
  <1> QED
    BY <1>1, <1>2

-----------------------------------------------------------------------------
(* Purchase orders, suppliers and expenses.                                 *)

\* What a request for an order or a supplier has read: a new order is named
\* by nobody else until it is there, and a transition was a legal one.
OrderTask(t) ==
  /\ t.pc = "createPO" => t.po \in PurchaseOrders /\ t.supplier \in Suppliers /\ po[t.po].status = "none"
  /\ t.pc = "statusPO" => t.po \in PurchaseOrders /\ po[t.po].status # "none" /\ AllowedTransition(t.seen, t.to)
  /\ t.pc = "deleteSupplier" => t.supplier \in Suppliers
\* What a request about expenses has read: a new expense is nobody else's
\* before it is there, and the amounts are positive.
ExpenseTask(t) ==
  /\ t.pc = "createExpense" => /\ t.expense \in Expenses /\ t.category \in Categories /\ expense[t.expense].status = "none"
                               /\ t.due \in 1 .. MaxAmount /\ t.paid \in 0 .. MaxAmount
  /\ t.pc = "payment" => t.expense \in Expenses /\ expense[t.expense].status # "none" /\ t.amount \in 1 .. MaxAmount
  /\ t.pc = "deleteExpense" => t.expense \in Expenses /\ expense[t.expense].status # "none" /\ t.found \in Nat
  /\ t.pc = "deleteCategory" => t.category \in Categories
\* Two requests about to insert the same row.
Twins(t, u) ==
  \/ t.pc = "createPO" /\ u.pc = "createPO" /\ t.po = u.po
  \/ t.pc = "createExpense" /\ u.pc = "createExpense" /\ t.expense = u.expense

\* What is true of the requests at work.
PayDesks ==
  /\ DOMAIN desk = Clerks
  /\ \A c \in Clerks : OrderTask(desk[c]) /\ ExpenseTask(desk[c]) /\ \A d \in Clerks \ {c} : ~Twins(desk[c], desk[d])
\* Rows that are not there hold nothing, and an order names a supplier.
PayRows ==
  /\ \A p \in PurchaseOrders :
       /\ po[p].status # "none" => po[p].supplier \in Suppliers
       /\ po[p].status = "none" => \A l \in OrderLines : po[p].got[l] = 0
  /\ \A e \in Expenses : expense[e].status = "none" => expense[e].paid = 0

\* OrderFollowsGoods, line by line.
OrderSound(p) ==
  p \in stale \/
    /\ po[p].status = "received" <=> \A l \in OrderLines : po[p].got[l] = OrderedQty
    /\ po[p].status \in {"none", "draft", "ordered", "cancelled"} => \A l \in OrderLines : po[p].got[l] = 0
\* A deleted supplier has no order in force.
SupplierSound(s) ==
  s \in stale \/ supplier[s] = "live" \/ \A p \in PurchaseOrders : po[p].supplier = s /\ po[p].status # "cancelled" => p \in stale
\* No more is paid than is due.
ExpenseSound(e) == e \in stale \/ e \in lax \/ expense[e].paid <= expense[e].due
\* A deleted category has no live expense.
CategorySound(k) ==
  k \in stale \/ category[k] = "live" \/ \A e \in Expenses : expense[e].status = "live" => expense[e].category # k

\* PayablesInOrder, row by row.
PaySound ==
  /\ \A p \in PurchaseOrders : OrderSound(p)
  /\ \A s \in Suppliers : SupplierSound(s)
  /\ \A e \in Expenses : ExpenseSound(e)
  /\ \A k \in Categories : CategorySound(k)

\* The inductive invariant of Payables.
PayInv == PayablesTypeOK /\ PayDesks /\ PayRows /\ PaySound

\* The invariant says what the runs check.
LEMMA PayInvImplies == PayInv => PayablesInOrder
  <1> SUFFICES ASSUME PayInv PROVE PayablesInOrder
    OBVIOUS
  <1> USE PayablesAssumption DEF PayInv, PaySound
  <1>1. ASSUME NEW p \in PurchaseOrders \ stale
        PROVE  LET got == {po[p].got[l] : l \in OrderLines} IN
               /\ po[p].status = "received" <=> got = {OrderedQty}
               /\ po[p].status \in {"none", "draft", "ordered", "cancelled"} => got = {0}
    <2> DEFINE got == {po[p].got[l] : l \in OrderLines}
    <2>1. \A x : got = {x} <=> \A l \in OrderLines : po[p].got[l] = x
      OBVIOUS
    <2> HIDE DEF got
    <2>2. OrderSound(p)
      OBVIOUS
    <2> QED
      BY <1>1, <2>1, <2>2 DEF got, OrderSound
  <1>2. ASSUME NEW s \in Suppliers \ stale, supplier[s] = "deleted" PROVE InForce(s) \subseteq stale
    BY <1>2 DEF SupplierSound, InForce
  <1>3. OrderFollowsGoods
    BY <1>1, <1>2 DEF OrderFollowsGoods
  <1>4. PaidWithinDue
    BY DEF PaidWithinDue, ExpenseSound, CategorySound, ExpensesIn
  <1> QED
    BY <1>3, <1>4 DEF PayablesInOrder

\* It holds when the shop opens.
LEMMA PayInvInit == PayablesInit /\ DeskInit => PayInv
  BY PayablesAssumption DEF PayablesInit, DeskInit, Free, PayInv, PaySound, PayablesTypeOK, PayDesks, PayRows, OrderTask, ExpenseTask, Twins,
     OrderSound, SupplierSound, ExpenseSound, CategorySound, PurchaseOrder, Expense

\* A request that only reads.
LEMMA PayRead ==
  ASSUME PayInv, NEW c \in Clerks, NEW t, Read(c, t), UNCHANGED payVars, OrderTask(t), ExpenseTask(t),
         \A d \in Clerks : ~Twins(t, desk[d]) /\ ~Twins(desk[d], t)
  PROVE  PayInv'
  <1>1. desk' = [desk EXCEPT ![c] = t] /\ stale' = stale
    BY DEF Read
  <1>2. PayDesks'
    BY <1>1 DEF PayInv, PayDesks, payVars, OrderTask, ExpenseTask, Twins
  <1> QED
    BY <1>1, <1>2 DEF PayInv, PaySound, payVars, PayablesTypeOK, PayRows, OrderSound, SupplierSound, ExpenseSound, CategorySound

\* create_purchase_receipt: the status is derived from the very rows it wrote.
LEMMA ReceiptKeeps ==
  ASSUME PayInv, NEW p \in PurchaseOrders, NEW received \in [OrderLines -> 0 .. OrderedQty], CreatePurchaseReceipt(p, received)
  PROVE  PayInv'
  <1> DEFINE got == [l \in OrderLines |-> po[p].got[l] + received[l]]
  <1> USE PayablesAssumption DEF PayInv, PaySound
  <1>1. /\ po' = [po EXCEPT ![p].got = got, ![p].status = StatusFromReceipt(got)]
        /\ po[p].status \notin {"none", "cancelled"} /\ \A l \in OrderLines : got[l] <= OrderedQty
        /\ UNCHANGED <<supplier, category, expense, lax, desk, stale>>
    BY DEF CreatePurchaseReceipt
  <1>2. got \in [OrderLines -> 0 .. OrderedQty] 
    BY <1>1 DEF PayablesTypeOK, PurchaseOrder
  <1>3. StatusFromReceipt(got) \in {"received", "partial"} /\ (StatusFromReceipt(got) = "received" <=> \A l \in OrderLines : got[l] = OrderedQty)
    BY <1>1, <1>2 DEF StatusFromReceipt
  <1> HIDE DEF got
  <1>4. /\ po'[p].got = got /\ po'[p].status = StatusFromReceipt(got) /\ po'[p].supplier = po[p].supplier
        /\ \A q \in PurchaseOrders \ {p} : po'[q] = po[q]
    BY <1>1 DEF PayablesTypeOK, PurchaseOrder
  <1>5. PayablesTypeOK'
    BY <1>1, <1>2, <1>3, ZenonT(60) DEF PayablesTypeOK, PurchaseOrder
  <1>6. PayRows'
    <2>1. po'[p].status # "none" /\ po'[p].supplier \in Suppliers
      BY <1>1, <1>3, <1>4 DEF PayRows
    <2> QED
      BY <1>1, <1>4, <2>1, ZenonT(60) DEF PayRows
  <1>d. PayDesks'
    <2>1. \A d \in Clerks : OrderTask(desk[d])'
      <3>1. \A q \in PurchaseOrders : po[q].status = "none" <=> po'[q].status = "none"
        BY <1>1, <1>3, <1>4
      <3> QED
        BY <1>1, <3>1 DEF PayDesks, OrderTask
    <2>2. \A d \in Clerks : ExpenseTask(desk[d])'
      BY <1>1 DEF PayDesks, ExpenseTask
    <2> QED
      BY <1>1, <2>1, <2>2 DEF PayDesks, Twins
  <1>7. ASSUME NEW q \in PurchaseOrders PROVE OrderSound(q)'
    <2>1. OrderSound(q)
      OBVIOUS
    <2>2. CASE q = p
      BY <1>1, <1>3, <1>4, <2>2, ZenonT(60) DEF OrderSound
    <2>3. CASE q # p
      BY <1>1, <1>4, <2>1, <2>3 DEF OrderSound
    <2> QED
      BY <2>2, <2>3
  <1>8. \A s \in Suppliers : SupplierSound(s)'
    BY <1>1, <1>3, <1>4, ZenonT(60) DEF SupplierSound
  <1> QED
    BY <1>1, <1>5, <1>6, <1>d, <1>7, <1>8 DEF ExpenseSound, CategorySound

\* create_purchase_order.
LEMMA CreateOrderKeeps ==
  ASSUME PayInv, NEW c \in Clerks, CreatePurchaseOrder(c)
  PROVE  PayInv'
  <1> DEFINE t == desk[c]
             p == t.po
             s == t.supplier
  <1> USE PayablesAssumption DEF PayInv, PaySound
  <1>1. /\ po' = [po EXCEPT ![p].status = "draft", ![p].supplier = s]
        /\ Commit(c, s, supplier[s] # "live") /\ t.pc = "createPO"
        /\ UNCHANGED <<supplier, category, expense, lax>>
    BY DEF CreatePurchaseOrder
  <1>2. p \in PurchaseOrders /\ s \in Suppliers /\ po[p].status = "none" /\ \A d \in Clerks \ {c} : ~Twins(t, desk[d])
    BY <1>1 DEF PayDesks, OrderTask
  <1>3. /\ DOMAIN desk' = Clerks /\ desk'[c].pc = "free" /\ \A d \in Clerks \ {c} : desk'[d] = desk[d]
        /\ stale \subseteq stale' /\ (supplier[s] # "live" => s \in stale')
    BY <1>1, DeskCleared DEF PayDesks
  <1>4. /\ po'[p].got = po[p].got /\ po'[p].status = "draft" /\ po'[p].supplier = s
        /\ \A q \in PurchaseOrders \ {p} : po'[q] = po[q]
    BY <1>1, <1>2 DEF PayablesTypeOK, PurchaseOrder
  <1>5. PayablesTypeOK'
    <2> DEFINE row == [po[p] EXCEPT !.status = "draft", !.supplier = s]
    <2>1. row \in PurchaseOrder
      BY <1>2, ZenonT(60) DEF PayablesTypeOK, PurchaseOrder
    <2>2. po' = [po EXCEPT ![p] = row]
      BY <1>1
    <2> QED
      BY <1>1, <2>1, <2>2, ZenonT(60) DEF PayablesTypeOK
  <1>6. PayRows'
    <2>1. ASSUME NEW q \in PurchaseOrders
          PROVE  /\ po'[q].status # "none" => po'[q].supplier \in Suppliers
                 /\ po'[q].status = "none" => \A l \in OrderLines : po'[q].got[l] = 0
      <3>1. CASE q = p
        BY <1>2, <1>4, <3>1
      <3>2. CASE q # p
        BY <1>4, <3>2 DEF PayRows
      <3> QED
        BY <3>1, <3>2
    <2> QED
      BY <1>1, <2>1 DEF PayRows
  <1>d. PayDesks'
    <2>1. ASSUME NEW d \in Clerks PROVE OrderTask(desk[d])'
      <3>1. desk[d].pc = "createPO" /\ d # c => desk[d].po # p
        BY <1>1, <1>2 DEF Twins
      <3>2. OrderTask(desk[d])
        BY DEF PayDesks
      <3>3. CASE d = c
        BY <1>3, <3>3 DEF OrderTask
      <3>4. CASE d # c
        <4>1. desk'[d] = desk[d]
          BY <1>3, <3>4
        <4>2. \A q \in PurchaseOrders : po[q].status # "none" => po'[q].status # "none"
          BY <1>4
        <4>3. \A q \in PurchaseOrders : q # p /\ po[q].status = "none" => po'[q].status = "none"
          BY <1>4
        <4> QED
          BY <3>1, <3>2, <3>4, <4>1, <4>2, <4>3 DEF OrderTask
      <3> QED
        BY <3>3, <3>4
    <2>2. \A d \in Clerks : ExpenseTask(desk[d])'
      BY <1>1, <1>3 DEF PayDesks, ExpenseTask
    <2> QED
      BY <1>3, <2>1, <2>2 DEF PayDesks, Twins
  <1>7. ASSUME NEW q \in PurchaseOrders PROVE OrderSound(q)'
    <2>1. OrderSound(q)
      OBVIOUS
    <2>2. CASE q = p
      BY <1>2, <1>3, <1>4, <2>2 DEF OrderSound, PayRows
    <2>3. CASE q # p
      BY <1>3, <1>4, <2>1, <2>3 DEF OrderSound
    <2> QED
      BY <2>2, <2>3
  <1>8. ASSUME NEW r \in Suppliers PROVE SupplierSound(r)'
    <2>1. SupplierSound(r)
      OBVIOUS
    <2>2. CASE r = s
      BY <1>1, <1>3, <2>2 DEF SupplierSound, PayablesTypeOK
    <2>3. CASE r # s
      BY <1>1, <1>3, <1>4, <2>1, <2>3 DEF SupplierSound
    <2> QED
      BY <2>2, <2>3
  <1> QED
    BY <1>1, <1>3, <1>5, <1>6, <1>d, <1>7, <1>8 DEF ExpenseSound, CategorySound

\* update_purchase_order_status: the transition was legal from the status
\* read, which is still the status or makes the order stale.
LEMMA OrderStatusKeeps ==
  ASSUME PayInv, NEW c \in Clerks, UpdatePurchaseOrderStatus(c)
  PROVE  PayInv'
  <1> DEFINE t == desk[c]
             p == t.po
             to == t.to
  <1> USE PayablesAssumption DEF PayInv, PaySound
  <1>1. /\ po' = [po EXCEPT ![p].status = to]
        /\ Commit(c, p, po[p].status # t.seen) /\ t.pc = "statusPO"
        /\ UNCHANGED <<supplier, category, expense, lax>>
    BY DEF UpdatePurchaseOrderStatus
  <1>2. p \in PurchaseOrders /\ AllowedTransition(t.seen, to)
    BY <1>1 DEF PayDesks, OrderTask
  <1>3. t.seen \in {"draft", "ordered"} /\ to \in {"ordered", "cancelled"}
    BY <1>2 DEF AllowedTransition, Allowed
  <1>4. /\ DOMAIN desk' = Clerks /\ desk'[c].pc = "free" /\ \A d \in Clerks \ {c} : desk'[d] = desk[d]
        /\ stale \subseteq stale' /\ (po[p].status # t.seen => p \in stale')
    BY <1>1, DeskCleared DEF PayDesks
  <1>5. /\ po'[p].got = po[p].got /\ po'[p].status = to /\ po'[p].supplier = po[p].supplier
        /\ \A q \in PurchaseOrders \ {p} : po'[q] = po[q]
    BY <1>1, <1>2 DEF PayablesTypeOK, PurchaseOrder
  <1>6. PayablesTypeOK'
    BY <1>1, <1>2, <1>3 DEF PayablesTypeOK, PurchaseOrder
  <1>7. PayRows'
    <2>1. ASSUME NEW q \in PurchaseOrders
          PROVE  /\ po'[q].status # "none" => po'[q].supplier \in Suppliers
                 /\ po'[q].status = "none" => \A l \in OrderLines : po'[q].got[l] = 0
      <3>1. CASE q = p
        <4>1. po[p].status # "none"
          BY <1>1 DEF PayDesks, OrderTask
        <4> QED
          BY <1>2, <1>3, <1>5, <3>1, <4>1 DEF PayRows
      <3>2. CASE q # p
        BY <1>5, <3>2 DEF PayRows
      <3> QED
        BY <3>1, <3>2
    <2> QED
      BY <1>1, <2>1 DEF PayRows
  <1>8. PayDesks'
    <2>1. \A d \in Clerks : OrderTask(desk[d])'
      <3>1. po[p].status # "none"
        BY <1>1 DEF PayDesks, OrderTask
      <3>2. \A q \in PurchaseOrders : po[q].status = "none" <=> po'[q].status = "none"
        BY <1>3, <1>5, <3>1
      <3>3. UNCHANGED supplier
        BY <1>1
      <3> QED
        BY <1>4, <3>2, <3>3 DEF PayDesks, OrderTask
    <2>2. \A d \in Clerks : ExpenseTask(desk[d])'
      BY <1>1, <1>4 DEF PayDesks, ExpenseTask
    <2> QED
      BY <1>4, <2>1, <2>2 DEF PayDesks, Twins
  <1>9. ASSUME NEW q \in PurchaseOrders PROVE OrderSound(q)'
    <2>1. OrderSound(q)
      OBVIOUS
    <2>2. CASE q = p
      BY <1>3, <1>4, <1>5, <2>1, <2>2 DEF OrderSound
    <2>3. CASE q # p
      BY <1>4, <1>5, <2>1, <2>3 DEF OrderSound
    <2> QED
      BY <2>2, <2>3
  <1>10. ASSUME NEW r \in Suppliers PROVE SupplierSound(r)'
    BY <1>1, <1>3, <1>4, <1>5 DEF SupplierSound
  <1> QED
    BY <1>1, <1>4, <1>6, <1>7, <1>8, <1>9, <1>10 DEF ExpenseSound, CategorySound

\* delete_supplier.
LEMMA DeleteSupplierKeeps ==
  ASSUME PayInv, NEW c \in Clerks, DeleteSupplier(c)
  PROVE  PayInv'
  <1> DEFINE s == desk[c].supplier
  <1> USE PayablesAssumption DEF PayInv, PaySound
  <1>1. /\ supplier' = [supplier EXCEPT ![s] = "deleted"] /\ Commit(c, s, InForce(s) # {}) /\ desk[c].pc = "deleteSupplier"
        /\ UNCHANGED <<po, category, expense, lax>>
    BY DEF DeleteSupplier
  <1>2. /\ DOMAIN desk' = Clerks /\ desk'[c].pc = "free" /\ \A d \in Clerks \ {c} : desk'[d] = desk[d]
        /\ stale \subseteq stale' /\ (InForce(s) # {} => s \in stale')
    BY <1>1, DeskCleared DEF PayDesks
  <1>3. PayablesTypeOK' /\ PayRows'
    BY <1>1 DEF PayablesTypeOK, PayRows
  <1>4. PayDesks'
    BY <1>1, <1>2 DEF PayDesks, OrderTask, ExpenseTask, Twins
  <1>5. \A r \in Suppliers : SupplierSound(r)'
    BY <1>1, <1>2 DEF SupplierSound, InForce, PayablesTypeOK
  <1> QED
    BY <1>1, <1>2, <1>3, <1>4, <1>5 DEF ExpenseSound, CategorySound, OrderSound

\* delete_expense_category.
LEMMA DeleteCategoryKeeps ==
  ASSUME PayInv, NEW c \in Clerks, DeleteExpenseCategory(c)
  PROVE  PayInv'
  <1> DEFINE k == desk[c].category
  <1> USE PayablesAssumption DEF PayInv, PaySound
  <1>1. /\ category' = [category EXCEPT ![k] = "deleted"] /\ Commit(c, k, ~NoExpenses(k)) /\ desk[c].pc = "deleteCategory"
        /\ UNCHANGED <<supplier, po, expense, lax>>
    BY DEF DeleteExpenseCategory
  <1>2. /\ DOMAIN desk' = Clerks /\ desk'[c].pc = "free" /\ \A d \in Clerks \ {c} : desk'[d] = desk[d]
        /\ stale \subseteq stale' /\ (~NoExpenses(k) => k \in stale')
    BY <1>1, DeskCleared DEF PayDesks, NoExpenses
  <1>3. PayablesTypeOK' /\ PayRows'
    BY <1>1 DEF PayablesTypeOK, PayRows
  <1>4. PayDesks'
    BY <1>1, <1>2 DEF PayDesks, OrderTask, ExpenseTask, Twins
  <1>5. \A r \in Categories : CategorySound(r)'
    BY <1>1, <1>2 DEF CategorySound, NoExpenses, ExpensesIn, PayablesTypeOK
  <1> QED
    BY <1>1, <1>2, <1>3, <1>4, <1>5 DEF ExpenseSound, SupplierSound, OrderSound

\* Of the expenses, one changes: to a row that is no longer new, and keeps
\* the promises by itself.
LEMMA ExpenseChange ==
  ASSUME PayInv, NEW e \in Expenses, NEW row \in Expense, expense' = [expense EXCEPT ![e] = row], row.status # "none",
         stale \subseteq stale', lax \subseteq lax', lax' \subseteq Expenses, UNCHANGED <<supplier, po, category>>,
         e \in stale' \/ e \in lax' \/ row.paid <= row.due,
         row.status = "live" => \/ row.category \in stale' \/ row.category \notin Categories \/ category[row.category] = "live"
                                \/ expense[e].status = "live" /\ row.category = expense[e].category
  PROVE  PayablesTypeOK' /\ PayRows' /\ PaySound'
  <1> USE DEF PayInv, PaySound
  <1>1. expense'[e] = row /\ \A f \in Expenses \ {e} : expense'[f] = expense[f]
    BY DEF PayablesTypeOK
  <1>2. PayablesTypeOK'
    BY DEF PayablesTypeOK
  <1>3. PayRows'
    BY <1>1 DEF PayRows
  <1>4. \A p \in PurchaseOrders : OrderSound(p)'
    BY DEF OrderSound
  <1>5. \A s \in Suppliers : SupplierSound(s)'
    BY DEF SupplierSound
  <1>6. \A f \in Expenses : ExpenseSound(f)'
    BY <1>1 DEF ExpenseSound
  <1>7. ASSUME NEW k \in Categories PROVE CategorySound(k)'
    <2>1. CategorySound(k)
      OBVIOUS
    <2>2. CASE row.status = "live" /\ row.category = k
      BY <1>1, <2>1, <2>2 DEF CategorySound
    <2>3. CASE ~(row.status = "live" /\ row.category = k)
      BY <1>1, <2>1, <2>3 DEF CategorySound
    <2> QED
      BY <2>2, <2>3
  <1> QED
    BY <1>2, <1>3, <1>4, <1>5, <1>6, <1>7

\* The desks of the others, when one expense that is not new has changed.
LEMMA ExpenseDesks ==
  ASSUME PayInv, NEW e \in Expenses, NEW row, expense' = [expense EXCEPT ![e] = row], row.status # "none",
         UNCHANGED <<supplier, po, category>>, DOMAIN desk' = Clerks,
         NEW c \in Clerks, desk'[c] = desk[c] \/ desk'[c].pc = "free", \A d \in Clerks \ {c} : desk'[d] = desk[d],
         \A d \in Clerks : desk'[d].pc = "createExpense" => desk[d].expense # e
  PROVE  PayDesks'
  <1> USE DEF PayInv
  <1>1. \A f \in Expenses \ {e} : expense'[f] = expense[f]
    BY DEF PayablesTypeOK
  <1>2. ASSUME NEW d \in Clerks PROVE OrderTask(desk[d])' /\ ExpenseTask(desk[d])'
    <2>1. OrderTask(desk[d]) /\ ExpenseTask(desk[d])
      BY DEF PayDesks
    <2>2. CASE desk'[d].pc = "free"
      BY <2>2 DEF OrderTask, ExpenseTask
    <2>3. CASE desk'[d] = desk[d]
      <3>1. OrderTask(desk[d])'
        BY <2>1, <2>3 DEF OrderTask
      <3>2. ExpenseTask(desk[d])'
        BY <1>1, <2>1, <2>3 DEF ExpenseTask
      <3> QED
        BY <3>1, <3>2
    <2> QED
      BY <2>2, <2>3
  <1>3. \A d, f \in Clerks : f # d => ~Twins(desk[d], desk[f])'
    BY DEF PayDesks, Twins
  <1> QED
    BY <1>2, <1>3 DEF PayDesks

\* create_expense.
LEMMA CreateExpenseKeeps ==
  ASSUME PayInv, NEW c \in Clerks, CreateExpense(c)
  PROVE  PayInv'
  <1> DEFINE t == desk[c]
             new == [status |-> "live", category |-> t.category, due |-> t.due, paid |-> t.paid]
  <1> USE PayablesAssumption DEF PayInv, PaySound
  <1>1. /\ expense' = [expense EXCEPT ![t.expense] = new] /\ t.pc = "createExpense"
        /\ lax' = IF Overpaid(new) THEN lax \cup {t.expense} ELSE lax
        /\ Commit(c, t.category, category[t.category] # "live") /\ UNCHANGED <<supplier, po, category>>
    BY DEF CreateExpense
  <1>2. /\ t.expense \in Expenses /\ t.category \in Categories /\ t.due \in 1 .. MaxAmount /\ t.paid \in 0 .. MaxAmount
        /\ \A d \in Clerks \ {c} : ~Twins(t, desk[d])
    BY <1>1 DEF PayDesks, ExpenseTask
  <1>3. /\ DOMAIN desk' = Clerks /\ desk'[c].pc = "free" /\ \A d \in Clerks \ {c} : desk'[d] = desk[d]
        /\ stale \subseteq stale' /\ (category[t.category] # "live" => t.category \in stale')
    BY <1>1, DeskCleared DEF PayDesks
  <1>4. PICK e \in Expenses, row \in Expense : e = t.expense /\ row = new
    <2>1. t.category \in Categories \cup {Nil} /\ t.due \in 0 .. MaxAmount /\ t.paid \in Nat
      BY <1>2
    <2>2. new \in Expense
      BY <2>1 DEF Expense
    <2> QED
      BY <1>2, <2>2
  <1>5. lax \subseteq lax' /\ lax' \subseteq Expenses /\ (e \in lax' \/ row.paid <= row.due)
    BY <1>1, <1>2, <1>4 DEF Overpaid, PayablesTypeOK
  <1>6. row.status = "live" /\ (row.category \in stale' \/ category[row.category] = "live")
    BY <1>3, <1>4
  <1>7. expense' = [expense EXCEPT ![e] = row]
    BY <1>1, <1>4
  <1>8. \A d \in Clerks : desk'[d].pc = "createExpense" => desk[d].expense # e
    BY <1>1, <1>2, <1>3, <1>4 DEF Twins
  <1> HIDE DEF t, new, PayInv
  <1>9. PayDesks'
    BY <1>1, <1>3, <1>6, <1>7, <1>8, ExpenseDesks
  <1>10. PayablesTypeOK' /\ PayRows' /\ PaySound'
    <2>1. stale \subseteq stale' /\ UNCHANGED <<supplier, po, category>> /\ row.status # "none"
      BY <1>1, <1>3, <1>6
    <2> QED
      BY <1>5, <1>6, <1>7, <2>1, ExpenseChange
  <1> QED
    BY <1>9, <1>10 DEF PayInv, PaySound

\* add_expense_payment: the sum is checked against what was read.
LEMMA PaymentKeeps ==
  ASSUME PayInv, NEW c \in Clerks, AddExpensePayment(c)
  PROVE  PayInv'
  <1> DEFINE t == desk[c]
             x == expense[t.expense]
             new == [x EXCEPT !.paid = @ + t.amount]
  <1> USE PayablesAssumption DEF PayInv
  <1>1. /\ expense' = [expense EXCEPT ![t.expense] = new] /\ t.pc = "payment"
        /\ Commit(c, t.expense, x.status # "live" \/ ~WithinRemaining(x, t.amount)) /\ UNCHANGED <<supplier, po, category, lax>>
    BY DEF AddExpensePayment
  <1>2. t.expense \in Expenses /\ t.amount \in 1 .. MaxAmount /\ x.status # "none"
    BY <1>1 DEF PayDesks, ExpenseTask
  <1>3. /\ DOMAIN desk' = Clerks /\ desk'[c].pc = "free" /\ \A d \in Clerks \ {c} : desk'[d] = desk[d]
        /\ stale \subseteq stale' /\ (x.status # "live" \/ ~WithinRemaining(x, t.amount) => t.expense \in stale')
    BY <1>1, DeskCleared DEF PayDesks, WithinRemaining
  <1>4. PICK e \in Expenses, row \in Expense : e = t.expense /\ row = new
    <2>1. x \in Expense /\ x.paid + t.amount \in Nat
      BY <1>2 DEF PayablesTypeOK, Expense
    <2>2. new \in Expense
      BY <2>1 DEF Expense
    <2> QED
      BY <1>2, <2>2
  <1>5. e \in stale' \/ row.paid <= row.due
    BY <1>2, <1>3, <1>4 DEF WithinRemaining, PayablesTypeOK, Expense
  <1>6. row.status = expense[e].status /\ row.category = expense[e].category /\ row.status # "none" /\ lax \subseteq Expenses
    BY <1>2, <1>4 DEF PayablesTypeOK, Expense
  <1>7. expense' = [expense EXCEPT ![e] = row]
    BY <1>1, <1>4
  <1>8. \A d \in Clerks : desk'[d].pc = "createExpense" => desk[d].expense # e
    BY <1>2, <1>3, <1>4 DEF PayDesks, ExpenseTask
  <1> HIDE DEF t, x, new, PayInv
  <1>9. PayDesks'
    BY <1>1, <1>3, <1>6, <1>7, <1>8, ExpenseDesks
  <1>10. PayablesTypeOK' /\ PayRows' /\ PaySound'
    <2>1. e \in stale' \/ e \in lax' \/ row.paid <= row.due
      BY <1>5, <1>6
    <2>2. row.status = "live" => expense[e].status = "live" /\ row.category = expense[e].category
      BY <1>5, <1>6
    <2>3. row.status # "none" /\ stale \subseteq stale' /\ lax \subseteq lax' /\ lax' \subseteq Expenses
      BY <1>1, <1>3, <1>5, <1>6
    <2>4. UNCHANGED <<supplier, po, category>>
      BY <1>1
    <2> QED
      BY <1>7, <2>1, <2>2, <2>3, <2>4, ExpenseChange
  <1> QED
    BY <1>9, <1>10 DEF PayInv

\* delete_expense: its payments go with it.
LEMMA DeleteExpenseKeeps ==
  ASSUME PayInv, NEW c \in Clerks, DeleteExpense(c)
  PROVE  PayInv'
  <1> DEFINE t == desk[c]
             x == expense[t.expense]
             left == x.paid - t.found
             new == [x EXCEPT !.status = "deleted", !.paid = IF left > 0 THEN left ELSE 0]
  <1> USE PayablesAssumption DEF PayInv
  <1>1. /\ expense' = [expense EXCEPT ![t.expense].status = "deleted", ![t.expense].paid = IF left > 0 THEN left ELSE 0]
        /\ t.pc = "deleteExpense" /\ Commit(c, t.expense, FALSE) /\ UNCHANGED <<supplier, po, category, lax>>
    BY DEF DeleteExpense
  <1>2. t.expense \in Expenses /\ t.found \in Nat /\ x.status # "none"
    BY <1>1 DEF PayDesks, ExpenseTask
  <1>3. stale' = stale /\ DOMAIN desk' = Clerks /\ desk'[c].pc = "free" /\ \A d \in Clerks \ {c} : desk'[d] = desk[d]
    BY <1>1, DeskCleared DEF PayDesks
  <1>4. PICK e \in Expenses, row \in Expense : e = t.expense /\ row = new
    <2>1. x \in Expense /\ (IF left > 0 THEN left ELSE 0) \in Nat
      BY <1>2 DEF PayablesTypeOK, Expense
    <2> HIDE DEF x, left
    <2>2. new \in Expense
      BY <2>1 DEF Expense
    <2> QED
      BY <1>2, <2>2
  <1>5. row.paid <= expense[e].paid /\ row.due = expense[e].due /\ row.status = "deleted" /\ lax \subseteq Expenses
    BY <1>2, <1>4 DEF PayablesTypeOK, Expense
  <1>6. e \in stale' \/ e \in lax' \/ row.paid <= row.due
    <2>1. expense[e].paid \in Nat /\ expense[e].due \in Nat /\ row.paid \in Nat
      BY DEF PayablesTypeOK, Expense
    <2>2. e \in stale \/ e \in lax \/ expense[e].paid <= expense[e].due
      BY DEF PaySound, ExpenseSound
    <2> QED
      BY <1>1, <1>3, <1>5, <2>1, <2>2
  <1>7. expense' = [expense EXCEPT ![e] = row]
    BY <1>1, <1>2, <1>4 DEF PayablesTypeOK, Expense
  <1>8. \A d \in Clerks : desk'[d].pc = "createExpense" => desk[d].expense # e
    BY <1>2, <1>3, <1>4 DEF PayDesks, ExpenseTask
  <1> HIDE DEF t, x, left, new, PayInv
  <1>9. PayDesks'
    BY <1>1, <1>3, <1>5, <1>7, <1>8, ExpenseDesks
  <1>10. PayablesTypeOK' /\ PayRows' /\ PaySound'
    <2>1. e \in stale' \/ e \in lax' \/ row.paid <= row.due
      BY <1>5, <1>6
    <2>2. row.status = "live" => expense[e].status = "live" /\ row.category = expense[e].category
      BY <1>5, <1>6
    <2>3. row.status # "none" /\ stale \subseteq stale' /\ lax \subseteq lax' /\ lax' \subseteq Expenses
      BY <1>1, <1>3, <1>5, <1>6
    <2>4. UNCHANGED <<supplier, po, category>>
      BY <1>1
    <2> QED
      BY <1>7, <2>1, <2>2, <2>3, <2>4, ExpenseChange
  <1> QED
    BY <1>9, <1>10 DEF PayInv

\* update_expense, the only change to what is due.
LEMMA UpdateExpenseKeeps ==
  ASSUME PayInv, NEW e \in Expenses, NEW due \in 1 .. MaxAmount, UpdateExpense(e, due)
  PROVE  PayInv'
  <1> DEFINE row == [expense[e] EXCEPT !.due = due]
  <1> USE PayablesAssumption DEF PayInv
  <1>1. /\ expense' = [expense EXCEPT ![e] = row] /\ expense[e].status = "live"
        /\ lax' = IF Overpaid(row) THEN lax \cup {e} ELSE lax
        /\ UNCHANGED <<supplier, po, category, desk, stale>>
    BY DEF UpdateExpense
  <1>2. row \in Expense /\ row.status = "live" /\ row.category = expense[e].category
    BY <1>1 DEF PayablesTypeOK, Expense
  <1>3. lax \subseteq lax' /\ lax' \subseteq Expenses /\ (e \in lax' \/ row.paid <= row.due)
    <2>1. row.paid \in Nat /\ row.due \in Nat /\ lax \subseteq Expenses
      BY <1>2 DEF PayablesTypeOK, Expense
    <2>2. CASE Overpaid(row)
      BY <1>1, <2>1, <2>2
    <2>3. CASE ~Overpaid(row)
      <3>1. lax' = lax
        BY <1>1, <2>3
      <3>2. row.paid <= row.due
        BY <2>1, <2>3 DEF Overpaid
      <3> QED
        BY <2>1, <3>1, <3>2
    <2> QED
      BY <2>2, <2>3
  <1>4. PayDesks'
    <2>1. \A f \in Expenses : expense'[f].status = expense[f].status
      BY <1>1, <1>2 DEF PayablesTypeOK
    <2>2. \A d \in Clerks : OrderTask(desk[d])'
      BY <1>1 DEF PayDesks, OrderTask
    <2>3. \A d \in Clerks : ExpenseTask(desk[d])'
      BY <1>1, <2>1 DEF PayDesks, ExpenseTask
    <2> QED
      BY <1>1, <2>2, <2>3 DEF PayDesks, Twins
  <1> HIDE DEF row, PayInv
  <1>5. PayablesTypeOK' /\ PayRows' /\ PaySound'
    BY <1>1, <1>2, <1>3, ExpenseChange
  <1> QED
    BY <1>4, <1>5 DEF PayInv

\* The first halves of the requests, which only read.
LEMMA PayReads ==
  ASSUME PayInv, NEW c \in Clerks,
         \/ \E p \in PurchaseOrders, s \in Suppliers : CreateOrderRead(c, p, s)
         \/ \E p \in PurchaseOrders, to \in {"ordered", "partial", "received", "cancelled"} : OrderStatusRead(c, p, to)
         \/ \E s \in Suppliers : DeleteSupplierRead(c, s)
         \/ \E e \in Expenses, k \in Categories, due \in 1 .. MaxAmount, paid \in 0 .. MaxAmount : CreateExpenseRead(c, e, k, due, paid)
         \/ \E e \in Expenses, amount \in 1 .. MaxAmount : PaymentRead(c, e, amount)
         \/ \E e \in Expenses : DeleteExpenseRead(c, e)
         \/ \E k \in Categories : DeleteCategoryRead(c, k)
  PROVE  PayInv'
  <1> USE PayablesAssumption
  <1>1. ASSUME NEW p \in PurchaseOrders, NEW s \in Suppliers, CreateOrderRead(c, p, s) PROVE PayInv'
    <2> DEFINE t == [pc |-> "createPO", po |-> p, supplier |-> s]
    <2>1. OrderTask(t) /\ ExpenseTask(t) /\ \A d \in Clerks : ~Twins(t, desk[d]) /\ ~Twins(desk[d], t)
      BY <1>1 DEF CreateOrderRead, OrderTask, ExpenseTask, Twins
    <2>2. Read(c, t) /\ UNCHANGED payVars
      BY <1>1 DEF CreateOrderRead
    <2> HIDE DEF t
    <2> QED
      BY <2>1, <2>2, PayRead
  <1>2. ASSUME NEW p \in PurchaseOrders, NEW to \in {"ordered", "partial", "received", "cancelled"}, OrderStatusRead(c, p, to) PROVE PayInv'
    <2> DEFINE t == [pc |-> "statusPO", po |-> p, seen |-> po[p].status, to |-> to]
    <2>1. OrderTask(t) /\ ExpenseTask(t) /\ \A d \in Clerks : ~Twins(t, desk[d]) /\ ~Twins(desk[d], t)
      <3>1. AllowedTransition(po[p].status, to) /\ po[p].status # "none"
        BY <1>2 DEF OrderStatusRead, AllowedTransition, Allowed
      <3> QED
        BY <3>1 DEF OrderTask, ExpenseTask, Twins
    <2>2. Read(c, t) /\ UNCHANGED payVars
      BY <1>2 DEF OrderStatusRead
    <2> HIDE DEF t
    <2> QED
      BY <2>1, <2>2, PayRead
  <1>3. ASSUME NEW s \in Suppliers, DeleteSupplierRead(c, s) PROVE PayInv'
    <2> DEFINE t == [pc |-> "deleteSupplier", supplier |-> s]
    <2>1. OrderTask(t) /\ ExpenseTask(t) /\ \A d \in Clerks : ~Twins(t, desk[d]) /\ ~Twins(desk[d], t)
      BY DEF OrderTask, ExpenseTask, Twins
    <2>2. Read(c, t) /\ UNCHANGED payVars
      BY <1>3 DEF DeleteSupplierRead
    <2> HIDE DEF t
    <2> QED
      BY <2>1, <2>2, PayRead
  <1>4. ASSUME NEW e \in Expenses, NEW k \in Categories, NEW due \in 1 .. MaxAmount, NEW paid \in 0 .. MaxAmount,
               CreateExpenseRead(c, e, k, due, paid)
        PROVE  PayInv'
    <2> DEFINE t == [pc |-> "createExpense", expense |-> e, category |-> k, due |-> due, paid |-> paid]
    <2>1. OrderTask(t) /\ ExpenseTask(t) /\ \A d \in Clerks : ~Twins(t, desk[d]) /\ ~Twins(desk[d], t)
      BY <1>4 DEF CreateExpenseRead, OrderTask, ExpenseTask, Twins
    <2>2. Read(c, t) /\ UNCHANGED payVars
      BY <1>4 DEF CreateExpenseRead
    <2> HIDE DEF t
    <2> QED
      BY <2>1, <2>2, PayRead
  <1>5. ASSUME NEW e \in Expenses, NEW amount \in 1 .. MaxAmount, PaymentRead(c, e, amount) PROVE PayInv'
    <2> DEFINE t == [pc |-> "payment", expense |-> e, amount |-> amount]
    <2>1. OrderTask(t) /\ ExpenseTask(t) /\ \A d \in Clerks : ~Twins(t, desk[d]) /\ ~Twins(desk[d], t)
      BY <1>5 DEF PaymentRead, OrderTask, ExpenseTask, Twins
    <2>2. Read(c, t) /\ UNCHANGED payVars
      BY <1>5 DEF PaymentRead
    <2> HIDE DEF t
    <2> QED
      BY <2>1, <2>2, PayRead
  <1>6. ASSUME NEW e \in Expenses, DeleteExpenseRead(c, e) PROVE PayInv'
    <2> DEFINE t == [pc |-> "deleteExpense", expense |-> e, found |-> expense[e].paid]
    <2>1. OrderTask(t) /\ ExpenseTask(t) /\ \A d \in Clerks : ~Twins(t, desk[d]) /\ ~Twins(desk[d], t)
      <3>1. expense[e].status = "live" /\ expense[e].paid \in Nat
        BY <1>6 DEF DeleteExpenseRead, PayInv, PayablesTypeOK, Expense
      <3> QED
        BY <3>1 DEF OrderTask, ExpenseTask, Twins
    <2>2. Read(c, t) /\ UNCHANGED payVars
      BY <1>6 DEF DeleteExpenseRead
    <2> HIDE DEF t
    <2> QED
      BY <2>1, <2>2, PayRead
  <1>7. ASSUME NEW k \in Categories, DeleteCategoryRead(c, k) PROVE PayInv'
    <2> DEFINE t == [pc |-> "deleteCategory", category |-> k]
    <2>1. OrderTask(t) /\ ExpenseTask(t) /\ \A d \in Clerks : ~Twins(t, desk[d]) /\ ~Twins(desk[d], t)
      BY DEF OrderTask, ExpenseTask, Twins
    <2>2. Read(c, t) /\ UNCHANGED payVars
      BY <1>7 DEF DeleteCategoryRead
    <2> HIDE DEF t
    <2> QED
      BY <2>1, <2>2, PayRead
  <1> QED
    BY <1>1, <1>2, <1>3, <1>4, <1>5, <1>6, <1>7

\* Every step keeps the invariant.
LEMMA PayInvStep == PayInv /\ [PayablesNext]_<<payVars, deskVars>> => PayInv'
  <1> SUFFICES ASSUME PayInv, [PayablesNext]_<<payVars, deskVars>> PROVE PayInv'
    OBVIOUS
  <1>1. CASE ReceiveGoods
    BY <1>1, ReceiptKeeps DEF ReceiveGoods
  <1>2. ASSUME NEW c \in Clerks, PurchaseWork(c) PROVE PayInv'
    BY <1>2, PayReads, CreateOrderKeeps, OrderStatusKeeps, DeleteSupplierKeeps DEF PurchaseWork
  <1>3. ASSUME NEW c \in Clerks, ExpenseWork(c) PROVE PayInv'
    BY <1>3, PayReads, CreateExpenseKeeps, PaymentKeeps, DeleteExpenseKeeps, DeleteCategoryKeeps, UpdateExpenseKeeps DEF ExpenseWork
  <1>4. CASE UNCHANGED <<payVars, deskVars>>
    BY <1>4 DEF payVars, deskVars, PayInv, PaySound, PayablesTypeOK, PayDesks, PayRows, OrderTask, ExpenseTask, Twins,
       OrderSound, SupplierSound, ExpenseSound, CategorySound
  <1> QED
    BY <1>1, <1>2, <1>3, <1>4 DEF PayablesNext

\* Purchase orders follow their goods, expenses are not overpaid, and what is
\* deleted is not in use, for all rows but those that a commit has left stale,
\* however many clerks work on however many rows (purchase_service,
\* supplier_service, expense_service).
THEOREM PayablesAlwaysInOrder == PayablesSpec => []PayablesInOrder
  BY PayInvInit, PayInvStep, PayInvImplies, PTL DEF PayablesSpec

-----------------------------------------------------------------------------
(* Bills of materials and production orders.                                *)

\* What a request about a bill of materials has read.
BomTask(t) ==
  /\ t.pc = "createBom" => t.bom \in Boms /\ bom[t.bom].status = "none"
  /\ t.pc = "updateBom" => t.bom \in Boms /\ bom[t.bom].status # "none" /\ t.found \subseteq Clerks
  /\ t.pc \in {"createBom", "updateBom"} => t.active \in BOOLEAN /\ t.bom \notin t.others /\ (t.active => t.others = t.inUse)
\* What a request about a production order has read.
MakeTask(t) ==
  /\ t.pc \in {"updateOrder", "start", "cancelOrder", "completeOrder"} => t.order \in Orders /\ order[t.order].status # "none"
  /\ t.pc = "updateOrder" => t.bom \in Boms /\ t.wanted \in 1 .. MaxQty
  /\ t.pc = "completeOrder" => t.qty \in 1 .. MaxQty
\* Two requests about to insert the same bill.
SameBom(t, u) == t.pc = "createBom" /\ u.pc = "createBom" /\ t.bom = u.bom

\* What is true of the requests at work.
PlantDesks ==
  /\ DOMAIN desk = Clerks
  /\ \A c \in Clerks : BomTask(desk[c]) /\ MakeTask(desk[c]) /\ \A d \in Clerks \ {c} : ~SameBom(desk[c], desk[d])

\* The bills in use.
InUse == {b \in Boms : LiveBom(b) /\ bom[b].active}
\* A product has one bill in use, or one of the two is stale.
OneInUse == \A b, d \in InUse : b # d /\ ProductOf[b] = ProductOf[d] => b \in stale \/ d \in stale
\* A live bill has lines.
BomsLined == \A b \in Boms : b \in stale \/ bom[b].status # "live" \/ bom[b].rows # {}
\* A completed order was produced by one request, in the quantity it says;
\* an order that is not completed, by none.
Produced ==
  \A o \in Orders : o \in stale \/
    /\ order[o].status = "completed" => order[o].made \in 1 .. order[o].wanted /\ \E c \in Clerks : batches[o] = {<<c, order[o].made>>}
    /\ order[o].status # "completed" => batches[o] = {} /\ order[o].made = 0

\* The inductive invariant of Manufacturing.
PlantInv == ManufacturingTypeOK /\ PlantDesks /\ OneInUse /\ BomsLined /\ Produced

\* The invariant says what the runs check.
LEMMA PlantInvImplies == PlantInv => PlantInOrder
  <1> SUFFICES ASSUME PlantInv PROVE PlantInOrder
    OBVIOUS
  <1> USE DEF PlantInv
  <1>1. ProducedOnce
    BY DEF ProducedOnce, Produced
  <1>2. ASSUME NEW b \in Boms \ stale, LiveBom(b)
        PROVE  bom[b].rows # {} /\ (bom[b].active => ActiveOthers(b) \subseteq stale)
    <2>1. bom[b].rows # {}
      BY <1>2 DEF BomsLined, LiveBom
    <2>2. ASSUME bom[b].active, NEW d \in ActiveOthers(b) PROVE d \in stale
      <3>1. b \in InUse /\ d \in InUse /\ b # d /\ ProductOf[b] = ProductOf[d]
        BY <1>2, <2>2 DEF InUse, ActiveOthers
      <3> QED
        BY <1>2, <3>1 DEF OneInUse
    <2> QED
      BY <2>1, <2>2
  <1> QED
    BY <1>1, <1>2 DEF PlantInOrder, OneRecipe

\* It holds when the shop opens.
LEMMA PlantInvInit == ManufacturingInit /\ DeskInit => PlantInv
  BY ManufacturingAssumption DEF ManufacturingInit, DeskInit, Free, PlantInv, ManufacturingTypeOK, BomHeader, ProductionOrder,
     PlantDesks, BomTask, MakeTask, SameBom, InUse, LiveBom, OneInUse, BomsLined, Produced

\* A request that only reads.
LEMMA PlantRead ==
  ASSUME PlantInv, NEW c \in Clerks, NEW t, Read(c, t), UNCHANGED plantVars, BomTask(t), MakeTask(t),
         \A d \in Clerks : ~SameBom(t, desk[d]) /\ ~SameBom(desk[d], t)
  PROVE  PlantInv'
  <1>1. desk' = [desk EXCEPT ![c] = t] /\ stale' = stale
    BY DEF Read
  <1>2. PlantDesks'
    <2>1. ASSUME NEW d \in Clerks PROVE BomTask(desk[d])' /\ MakeTask(desk[d])'
      BY <1>1 DEF PlantInv, PlantDesks, plantVars, BomTask, MakeTask
    <2> QED
      BY <1>1, <2>1 DEF PlantInv, PlantDesks, SameBom
  <1> QED
    BY <1>1, <1>2 DEF PlantInv, plantVars, ManufacturingTypeOK, OneInUse, InUse, LiveBom, BomsLined, Produced

\* Taking some bills out of use and one into it: harmless where the bills
\* taken out are all the others of the product.
LEMMA OneInUseKept ==
  ASSUME OneInUse, NEW b \in Boms, NEW others, NEW active \in BOOLEAN, stale \subseteq stale',
         InUse' \subseteq (InUse \ others) \cup (IF active THEN {b} ELSE {}),
         active => b \in stale' \/ ActiveOthers(b) \subseteq others
  PROVE  OneInUse'
  <1> SUFFICES ASSUME NEW x \in InUse', NEW y \in InUse', x # y, ProductOf[x] = ProductOf[y], x \notin stale', y \notin stale'
               PROVE  FALSE
    BY DEF OneInUse
  <1>1. CASE x \in InUse \ others /\ y \in InUse \ others
    BY <1>1 DEF OneInUse
  <1>2. CASE active /\ x = b /\ y \in InUse
    BY <1>2 DEF ActiveOthers, InUse
  <1>3. CASE active /\ y = b /\ x \in InUse
    BY <1>3 DEF ActiveOthers, InUse
  <1> QED
    BY <1>1, <1>2, <1>3

\* create_bom_header, which puts the others of the product out of use.
LEMMA CreateBomKeeps == ASSUME PlantInv, NEW c \in Clerks, CreateBomHeader(c) PROVE PlantInv'
  <1> DEFINE t == desk[c]
             b == t.bom
             row == [status |-> "live", active |-> t.active, rows |-> {c}]
             outdated == t.active /\ ~(ActiveOthers(b) \subseteq t.inUse)
  <1> USE DEF PlantInv
  <1>1. /\ bom' = [Deactivated(t.others) EXCEPT ![b] = row] /\ t.pc = "createBom" /\ Commit(c, b, outdated)
        /\ UNCHANGED <<order, batches>>
    BY DEF CreateBomHeader
  <1>2. /\ b \in Boms /\ bom[b].status = "none" /\ t.active \in BOOLEAN /\ b \notin t.others /\ (t.active => t.others = t.inUse)
        /\ \A d \in Clerks \ {c} : ~SameBom(t, desk[d])
    BY <1>1 DEF PlantDesks, BomTask
  <1>3. /\ DOMAIN desk' = Clerks /\ desk'[c].pc = "free" /\ \A d \in Clerks \ {c} : desk'[d] = desk[d]
        /\ stale \subseteq stale' /\ (outdated => b \in stale')
    <2>1. outdated \in BOOLEAN
      BY <1>2
    <2> HIDE DEF outdated, b
    <2> QED
      BY <1>1, <2>1, DeskCleared DEF PlantDesks
  <1>4. bom'[b] = row /\ \A d \in Boms \ {b} : bom'[d] = IF d \in t.others THEN [bom[d] EXCEPT !.active = FALSE] ELSE bom[d]
    BY <1>1, <1>2 DEF Deactivated
  <1>5. ManufacturingTypeOK'
    <2>1. row \in BomHeader
      BY <1>2 DEF BomHeader
    <2>2. Deactivated(t.others) \in [Boms -> BomHeader]
      BY DEF Deactivated, ManufacturingTypeOK, BomHeader
    <2> QED
      BY <1>1, <1>2, <2>1, <2>2 DEF ManufacturingTypeOK
  <1>6. \A d \in Boms \ {b} : bom'[d].status = bom[d].status /\ bom'[d].rows = bom[d].rows
    BY <1>4 DEF ManufacturingTypeOK, BomHeader
  <1>7. PlantDesks'
    <2>1. ASSUME NEW d \in Clerks PROVE BomTask(desk[d])'
      <3>1. desk[d].pc = "createBom" /\ d # c => desk[d].bom # b
        BY <1>1, <1>2 DEF SameBom
      <3>2. BomTask(desk[d])
        BY DEF PlantDesks
      <3>3. bom'[b].status # "none"
        BY <1>4
      <3>4. CASE d = c
        BY <1>3, <3>4 DEF BomTask
      <3>5. CASE d # c
        <4>1. desk'[d] = desk[d]
          BY <1>3, <3>5
        <4> QED
          BY <1>6, <3>1, <3>2, <3>3, <3>5, <4>1 DEF BomTask
      <3> QED
        BY <3>4, <3>5
    <2>2. \A d \in Clerks : MakeTask(desk[d])'
      BY <1>1, <1>3 DEF PlantDesks, MakeTask
    <2> QED
      BY <1>3, <2>1, <2>2 DEF PlantDesks, SameBom
  <1>8. OneInUse'
    <2>1. InUse' \subseteq (InUse \ t.others) \cup (IF t.active THEN {b} ELSE {})
      <3> SUFFICES ASSUME NEW d \in InUse' PROVE d \in (InUse \ t.others) \cup (IF t.active THEN {b} ELSE {})
        OBVIOUS
      <3>1. d \in Boms /\ bom'[d].status = "live" /\ bom'[d].active
        BY DEF InUse, LiveBom
      <3>2. CASE d = b
        BY <1>4, <3>1, <3>2
      <3>3. CASE d # b
        <4>1. d \notin t.others
          BY <1>4, <3>1, <3>3 DEF ManufacturingTypeOK, BomHeader
        <4>2. bom'[d] = bom[d]
          BY <1>4, <3>1, <3>3, <4>1
        <4> QED
          BY <3>1, <4>1, <4>2 DEF InUse, LiveBom
      <3> QED
        BY <3>2, <3>3
    <2>2. t.active => b \in stale' \/ ActiveOthers(b) \subseteq t.others
      BY <1>2, <1>3
    <2> HIDE DEF t, b, PlantInv
    <2> QED
      BY <1>2, <1>3, <2>1, <2>2, OneInUseKept DEF PlantInv
  <1>9. BomsLined'
    BY <1>3, <1>4, <1>6 DEF BomsLined
  <1>10. Produced'
    BY <1>1, <1>3 DEF Produced
  <1> QED
    BY <1>5, <1>7, <1>8, <1>9, <1>10

\* update_bom_header, which may put the bill in use and replace its lines.
LEMMA UpdateBomKeeps == ASSUME PlantInv, NEW c \in Clerks, UpdateBomHeader(c) PROVE PlantInv'
  <1> DEFINE t == desk[c]
             b == t.bom
             outdated == t.active /\ (~(ActiveOthers(b) \subseteq t.inUse) \/ ~LiveBom(b))
             D == Deactivated(t.others)
             row == [D[b] EXCEPT !.active = IF t.active = t.seen THEN @ ELSE t.active,
                                 !.rows = IF t.lines THEN (@ \ t.found) \cup {c} ELSE @]
  <1> USE DEF PlantInv
  <1>1. /\ bom' = [D EXCEPT ![b].active = IF t.active = t.seen THEN @ ELSE t.active,
                            ![b].rows = IF t.lines THEN (@ \ t.found) \cup {c} ELSE @]
        /\ t.pc = "updateBom" /\ Commit(c, b, outdated)
        /\ UNCHANGED <<order, batches>>
    BY DEF UpdateBomHeader
  <1>2. /\ b \in Boms /\ bom[b].status # "none" /\ t.active \in BOOLEAN /\ b \notin t.others /\ (t.active => t.others = t.inUse)
        /\ t.found \subseteq Clerks
    BY <1>1 DEF PlantDesks, BomTask
  <1>3. /\ DOMAIN desk' = Clerks /\ desk'[c].pc = "free" /\ \A d \in Clerks \ {c} : desk'[d] = desk[d]
        /\ stale \subseteq stale' /\ (outdated => b \in stale')
    <2>1. outdated \in BOOLEAN
      BY <1>2
    <2> HIDE DEF outdated, b
    <2> QED
      BY <1>1, <2>1, DeskCleared DEF PlantDesks
  <1>d. D \in [Boms -> BomHeader] /\ D[b] = bom[b]
    BY <1>2 DEF Deactivated, ManufacturingTypeOK, BomHeader
  <1>r. row \in BomHeader /\ row.status = bom[b].status
    BY <1>2, <1>d DEF BomHeader
  <1>b. bom' = [D EXCEPT ![b] = row]
    BY <1>1, <1>d DEF BomHeader
  <1>4. \A d \in Boms \ {b} : bom'[d] = IF d \in t.others THEN [bom[d] EXCEPT !.active = FALSE] ELSE bom[d]
    BY <1>b, <1>2 DEF Deactivated
  <1>5. ManufacturingTypeOK'
    BY <1>1, <1>2, <1>b, <1>d, <1>r DEF ManufacturingTypeOK
  <1>6. bom'[b] = row /\ \A d \in Boms : bom'[d].status = bom[d].status /\ (d # b => bom'[d].rows = bom[d].rows)
    <2>1. bom'[b] = row
      BY <1>2, <1>b, <1>d
    <2>2. \A d \in Boms \ {b} : bom'[d].status = bom[d].status /\ bom'[d].rows = bom[d].rows
      BY <1>4 DEF ManufacturingTypeOK, BomHeader
    <2> HIDE DEF row, b
    <2> QED
      BY <1>r, <2>1, <2>2
  <1>7. PlantDesks'
    <2>1. ASSUME NEW d \in Clerks PROVE BomTask(desk[d])'
      <3>1. BomTask(desk[d])
        BY DEF PlantDesks
      <3>2. CASE d = c
        BY <1>3, <3>2 DEF BomTask
      <3>3. CASE d # c
        <4>1. desk'[d] = desk[d]
          BY <1>3, <3>3
        <4> QED
          BY <1>6, <3>1, <4>1 DEF BomTask
      <3> QED
        BY <3>2, <3>3
    <2>2. \A d \in Clerks : MakeTask(desk[d])'
      BY <1>1, <1>3 DEF PlantDesks, MakeTask
    <2> QED
      BY <1>3, <2>1, <2>2 DEF PlantDesks, SameBom
  <1>8. OneInUse'
    <2>1. InUse' \subseteq (InUse \ t.others) \cup (IF t.active THEN {b} ELSE {})
      <3> SUFFICES ASSUME NEW d \in InUse' PROVE d \in (InUse \ t.others) \cup (IF t.active THEN {b} ELSE {})
        OBVIOUS
      <3>1. d \in Boms /\ bom'[d].status = "live" /\ bom'[d].active
        BY DEF InUse, LiveBom
      <3>2. CASE d = b /\ ~t.active
        <4>1. bom[b].active
          BY <1>6, <1>d, <1>r, <3>1, <3>2 DEF BomHeader
        <4> QED
          BY <1>2, <1>6, <3>1, <3>2, <4>1 DEF InUse, LiveBom
      <3>3. CASE d # b
        <4>1. d \notin t.others
          BY <1>4, <3>1, <3>3 DEF ManufacturingTypeOK, BomHeader
        <4>2. bom'[d] = bom[d]
          BY <1>4, <3>1, <3>3, <4>1
        <4> QED
          BY <3>1, <4>1, <4>2 DEF InUse, LiveBom
      <3> QED
        BY <3>2, <3>3
    <2>2. t.active => b \in stale' \/ ActiveOthers(b) \subseteq t.others
      BY <1>2, <1>3
    <2> HIDE DEF t, b, PlantInv
    <2> QED
      BY <1>2, <1>3, <2>1, <2>2, OneInUseKept DEF PlantInv
  <1>9. BomsLined'
    <2>1. bom[b].rows # {} => row.rows # {}
      BY <1>d DEF BomHeader
    <2> QED
      BY <1>3, <1>6, <2>1 DEF BomsLined
  <1>10. Produced'
    BY <1>1, <1>3 DEF Produced
  <1> QED
    BY <1>5, <1>7, <1>8, <1>9, <1>10

\* delete_bom_header.
LEMMA DeleteBomKeeps == ASSUME PlantInv, NEW b \in Boms, DeleteBomHeader(b) PROVE PlantInv'
  <1> DEFINE row == [status |-> "deleted", active |-> FALSE, rows |-> {}]
  <1> USE DEF PlantInv
  <1>1. bom' = [bom EXCEPT ![b] = row] /\ bom[b].status = "live" /\ UNCHANGED <<order, batches, desk, stale>>
    BY DEF DeleteBomHeader, LiveBom
  <1>2. ManufacturingTypeOK'
    <2>1. row \in BomHeader
      BY DEF BomHeader
    <2> QED
      BY <1>1, <2>1 DEF ManufacturingTypeOK
  <1>3. bom'[b] = row /\ \A d \in Boms \ {b} : bom'[d] = bom[d]
    BY <1>1 DEF ManufacturingTypeOK
  <1>4. PlantDesks'
    <2>1. \A d \in Boms : bom'[d].status = "none" <=> bom[d].status = "none"
      BY <1>1, <1>3
    <2>2. \A d \in Clerks : BomTask(desk[d])'
      BY <1>1, <2>1 DEF PlantDesks, BomTask
    <2>3. \A d \in Clerks : MakeTask(desk[d])'
      BY <1>1 DEF PlantDesks, MakeTask
    <2> QED
      BY <1>1, <2>2, <2>3 DEF PlantDesks, SameBom
  <1>5. OneInUse'
    <2>1. InUse' \subseteq InUse
      BY <1>3 DEF InUse, LiveBom
    <2> QED
      BY <1>1, <2>1 DEF OneInUse
  <1>6. BomsLined' /\ Produced'
    BY <1>1, <1>3 DEF BomsLined, Produced
  <1> QED
    BY <1>2, <1>4, <1>5, <1>6

\* Of the production orders one changes, and with it perhaps its batches.
ProducedBy(row, made) ==
  /\ row.status = "completed" => row.made \in 1 .. row.wanted /\ \E c \in Clerks : made = {<<c, row.made>>}
  /\ row.status # "completed" => made = {} /\ row.made = 0

\* One order changes, and is as produced as it says or stale.
LEMMA OrderChange ==
  ASSUME PlantInv, NEW o \in Orders, NEW row \in ProductionOrder, NEW made \in SUBSET (Clerks \X (1 .. MaxQty)),
         order' = [order EXCEPT ![o] = row], batches' = [batches EXCEPT ![o] = made], row.status # "none",
         bom' = bom, stale \subseteq stale', o \notin stale' => ProducedBy(row, made),
         DOMAIN desk' = Clerks, \A d \in Clerks : desk'[d].pc # "free" => desk'[d] = desk[d]
  PROVE  PlantInv'
  <1> USE DEF PlantInv
  <1>1. /\ order'[o] = row /\ \A p \in Orders \ {o} : order'[p] = order[p]
        /\ batches'[o] = made /\ \A p \in Orders \ {o} : batches'[p] = batches[p]
    BY DEF ManufacturingTypeOK
  <1>2. ManufacturingTypeOK'
    BY <1>1 DEF ManufacturingTypeOK
  <1>3. PlantDesks'
    <2>1. ASSUME NEW d \in Clerks PROVE BomTask(desk[d])' /\ MakeTask(desk[d])'
      <3>1. BomTask(desk[d]) /\ MakeTask(desk[d])
        BY DEF PlantDesks
      <3>2. CASE desk'[d].pc = "free"
        BY <3>2 DEF BomTask, MakeTask
      <3>3. CASE desk'[d] = desk[d]
        <4>1. BomTask(desk[d])'
          BY <3>1, <3>3 DEF BomTask
        <4>2. MakeTask(desk[d])'
          BY <1>1, <3>1, <3>3 DEF MakeTask
        <4> QED
          BY <4>1, <4>2
      <3> QED
        BY <3>2, <3>3
    <2>2. \A d, e \in Clerks : e # d => ~SameBom(desk[d], desk[e])'
      BY DEF PlantDesks, SameBom
    <2> QED
      BY <2>1, <2>2 DEF PlantDesks
  <1>4. OneInUse' /\ BomsLined'
    BY DEF OneInUse, InUse, LiveBom, BomsLined
  <1>5. Produced'
    <2>1. ASSUME NEW p \in Orders, p \notin stale' PROVE ProducedBy(order'[p], batches'[p])
      <3>1. CASE p = o
        BY <1>1, <2>1, <3>1
      <3>2. CASE p # o
        <4>1. ProducedBy(order[p], batches[p])
          BY <2>1 DEF Produced, ProducedBy
        <4> QED
          BY <1>1, <3>2, <4>1
      <3> QED
        BY <3>1, <3>2
    <2> QED
      BY <2>1 DEF Produced, ProducedBy
  <1> QED
    BY <1>2, <1>3, <1>4, <1>5

\* create_production_order.
LEMMA CreateProductionKeeps ==
  ASSUME PlantInv, NEW o \in Orders, NEW b \in Boms, NEW qty \in 1 .. MaxQty, CreateProductionOrder(o, b, qty)
  PROVE  PlantInv'
  <1> DEFINE row == [status |-> "draft", bom |-> b, wanted |-> qty, made |-> 0]
  <1>1. /\ order' = [order EXCEPT ![o] = row] /\ order[o].status = "none" /\ UNCHANGED <<bom, batches, desk, stale>>
    BY DEF CreateProductionOrder
  <1>2. row \in ProductionOrder /\ row.status = "draft" /\ row.made = 0
    BY ManufacturingAssumption DEF ProductionOrder
  <1>3. batches[o] \in SUBSET (Clerks \X (1 .. MaxQty)) /\ batches' = [batches EXCEPT ![o] = batches[o]]
    BY <1>1 DEF PlantInv, ManufacturingTypeOK
  <1>4. o \notin stale' => ProducedBy(row, batches[o])
    BY <1>1, <1>2 DEF PlantInv, Produced, ProducedBy
  <1>5. DOMAIN desk' = Clerks /\ desk' = desk
    BY <1>1 DEF PlantInv, PlantDesks
  <1> HIDE DEF row
  <1> QED
    BY <1>1, <1>2, <1>3, <1>4, <1>5, OrderChange

\* The requests that commit a change of an order, each with what it did to
\* the batches.
LEMMA OrderCommit ==
  ASSUME PlantInv, NEW c \in Clerks, NEW o \in Orders, NEW row \in ProductionOrder, NEW made \in SUBSET (Clerks \X (1 .. MaxQty)),
         order' = [order EXCEPT ![o] = row], batches' = [batches EXCEPT ![o] = made], row.status # "none", bom' = bom,
         NEW outdated \in BOOLEAN, Commit(c, o, outdated), ~outdated /\ o \notin stale => ProducedBy(row, made)
  PROVE  PlantInv'
  <1>1. /\ DOMAIN desk' = Clerks /\ desk'[c].pc = "free" /\ \A d \in Clerks \ {c} : desk'[d] = desk[d]
        /\ stale \subseteq stale' /\ (outdated => o \in stale')
    BY DeskCleared DEF PlantInv, PlantDesks
  <1>2. o \notin stale' => ProducedBy(row, made)
    BY <1>1
  <1>3. \A d \in Clerks : desk'[d].pc # "free" => desk'[d] = desk[d]
    BY <1>1
  <1> QED
    BY <1>1, <1>2, <1>3, OrderChange

\* update, start, cancel and complete_production_order.
LEMMA OrderCommits ==
  ASSUME PlantInv, NEW c \in Clerks,
         \/ UpdateProductionOrder(c) \/ StartProductionOrder(c) \/ CancelProductionOrder(c) \/ CompleteProductionOrder(c)
  PROVE  PlantInv'
  <1> DEFINE t == desk[c]
             o == t.order
  <1>0. /\ t.pc \in {"updateOrder", "start", "cancelOrder", "completeOrder"} => o \in Orders /\ order[o].status # "none"
        /\ t.pc = "updateOrder" => t.bom \in Boms /\ t.wanted \in 1 .. MaxQty
        /\ t.pc = "completeOrder" => t.qty \in 1 .. MaxQty
    BY DEF PlantInv, PlantDesks, MakeTask
  <1>p. o \in Orders \ stale => ProducedBy(order[o], batches[o])
    BY DEF PlantInv, Produced, ProducedBy
  <1>t. o \in Orders => /\ order[o] \in ProductionOrder /\ batches[o] \in SUBSET (Clerks \X (1 .. MaxQty))
                        /\ batches = [batches EXCEPT ![o] = batches[o]]
    BY DEF PlantInv, ManufacturingTypeOK
  <1>1. CASE UpdateProductionOrder(c)
    <2> DEFINE row == [order[o] EXCEPT !.bom = IF t.bom = t.seen.bom THEN @ ELSE t.bom,
                                       !.wanted = IF t.wanted = t.seen.wanted THEN @ ELSE t.wanted]
               outdated == order[o].status # "draft"
    <2>1. /\ t.pc = "updateOrder" /\ Commit(c, o, outdated) /\ UNCHANGED <<bom, batches>>
          /\ order' = [order EXCEPT ![o].bom = IF t.bom = t.seen.bom THEN @ ELSE t.bom,
                                    ![o].wanted = IF t.wanted = t.seen.wanted THEN @ ELSE t.wanted]
      BY <1>1 DEF UpdateProductionOrder
    <2>2. o \in Orders /\ order[o].status # "none" /\ t.bom \in Boms /\ t.wanted \in 1 .. MaxQty
      BY <1>0, <2>1
    <2>3. row \in ProductionOrder /\ row.status = order[o].status /\ row.made = order[o].made
      <3> DEFINE b == IF t.bom = t.seen.bom THEN order[o].bom ELSE t.bom
                 w == IF t.wanted = t.seen.wanted THEN order[o].wanted ELSE t.wanted
      <3>1. b \in Boms \cup {Nil} /\ w \in 0 .. MaxQty
        BY <1>t, <2>2, ManufacturingAssumption DEF ProductionOrder
      <3>2. row = [order[o] EXCEPT !.bom = b, !.wanted = w]
        OBVIOUS
      <3> HIDE DEF b, w, row
      <3> QED
        BY <1>t, <2>2, <3>1, <3>2 DEF ProductionOrder
    <2>4. order' = [order EXCEPT ![o] = row]
      BY <1>t, <2>1, <2>2 DEF ProductionOrder
    <2>5. ~outdated /\ o \notin stale => ProducedBy(row, batches[o])
      BY <1>p, <2>2, <2>3 DEF ProducedBy
    <2>6. /\ batches' = [batches EXCEPT ![o] = batches[o]] /\ batches[o] \in SUBSET (Clerks \X (1 .. MaxQty))
          /\ bom' = bom /\ outdated \in BOOLEAN /\ row.status # "none" /\ o \in Orders /\ row \in ProductionOrder
      BY <1>t, <2>1, <2>2, <2>3
    <2>7. Commit(c, o, outdated)
      BY <2>1
    <2> HIDE DEF row, outdated, t, o
    <2> QED
      BY <2>4, <2>5, <2>6, <2>7, OrderCommit
  <1>2. CASE StartProductionOrder(c)
    <2> DEFINE row == [order[o] EXCEPT !.status = "in_progress"]
               outdated == order[o].status # "draft"
    <2>1. /\ t.pc = "start" /\ Commit(c, o, outdated) /\ UNCHANGED <<bom, batches>> /\ order' = [order EXCEPT ![o] = row]
      BY <1>2, <1>t, <1>0 DEF StartProductionOrder, ProductionOrder
    <2>2. o \in Orders
      BY <1>0, <2>1
    <2>3. row \in ProductionOrder /\ row.status = "in_progress" /\ row.made = order[o].made
      BY <1>t, <2>2 DEF ProductionOrder
    <2>5. ~outdated /\ o \notin stale => ProducedBy(row, batches[o])
      BY <1>p, <2>2, <2>3 DEF ProducedBy
    <2>6. batches' = [batches EXCEPT ![o] = batches[o]] /\ bom' = bom /\ outdated \in BOOLEAN
      BY <1>t, <2>1, <2>2
    <2> HIDE DEF row, outdated, t, o
    <2> QED
      BY <1>t, <2>1, <2>2, <2>3, <2>5, <2>6, OrderCommit
  <1>3. CASE CancelProductionOrder(c)
    <2> DEFINE row == [order[o] EXCEPT !.status = "cancelled"]
               outdated == ~Cancellable(o)
    <2>1. /\ t.pc = "cancelOrder" /\ Commit(c, o, outdated) /\ UNCHANGED <<bom, batches>> /\ order' = [order EXCEPT ![o] = row]
      BY <1>3, <1>t, <1>0 DEF CancelProductionOrder, ProductionOrder
    <2>2. o \in Orders
      BY <1>0, <2>1
    <2>3. row \in ProductionOrder /\ row.status = "cancelled" /\ row.made = order[o].made
      BY <1>t, <2>2 DEF ProductionOrder
    <2>5. ~outdated /\ o \notin stale => ProducedBy(row, batches[o])
      BY <1>p, <2>2, <2>3 DEF ProducedBy, Cancellable
    <2>6. batches' = [batches EXCEPT ![o] = batches[o]] /\ bom' = bom /\ outdated \in BOOLEAN
      BY <1>t, <2>1, <2>2 DEF Cancellable
    <2> HIDE DEF row, outdated, t, o
    <2> QED
      BY <1>t, <2>1, <2>2, <2>3, <2>5, <2>6, OrderCommit
  <1>4. CASE CompleteProductionOrder(c)
    <2> DEFINE row == [order[o] EXCEPT !.made = t.qty, !.status = "completed"]
               outdated == order[o].status # "in_progress" \/ t.qty > order[o].wanted
               made == batches[o] \cup {<<c, t.qty>>}
    <2>1. /\ t.pc = "completeOrder" /\ Commit(c, o, outdated) /\ bom' = bom
          /\ order' = [order EXCEPT ![o].made = t.qty, ![o].status = "completed"] /\ batches' = [batches EXCEPT ![o] = made]
      BY <1>4 DEF CompleteProductionOrder
    <2>2. o \in Orders /\ t.qty \in 1 .. MaxQty
      BY <1>0, <2>1
    <2>3. row \in ProductionOrder /\ row.status = "completed" /\ row.made = t.qty /\ row.wanted = order[o].wanted
      <3>1. t.qty \in 0 .. MaxQty
        BY <2>2, ManufacturingAssumption
      <3> QED
        BY <1>t, <2>2, <3>1 DEF ProductionOrder
    <2>4. order' = [order EXCEPT ![o] = row] /\ made \in SUBSET (Clerks \X (1 .. MaxQty))
      <3>1. order' = [order EXCEPT ![o] = row]
        BY <1>t, <2>1, <2>2 DEF ProductionOrder
      <3>2. <<c, t.qty>> \in Clerks \X (1 .. MaxQty)
        BY <2>2
      <3> QED
        BY <1>t, <2>2, <3>1, <3>2
    <2>5. ~outdated /\ o \notin stale => ProducedBy(row, made)
      <3> SUFFICES ASSUME ~outdated, o \notin stale PROVE ProducedBy(row, made)
        OBVIOUS
      <3>1. batches[o] = {}
        BY <1>p, <2>2 DEF ProducedBy
      <3>2. t.qty \in 1 .. order[o].wanted
        BY <1>t, <2>2, ManufacturingAssumption DEF ProductionOrder
      <3> QED
        BY <2>3, <3>1, <3>2 DEF ProducedBy
    <2>6. outdated \in BOOLEAN
      OBVIOUS
    <2> HIDE DEF row, outdated, t, o, made
    <2> QED
      BY <2>1, <2>2, <2>3, <2>4, <2>5, <2>6, OrderCommit
  <1> QED
    BY <1>1, <1>2, <1>3, <1>4

\* The first halves of the requests, which only read.
LEMMA PlantReads ==
  ASSUME PlantInv, NEW c \in Clerks,
         \/ \E b \in Boms, active \in BOOLEAN : CreateBomRead(c, b, active) \/ \E lines \in BOOLEAN : UpdateBomRead(c, b, active, lines)
         \/ \E o \in Orders, b \in Boms, qty \in 1 .. MaxQty : UpdateOrderRead(c, o, b, qty)
         \/ \E o \in Orders, qty \in 1 .. MaxQty : CompleteOrderRead(c, o, qty)
         \/ \E o \in Orders : StartRead(c, o) \/ CancelOrderRead(c, o)
  PROVE  PlantInv'
  <1>1. ASSUME NEW b \in Boms, NEW active \in BOOLEAN, CreateBomRead(c, b, active) PROVE PlantInv'
    <2> DEFINE t == [pc |-> "createBom", bom |-> b, active |-> active, others |-> DeactivateOthers(b, active), inUse |-> ActiveOthers(b)]
    <2>1. BomTask(t) /\ MakeTask(t) /\ \A d \in Clerks : ~SameBom(t, desk[d]) /\ ~SameBom(desk[d], t)
      BY <1>1 DEF CreateBomRead, DeactivateOthers, ActiveOthers, BomTask, MakeTask, SameBom
    <2>2. Read(c, t) /\ UNCHANGED plantVars
      BY <1>1 DEF CreateBomRead
    <2> HIDE DEF t
    <2> QED
      BY <2>1, <2>2, PlantRead
  <1>2. ASSUME NEW b \in Boms, NEW active \in BOOLEAN, NEW lines \in BOOLEAN, UpdateBomRead(c, b, active, lines) PROVE PlantInv'
    <2> DEFINE t == [pc |-> "updateBom", bom |-> b, seen |-> bom[b].active, active |-> active,
                     others |-> DeactivateOthers(b, active), inUse |-> ActiveOthers(b),
                     found |-> IF lines THEN bom[b].rows ELSE {}, lines |-> lines]
    <2>1. BomTask(t) /\ MakeTask(t) /\ \A d \in Clerks : ~SameBom(t, desk[d]) /\ ~SameBom(desk[d], t)
      <3>1. bom[b].status = "live" /\ bom[b].rows \subseteq Clerks
        BY <1>2 DEF UpdateBomRead, LiveBom, PlantInv, ManufacturingTypeOK, BomHeader
      <3> QED
        BY <3>1 DEF DeactivateOthers, ActiveOthers, BomTask, MakeTask, SameBom
    <2>2. Read(c, t) /\ UNCHANGED plantVars
      BY <1>2 DEF UpdateBomRead
    <2> HIDE DEF t
    <2> QED
      BY <2>1, <2>2, PlantRead
  <1>3. ASSUME NEW o \in Orders, NEW b \in Boms, NEW qty \in 1 .. MaxQty, UpdateOrderRead(c, o, b, qty) PROVE PlantInv'
    <2> DEFINE t == [pc |-> "updateOrder", order |-> o, seen |-> order[o], bom |-> b, wanted |-> qty]
    <2>1. BomTask(t) /\ MakeTask(t) /\ \A d \in Clerks : ~SameBom(t, desk[d]) /\ ~SameBom(desk[d], t)
      BY <1>3 DEF UpdateOrderRead, BomTask, MakeTask, SameBom
    <2>2. Read(c, t) /\ UNCHANGED plantVars
      BY <1>3 DEF UpdateOrderRead
    <2> HIDE DEF t
    <2> QED
      BY <2>1, <2>2, PlantRead
  <1>4. ASSUME NEW o \in Orders, NEW qty \in 1 .. MaxQty, CompleteOrderRead(c, o, qty) PROVE PlantInv'
    <2> DEFINE t == [pc |-> "completeOrder", order |-> o, qty |-> qty]
    <2>1. BomTask(t) /\ MakeTask(t) /\ \A d \in Clerks : ~SameBom(t, desk[d]) /\ ~SameBom(desk[d], t)
      BY <1>4 DEF CompleteOrderRead, CompleteAnswers, BomTask, MakeTask, SameBom
    <2>2. Read(c, t) /\ UNCHANGED plantVars
      BY <1>4 DEF CompleteOrderRead
    <2> HIDE DEF t
    <2> QED
      BY <2>1, <2>2, PlantRead
  <1>5. ASSUME NEW o \in Orders, StartRead(c, o) PROVE PlantInv'
    <2> DEFINE t == [pc |-> "start", order |-> o]
    <2>1. BomTask(t) /\ MakeTask(t) /\ \A d \in Clerks : ~SameBom(t, desk[d]) /\ ~SameBom(desk[d], t)
      BY <1>5 DEF StartRead, BomTask, MakeTask, SameBom
    <2>2. Read(c, t) /\ UNCHANGED plantVars
      BY <1>5 DEF StartRead
    <2> HIDE DEF t
    <2> QED
      BY <2>1, <2>2, PlantRead
  <1>6. ASSUME NEW o \in Orders, CancelOrderRead(c, o) PROVE PlantInv'
    <2> DEFINE t == [pc |-> "cancelOrder", order |-> o]
    <2>1. BomTask(t) /\ MakeTask(t) /\ \A d \in Clerks : ~SameBom(t, desk[d]) /\ ~SameBom(desk[d], t)
      BY <1>6 DEF CancelOrderRead, Cancellable, BomTask, MakeTask, SameBom
    <2>2. Read(c, t) /\ UNCHANGED plantVars
      BY <1>6 DEF CancelOrderRead
    <2> HIDE DEF t
    <2> QED
      BY <2>1, <2>2, PlantRead
  <1> QED
    BY <1>1, <1>2, <1>3, <1>4, <1>5, <1>6

\* Every step keeps the invariant.
LEMMA PlantInvStep == PlantInv /\ [ManufacturingNext]_<<plantVars, deskVars>> => PlantInv'
  <1> SUFFICES ASSUME PlantInv, [ManufacturingNext]_<<plantVars, deskVars>> PROVE PlantInv'
    OBVIOUS
  <1>1. ASSUME NEW c \in Clerks, BomWork(c, Boms) PROVE PlantInv'
    BY <1>1, PlantReads, CreateBomKeeps, UpdateBomKeeps DEF BomWork
  <1>2. ASSUME NEW c \in Clerks, OrderWork(c) PROVE PlantInv'
    BY <1>2, PlantReads, OrderCommits DEF OrderWork
  <1>3. ASSUME NEW o \in Orders, NEW b \in Boms, NEW qty \in 1 .. MaxQty, CreateProductionOrder(o, b, qty) PROVE PlantInv'
    BY <1>3, CreateProductionKeeps
  <1>4. CASE CreateOrDelete
    BY <1>3, <1>4, DeleteBomKeeps DEF CreateOrDelete
  <1>5. CASE UNCHANGED <<plantVars, deskVars>>
    BY <1>5 DEF plantVars, deskVars, PlantInv, ManufacturingTypeOK, PlantDesks, BomTask, MakeTask, SameBom,
       OneInUse, InUse, LiveBom, BomsLined, Produced
  <1> QED
    BY <1>1, <1>2, <1>4, <1>5 DEF ManufacturingNext

\* A product has at most one recipe in use, every recipe has lines, and an
\* order is produced once and to the quantity recorded, for all rows but those
\* that a commit has left stale
\* (manufacturing_bom_service, manufacturing_production_service).
THEOREM PlantAlwaysInOrder == ManufacturingSpec => []PlantInOrder
  BY PlantInvInit, PlantInvStep, PlantInvImplies, PTL DEF ManufacturingSpec

-----------------------------------------------------------------------------
(* The chart of accounts and the journal.                                   *)

(* The chart as a forest. *)
\* The children of every account: live ones, by the parent they name.
Kids == [a \in Accounts |-> ChildrenOf(a)]
\* A set that holds the children of a and those of all its members.
Within(K, a, x) == K[a] \subseteq x /\ \A b \in x : K[b] \subseteq x
\* No account below itself.
Loopless(K, a) == \E x \in SUBSET Accounts : Within(K, a, x) /\ a \notin x

\* What _assert_no_parent_cycle visits contains the children and is closed,
\* and every such set contains it.
LEMMA DescendantsAreLeast ==
  ASSUME NEW a \in Accounts
  PROVE  /\ Descendants(a) \in SUBSET Accounts /\ Within(Kids, a, Descendants(a))
         /\ \A x \in SUBSET Accounts : Within(Kids, a, x) => Descendants(a) \subseteq x
  <1> DEFINE Closed(x) == ChildrenOf(a) \subseteq x /\ \A b \in x : ChildrenOf(b) \subseteq x
             Good(d) == Closed(d) /\ \A x \in SUBSET Accounts : Closed(x) => d \subseteq x
             least == {b \in Accounts : \A x \in SUBSET Accounts : Closed(x) => b \in x}
  <1>1. \A b : ChildrenOf(b) \subseteq Accounts
    BY DEF ChildrenOf
  <1> HIDE DEF Good
  <1>2. least \in SUBSET Accounts /\ Good(least)
    BY <1>1 DEF Good
  <1>3. Descendants(a) = CHOOSE d \in SUBSET Accounts : Good(d)
    BY DEF Descendants, Good
  <1>4. Descendants(a) \in SUBSET Accounts /\ Good(Descendants(a))
    BY <1>2, <1>3
  <1>5. \A x \in SUBSET Accounts : Closed(x) <=> Within(Kids, a, x)
    BY DEF Within, Kids
  <1> QED
    BY <1>4, <1>5 DEF Good

\* So much for the walk of _assert_no_parent_cycle.
LEMMA LooplessMeans == \A a \in Accounts : a \notin Descendants(a) <=> Loopless(Kids, a)
  BY DescendantsAreLeast DEF Loopless

\* L has at most one child more than K, and only under p.
Moved(K, L, a, p) == \A b \in Accounts : L[b] \subseteq K[b] \/ (b = p /\ L[b] \subseteq K[b] \cup {a})

\* Hanging one account under a parent that is not below it closes no loop.
LEMMA MoveClosesNoLoop ==
  ASSUME NEW K, NEW L, NEW a \in Accounts, NEW p, NEW below \in SUBSET Accounts, Within(K, a, below), p \notin below, p # a,
         Moved(K, L, a, p), NEW x \in Accounts, Loopless(K, x)
  PROVE  Loopless(L, x)
  <1>1. PICK X \in SUBSET Accounts : Within(K, x, X) /\ x \notin X
    BY DEF Loopless
  <1>2. CASE x = a \/ x \in below
    <2>1. Within(L, x, X \cap below)
      BY <1>1, <1>2 DEF Within, Moved
    <2> QED
      BY <1>1, <2>1 DEF Loopless
  <1>3. CASE x # a /\ x \notin below
    <2> DEFINE Y == X \cup {a} \cup below
    <2>1. Within(L, x, Y)
      BY <1>1, <1>3 DEF Within, Moved
    <2>2. Y \in SUBSET Accounts /\ x \notin Y
      BY <1>1, <1>3
    <2> QED
      BY <2>1, <2>2 DEF Loopless
  <1> QED
    BY <1>2, <1>3

\* The accounts on no loop.
LoopFree == {a \in Accounts : Loopless(Kids, a)}
\* The rows that may be posted.
Balanced == {rows \in SUBSET JournalLine : BalancedForPost(rows)}

\* What a request about the chart has read.
ChartTask(t) ==
  /\ t.pc \in {"createAccount", "updateAccount", "deleteAccount"} => t.acct \in Accounts
  /\ t.pc = "createAccount" => t.parent \in (Accounts \cup {Nil}) \ {t.acct} /\ t.type \in AccountTypes /\ t.active \in BOOLEAN
  /\ t.pc = "updateAccount" => account[t.acct].status # "none" /\ t.to \in AccountData
  /\ t.pc = "deleteAccount" => account[t.acct].status # "none"
  /\ t.pc \in {"createAccount", "deleteAccount"} => t.acct \notin SystemAccounts
\* What a request about an entry has read.
JournalTask(t) ==
  /\ t.pc \in {"createEntry", "updateEntry", "deleteEntry"} => t.entry \in Entries
  /\ t.pc \in {"createEntry", "updateEntry"} =>
       t.sheet \in SUBSET [acct : Accounts, net : {1, -1}] /\ \A l \in t.sheet : account[l.acct].status # "none"
\* What is true of the requests at work.
BookDesks == DOMAIN desk = Clerks /\ \A c \in Clerks : ChartTask(desk[c]) /\ JournalTask(desk[c])

\* System accounts are never deleted.
SystemKept == \A a \in SystemAccounts : account[a].status # "deleted" /\ (account[a].status = "none" => account[a].parent = Nil)
\* A journal row names an account that is there, under its type.
RowsKnown ==
  \A e \in Entries : \A r \in entry[e].rows :
    account[r.acct].status # "none" /\ (r.acct \in stale \/ account[r.acct].type = r.type)
\* A posted entry balances and hits live accounts.
PostedSound ==
  \A e \in Entries : e \in stale \/ entry[e].status # "posted" \/
    /\ entry[e].rows \in Balanced
    /\ \A r \in entry[e].rows : r.acct \in stale \/ account[r.acct].status = "live"
\* The chart is a forest as long as no account is stale.
Tree ==
  \/ stale \cap Accounts # {}
  \/ \A a \in Accounts : account[a].status = "live" =>
       a \in LoopFree /\ (account[a].parent # Nil => account[account[a].parent].status = "live")

\* The inductive invariant of Accounting.
BookInv == AccountingTypeOK /\ BookDesks /\ SystemKept /\ RowsKnown /\ PostedSound /\ Tree

\* The invariant says what the runs check.
LEMMA BookInvImplies == BookInv => BooksInOrder
  <1> SUFFICES ASSUME BookInv PROVE BooksInOrder
    OBVIOUS
  <1>1. PostedStaysSound
    <2> SUFFICES ASSUME NEW e \in Entries \ stale, entry[e].status = "posted"
                 PROVE  /\ BalancedForPost(entry[e].rows)
                        /\ \A r \in entry[e].rows : r.acct \notin stale => LiveAccount(r.acct) /\ account[r.acct].type = r.type
      BY DEF PostedStaysSound
    <2>1. entry[e].rows \in Balanced /\ \A r \in entry[e].rows : r.acct \in stale \/ account[r.acct].status = "live"
      BY DEF BookInv, PostedSound
    <2>2. BalancedForPost(entry[e].rows)
      BY <2>1 DEF Balanced
    <2>3. ASSUME NEW r \in entry[e].rows, r.acct \notin stale PROVE LiveAccount(r.acct) /\ account[r.acct].type = r.type
      BY <2>1, <2>3 DEF BookInv, RowsKnown, LiveAccount
    <2> QED
      BY <2>2, <2>3
  <1>2. AccountsFormTree
    <2> SUFFICES ASSUME stale \cap Accounts = {}, NEW a \in Accounts, LiveAccount(a)
                 PROVE  a \notin Descendants(a) /\ (account[a].parent # Nil => LiveAccount(account[a].parent))
      BY DEF AccountsFormTree
    <2>1. a \in LoopFree /\ (account[a].parent # Nil => account[account[a].parent].status = "live")
      BY DEF BookInv, Tree, LiveAccount
    <2> QED
      BY <2>1, LooplessMeans DEF LoopFree, LiveAccount
  <1> QED
    BY <1>1, <1>2 DEF BooksInOrder

\* It holds before any account is seeded.
LEMMA BookInvInit == AccountingInit /\ DeskInit => BookInv
  <1> SUFFICES ASSUME AccountingInit, DeskInit PROVE BookInv
    OBVIOUS
  <1>1. \A a \in Accounts : account[a].status = "none" /\ account[a].parent = Nil
    BY DEF AccountingInit
  <1>2. AccountingTypeOK
    <2>1. (CHOOSE t \in AccountTypes : TRUE) \in AccountTypes
      BY AccountingAssumption
    <2>2. account \in [Accounts -> ChartOfAccount]
      BY <2>1 DEF AccountingInit, ChartOfAccount
    <2>3. entry \in [Entries -> JournalEntry]
      BY DEF AccountingInit, JournalEntry
    <2> QED
      BY <2>2, <2>3 DEF AccountingTypeOK
  <1>3. BookDesks
    BY DEF DeskInit, Free, BookDesks, ChartTask, JournalTask
  <1> QED
    BY <1>1, <1>2, <1>3, AccountingAssumption DEF AccountingInit, BookInv, SystemKept, RowsKnown, PostedSound, Tree

\* Nothing of the books changes and a request may end.
LEMMA BookIdle ==
  ASSUME BookInv, account' = account, entry' = entry, stale' = stale,
         DOMAIN desk' = Clerks, \A d \in Clerks : desk'[d].pc # "free" => desk'[d] = desk[d]
  PROVE  BookInv'
  <1>1. BookDesks'
    <2>1. ASSUME NEW d \in Clerks PROVE ChartTask(desk[d])' /\ JournalTask(desk[d])'
      <3>1. CASE desk'[d].pc = "free"
        BY <3>1 DEF ChartTask, JournalTask
      <3>2. CASE desk'[d] = desk[d]
        BY <3>2 DEF BookInv, BookDesks, ChartTask, JournalTask
      <3> QED
        BY <3>1, <3>2
    <2> QED
      BY <2>1 DEF BookDesks
  <1>2. LoopFree' = LoopFree
    BY DEF LoopFree, Loopless, Within, Kids, ChildrenOf, LiveAccount
  <1> QED
    BY <1>1, <1>2 DEF BookInv, AccountingTypeOK, SystemKept, RowsKnown, PostedSound, Tree

\* A request that only reads.
LEMMA BookRead ==
  ASSUME BookInv, NEW c \in Clerks, NEW t, Read(c, t), UNCHANGED bookVars, ChartTask(t), JournalTask(t)
  PROVE  BookInv'
  <1>1. desk' = [desk EXCEPT ![c] = t] /\ stale' = stale /\ account' = account /\ entry' = entry
    BY DEF Read, bookVars
  <1>2. BookDesks'
    <2>1. ASSUME NEW d \in Clerks PROVE ChartTask(desk[d])' /\ JournalTask(desk[d])'
      BY <1>1 DEF BookInv, BookDesks, ChartTask, JournalTask
    <2> QED
      BY <1>1, <2>1 DEF BookInv, BookDesks
  <1>3. LoopFree' = LoopFree
    BY <1>1 DEF LoopFree, Loopless, Within, Kids, ChildrenOf, LiveAccount
  <1> QED
    BY <1>1, <1>2, <1>3 DEF BookInv, AccountingTypeOK, SystemKept, RowsKnown, PostedSound, Tree

\* One entry changes, and is a draft, stale, or fit to be posted.
LEMMA JournalChange ==
  ASSUME BookInv, NEW e \in Entries, NEW row \in JournalEntry, entry' = [entry EXCEPT ![e] = row], account' = account,
         stale \subseteq stale', DOMAIN desk' = Clerks, \A d \in Clerks : desk'[d].pc # "free" => desk'[d] = desk[d],
         \A r \in row.rows : account[r.acct].status # "none" /\ (r.acct \in stale \/ account[r.acct].type = r.type),
         \/ e \in stale' \/ row.status # "posted"
         \/ row.rows \in Balanced /\ \A r \in row.rows : account[r.acct].status = "live"
  PROVE  BookInv'
  <1> USE DEF BookInv
  <1>1. entry'[e] = row /\ \A f \in Entries \ {e} : entry'[f] = entry[f]
    BY DEF AccountingTypeOK
  <1>2. AccountingTypeOK' /\ SystemKept'
    BY DEF AccountingTypeOK, SystemKept
  <1>3. BookDesks'
    <2>1. ASSUME NEW d \in Clerks PROVE ChartTask(desk[d])' /\ JournalTask(desk[d])'
      <3>1. ChartTask(desk[d]) /\ JournalTask(desk[d])
        BY DEF BookDesks
      <3>2. CASE desk'[d].pc = "free"
        BY <3>2 DEF ChartTask, JournalTask
      <3>3. CASE desk'[d] = desk[d]
        BY <3>1, <3>3 DEF ChartTask, JournalTask
      <3> QED
        BY <3>2, <3>3
    <2> QED
      BY <2>1 DEF BookDesks
  <1>4. RowsKnown'
    BY <1>1 DEF RowsKnown
  <1>5. PostedSound'
    <2>1. Balanced' = Balanced
      OBVIOUS
    <2> QED
      BY <1>1, <2>1 DEF PostedSound
  <1>6. Tree'
    <2>1. LoopFree' = LoopFree
      BY DEF LoopFree, Loopless, Within, Kids, ChildrenOf, LiveAccount
    <2> QED
      BY <2>1 DEF Tree
  <1> QED
    BY <1>2, <1>3, <1>4, <1>5, <1>6

\* One account changes, and its rows still find it as they were booked.
LEMMA ChartChange ==
  ASSUME BookInv, NEW a \in Accounts, NEW row \in ChartOfAccount, account' = [account EXCEPT ![a] = row], entry' = entry,
         stale \subseteq stale', DOMAIN desk' = Clerks, \A d \in Clerks : desk'[d].pc # "free" => desk'[d] = desk[d],
         row.status # "none", a \in SystemAccounts => row.status # "deleted",
         a \in stale' \/ row.type = account[a].type \/ ~HasJournalLines(a),
         a \in stale' \/ row.status = "live" \/ row.status = account[a].status \/ ~HasJournalLines(a),
         Tree'
  PROVE  BookInv'
  <1> USE DEF BookInv
  <1>1. account'[a] = row /\ \A b \in Accounts \ {a} : account'[b] = account[b]
    BY DEF AccountingTypeOK
  <1>2. AccountingTypeOK' /\ SystemKept'
    BY <1>1, AccountingAssumption DEF AccountingTypeOK, SystemKept
  <1>3. BookDesks'
    <2>1. ASSUME NEW d \in Clerks PROVE ChartTask(desk[d])' /\ JournalTask(desk[d])'
      <3>1. ChartTask(desk[d]) /\ JournalTask(desk[d])
        BY DEF BookDesks
      <3>2. CASE desk'[d].pc = "free"
        BY <3>2 DEF ChartTask, JournalTask
      <3>3. CASE desk'[d] = desk[d]
        <4>1. ChartTask(desk[d])'
          BY <1>1, <3>1, <3>3 DEF ChartTask
        <4>2. JournalTask(desk[d])'
          BY <1>1, <3>1, <3>3 DEF JournalTask
        <4> QED
          BY <4>1, <4>2
      <3> QED
        BY <3>2, <3>3
    <2> QED
      BY <2>1 DEF BookDesks
  <1>4. \A e \in Entries : \A r \in entry[e].rows : r.acct \in Accounts /\ (r.acct = a => HasJournalLines(a))
    BY DEF AccountingTypeOK, JournalEntry, JournalLine, HasJournalLines
  <1>5. RowsKnown'
    BY <1>1, <1>4 DEF RowsKnown
  <1>6. PostedSound'
    <2>1. Balanced' = Balanced
      OBVIOUS
    <2> QED
      BY <1>1, <1>4, <2>1 DEF PostedSound
  <1> QED
    BY <1>2, <1>3, <1>5, <1>6

\* One account is moved, closed or opened, and the chart remains a forest.
LEMMA TreeChange ==
  ASSUME BookInv, NEW a \in Accounts, NEW row \in ChartOfAccount, account' = [account EXCEPT ![a] = row], stale \subseteq stale',
         \/ a \in stale' \/ stale \cap Accounts # {}
         \/ /\ \/ row.status # "live" \/ row.parent = Nil
               \/ row.parent # a /\ account[row.parent].status = "live" /\ row.parent \notin Descendants(a)
               \/ account[a].status = "live" /\ account[a].parent = row.parent
            /\ row.status = "live" \/ ChildrenOf(a) = {} \/ row.status = account[a].status
  PROVE  Tree'
  <1> SUFFICES ASSUME stale' \cap Accounts = {}
               PROVE  \A x \in Accounts : account'[x].status = "live" =>
                        x \in LoopFree' /\ (account'[x].parent # Nil => account'[account'[x].parent].status = "live")
    BY DEF Tree
  <1> USE DEF BookInv
  <1>1. account'[a] = row /\ \A x \in Accounts \ {a} : account'[x] = account[x]
    BY DEF AccountingTypeOK
  <1>2. \A x \in Accounts : account[x].status = "live" =>
          x \in LoopFree /\ (account[x].parent # Nil => account[account[x].parent].status = "live")
    BY DEF Tree
  <1>3. /\ \/ row.status # "live" \/ row.parent = Nil
           \/ row.parent # a /\ account[row.parent].status = "live" /\ row.parent \notin Descendants(a)
           \/ account[a].status = "live" /\ account[a].parent = row.parent
        /\ row.status = "live" \/ ChildrenOf(a) = {} \/ row.status = account[a].status
    OBVIOUS
  <1>4. account[a].status # "live" => ChildrenOf(a) = {}
    <2> SUFFICES ASSUME account[a].status # "live", NEW b \in ChildrenOf(a) PROVE FALSE
      OBVIOUS
    <2>1. b \in Accounts /\ account[b].status = "live" /\ account[b].parent = a
      BY DEF ChildrenOf, LiveAccount
    <2> QED
      BY <1>2, <2>1, AccountingAssumption
  <1> DEFINE p == IF row.status = "live" /\ (account[a].status # "live" \/ account[a].parent # row.parent) THEN row.parent ELSE Nil
             L == [b \in Accounts |-> {x \in Accounts : account'[x].status = "live" /\ account'[x].parent = b}]
  <1>5. p \notin Descendants(a) /\ p # a /\ Descendants(a) \in SUBSET Accounts /\ Within(Kids, a, Descendants(a))
    BY <1>3, DescendantsAreLeast, AccountingAssumption
  <1>6. \A b \in Accounts : L[b] \subseteq Kids[b] \/ (b = p /\ L[b] \subseteq Kids[b] \cup {a})
    BY <1>1 DEF Kids, ChildrenOf, LiveAccount
  <1>7. LoopFree' = {x \in Accounts : Loopless(L, x)}
    BY DEF LoopFree, Loopless, Within, Kids, ChildrenOf, LiveAccount
  <1>8. ASSUME NEW x \in LoopFree PROVE x \in LoopFree'
    <2>1. Loopless(Kids, x) /\ x \in Accounts
      BY DEF LoopFree
    <2> HIDE DEF p, L, BookInv
    <2>2. Loopless(L, x)
      <3>1. PICK M : M = L
        OBVIOUS
      <3>2. PICK K : K = Kids
        OBVIOUS
      <3>3. PICK below : below = Descendants(a)
        OBVIOUS
      <3>4. PICK q : q = p
        OBVIOUS
      <3>5. below \in SUBSET Accounts /\ Within(K, a, below) /\ q \notin below /\ q # a
        BY <1>5, <3>2, <3>3, <3>4
      <3>6. Moved(K, M, a, q)
        BY <1>6, <3>1, <3>2, <3>4 DEF Moved
      <3>7. Loopless(K, x) /\ x \in Accounts
        BY <2>1, <3>2
      <3>8. Loopless(M, x)
        BY <3>5, <3>6, <3>7, MoveClosesNoLoop
      <3> QED
        BY <3>1, <3>8
    <2> QED
      BY <1>7, <2>1, <2>2
  <1>9. account[a].status # "live" => a \in LoopFree
    BY <1>4 DEF LoopFree, Loopless, Within, Kids
  <1> HIDE DEF p, L
  <1> SUFFICES ASSUME NEW x \in Accounts, account'[x].status = "live"
               PROVE  x \in LoopFree' /\ (account'[x].parent # Nil => account'[account'[x].parent].status = "live")
    OBVIOUS
  <1>10. CASE x = a
    <2>1. x \in LoopFree
      BY <1>2, <1>9, <1>10
    <2>2. row.parent # Nil => account'[row.parent].status = "live"
      <3> SUFFICES ASSUME row.parent # Nil, row.parent # a PROVE account'[row.parent].status = "live"
        BY <1>1, <1>10
      <3>1. account[row.parent].status = "live" /\ row.parent \in Accounts
        BY <1>1, <1>2, <1>3, <1>10 DEF ChartOfAccount
      <3> QED
        BY <1>1, <3>1
    <2> QED
      BY <1>1, <1>8, <1>10, <2>1, <2>2
  <1>11. CASE x # a
    <2>1. account'[x] = account[x] /\ account[x].parent \in Accounts \cup {Nil}
      BY <1>1, <1>11 DEF AccountingTypeOK, ChartOfAccount
    <2>2. x \in LoopFree /\ (account[x].parent # Nil => account[account[x].parent].status = "live")
      BY <1>2, <2>1
    <2>3. account[x].parent = a => row.status = "live"
      <3> SUFFICES ASSUME account[x].parent = a PROVE row.status = "live"
        OBVIOUS
      <3>1. x \in ChildrenOf(a) /\ account[a].status = "live"
        BY <2>1, <2>2, AccountingAssumption DEF ChildrenOf, LiveAccount
      <3> QED
        BY <1>3, <3>1
    <2> QED
      BY <1>1, <1>8, <2>1, <2>2, <2>3
  <1> QED
    BY <1>10, <1>11

\* A request that commits a change of one account.
LEMMA ChartCommit ==
  ASSUME BookInv, NEW c \in Clerks, NEW a \in Accounts, NEW row \in ChartOfAccount, account' = [account EXCEPT ![a] = row],
         entry' = entry, NEW outdated \in BOOLEAN, Commit(c, a, outdated),
         row.status # "none", a \in SystemAccounts => row.status # "deleted",
         outdated \/ row.type = account[a].type \/ ~HasJournalLines(a),
         outdated \/ row.status = "live" \/ row.status = account[a].status \/ ~HasJournalLines(a),
         \/ outdated \/ stale \cap Accounts # {} \/ row.status # "live" \/ row.parent = Nil
         \/ row.parent # a /\ account[row.parent].status = "live" /\ row.parent \notin Descendants(a)
         \/ account[a].status = "live" /\ account[a].parent = row.parent,
         outdated \/ row.status = "live" \/ ChildrenOf(a) = {} \/ row.status = account[a].status
  PROVE  BookInv'
  <1>1. /\ DOMAIN desk' = Clerks /\ desk'[c].pc = "free" /\ \A d \in Clerks \ {c} : desk'[d] = desk[d]
        /\ stale \subseteq stale' /\ (outdated => a \in stale')
    BY DeskCleared DEF BookInv, BookDesks
  <1>2. \A d \in Clerks : desk'[d].pc # "free" => desk'[d] = desk[d]
    BY <1>1
  <1>3. Tree'
    <2>1. \/ a \in stale' \/ stale \cap Accounts # {}
          \/ /\ \/ row.status # "live" \/ row.parent = Nil
                \/ row.parent # a /\ account[row.parent].status = "live" /\ row.parent \notin Descendants(a)
                \/ account[a].status = "live" /\ account[a].parent = row.parent
             /\ row.status = "live" \/ ChildrenOf(a) = {} \/ row.status = account[a].status
      BY <1>1
    <2> QED
      BY <1>1, <2>1, TreeChange
  <1>4. a \in stale' \/ row.type = account[a].type \/ ~HasJournalLines(a)
    BY <1>1
  <1>5. a \in stale' \/ row.status = "live" \/ row.status = account[a].status \/ ~HasJournalLines(a)
    BY <1>1
  <1> QED
    BY <1>1, <1>2, <1>3, <1>4, <1>5, ChartChange

\* create_chart_of_account.
LEMMA CreateAccountKeeps == ASSUME BookInv, NEW c \in Clerks, CreateChartOfAccount(c) PROVE BookInv'
  <1> DEFINE t == desk[c]
             a == t.acct
             new == account[a].status = "none"
             row == [status |-> "live", active |-> t.active, parent |-> t.parent, type |-> t.type]
             outdated == new /\ t.parent # Nil /\ ~LiveAccount(t.parent)
  <1>1. /\ t.pc = "createAccount" /\ account' = (IF new THEN [account EXCEPT ![a] = row] ELSE account)
        /\ Commit(c, a, outdated) /\ entry' = entry
    BY DEF CreateChartOfAccount
  <1>2. a \in Accounts /\ t.parent \in (Accounts \cup {Nil}) \ {a} /\ t.type \in AccountTypes /\ t.active \in BOOLEAN /\ a \notin SystemAccounts
    BY <1>1 DEF BookInv, BookDesks, ChartTask
  <1>3. account \in [Accounts -> ChartOfAccount] /\ account[a] \in ChartOfAccount
    BY <1>2 DEF BookInv, AccountingTypeOK
  <1>4. CASE new
    <2>1. account' = [account EXCEPT ![a] = row] /\ row \in ChartOfAccount
      BY <1>1, <1>2, <1>4 DEF ChartOfAccount
    <2>2. ~HasJournalLines(a)
      BY <1>4 DEF BookInv, RowsKnown, HasJournalLines
    <2>3. row.status = "live" /\ row.parent = t.parent
      OBVIOUS
    <2>4. outdated \/ row.parent = Nil \/ account[row.parent].status = "live"
      BY <1>4 DEF LiveAccount
    <2>5. outdated \/ stale \cap Accounts # {} \/ Descendants(a) = {}
      <3> SUFFICES ASSUME stale \cap Accounts = {} PROVE Descendants(a) = {}
        OBVIOUS
      <3>1. ChildrenOf(a) = {}
        BY <1>2, <1>4, AccountingAssumption DEF BookInv, Tree, ChildrenOf, LiveAccount
      <3>2. Within(Kids, a, {})
        BY <1>2, <3>1 DEF Within, Kids
      <3> QED
        BY <1>2, <3>2, DescendantsAreLeast
    <2>6. outdated \in BOOLEAN
      BY <1>4
    <2>7. \/ outdated \/ stale \cap Accounts # {} \/ row.status # "live" \/ row.parent = Nil
          \/ row.parent # a /\ account[row.parent].status = "live" /\ row.parent \notin Descendants(a)
          \/ account[a].status = "live" /\ account[a].parent = row.parent
      BY <1>2, <2>3, <2>4, <2>5
    <2> HIDE DEF row, outdated, t, a
    <2> QED
      BY <1>1, <1>2, <2>1, <2>2, <2>3, <2>6, <2>7, ChartCommit
  <1>5. CASE ~new
    <2>1. outdated = FALSE /\ account' = account
      BY <1>1, <1>5
    <2>2. Commit(c, a, FALSE)
      BY <1>1, <2>1
    <2>3. /\ DOMAIN desk' = Clerks /\ desk'[c].pc = "free" /\ \A d \in Clerks \ {c} : desk'[d] = desk[d]
          /\ stale' = stale
      BY <2>2, DeskCleared DEF BookInv, BookDesks
    <2> QED
      BY <1>1, <2>1, <2>3, BookIdle
  <1> QED
    BY <1>4, <1>5

\* update_chart_of_account: a move was checked against the chart that was read.
LEMMA UpdateAccountKeeps == ASSUME BookInv, NEW c \in Clerks, UpdateChartOfAccount(c) PROVE BookInv'
  <1> DEFINE t == desk[c]
             a == t.acct
             seen == t.seen
             Written(old, new, now) == IF new = old THEN now ELSE new
             p == Written(seen.parent, t.to.parent, account[a].parent)
             act == Written(seen.active, t.to.active, account[a].active)
             ty == Written(seen.type, t.to.type, account[a].type)
             row == [account[a] EXCEPT !.parent = p, !.active = act, !.type = ty]
             outdated == \/ t.to.parent # seen.parent /\ ~ValidParent(a, t.to.parent)
                         \/ ~MayRetype(a, seen.type, t.to.type)
  <1>1. /\ t.pc = "updateAccount" /\ Commit(c, a, outdated) /\ entry' = entry
        /\ account' = [account EXCEPT ![a].parent = Written(seen.parent, t.to.parent, @),
                                      ![a].active = Written(seen.active, t.to.active, @),
                                      ![a].type = Written(seen.type, t.to.type, @)]
    BY DEF UpdateChartOfAccount
  <1>2. a \in Accounts /\ account[a].status # "none" /\ t.to \in AccountData
    BY <1>1 DEF BookInv, BookDesks, ChartTask
  <1>3. account \in [Accounts -> ChartOfAccount] /\ account[a] \in ChartOfAccount
    BY <1>2 DEF BookInv, AccountingTypeOK
  <1>4. p \in Accounts \cup {Nil} /\ act \in BOOLEAN /\ ty \in AccountTypes
    BY <1>2, <1>3 DEF AccountData, ChartOfAccount
  <1>5. row \in ChartOfAccount /\ row.status = account[a].status /\ row.parent = p /\ row.type = ty
    <2> HIDE DEF p, act, ty
    <2> QED
      BY <1>3, <1>4 DEF ChartOfAccount
  <1>6. account' = [account EXCEPT ![a] = row]
    BY <1>1, <1>2, <1>3 DEF ChartOfAccount
  <1>7. outdated \in BOOLEAN
    BY DEF ValidParent, MayRetype
  <1>8. outdated \/ ty = account[a].type \/ ~HasJournalLines(a)
    BY DEF MayRetype
  <1>10. \/ outdated \/ p = Nil
         \/ p # a /\ account[p].status = "live" /\ p \notin Descendants(a)
         \/ account[a].parent = p
    BY DEF ValidParent, LiveAccount
  <1>11. a \in SystemAccounts => account[a].status # "deleted"
    BY DEF BookInv, SystemKept
  <1> HIDE DEF row, p, act, ty, outdated, t, a
  <1>12. \/ outdated \/ stale \cap Accounts # {} \/ row.status # "live" \/ row.parent = Nil
         \/ row.parent # a /\ account[row.parent].status = "live" /\ row.parent \notin Descendants(a)
         \/ account[a].status = "live" /\ account[a].parent = row.parent
    BY <1>5, <1>10
  <1>13. Commit(c, a, outdated) /\ row.status # "none" /\ (a \in SystemAccounts => row.status # "deleted")
    BY <1>1, <1>2, <1>5, <1>11
  <1>14. entry' = entry /\ (outdated \/ row.type = account[a].type \/ ~HasJournalLines(a))
    BY <1>1, <1>5, <1>8
  <1> QED
    BY <1>2, <1>5, <1>6, <1>7, <1>12, <1>13, <1>14, ChartCommit

\* delete_chart_of_account.
LEMMA DeleteAccountKeeps == ASSUME BookInv, NEW c \in Clerks, DeleteChartOfAccount(c) PROVE BookInv'
  <1> DEFINE a == desk[c].acct
             row == [account[a] EXCEPT !.status = "deleted"]
             outdated == HasActiveChildren(a) \/ HasJournalLines(a)
  <1>1. desk[c].pc = "deleteAccount" /\ Commit(c, a, outdated) /\ entry' = entry
    BY DEF DeleteChartOfAccount
  <1>2. a \in Accounts /\ a \notin SystemAccounts
    BY <1>1 DEF BookInv, BookDesks, ChartTask
  <1>3. account[a] \in ChartOfAccount
    BY <1>2 DEF BookInv, AccountingTypeOK
  <1>4. account' = [account EXCEPT ![a] = row]
    BY <1>2, <1>3 DEF DeleteChartOfAccount, ChartOfAccount, BookInv, AccountingTypeOK
  <1>5. row \in ChartOfAccount /\ row.status = "deleted" /\ row.type = account[a].type
    BY <1>3 DEF ChartOfAccount
  <1>6. outdated \in BOOLEAN /\ (outdated \/ ChildrenOf(a) = {}) /\ (outdated \/ ~HasJournalLines(a))
    BY DEF HasActiveChildren, HasJournalLines
  <1> HIDE DEF a, row, outdated
  <1> QED
    BY <1>1, <1>2, <1>4, <1>5, <1>6, ChartCommit

\* seed_default_chart_of_accounts.
LEMMA SeedKeeps == ASSUME BookInv, SeedDefaultChart PROVE BookInv'
  <1> USE DEF BookInv
  <1>1. /\ \A a \in Accounts : account[a].status # "live"
        /\ UNCHANGED <<entry, desk, stale>>
        /\ account' = [a \in Accounts |-> IF a \in SystemAccounts THEN [account[a] EXCEPT !.status = "live"] ELSE account[a]]
    BY DEF SeedDefaultChart, LiveAccount
  <1>2. AccountingTypeOK'
    BY <1>1 DEF AccountingTypeOK, ChartOfAccount
  <1>3. \A a \in SystemAccounts : a \in Accounts /\ account[a].status = "none" /\ account[a].parent = Nil
    BY <1>1, AccountingAssumption DEF SystemKept, AccountingTypeOK, ChartOfAccount
  <1>4. /\ \A a \in SystemAccounts : account'[a].status = "live" /\ account'[a].parent = Nil /\ account'[a].type = account[a].type
        /\ \A a \in Accounts \ SystemAccounts : account'[a] = account[a]
    BY <1>1, <1>3 DEF AccountingTypeOK, ChartOfAccount
  <1>5. SystemKept'
    BY <1>4 DEF SystemKept
  <1>6. BookDesks'
    <2>1. ASSUME NEW d \in Clerks PROVE ChartTask(desk[d])' /\ JournalTask(desk[d])'
      <3>1. ChartTask(desk[d]) /\ JournalTask(desk[d]) /\ desk'[d] = desk[d]
        BY <1>1 DEF BookDesks
      <3>2. \A a \in Accounts : account'[a].status = "none" => account[a].status = "none"
        BY <1>4
      <3>3. ChartTask(desk[d])'
        BY <1>1, <3>1, <3>2 DEF ChartTask
      <3>4. JournalTask(desk[d])'
        BY <1>1, <3>1, <3>2 DEF JournalTask
      <3> QED
        BY <3>3, <3>4
    <2> QED
      BY <1>1, <2>1 DEF BookDesks
  <1>7. \A e \in Entries : \A r \in entry[e].rows : r.acct \in Accounts \ SystemAccounts
    BY <1>3 DEF RowsKnown, AccountingTypeOK, JournalEntry, JournalLine
  <1>8. RowsKnown'
    BY <1>1, <1>4, <1>7 DEF RowsKnown
  <1>9. PostedSound'
    <2>1. Balanced' = Balanced
      OBVIOUS
    <2> QED
      BY <1>1, <1>4, <1>7, <2>1 DEF PostedSound
  <1>10. Tree'
    <2>1. \A a \in Accounts : account'[a].status = "live" => a \in SystemAccounts /\ account'[a].parent = Nil
      BY <1>1, <1>4
    <2>2. \A a \in Accounts : Kids'[a] = {}
      BY <2>1, AccountingAssumption DEF Kids, ChildrenOf, LiveAccount
    <2>3. LoopFree' = {a \in Accounts : Loopless(Kids', a)}
      BY DEF LoopFree, Loopless, Within, Kids, ChildrenOf, LiveAccount
    <2>4. ASSUME NEW a \in Accounts PROVE Loopless(Kids', a)
      BY <2>2 DEF Loopless, Within
    <2> QED
      BY <2>1, <2>3, <2>4 DEF Tree
  <1> QED
    BY <1>2, <1>5, <1>6, <1>8, <1>9, <1>10

\* The rows that a request inserts are booked under the types of the day.
LEMMA NewRows ==
  ASSUME BookInv, NEW c \in Clerks, NEW sheet \in SUBSET [acct : Accounts, net : {1, -1}],
         \A l \in sheet : account[l.acct].status # "none"
  PROVE  /\ RowsOf(c, sheet) \in SUBSET JournalLine
         /\ \A r \in RowsOf(c, sheet) : account[r.acct].status # "none" /\ account[r.acct].type = r.type
  <1>1. ASSUME NEW l \in sheet PROVE [by |-> c, acct |-> l.acct, net |-> l.net, type |-> account[l.acct].type] \in JournalLine
    <2>1. l.acct \in Accounts /\ l.net \in {1, -1}
      OBVIOUS
    <2>2. account[l.acct].type \in AccountTypes
      BY <2>1 DEF BookInv, AccountingTypeOK, ChartOfAccount
    <2> QED
      BY <2>1, <2>2 DEF JournalLine
  <1> QED
    BY <1>1 DEF RowsOf

\* A request that commits a change of one entry.
LEMMA JournalCommit ==
  ASSUME BookInv, NEW c \in Clerks, NEW e \in Entries, NEW row \in JournalEntry, entry' = [entry EXCEPT ![e] = row], account' = account,
         NEW outdated \in BOOLEAN, Commit(c, e, outdated), outdated \/ row.status # "posted",
         \A r \in row.rows : account[r.acct].status # "none" /\ (r.acct \in stale \/ account[r.acct].type = r.type)
  PROVE  BookInv'
  <1>1. /\ DOMAIN desk' = Clerks /\ desk'[c].pc = "free" /\ \A d \in Clerks \ {c} : desk'[d] = desk[d]
        /\ stale \subseteq stale' /\ (outdated => e \in stale')
    BY DeskCleared DEF BookInv, BookDesks
  <1>2. \A d \in Clerks : desk'[d].pc # "free" => desk'[d] = desk[d]
    BY <1>1
  <1>3. \/ e \in stale' \/ row.status # "posted"
        \/ row.rows \in Balanced /\ \A r \in row.rows : account[r.acct].status = "live"
    BY <1>1
  <1> QED
    BY <1>1, <1>2, <1>3, JournalChange

\* create, update and delete_journal_entry.
LEMMA JournalCommits ==
  ASSUME BookInv, NEW c \in Clerks, CreateJournalEntry(c) \/ UpdateJournalEntry(c) \/ DeleteJournalEntry(c)
  PROVE  BookInv'
  <1> DEFINE t == desk[c]
             e == t.entry
  <1>0. /\ t.pc \in {"createEntry", "updateEntry", "deleteEntry"} => e \in Entries
        /\ t.pc \in {"createEntry", "updateEntry"} =>
             t.sheet \in SUBSET [acct : Accounts, net : {1, -1}] /\ \A l \in t.sheet : account[l.acct].status # "none"
    BY DEF BookInv, BookDesks, JournalTask
  <1>t. e \in Entries => /\ entry \in [Entries -> JournalEntry] /\ entry[e] \in JournalEntry
                         /\ \A r \in entry[e].rows : account[r.acct].status # "none" /\ (r.acct \in stale \/ account[r.acct].type = r.type)
    BY DEF BookInv, AccountingTypeOK, RowsKnown
  <1>1. CASE CreateJournalEntry(c)
    <2> DEFINE rows == RowsOf(c, t.sheet)
               row == [status |-> "draft", rows |-> rows]
    <2>1. t.pc = "createEntry" /\ entry' = [entry EXCEPT ![e] = row] /\ Commit(c, e, FALSE) /\ account' = account
      BY <1>1 DEF CreateJournalEntry
    <2>2. e \in Entries /\ rows \in SUBSET JournalLine /\ \A r \in rows : account[r.acct].status # "none" /\ account[r.acct].type = r.type
      BY <1>0, <2>1, NewRows
    <2> HIDE DEF rows
    <2>3. row \in JournalEntry /\ row.status = "draft" /\ row.rows = rows
      BY <2>2 DEF JournalEntry
    <2> HIDE DEF row, t, e
    <2> QED
      BY <2>1, <2>2, <2>3, JournalCommit
  <1>2. CASE UpdateJournalEntry(c)
    <2> DEFINE added == RowsOf(c, t.sheet)
               rows == (entry[e].rows \ t.found) \cup added
               row == [entry[e] EXCEPT !.rows = rows]
               outdated == entry[e].status # "draft"
    <2>1. t.pc = "updateEntry" /\ entry' = [entry EXCEPT ![e] = row] /\ Commit(c, e, outdated) /\ account' = account
      BY <1>2 DEF UpdateJournalEntry
    <2>2. e \in Entries /\ added \in SUBSET JournalLine /\ \A r \in added : account[r.acct].status # "none" /\ account[r.acct].type = r.type
      BY <1>0, <2>1, NewRows
    <2> HIDE DEF added
    <2>3. rows \in SUBSET JournalLine /\ \A r \in rows : account[r.acct].status # "none" /\ (r.acct \in stale \/ account[r.acct].type = r.type)
      BY <1>t, <2>2 DEF JournalEntry
    <2> HIDE DEF rows
    <2>4. row \in JournalEntry /\ row.status = entry[e].status /\ row.rows = rows
      BY <1>t, <2>2, <2>3 DEF JournalEntry
    <2>5. outdated \in BOOLEAN /\ (outdated \/ row.status # "posted")
      BY <2>4
    <2> HIDE DEF row, t, e, outdated
    <2> QED
      BY <2>1, <2>2, <2>3, <2>4, <2>5, JournalCommit
  <1>3. CASE DeleteJournalEntry(c)
    <2> DEFINE rows == entry[e].rows \ t.found
               row == [entry[e] EXCEPT !.status = "deleted", !.rows = rows]
               outdated == entry[e].status # "draft"
    <2>1. /\ t.pc = "deleteEntry" /\ Commit(c, e, outdated) /\ account' = account
          /\ entry' = [entry EXCEPT ![e].status = "deleted", ![e].rows = @ \ t.found]
      BY <1>3 DEF DeleteJournalEntry
    <2>2. e \in Entries
      BY <1>0, <2>1
    <2>3. rows \in SUBSET JournalLine /\ \A r \in rows : account[r.acct].status # "none" /\ (r.acct \in stale \/ account[r.acct].type = r.type)
      BY <1>t, <2>2 DEF JournalEntry
    <2>4. entry' = [entry EXCEPT ![e] = row]
      BY <1>t, <2>1, <2>2 DEF JournalEntry
    <2> HIDE DEF rows
    <2>5. row \in JournalEntry /\ row.status = "deleted" /\ row.rows = rows
      BY <1>t, <2>2, <2>3 DEF JournalEntry
    <2>6. outdated \in BOOLEAN /\ Commit(c, e, outdated) /\ account' = account
      BY <2>1
    <2> HIDE DEF row, t, e, outdated
    <2> QED
      BY <2>2, <2>3, <2>4, <2>5, <2>6, JournalCommit
  <1> QED
    BY <1>1, <1>2, <1>3

\* post_journal_entry, which checks and posts in one transaction.
LEMMA PostKeeps == ASSUME BookInv, NEW e \in Entries, PostJournalEntry(e) PROVE BookInv'
  <1> DEFINE row == [entry[e] EXCEPT !.status = "posted"]
  <1>1. /\ BalancedForPost(entry[e].rows) /\ ValidAccounts(entry[e].rows) /\ UNCHANGED <<account, desk, stale>>
        /\ entry' = [entry EXCEPT ![e] = row]
    BY DEF PostJournalEntry
  <1>2. entry[e] \in JournalEntry
    BY DEF BookInv, AccountingTypeOK
  <1>3. row \in JournalEntry /\ row.rows = entry[e].rows
    BY <1>2 DEF JournalEntry
  <1>4. row.rows \in Balanced
    BY <1>1, <1>2, <1>3 DEF Balanced, JournalEntry
  <1>5. \A r \in row.rows : account[r.acct].status = "live"
    BY <1>1, <1>3 DEF ValidAccounts, LiveAccount
  <1>6. \A r \in row.rows : account[r.acct].status # "none" /\ (r.acct \in stale \/ account[r.acct].type = r.type)
    BY <1>3 DEF BookInv, RowsKnown
  <1>7. DOMAIN desk' = Clerks /\ stale \subseteq stale' /\ \A d \in Clerks : desk'[d].pc # "free" => desk'[d] = desk[d]
    BY <1>1 DEF BookInv, BookDesks
  <1> HIDE DEF row
  <1> QED
    BY <1>1, <1>3, <1>4, <1>5, <1>6, <1>7, JournalChange

\* The first halves of the requests, which only read.
LEMMA BookReads ==
  ASSUME BookInv, NEW c \in Clerks,
         \/ \E a \in Accounts, r \in AccountData : CreateAccountRead(c, a, r) \/ UpdateAccountRead(c, a, r)
         \/ \E a \in Accounts : DeleteAccountRead(c, a)
         \/ \E e \in Entries, s \in SUBSET [acct : Accounts, net : {1, -1}] : CreateEntryRead(c, e, s) \/ UpdateEntryRead(c, e, s)
         \/ \E e \in Entries : DeleteEntryRead(c, e)
  PROVE  BookInv'
  <1>1. ASSUME NEW a \in Accounts, NEW r \in AccountData, CreateAccountRead(c, a, r) PROVE BookInv'
    <2> DEFINE t == [pc |-> "createAccount", acct |-> a, parent |-> r.parent, active |-> r.active, type |-> r.type]
    <2>1. ChartTask(t) /\ JournalTask(t)
      BY <1>1, AccountingAssumption DEF CreateAccountRead, ValidParent, AccountData, ChartTask, JournalTask
    <2>2. Read(c, t) /\ UNCHANGED bookVars
      BY <1>1 DEF CreateAccountRead
    <2> HIDE DEF t
    <2> QED
      BY <2>1, <2>2, BookRead
  <1>2. ASSUME NEW a \in Accounts, NEW r \in AccountData, UpdateAccountRead(c, a, r) PROVE BookInv'
    <2> DEFINE t == [pc |-> "updateAccount", acct |-> a, seen |-> account[a], to |-> r]
    <2>1. ChartTask(t) /\ JournalTask(t)
      BY <1>2 DEF UpdateAccountRead, LiveAccount, ChartTask, JournalTask
    <2>2. Read(c, t) /\ UNCHANGED bookVars
      BY <1>2 DEF UpdateAccountRead
    <2> HIDE DEF t
    <2> QED
      BY <2>1, <2>2, BookRead
  <1>3. ASSUME NEW a \in Accounts, DeleteAccountRead(c, a) PROVE BookInv'
    <2> DEFINE t == [pc |-> "deleteAccount", acct |-> a]
    <2>1. ChartTask(t) /\ JournalTask(t)
      BY <1>3 DEF DeleteAccountRead, LiveAccount, ChartTask, JournalTask
    <2>2. Read(c, t) /\ UNCHANGED bookVars
      BY <1>3 DEF DeleteAccountRead
    <2> HIDE DEF t
    <2> QED
      BY <2>1, <2>2, BookRead
  <1>4. ASSUME NEW e \in Entries, NEW s \in SUBSET [acct : Accounts, net : {1, -1}], CreateEntryRead(c, e, s) PROVE BookInv'
    <2> DEFINE t == [pc |-> "createEntry", entry |-> e, sheet |-> s]
    <2>1. ChartTask(t) /\ JournalTask(t)
      BY <1>4 DEF CreateEntryRead, ValidAccounts, LiveAccount, ChartTask, JournalTask
    <2>2. Read(c, t) /\ UNCHANGED bookVars
      BY <1>4 DEF CreateEntryRead
    <2> HIDE DEF t
    <2> QED
      BY <2>1, <2>2, BookRead
  <1>5. ASSUME NEW e \in Entries, NEW s \in SUBSET [acct : Accounts, net : {1, -1}], UpdateEntryRead(c, e, s) PROVE BookInv'
    <2> DEFINE t == [pc |-> "updateEntry", entry |-> e, sheet |-> s, found |-> entry[e].rows]
    <2>1. ChartTask(t) /\ JournalTask(t)
      BY <1>5 DEF UpdateEntryRead, ValidAccounts, LiveAccount, ChartTask, JournalTask
    <2>2. Read(c, t) /\ UNCHANGED bookVars
      BY <1>5 DEF UpdateEntryRead
    <2> HIDE DEF t
    <2> QED
      BY <2>1, <2>2, BookRead
  <1>6. ASSUME NEW e \in Entries, DeleteEntryRead(c, e) PROVE BookInv'
    <2> DEFINE t == [pc |-> "deleteEntry", entry |-> e, found |-> entry[e].rows]
    <2>1. ChartTask(t) /\ JournalTask(t)
      BY <1>6 DEF DeleteEntryRead, ChartTask, JournalTask
    <2>2. Read(c, t) /\ UNCHANGED bookVars
      BY <1>6 DEF DeleteEntryRead
    <2> HIDE DEF t
    <2> QED
      BY <2>1, <2>2, BookRead
  <1> QED
    BY <1>1, <1>2, <1>3, <1>4, <1>5, <1>6

\* Every step keeps the invariant.
LEMMA BookInvStep == BookInv /\ [AccountingNext]_<<bookVars, deskVars>> => BookInv'
  <1> SUFFICES ASSUME BookInv, [AccountingNext]_<<bookVars, deskVars>> PROVE BookInv'
    OBVIOUS
  <1>1. CASE PostOrSeed
    BY <1>1, SeedKeeps, PostKeeps DEF PostOrSeed
  <1>2. ASSUME NEW c \in Clerks, ChartWork(c, Accounts, AccountData) PROVE BookInv'
    BY <1>2, BookReads, CreateAccountKeeps, UpdateAccountKeeps, DeleteAccountKeeps DEF ChartWork
  <1>3. ASSUME NEW c \in Clerks, JournalWork(c, SUBSET [acct : Accounts, net : {1, -1}]) PROVE BookInv'
    BY <1>3, BookReads, JournalCommits DEF JournalWork
  <1>4. CASE UNCHANGED <<bookVars, deskVars>>
    <2>1. account' = account /\ entry' = entry /\ stale' = stale /\ desk' = desk
      BY <1>4 DEF bookVars, deskVars
    <2>2. DOMAIN desk' = Clerks
      BY <2>1 DEF BookInv, BookDesks
    <2> QED
      BY <2>1, <2>2, BookIdle
  <1> QED
    BY <1>1, <1>2, <1>3, <1>4 DEF AccountingNext

\* Posted entries balance and hit live accounts of the types they were booked
\* under, whatever else is edited and deleted meanwhile, for all rows but those
\* that a commit has left stale; and while no account is, the chart is a forest
\* (accounting_journal_service, accounting_coa_service).
THEOREM BooksAlwaysInOrder == AccountingSpec => []BooksInOrder
  BY BookInvInit, BookInvStep, BookInvImplies, PTL DEF AccountingSpec

-----------------------------------------------------------------------------
(* Products, barcodes, units and price lists.                               *)

\* What a request about a product has read.
ProductTask(t) ==
  /\ t.pc \in {"createProduct", "addVariation", "updateVariation", "addBarcode", "deleteProduct", "setPrice"} => t.product \in Products
  /\ t.pc = "createProduct" =>
       product[t.product].status = "none" /\ t.unit \in Units /\ t.specs \in Seq(VariationSpec)
  /\ t.pc \in {"addVariation", "updateVariation", "addBarcode", "deleteProduct"} => product[t.product].status # "none"
  /\ t.pc = "addVariation" =>
       t.unit \in Units \cup {Nil} /\ t.default \in BOOLEAN /\ t.found = (IF t.default THEN t.saw ELSE {})
  /\ t.pc = "updateVariation" => t.unit \in Units
\* What a request about a barcode, a unit or a price list has read.
ShelfTask(t) ==
  /\ t.pc = "addBarcode" => t.code \in Barcodes /\ t.primary \in BOOLEAN
  /\ t.pc = "deleteUnit" => t.unit \in Units
  /\ t.pc \in {"createList", "setPrice"} => t.list \in PriceLists
  /\ t.pc = "createList" => t.default \in BOOLEAN
  /\ t.pc = "setPrice" => t.found \in BOOLEAN
\* Two requests about to insert the same product.
SameProduct(t, u) == t.pc = "createProduct" /\ u.pc = "createProduct" /\ t.product = u.product

\* What is true of the requests at work.
ShelfDesks ==
  /\ DOMAIN desk = Clerks
  /\ \A c \in Clerks : /\ ProductTask(desk[c]) /\ ShelfTask(desk[c])
                       /\ \A d \in Clerks \ {c} : ~SameProduct(desk[c], desk[d])

\* Variations of which one is the default among the live ones.
DefaultSets ==
  {vs \in Seq(ProductVariation) : \E i \in DOMAIN vs : \A j \in DOMAIN vs : vs[j].live /\ vs[j].default <=> j = i}
\* Every live product has one default variation.
OneDefault == \A p \in Products : p \in stale \/ product[p].status # "live" \/ product[p].variations \in DefaultSets
\* A product has at most one primary barcode.
OnePrimary ==
  \A b, d \in Barcodes :
    barcode[b].live /\ barcode[b].primary /\ barcode[d].live /\ barcode[d].primary /\ barcode[b].of = barcode[d].of =>
      b = d \/ barcode[b].of \in stale
\* delete_unit did not delete the unit.
UnitKept(u) == u \in stale \/ unit[u] # "deleted"
\* Nor the unit of any of these variations.
VariationUnits(vs) == \A i \in DOMAIN vs : vs[i].live /\ vs[i].unit \in Units => UnitKept(vs[i].unit)
\* The units of a live product.
UnitsKept ==
  \A p \in Products : p \in stale \/ product[p].status # "live" \/
    /\ product[p].unit \in Units /\ UnitKept(product[p].unit)
    /\ VariationUnits(product[p].variations)
\* A live barcode finds a live product.
CodesFound ==
  \A b \in Barcodes :
    /\ barcode[b].of # Nil => product[barcode[b].of].status # "none"
    /\ barcode[b].live => barcode[b].of # Nil /\ (barcode[b].of \in stale \/ product[barcode[b].of].status = "live")
\* At most one price list is the default.
OneDefaultList ==
  stale # {} \/
    \A l, m \in PriceLists :
      pricing[l].exists /\ pricing[l].default /\ pricing[m].exists /\ pricing[m].default => l = m
\* A list has at most one price for a product.
OnePrice == stale # {} \/ \A l \in PriceLists, p \in Products : pricing[l].items[p] <= 1

\* The inductive invariant of Catalogue.
ShelfInv ==
  /\ CatalogueTypeOK /\ ShelfDesks
  /\ OneDefault /\ OnePrimary /\ UnitsKept /\ CodesFound /\ OneDefaultList /\ OnePrice

\* The invariant says what the runs check.
LEMMA ShelfInvImplies == ShelfInv => SellableAsShown
  <1> SUFFICES ASSUME ShelfInv PROVE SellableAsShown
    OBVIOUS
  <1> USE DEF ShelfInv
  <1>1. ASSUME NEW p \in Products \ stale, LiveProduct(p)
        PROVE  /\ Cardinality(DefaultVariations(p)) = 1 /\ Cardinality(PrimaryBarcodes(p)) <= 1
               /\ \A u \in Units \ stale : unit[u] = "deleted" => product[p].unit # u /\ ~VariationsUse(p, u)
               /\ stale = {} => PriceAnswers(p)
    <2>1. Cardinality(DefaultVariations(p)) = 1
      <3>1. PICK i \in DOMAIN product[p].variations :
              \A j \in DOMAIN product[p].variations :
                product[p].variations[j].live /\ product[p].variations[j].default <=> j = i
        BY <1>1 DEF OneDefault, LiveProduct, DefaultSets
      <3>2. DefaultVariations(p) = {i}
        BY <3>1 DEF DefaultVariations, LiveVariations
      <3> QED
        BY <3>2, FS_Singleton
    <2>2. Cardinality(PrimaryBarcodes(p)) <= 1
      <3>1. \A x, y \in PrimaryBarcodes(p) : x = y
        BY DEF PrimaryBarcodes, LiveBarcodes, OnePrimary
      <3> QED
        BY <3>1, AtMostOne
    <2>3. \A u \in Units \ stale : unit[u] = "deleted" => product[p].unit # u /\ ~VariationsUse(p, u)
      BY <1>1 DEF UnitsKept, UnitKept, VariationUnits, LiveProduct, VariationsUse, LiveVariations
    <2>4. ASSUME stale = {} PROVE PriceAnswers(p)
      <3>1. \A x, y \in DefaultLists : x = y
        BY <2>4 DEF DefaultLists, OneDefaultList
      <3>2. Cardinality(DefaultLists) <= 1
        BY <3>1, AtMostOne
      <3> QED
        BY <2>4, <3>2 DEF PriceAnswers, OnePrice
    <2> QED
      BY <2>1, <2>2, <2>3, <2>4
  <1>2. ASSUME NEW b \in Barcodes, barcode[b].live PROVE SearchByBarcode(b) # Nil \/ barcode[b].of \in stale
    BY <1>2 DEF CodesFound, SearchByBarcode, LiveProduct
  <1> QED
    BY <1>1, <1>2 DEF SellableAsShown

\* It holds when the shop opens.
LEMMA ShelfInvInit == CatalogueInit /\ DeskInit => ShelfInv
  <1> SUFFICES ASSUME CatalogueInit, DeskInit PROVE ShelfInv
    OBVIOUS
  <1>1. CatalogueTypeOK
    <2>1. product \in [Products -> Product]
      BY DEF CatalogueInit, Product
    <2>2. barcode \in [Barcodes -> Barcode]
      BY DEF CatalogueInit, Barcode
    <2>3. pricing \in [PriceLists -> PriceList]
      BY DEF CatalogueInit, PriceList
    <2> QED
      BY <2>1, <2>2, <2>3 DEF CatalogueTypeOK, CatalogueInit
  <1>2. ShelfDesks
    BY DEF DeskInit, Free, ShelfDesks, ProductTask, ShelfTask, SameProduct
  <1>3. OneDefault /\ UnitsKept
    BY DEF CatalogueInit, OneDefault, UnitsKept
  <1>4. OnePrimary /\ CodesFound
    BY DEF CatalogueInit, OnePrimary, CodesFound
  <1>5. OneDefaultList /\ OnePrice
    BY DEF CatalogueInit, OneDefaultList, OnePrice
  <1> QED
    BY <1>1, <1>2, <1>3, <1>4, <1>5 DEF ShelfInv

\* The desks after a step: the requests that go on are as they were.
LEMMA DesksKept ==
  ASSUME ShelfDesks, DOMAIN desk' = Clerks, \A d \in Clerks : desk'[d].pc # "free" => desk'[d] = desk[d],
         \A d \in Clerks : LET t == desk[d] IN
           /\ desk'[d].pc = "createProduct" /\ t.product \in Products /\ product[t.product].status = "none"
                => product'[t.product].status = "none"
           /\ t.product \in Products /\ product[t.product].status # "none" => product'[t.product].status # "none"
  PROVE  ShelfDesks'
  <1>1. ASSUME NEW d \in Clerks PROVE ProductTask(desk[d])' /\ ShelfTask(desk[d])'
    <2>1. ProductTask(desk[d]) /\ ShelfTask(desk[d])
      BY DEF ShelfDesks
    <2>2. CASE desk'[d].pc = "free"
      BY <2>2 DEF ProductTask, ShelfTask
    <2>3. CASE desk'[d] = desk[d]
      <3>1. ShelfTask(desk[d])'
        BY <2>1, <2>3 DEF ShelfTask
      <3>2. ProductTask(desk[d])'
        BY <2>1, <2>3 DEF ProductTask
      <3> QED
        BY <3>1, <3>2
    <2> QED
      BY <2>2, <2>3
  <1>2. \A c, d \in Clerks : c # d => ~SameProduct(desk[c], desk[d])'
    BY DEF ShelfDesks, SameProduct
  <1> QED
    BY <1>1, <1>2 DEF ShelfDesks

\* A request that only reads.
LEMMA ShelfRead ==
  ASSUME ShelfInv, NEW c \in Clerks, NEW t, Read(c, t), UNCHANGED shelfVars, ProductTask(t), ShelfTask(t),
         \A d \in Clerks : ~SameProduct(t, desk[d]) /\ ~SameProduct(desk[d], t)
  PROVE  ShelfInv'
  <1>1. desk' = [desk EXCEPT ![c] = t] /\ stale' = stale /\ UNCHANGED <<product, unit, barcode, pricing>>
    BY DEF Read, shelfVars
  <1>2. ShelfDesks'
    <2>1. ASSUME NEW d \in Clerks PROVE ProductTask(desk[d])' /\ ShelfTask(desk[d])'
      <3>1. ProductTask(desk[d])'
        BY <1>1 DEF ShelfInv, ShelfDesks, ProductTask
      <3>2. ShelfTask(desk[d])'
        BY <1>1 DEF ShelfInv, ShelfDesks, ShelfTask
      <3> QED
        BY <3>1, <3>2
    <2> QED
      BY <1>1, <2>1 DEF ShelfInv, ShelfDesks, SameProduct
  <1> QED
    BY <1>1, <1>2 DEF ShelfInv, CatalogueTypeOK, OneDefault, OnePrimary, UnitsKept, UnitKept, VariationUnits, CodesFound, OneDefaultList, OnePrice

\* Of the variations of a new product one is the default, whatever the request
\* marks, and their units are those of the request.
LEMMA NewVariationsDefault ==
  ASSUME NEW specs \in Seq(VariationSpec), NEW u \in Units
  PROVE  /\ NewVariations(specs, u) \in DefaultSets
         /\ \A j \in DOMAIN NewVariations(specs, u) :
              NewVariations(specs, u)[j].unit = u \/ \E i \in DOMAIN specs : NewVariations(specs, u)[j].unit = specs[i].unit
  <1> DEFINE n == IF specs = <<>> THEN 1 ELSE Len(specs)
             d == DefaultIndex(specs)
             marked == {i \in DOMAIN specs : specs[i].default}
             Unit(i) == IF specs = <<>> THEN u ELSE specs[i].unit
             new == [i \in 1 .. n |-> [live |-> TRUE, default |-> i = d, unit |-> Unit(i)]]
  <1>1. n \in Nat /\ n >= 1
    BY DEF n
  <1>2. d \in 1 .. n
    <2>1. CASE marked = {}
      BY <1>1, <2>1 DEF DefaultIndex
    <2>2. CASE marked # {}
      <3>1. marked \subseteq Nat
        OBVIOUS
      <3>2. PICK i \in marked : \A j \in marked : i <= j
        BY <2>2, <3>1, LeastNatural
      <3>3. d \in marked
        BY <2>2, <3>2 DEF DefaultIndex
      <3>4. specs # <<>>
        BY <2>2
      <3> QED
        BY <3>3, <3>4
    <2> QED
      BY <2>1, <2>2
  <1>3. \A i \in 1 .. n : Unit(i) \in Units \cup {Nil} /\ (Unit(i) = u \/ \E j \in DOMAIN specs : Unit(i) = specs[j].unit)
    <2> SUFFICES ASSUME NEW i \in 1 .. n
                 PROVE  Unit(i) \in Units \cup {Nil} /\ (Unit(i) = u \/ \E j \in DOMAIN specs : Unit(i) = specs[j].unit)
      OBVIOUS
    <2>1. CASE specs = <<>>
      BY <2>1
    <2>2. CASE specs # <<>>
      <3>1. i \in DOMAIN specs /\ Unit(i) = specs[i].unit
        BY <2>2 DEF n
      <3>2. specs[i] \in VariationSpec
        BY <3>1
      <3> HIDE DEF Unit
      <3> QED
        BY <3>1, <3>2 DEF VariationSpec
    <2> QED
      BY <2>1, <2>2
  <1>4. NewVariations(specs, u) = new
    BY DEF NewVariations, n, d
  <1> HIDE DEF n, d, Unit
  <1>5. new \in Seq(ProductVariation)
    BY <1>1, <1>3 DEF ProductVariation
  <1>6. /\ DOMAIN new = 1 .. n /\ \A j \in DOMAIN new : new[j].live /\ new[j].default <=> j = d
        /\ \A j \in DOMAIN new : new[j].unit = Unit(j)
    OBVIOUS
  <1> HIDE DEF new
  <1> QED
    BY <1>2, <1>3, <1>4, <1>5, <1>6 DEF DefaultSets

\* create_product.
LEMMA CreateProductKeeps == ASSUME ShelfInv, NEW c \in Clerks, CreateProduct(c) PROVE ShelfInv'
  <1> DEFINE t == desk[c]
             p == t.product
             new == NewVariations(t.specs, t.unit)
             row == [status |-> "live", unit |-> t.unit, variations |-> new]
             outdated == ~(UnitGiven(t.unit) /\ \A i \in DOMAIN t.specs : UnitGiven(t.specs[i].unit))
  <1>1. /\ t.pc = "createProduct" /\ product' = [product EXCEPT ![p] = row] /\ Commit(c, p, outdated)
        /\ UNCHANGED <<unit, barcode, pricing>>
    BY DEF CreateProduct
  <1>2. /\ p \in Products /\ product[p].status = "none" /\ t.unit \in Units /\ t.specs \in Seq(VariationSpec)
        /\ \A d \in Clerks \ {c} : ~SameProduct(t, desk[d])
    BY <1>1 DEF ShelfInv, ShelfDesks, ProductTask
  <1>3. /\ new \in DefaultSets /\ new \in Seq(ProductVariation)
        /\ \A j \in DOMAIN new : new[j].unit = t.unit \/ \E i \in DOMAIN t.specs : new[j].unit = t.specs[i].unit
    BY <1>2, NewVariationsDefault DEF DefaultSets
  <1>4. /\ DOMAIN desk' = Clerks /\ desk'[c].pc = "free" /\ \A d \in Clerks \ {c} : desk'[d] = desk[d]
        /\ stale \subseteq stale' /\ (outdated => p \in stale') /\ (~outdated => stale' = stale)
    <2>1. outdated \in BOOLEAN
      OBVIOUS
    <2> HIDE DEF outdated, p
    <2> QED
      BY <1>1, <2>1, DeskCleared DEF ShelfInv, ShelfDesks
  <1>5. \A d \in Clerks : desk'[d].pc # "free" => d # c /\ desk'[d] = desk[d]
    BY <1>4
  <1> HIDE DEF new
  <1>6. row \in Product /\ row.status = "live" /\ row.unit = t.unit /\ row.variations = new
    BY <1>2, <1>3 DEF Product
  <1>7. product'[p] = row /\ \A q \in Products \ {p} : product'[q] = product[q]
    BY <1>1, <1>2 DEF ShelfInv, CatalogueTypeOK
  <1>8. CatalogueTypeOK'
    BY <1>1, <1>2, <1>6 DEF ShelfInv, CatalogueTypeOK
  <1> HIDE DEF row
  <1>9. ShelfDesks'
    <2>1. ASSUME NEW d \in Clerks, desk'[d].pc = "createProduct" PROVE desk[d].product # p
      <3>1. d # c /\ desk[d].pc = "createProduct"
        BY <1>5, <2>1
      <3> QED
        BY <1>1, <1>2, <3>1 DEF SameProduct
    <2> QED
      BY <1>4, <1>5, <1>6, <1>7, <2>1, DesksKept DEF ShelfInv
  <1>10. OneDefault'
    BY <1>3, <1>4, <1>6, <1>7 DEF ShelfInv, OneDefault
  <1>11. OnePrimary' /\ OneDefaultList' /\ OnePrice'
    BY <1>1, <1>4 DEF ShelfInv, OnePrimary, OneDefaultList, OnePrice
  <1>12. UnitsKept'
    <2>1. outdated \/ (unit[t.unit] = "live" /\ \A j \in DOMAIN new : new[j].unit \in Units => unit[new[j].unit] = "live")
      BY <1>2, <1>3 DEF UnitGiven
    <2> HIDE DEF outdated
    <2> SUFFICES ASSUME NEW q \in Products, q \notin stale', product'[q].status = "live"
                 PROVE  /\ product'[q].unit \in Units /\ UnitKept(product[q].unit)'
                        /\ VariationUnits(product[q].variations)'
      BY DEF UnitsKept
    <2>2. CASE q = p
      BY <1>1, <1>2, <1>4, <1>6, <1>7, <2>1, <2>2 DEF UnitKept, VariationUnits
    <2>3. CASE q # p
      BY <1>1, <1>4, <1>7, <2>3 DEF ShelfInv, UnitsKept, UnitKept, VariationUnits
    <2> QED
      BY <2>2, <2>3
  <1>13. CodesFound'
    <2>1. \A b \in Barcodes : barcode[b].of \in Products \cup {Nil}
      BY DEF ShelfInv, CatalogueTypeOK, Barcode
    <2> QED
      BY <1>1, <1>2, <1>4, <1>6, <1>7, <2>1 DEF ShelfInv, CodesFound
  <1> QED
    BY <1>8, <1>9, <1>10, <1>11, <1>12, <1>13 DEF ShelfInv

\* add_variation, which takes the default from the ones it found.
LEMMA AddVariationKeeps == ASSUME ShelfInv, NEW c \in Clerks, AddVariation(c) PROVE ShelfInv'
  <1> DEFINE t == desk[c]
             p == t.product
             old == product[p].variations
             Kept(i) == IF i \in t.found THEN [old[i] EXCEPT !.default = FALSE] ELSE old[i]
             kept == [i \in DOMAIN old |-> Kept(i)]
             added == [live |-> TRUE, default |-> t.default, unit |-> t.unit]
             new == Append(kept, added)
             row == [product[p] EXCEPT !.variations = new]
             outdated == ~LiveProduct(p) \/ ~UnitGiven(t.unit) \/ (t.default /\ DefaultVariations(p) # t.saw)
  <1>1. /\ t.pc = "addVariation" /\ product' = [product EXCEPT ![p].variations = new] /\ Commit(c, p, outdated)
        /\ UNCHANGED <<unit, barcode, pricing>>
    BY DEF AddVariation
  <1>2. /\ p \in Products /\ product[p].status # "none" /\ t.unit \in Units \cup {Nil}
        /\ t.default \in BOOLEAN /\ t.found = (IF t.default THEN t.saw ELSE {})
    BY <1>1 DEF ShelfInv, ShelfDesks, ProductTask
  <1>3. product[p] \in Product /\ old \in Seq(ProductVariation) /\ product \in [Products -> Product]
    BY <1>2 DEF ShelfInv, CatalogueTypeOK, Product
  <1>4. /\ DOMAIN desk' = Clerks /\ desk'[c].pc = "free" /\ \A d \in Clerks \ {c} : desk'[d] = desk[d]
        /\ stale \subseteq stale' /\ (outdated => p \in stale') /\ (~outdated => stale' = stale)
    <2>1. outdated \in BOOLEAN
      BY <1>2 DEF LiveProduct, UnitGiven
    <2> HIDE DEF outdated, p
    <2> QED
      BY <1>1, <2>1, DeskCleared DEF ShelfInv, ShelfDesks
  <1>5. \A d \in Clerks : desk'[d].pc # "free" => d # c /\ desk'[d] = desk[d]
    BY <1>4
  <1>6. /\ kept \in Seq(ProductVariation) /\ DOMAIN kept = DOMAIN old
        /\ \A i \in DOMAIN old : kept[i].live = old[i].live /\ kept[i].unit = old[i].unit
                                 /\ kept[i].default = (old[i].default /\ i \notin t.found)
    <2>1. \A i \in DOMAIN old : /\ old[i] \in ProductVariation /\ Kept(i) \in ProductVariation
                                /\ Kept(i).live = old[i].live /\ Kept(i).unit = old[i].unit
                                /\ Kept(i).default = (old[i].default /\ i \notin t.found)
      <3> HIDE DEF old
      <3>0. \A i \in DOMAIN old : old[i] \in ProductVariation
        BY <1>3
      <3> SUFFICES ASSUME NEW i \in DOMAIN old
                   PROVE  /\ Kept(i) \in ProductVariation /\ Kept(i).live = old[i].live /\ Kept(i).unit = old[i].unit
                          /\ Kept(i).default = (old[i].default /\ i \notin t.found)
        BY <3>0
      <3>1. old[i] \in ProductVariation
        BY <3>0
      <3>2. CASE i \in t.found
        BY <3>1, <3>2 DEF ProductVariation
      <3>3. CASE i \notin t.found
        BY <3>1, <3>3 DEF ProductVariation
      <3> QED
        BY <3>2, <3>3
    <2>2. DOMAIN old = 1 .. Len(old) /\ Len(old) \in Nat
      BY <1>3
    <2> HIDE DEF old, Kept
    <2> QED
      BY <2>1, <2>2
  <1>7. added \in ProductVariation /\ added.live /\ added.default = t.default /\ added.unit = t.unit
    BY <1>2 DEF ProductVariation
  <1> HIDE DEF kept, added
  <1>8. /\ new \in Seq(ProductVariation) /\ DOMAIN new = DOMAIN old \cup {Len(old) + 1} /\ Len(old) + 1 \notin DOMAIN old
        /\ new[Len(old) + 1] = added /\ \A i \in DOMAIN old : new[i] = kept[i]
    <2>1. Len(kept) = Len(old) /\ Len(old) \in Nat /\ DOMAIN old = 1 .. Len(old)
      BY <1>3, <1>6
    <2>2. new \in Seq(ProductVariation) /\ Len(new) = Len(kept) + 1
      BY <1>6, <1>7
    <2>3. DOMAIN new = 1 .. Len(kept) + 1
      BY <2>2
    <2>4. new[Len(kept) + 1] = added /\ \A i \in 1 .. Len(kept) : new[i] = kept[i]
      BY <1>6, <1>7
    <2> HIDE DEF new, old
    <2> QED
      BY <2>1, <2>2, <2>3, <2>4
  <1> HIDE DEF new
  <1>9. row \in Product /\ row.status = product[p].status /\ row.unit = product[p].unit /\ row.variations = new
    BY <1>3, <1>8 DEF Product
  <1>10. product' = [product EXCEPT ![p] = row]
    BY <1>1, <1>2, <1>3 DEF Product
  <1>11. p \notin stale' /\ product[p].status = "live" => new \in DefaultSets
    <2> SUFFICES ASSUME p \notin stale', product[p].status = "live" PROVE new \in DefaultSets
      OBVIOUS
    <2>1. ~outdated /\ p \notin stale
      BY <1>4
    <2>2. old \in DefaultSets
      BY <1>2, <2>1 DEF ShelfInv, OneDefault
    <2>3. PICK i \in DOMAIN old : \A j \in DOMAIN old : old[j].live /\ old[j].default <=> j = i
      BY <2>2 DEF DefaultSets
    <2>4. CASE t.default
      <3>1. t.found = {i}
        BY <1>2, <2>1, <2>3, <2>4 DEF DefaultVariations, LiveVariations
      <3>2. \A j \in DOMAIN old : ~(kept[j].live /\ kept[j].default)
        BY <1>6, <2>3, <3>1
      <3>3. \A j \in DOMAIN new : new[j].live /\ new[j].default <=> j = Len(old) + 1
        BY <1>7, <1>8, <2>4, <3>2
      <3> QED
        BY <1>8, <3>3 DEF DefaultSets
    <2>5. CASE ~t.default
      <3>1. i \notin t.found
        BY <1>2, <2>5
      <3>3. \A j \in DOMAIN new : new[j].live /\ new[j].default <=> j = i
        BY <1>6, <1>7, <1>8, <2>3, <2>5, <3>1
      <3> QED
        BY <1>8, <2>3, <3>3 DEF DefaultSets
    <2> QED
      BY <2>4, <2>5
  <1>11a. outdated \/ \A i \in DOMAIN new :
              (i \in DOMAIN old /\ new[i].unit = old[i].unit /\ new[i].live = old[i].live) \/ UnitGiven(new[i].unit)
    BY <1>6, <1>7, <1>8
  <1>11b. row.variations = new /\ old = product[p].variations
    BY <1>9
  <1> HIDE DEF row, old, p, t, outdated
  <1>12. product'[p] = row /\ \A q \in Products \ {p} : product'[q] = product[q]
    BY <1>2, <1>3, <1>10
  <1>13. CatalogueTypeOK'
    BY <1>1, <1>2, <1>9, <1>10 DEF ShelfInv, CatalogueTypeOK
  <1>14. ShelfDesks'
    BY <1>2, <1>4, <1>5, <1>9, <1>12, DesksKept DEF ShelfInv
  <1>15. OneDefault'
    BY <1>4, <1>9, <1>11, <1>12 DEF ShelfInv, OneDefault
  <1>16. OnePrimary' /\ OneDefaultList' /\ OnePrice'
    BY <1>1, <1>4 DEF ShelfInv, OnePrimary, OneDefaultList, OnePrice
  <1>17. UnitsKept'
    <2> SUFFICES ASSUME NEW q \in Products, q \notin stale', product'[q].status = "live"
                 PROVE  /\ product'[q].unit \in Units /\ UnitKept(product[q].unit)'
                        /\ VariationUnits(product[q].variations)'
      BY DEF UnitsKept
    <2>1. CASE q = p
      <3>1. product[p].unit \in Units /\ UnitKept(product[p].unit) /\ VariationUnits(old)
        BY <1>4, <1>9, <1>12, <1>11b, <2>1 DEF ShelfInv, UnitsKept
      <3>2. \A i \in DOMAIN new : new[i].live /\ new[i].unit \in Units => UnitKept(new[i].unit)
        BY <1>4, <1>11a, <2>1, <3>1 DEF VariationUnits, UnitGiven, UnitKept
      <3> QED
        BY <1>1, <1>4, <1>9, <1>12, <2>1, <3>1, <3>2 DEF UnitKept, VariationUnits
    <2>2. CASE q # p
      BY <1>1, <1>4, <1>12, <2>2 DEF ShelfInv, UnitsKept, UnitKept, VariationUnits
    <2> QED
      BY <2>1, <2>2
  <1>18. CodesFound'
    <2>1. \A b \in Barcodes : barcode[b].of \in Products \cup {Nil}
      BY DEF ShelfInv, CatalogueTypeOK, Barcode
    <2> QED
      BY <1>1, <1>2, <1>4, <1>9, <1>12, <2>1 DEF ShelfInv, CodesFound
  <1> QED
    BY <1>13, <1>14, <1>15, <1>16, <1>17, <1>18 DEF ShelfInv

\* update_variation.
LEMMA UpdateVariationKeeps == ASSUME ShelfInv, NEW c \in Clerks, UpdateVariation(c) PROVE ShelfInv'
  <1> DEFINE t == desk[c]
             p == t.product
             old == product[p].variations
             New(i) == IF i = t.at THEN [old[i] EXCEPT !.unit = t.unit] ELSE old[i]
             new == [i \in DOMAIN old |-> New(i)]
             row == [product[p] EXCEPT !.variations = new]
             outdated == ~UnitGiven(t.unit)
  <1>1. /\ t.pc = "updateVariation" /\ product' = [product EXCEPT ![p].variations = new] /\ Commit(c, p, outdated)
        /\ UNCHANGED <<unit, barcode, pricing>>
    BY DEF UpdateVariation
  <1>2. p \in Products /\ product[p].status # "none" /\ t.unit \in Units
    BY <1>1 DEF ShelfInv, ShelfDesks, ProductTask
  <1>3. product[p] \in Product /\ old \in Seq(ProductVariation) /\ product \in [Products -> Product]
    BY <1>2 DEF ShelfInv, CatalogueTypeOK, Product
  <1>4. /\ DOMAIN desk' = Clerks /\ desk'[c].pc = "free" /\ \A d \in Clerks \ {c} : desk'[d] = desk[d]
        /\ stale \subseteq stale' /\ (outdated => p \in stale') /\ (~outdated => stale' = stale)
    <2>1. outdated \in BOOLEAN
      BY DEF UnitGiven
    <2> HIDE DEF outdated, p
    <2> QED
      BY <1>1, <2>1, DeskCleared DEF ShelfInv, ShelfDesks
  <1>5. \A d \in Clerks : desk'[d].pc # "free" => d # c /\ desk'[d] = desk[d]
    BY <1>4
  <1>6. /\ new \in Seq(ProductVariation) /\ DOMAIN new = DOMAIN old
        /\ \A i \in DOMAIN old : /\ new[i].live = old[i].live /\ new[i].default = old[i].default
                                 /\ new[i].unit = old[i].unit \/ new[i].unit = t.unit
    <2>1. ASSUME NEW i \in DOMAIN old
          PROVE  /\ New(i) \in ProductVariation /\ New(i).live = old[i].live /\ New(i).default = old[i].default
                 /\ New(i).unit = old[i].unit \/ New(i).unit = t.unit
      <3>1. old[i] \in ProductVariation
        BY <1>3
      <3> HIDE DEF old
      <3>2. CASE i = t.at
        BY <1>2, <3>1, <3>2 DEF ProductVariation
      <3>3. CASE i # t.at
        BY <3>1, <3>3 DEF ProductVariation
      <3> QED
        BY <3>2, <3>3
    <2>2. DOMAIN old = 1 .. Len(old) /\ Len(old) \in Nat
      BY <1>3
    <2> HIDE DEF old, New
    <2> QED
      BY <2>1, <2>2
  <1> HIDE DEF new
  <1>7. row \in Product /\ row.status = product[p].status /\ row.unit = product[p].unit /\ row.variations = new
    BY <1>3, <1>6 DEF Product
  <1>8. product' = [product EXCEPT ![p] = row]
    BY <1>1, <1>2, <1>3 DEF Product
  <1>9. old \in DefaultSets => new \in DefaultSets
    <2> HIDE DEF old
    <2> SUFFICES ASSUME old \in DefaultSets PROVE new \in DefaultSets
      OBVIOUS
    <2>1. PICK i \in DOMAIN old : \A j \in DOMAIN old : old[j].live /\ old[j].default <=> j = i
      BY DEF DefaultSets
    <2>2. i \in DOMAIN new /\ \A j \in DOMAIN new : new[j].live /\ new[j].default <=> j = i
      BY <1>6, <2>1
    <2> QED
      BY <1>6, <2>2 DEF DefaultSets
  <1>10. outdated \/ unit[t.unit] = "live"
    BY <1>2 DEF UnitGiven
  <1>11. old = product[p].variations
    OBVIOUS
  <1> HIDE DEF row, old, p, t, outdated
  <1>12. product'[p] = row /\ \A q \in Products \ {p} : product'[q] = product[q]
    BY <1>2, <1>3, <1>8
  <1>13. CatalogueTypeOK'
    BY <1>1, <1>2, <1>7, <1>8 DEF ShelfInv, CatalogueTypeOK
  <1>14. ShelfDesks'
    BY <1>2, <1>4, <1>5, <1>7, <1>12, DesksKept DEF ShelfInv
  <1>15. OneDefault'
    BY <1>4, <1>7, <1>9, <1>11, <1>12 DEF ShelfInv, OneDefault
  <1>16. OnePrimary' /\ OneDefaultList' /\ OnePrice'
    BY <1>1, <1>4 DEF ShelfInv, OnePrimary, OneDefaultList, OnePrice
  <1>17. UnitsKept'
    <2> SUFFICES ASSUME NEW q \in Products, q \notin stale', product'[q].status = "live"
                 PROVE  /\ product'[q].unit \in Units /\ UnitKept(product[q].unit)'
                        /\ VariationUnits(product[q].variations)'
      BY DEF UnitsKept
    <2>1. CASE q = p
      <3>1. product[p].unit \in Units /\ UnitKept(product[p].unit) /\ VariationUnits(old)
        BY <1>4, <1>7, <1>11, <1>12, <2>1 DEF ShelfInv, UnitsKept
      <3>2. \A i \in DOMAIN new : new[i].live /\ new[i].unit \in Units => UnitKept(new[i].unit)
        BY <1>4, <1>6, <1>10, <2>1, <3>1 DEF VariationUnits, UnitKept
      <3> QED
        BY <1>1, <1>4, <1>7, <1>12, <2>1, <3>1, <3>2 DEF UnitKept, VariationUnits
    <2>2. CASE q # p
      BY <1>1, <1>4, <1>12, <2>2 DEF ShelfInv, UnitsKept, UnitKept, VariationUnits
    <2> QED
      BY <2>1, <2>2
  <1>18. CodesFound'
    <2>1. \A b \in Barcodes : barcode[b].of \in Products \cup {Nil}
      BY DEF ShelfInv, CatalogueTypeOK, Barcode
    <2> QED
      BY <1>1, <1>2, <1>4, <1>7, <1>12, <2>1 DEF ShelfInv, CodesFound
  <1> QED
    BY <1>13, <1>14, <1>15, <1>16, <1>17, <1>18 DEF ShelfInv

\* delete_product, with its barcodes.
LEMMA DeleteProductKeeps == ASSUME ShelfInv, NEW c \in Clerks, DeleteProduct(c) PROVE ShelfInv'
  <1> DEFINE t == desk[c]
             p == t.product
             old == product[p].variations
             new == [i \in DOMAIN old |-> [old[i] EXCEPT !.live = @ /\ i \notin t.variations]]
             row == [product[p] EXCEPT !.status = "deleted", !.variations = new]
             outdated == ~(LiveBarcodes(p) \subseteq t.codes /\ LiveVariations(p) \subseteq t.variations)
                           \/ \E l \in PriceLists \ t.lists : pricing[l].items[p] > 0
  <1>1. /\ t.pc = "deleteProduct" /\ Commit(c, p, outdated) /\ unit' = unit
        /\ product' = [product EXCEPT ![p].status = "deleted", ![p].variations = new]
        /\ barcode' = [b \in Barcodes |-> [barcode[b] EXCEPT !.live = @ /\ b \notin t.codes]]
        /\ pricing' = [l \in PriceLists |-> IF l \in t.lists THEN [pricing[l] EXCEPT !.items[p] = 0] ELSE pricing[l]]
    BY DEF DeleteProduct
  <1>2. p \in Products /\ product[p].status # "none"
    BY <1>1 DEF ShelfInv, ShelfDesks, ProductTask
  <1>3. product[p] \in Product /\ old \in Seq(ProductVariation) /\ product \in [Products -> Product]
    BY <1>2 DEF ShelfInv, CatalogueTypeOK, Product
  <1>4. /\ DOMAIN desk' = Clerks /\ desk'[c].pc = "free" /\ \A d \in Clerks \ {c} : desk'[d] = desk[d]
        /\ stale \subseteq stale' /\ (outdated => p \in stale') /\ (~outdated => stale' = stale)
    <2>1. outdated \in BOOLEAN
      OBVIOUS
    <2> HIDE DEF outdated, p
    <2> QED
      BY <1>1, <2>1, DeskCleared DEF ShelfInv, ShelfDesks
  <1>5. \A d \in Clerks : desk'[d].pc # "free" => d # c /\ desk'[d] = desk[d]
    BY <1>4
  <1>6. new \in Seq(ProductVariation)
    <2>1. ASSUME NEW i \in DOMAIN old PROVE [old[i] EXCEPT !.live = @ /\ i \notin t.variations] \in ProductVariation
      <3>1. old[i] \in ProductVariation
        BY <1>3
      <3> HIDE DEF old
      <3> QED
        BY <3>1 DEF ProductVariation
    <2>2. DOMAIN old = 1 .. Len(old) /\ Len(old) \in Nat
      BY <1>3
    <2> HIDE DEF old
    <2> QED
      BY <2>1, <2>2
  <1> HIDE DEF new
  <1>7. row \in Product /\ row.status = "deleted"
    BY <1>3, <1>6 DEF Product
  <1>8. product' = [product EXCEPT ![p] = row]
    BY <1>1, <1>2, <1>3 DEF Product
  <1>9. /\ barcode' \in [Barcodes -> Barcode]
        /\ \A b \in Barcodes : /\ barcode'[b].of = barcode[b].of /\ barcode'[b].primary = barcode[b].primary
                               /\ barcode'[b].live = (barcode[b].live /\ b \notin t.codes)
    <2>1. \A b \in Barcodes : barcode[b] \in Barcode
      BY DEF ShelfInv, CatalogueTypeOK
    <2>2. \A b \in Barcodes : barcode'[b] = [barcode[b] EXCEPT !.live = barcode[b].live /\ b \notin t.codes]
      BY <1>1
    <2>3. \A b \in Barcodes : /\ barcode'[b] \in Barcode /\ barcode'[b].of = barcode[b].of
                              /\ barcode'[b].primary = barcode[b].primary
                              /\ barcode'[b].live = (barcode[b].live /\ b \notin t.codes)
      BY <2>1, <2>2 DEF Barcode
    <2>4. DOMAIN barcode' = Barcodes /\ barcode' = [b \in Barcodes |-> barcode'[b]]
      BY <1>1
    <2> QED
      BY <2>3, <2>4
  <1>10. /\ pricing' \in [PriceLists -> PriceList]
         /\ \A l \in PriceLists : /\ pricing'[l].exists = pricing[l].exists /\ pricing'[l].default = pricing[l].default
                                  /\ \A q \in Products : pricing'[l].items[q] = pricing[l].items[q] \/ pricing'[l].items[q] = 0
    <2>1. \A l \in PriceLists : pricing[l] \in PriceList
      BY DEF ShelfInv, CatalogueTypeOK
    <2>2. ASSUME NEW l \in PriceLists
          PROVE  /\ pricing'[l] \in PriceList
                 /\ pricing'[l].exists = pricing[l].exists /\ pricing'[l].default = pricing[l].default
                 /\ \A q \in Products : pricing'[l].items[q] = pricing[l].items[q] \/ pricing'[l].items[q] = 0
      <3>1. pricing'[l] = pricing[l] \/ pricing'[l] = [pricing[l] EXCEPT !.items[p] = 0]
        BY <1>1
      <3> DEFINE items == [pricing[l].items EXCEPT ![p] = 0]
      <3>2. items \in [Products -> Nat] /\ \A q \in Products : items[q] = pricing[l].items[q] \/ items[q] = 0
        BY <1>2, <2>1 DEF PriceList
      <3>3. [pricing[l] EXCEPT !.items[p] = 0] = [pricing[l] EXCEPT !.items = items]
        OBVIOUS
      <3> HIDE DEF items
      <3> QED
        BY <2>1, <3>1, <3>2, <3>3 DEF PriceList
    <2>3. DOMAIN pricing' = PriceLists /\ pricing' = [l \in PriceLists |-> pricing'[l]]
      BY <1>1
    <2> QED
      BY <2>2, <2>3
  <1>11. outdated \/ LiveBarcodes(p) \subseteq t.codes
    OBVIOUS
  <1> HIDE DEF row, old, p, t, outdated
  <1>12. product'[p] = row /\ \A q \in Products \ {p} : product'[q] = product[q]
    BY <1>2, <1>3, <1>8
  <1>13. CatalogueTypeOK'
    BY <1>1, <1>2, <1>7, <1>8, <1>9, <1>10 DEF ShelfInv, CatalogueTypeOK
  <1>14. ShelfDesks'
    BY <1>2, <1>4, <1>5, <1>7, <1>12, DesksKept DEF ShelfInv
  <1>15. OneDefault'
    BY <1>4, <1>7, <1>12 DEF ShelfInv, OneDefault
  <1>16. OnePrimary'
    BY <1>4, <1>9 DEF ShelfInv, OnePrimary
  <1>17. UnitsKept'
    <2> SUFFICES ASSUME NEW q \in Products, q \notin stale', product'[q].status = "live"
                 PROVE  /\ product'[q].unit \in Units /\ UnitKept(product[q].unit)'
                        /\ VariationUnits(product[q].variations)'
      BY DEF UnitsKept
    <2>1. q # p /\ product'[q] = product[q]
      BY <1>7, <1>12
    <2>2. product[q].unit \in Units /\ UnitKept(product[q].unit) /\ VariationUnits(product[q].variations)
      BY <1>4, <2>1 DEF ShelfInv, UnitsKept
    <2>3. unit' = unit /\ stale \subseteq stale'
      BY <1>1, <1>4
    <2> QED
      BY <2>1, <2>2, <2>3 DEF UnitKept, VariationUnits
  <1>18. CodesFound'
    <2>1. \A b \in Barcodes : barcode[b].of \in Products \cup {Nil}
      BY DEF ShelfInv, CatalogueTypeOK, Barcode
    <2>2. \A b \in Barcodes : barcode[b].live /\ barcode[b].of = p => b \in LiveBarcodes(p)
      BY DEF LiveBarcodes
    <2> SUFFICES ASSUME NEW b \in Barcodes
                 PROVE  /\ barcode'[b].of # Nil => product'[barcode'[b].of].status # "none"
                        /\ barcode'[b].live => barcode'[b].of # Nil /\ (barcode'[b].of \in stale' \/ product'[barcode'[b].of].status = "live")
      BY DEF CodesFound
    <2>3. CASE barcode[b].of = p
      <3>1. barcode'[b].live => p \in stale'
        BY <1>4, <1>9, <1>11, <2>2, <2>3
      <3> QED
        BY <1>2, <1>7, <1>9, <1>12, <2>3, <3>1 DEF ShelfInv, CodesFound
    <2>4. CASE barcode[b].of # p
      <3>1. /\ barcode[b].of # Nil => product[barcode[b].of].status # "none"
            /\ barcode[b].live => barcode[b].of # Nil /\ (barcode[b].of \in stale \/ product[barcode[b].of].status = "live")
        BY DEF ShelfInv, CodesFound
      <3>2. barcode[b].of # Nil => product'[barcode[b].of] = product[barcode[b].of]
        BY <1>12, <2>1, <2>4
      <3>3. barcode'[b].of = barcode[b].of /\ (barcode'[b].live => barcode[b].live)
        BY <1>9
      <3> QED
        BY <1>4, <3>1, <3>2, <3>3
    <2> QED
      BY <2>3, <2>4
  <1>19. OneDefaultList'
    BY <1>4, <1>10 DEF ShelfInv, OneDefaultList
  <1>20. OnePrice'
    BY <1>4, <1>10 DEF ShelfInv, OnePrice, CatalogueTypeOK, PriceList
  <1> QED
    BY <1>13, <1>14, <1>15, <1>16, <1>17, <1>18, <1>19, <1>20 DEF ShelfInv

\* delete_unit.
LEMMA DeleteUnitKeeps == ASSUME ShelfInv, NEW c \in Clerks, DeleteUnit(c) PROVE ShelfInv'
  <1> DEFINE u == desk[c].unit
             outdated == ~UnitUnused(u)
  <1>1. /\ desk[c].pc = "deleteUnit" /\ unit' = [unit EXCEPT ![u] = "deleted"] /\ Commit(c, u, outdated)
        /\ UNCHANGED <<product, barcode, pricing>>
    BY DEF DeleteUnit
  <1>2. u \in Units
    BY <1>1 DEF ShelfInv, ShelfDesks, ShelfTask
  <1>3. /\ DOMAIN desk' = Clerks /\ desk'[c].pc = "free" /\ \A d \in Clerks \ {c} : desk'[d] = desk[d]
        /\ stale \subseteq stale' /\ (outdated => u \in stale') /\ (~outdated => stale' = stale)
    <2>1. outdated \in BOOLEAN
      BY DEF UnitUnused
    <2> HIDE DEF outdated, u
    <2> QED
      BY <1>1, <2>1, DeskCleared DEF ShelfInv, ShelfDesks
  <1>4. \A d \in Clerks : desk'[d].pc # "free" => d # c /\ desk'[d] = desk[d]
    BY <1>3
  <1>5. outdated \/ \A p \in Products :
          /\ product[p].status = "live" => product[p].unit # u
          /\ \A i \in DOMAIN product[p].variations : product[p].variations[i].live => product[p].variations[i].unit # u
    BY DEF UnitUnused, LiveProduct, VariationsUse, LiveVariations
  <1>6. unit' \in [Units -> {"live", "retired", "deleted"}] /\ \A x \in Units \ {u} : unit'[x] = unit[x]
    BY <1>1, <1>2 DEF ShelfInv, CatalogueTypeOK
  <1> HIDE DEF u, outdated
  <1>7. CatalogueTypeOK'
    BY <1>1, <1>6 DEF ShelfInv, CatalogueTypeOK
  <1>8. ShelfDesks'
    BY <1>1, <1>3, <1>4, DesksKept DEF ShelfInv
  <1>9. OneDefault' /\ OnePrimary' /\ CodesFound' /\ OneDefaultList' /\ OnePrice'
    BY <1>1, <1>3 DEF ShelfInv, OneDefault, OnePrimary, CodesFound, OneDefaultList, OnePrice
  <1>10. UnitsKept'
    <2> SUFFICES ASSUME NEW p \in Products, p \notin stale', product[p].status = "live"
                 PROVE  /\ product[p].unit \in Units /\ UnitKept(product[p].unit)'
                        /\ VariationUnits(product[p].variations)'
      BY <1>1 DEF UnitsKept
    <2>1. product[p].unit \in Units /\ UnitKept(product[p].unit) /\ VariationUnits(product[p].variations)
      BY <1>3 DEF ShelfInv, UnitsKept
    <2>2. \A x \in Units \ {u} : UnitKept(x) => UnitKept(x)'
      BY <1>3, <1>6 DEF UnitKept
    <2>3. CASE outdated
      <3>1. \A x \in Units : x = u => UnitKept(x)'
        BY <1>3, <2>3 DEF UnitKept
      <3> QED
        BY <1>1, <2>1, <2>2, <3>1 DEF VariationUnits
    <2>4. CASE ~outdated
      BY <1>1, <1>5, <2>1, <2>2, <2>4 DEF VariationUnits
    <2> QED
      BY <2>3, <2>4
  <1> QED
    BY <1>7, <1>8, <1>9, <1>10 DEF ShelfInv

\* update_unit, which deletes the unit whoever uses it.
LEMMA UpdateUnitKeeps == ASSUME ShelfInv, NEW u \in Units, UpdateUnit(u) PROVE ShelfInv'
  <1>1. /\ unit' = [unit EXCEPT ![u] = "retired"] /\ UNCHANGED <<product, barcode, pricing>>
        /\ desk' = desk /\ stale' = stale
    BY DEF UpdateUnit, deskVars
  <1>2. unit' \in [Units -> {"live", "retired", "deleted"}] /\ \A x \in Units : unit'[x] = "deleted" => unit[x] = "deleted"
    BY <1>1 DEF ShelfInv, CatalogueTypeOK
  <1>3. CatalogueTypeOK'
    BY <1>1, <1>2 DEF ShelfInv, CatalogueTypeOK
  <1>4. ShelfDesks'
    BY <1>1, DesksKept DEF ShelfInv, ShelfDesks
  <1>5. OneDefault' /\ OnePrimary' /\ CodesFound' /\ OneDefaultList' /\ OnePrice'
    BY <1>1 DEF ShelfInv, OneDefault, OnePrimary, CodesFound, OneDefaultList, OnePrice
  <1>6. UnitsKept'
    BY <1>1, <1>2 DEF ShelfInv, UnitsKept, UnitKept, VariationUnits
  <1> QED
    BY <1>3, <1>4, <1>5, <1>6 DEF ShelfInv

\* add_barcode, which takes the primary mark from the others.
LEMMA AddBarcodeKeeps == ASSUME ShelfInv, NEW c \in Clerks, AddBarcode(c) PROVE ShelfInv'
  <1> DEFINE t == desk[c]
             k == t.code
             p == t.product
             new == barcode[k].of = Nil
             row == [of |-> p, live |-> TRUE, primary |-> t.primary]
             Unset(b) == IF b \in t.found THEN [barcode[b] EXCEPT !.primary = FALSE] ELSE barcode[b]
             outdated == new /\ (~LiveProduct(p) \/ (t.primary /\ PrimaryBarcodes(p) # t.found))
  <1>1. /\ t.pc = "addBarcode" /\ Commit(c, p, outdated) /\ UNCHANGED <<product, unit, pricing>>
        /\ barcode' = IF new THEN [[b \in Barcodes |-> Unset(b)] EXCEPT ![k] = row] ELSE barcode
    BY DEF AddBarcode
  <1>2. p \in Products /\ product[p].status # "none" /\ k \in Barcodes /\ t.primary \in BOOLEAN
    BY <1>1 DEF ShelfInv, ShelfDesks, ProductTask, ShelfTask
  <1>3. /\ DOMAIN desk' = Clerks /\ desk'[c].pc = "free" /\ \A d \in Clerks \ {c} : desk'[d] = desk[d]
        /\ stale \subseteq stale' /\ (outdated => p \in stale') /\ (~outdated => stale' = stale)
    <2>1. outdated \in BOOLEAN
      BY <1>2 DEF LiveProduct
    <2> HIDE DEF outdated, p
    <2> QED
      BY <1>1, <2>1, DeskCleared DEF ShelfInv, ShelfDesks
  <1>4. \A d \in Clerks : desk'[d].pc # "free" => d # c /\ desk'[d] = desk[d]
    BY <1>3
  <1>5. \A b \in Barcodes : barcode[b] \in Barcode /\ barcode[b].of \in Products \cup {Nil}
    BY DEF ShelfInv, CatalogueTypeOK, Barcode
  <1>6. row \in Barcode /\ row.of = p /\ row.live /\ row.primary = t.primary
    BY <1>2 DEF Barcode
  <1>7. \A b \in Barcodes : /\ Unset(b) \in Barcode /\ Unset(b).of = barcode[b].of /\ Unset(b).live = barcode[b].live
                            /\ Unset(b).primary = (barcode[b].primary /\ b \notin t.found)
    <2> SUFFICES ASSUME NEW b \in Barcodes
                 PROVE  /\ Unset(b) \in Barcode /\ Unset(b).of = barcode[b].of /\ Unset(b).live = barcode[b].live
                        /\ Unset(b).primary = (barcode[b].primary /\ b \notin t.found)
      OBVIOUS
    <2>1. CASE b \in t.found
      BY <1>5, <2>1 DEF Barcode
    <2>2. CASE b \notin t.found
      BY <1>5, <2>2 DEF Barcode
    <2> QED
      BY <2>1, <2>2
  <1>8. CASE new
    <2> HIDE DEF row, Unset
    <2>1. /\ barcode' \in [Barcodes -> Barcode] /\ barcode'[k] = row
          /\ \A b \in Barcodes \ {k} : barcode'[b] = Unset(b)
      BY <1>1, <1>2, <1>6, <1>7, <1>8
    <2>2. outdated \/ (product[p].status = "live" /\ (t.primary => PrimaryBarcodes(p) = t.found))
      BY <1>8 DEF LiveProduct
    <2> HIDE DEF p, k, outdated, new
    <2>3. CatalogueTypeOK'
      BY <1>1, <2>1 DEF ShelfInv, CatalogueTypeOK
    <2>4. ShelfDesks'
      BY <1>1, <1>3, <1>4, DesksKept DEF ShelfInv
    <2>5. OneDefault' /\ UnitsKept' /\ OneDefaultList' /\ OnePrice'
      BY <1>1, <1>3 DEF ShelfInv, OneDefault, UnitsKept, UnitKept, VariationUnits, OneDefaultList, OnePrice
    <2>6. OnePrimary'
      <3> SUFFICES ASSUME NEW b \in Barcodes, NEW d \in Barcodes, b # d, barcode'[b].of \notin stale',
                          barcode'[b].live, barcode'[b].primary, barcode'[d].live, barcode'[d].primary, barcode'[b].of = barcode'[d].of
                   PROVE  FALSE
        BY DEF OnePrimary
      <3>1. \A x \in Barcodes \ {k} : /\ barcode'[x].of = barcode[x].of /\ barcode'[x].live = barcode[x].live
                                      /\ barcode'[x].primary = (barcode[x].primary /\ x \notin t.found)
        BY <1>7, <2>1
      <3>2. \A x \in Barcodes \ {k} : t.primary /\ ~outdated /\ barcode'[x].of = p /\ barcode'[x].live => ~barcode'[x].primary
        <4> SUFFICES ASSUME NEW x \in Barcodes \ {k}, t.primary, ~outdated, barcode'[x].of = p, barcode'[x].live, barcode'[x].primary
                     PROVE  FALSE
          OBVIOUS
        <4>1. x \in PrimaryBarcodes(p) /\ x \notin t.found
          BY <3>1 DEF PrimaryBarcodes, LiveBarcodes
        <4> QED
          BY <2>2, <4>1
      <3>3. CASE b = k
        BY <1>3, <1>6, <2>1, <3>2, <3>3
      <3>4. CASE d = k
        BY <1>3, <1>6, <2>1, <3>2, <3>4
      <3>5. CASE b # k /\ d # k
        BY <1>3, <3>1, <3>5 DEF ShelfInv, OnePrimary
      <3> QED
        BY <3>3, <3>4, <3>5
    <2>7. CodesFound'
      <3> SUFFICES ASSUME NEW b \in Barcodes
                   PROVE  /\ barcode'[b].of # Nil => product[barcode'[b].of].status # "none"
                          /\ barcode'[b].live => barcode'[b].of # Nil /\ (barcode'[b].of \in stale' \/ product[barcode'[b].of].status = "live")
        BY <1>1 DEF CodesFound
      <3>1. CASE b = k
        BY <1>2, <1>3, <1>6, <2>1, <2>2, <3>1, CatalogueAssumption
      <3>2. CASE b # k
        BY <1>3, <1>7, <2>1, <3>2 DEF ShelfInv, CodesFound
      <3> QED
        BY <3>1, <3>2
    <2> QED
      BY <2>3, <2>4, <2>5, <2>6, <2>7 DEF ShelfInv
  <1>9. CASE ~new
    <2>1. stale' = stale /\ UNCHANGED <<product, unit, barcode, pricing>>
      BY <1>1, <1>3, <1>9
    <2>2. ShelfDesks'
      BY <1>3, <1>4, <2>1, DesksKept DEF ShelfInv
    <2> QED
      BY <2>1, <2>2 DEF ShelfInv, CatalogueTypeOK, OneDefault, OnePrimary, UnitsKept, UnitKept, VariationUnits, CodesFound, OneDefaultList, OnePrice
  <1> QED
    BY <1>8, <1>9

\* A commit that changes the price lists only.
LEMMA PriceCommit ==
  ASSUME ShelfInv, NEW c \in Clerks, NEW row, NEW outdated \in BOOLEAN, Commit(c, row, outdated), UNCHANGED <<product, unit, barcode>>,
         pricing' \in [PriceLists -> PriceList],
         outdated \/ (OneDefaultList => OneDefaultList'), outdated \/ (OnePrice => OnePrice')
  PROVE  ShelfInv'
  <1>1. /\ DOMAIN desk' = Clerks /\ desk'[c].pc = "free" /\ \A d \in Clerks \ {c} : desk'[d] = desk[d]
        /\ stale \subseteq stale' /\ (outdated => row \in stale')
    BY DeskCleared DEF ShelfInv, ShelfDesks
  <1>2. \A d \in Clerks : desk'[d].pc # "free" => desk'[d] = desk[d]
    BY <1>1
  <1>3. ShelfDesks'
    BY <1>1, <1>2, DesksKept DEF ShelfInv
  <1>4. OneDefaultList' /\ OnePrice'
    <2>1. CASE outdated
      BY <1>1, <2>1 DEF OneDefaultList, OnePrice
    <2>2. CASE ~outdated
      BY <2>2 DEF ShelfInv
    <2> QED
      BY <2>1, <2>2
  <1>5. CatalogueTypeOK'
    BY DEF ShelfInv, CatalogueTypeOK
  <1>6. OneDefault' /\ OnePrimary' /\ UnitsKept' /\ CodesFound'
    BY <1>1 DEF ShelfInv, OneDefault, OnePrimary, UnitsKept, UnitKept, VariationUnits, CodesFound
  <1> QED
    BY <1>3, <1>4, <1>5, <1>6 DEF ShelfInv

\* create_price_list, which takes the default from the others.
LEMMA CreateListKeeps == ASSUME ShelfInv, NEW c \in Clerks, CreatePriceList(c) PROVE ShelfInv'
  <1> DEFINE t == desk[c]
             k == t.list
             Unset(l) == IF l \in t.found THEN [pricing[l] EXCEPT !.default = FALSE] ELSE pricing[l]
             unset == [l \in PriceLists |-> Unset(l)]
             row == [unset[k] EXCEPT !.exists = TRUE, !.default = t.default]
             outdated == t.default /\ DefaultLists # t.found
  <1>1. /\ t.pc = "createList" /\ Commit(c, k, outdated) /\ UNCHANGED <<product, unit, barcode>>
        /\ pricing' = [unset EXCEPT ![k].exists = TRUE, ![k].default = t.default]
    BY DEF CreatePriceList
  <1>2. k \in PriceLists /\ t.default \in BOOLEAN
    BY <1>1 DEF ShelfInv, ShelfDesks, ShelfTask
  <1>3. \A l \in PriceLists : pricing[l] \in PriceList
    BY DEF ShelfInv, CatalogueTypeOK
  <1>4. /\ unset \in [PriceLists -> PriceList]
        /\ \A l \in PriceLists : /\ unset[l].exists = pricing[l].exists /\ unset[l].items = pricing[l].items
                                 /\ unset[l].default = (pricing[l].default /\ l \notin t.found)
    <2>1. \A l \in PriceLists : /\ Unset(l) \in PriceList
                                /\ Unset(l).exists = pricing[l].exists /\ Unset(l).items = pricing[l].items
                                /\ Unset(l).default = (pricing[l].default /\ l \notin t.found)
      <3> SUFFICES ASSUME NEW l \in PriceLists
                   PROVE  /\ Unset(l) \in PriceList
                          /\ Unset(l).exists = pricing[l].exists /\ Unset(l).items = pricing[l].items
                          /\ Unset(l).default = (pricing[l].default /\ l \notin t.found)
        OBVIOUS
      <3>1. CASE l \in t.found
        BY <1>3, <3>1 DEF PriceList
      <3>2. CASE l \notin t.found
        BY <1>3, <3>2 DEF PriceList
      <3> QED
        BY <3>1, <3>2
    <2> HIDE DEF Unset
    <2> QED
      BY <2>1
  <1> HIDE DEF unset
  <1>5. row \in PriceList /\ row.exists /\ row.default = t.default /\ row.items = pricing[k].items
    BY <1>2, <1>4, ZenonT(60) DEF PriceList
  <1>6. pricing' = [unset EXCEPT ![k] = row]
    BY <1>1, <1>2, <1>4 DEF PriceList
  <1>7. outdated \in BOOLEAN /\ Commit(c, k, outdated) /\ UNCHANGED <<product, unit, barcode>> /\ (outdated \/ stale' = stale)
    BY <1>1, <1>2 DEF Commit
  <1>8. outdated \/ (t.default => DefaultLists = t.found)
    OBVIOUS
  <1> HIDE DEF row, outdated, k
  <1>9. pricing' \in [PriceLists -> PriceList] /\ pricing'[k] = row /\ \A l \in PriceLists \ {k} : pricing'[l] = unset[l]
    BY <1>2, <1>4, <1>5, <1>6
  <1>10. outdated \/ (OneDefaultList => OneDefaultList')
    <2> SUFFICES ASSUME ~outdated, OneDefaultList, stale = {}, NEW l \in PriceLists, NEW m \in PriceLists, l # m,
                        pricing'[l].exists, pricing'[l].default, pricing'[m].exists, pricing'[m].default
                 PROVE  FALSE
      BY <1>7 DEF OneDefaultList
    <2>1. \A x \in PriceLists \ {k} : pricing'[x].exists /\ pricing'[x].default => x \in DefaultLists /\ x \notin t.found
      BY <1>4, <1>9 DEF DefaultLists
    <2>2. CASE t.default
      BY <1>8, <2>1, <2>2
    <2>3. CASE ~t.default
      <3>1. l # k /\ m # k
        BY <1>5, <1>9, <2>3
      <3> QED
        BY <2>1, <3>1 DEF OneDefaultList, DefaultLists
    <2> QED
      BY <2>2, <2>3
  <1>11. outdated \/ (OnePrice => OnePrice')
    BY <1>4, <1>5, <1>7, <1>9 DEF OnePrice
  <1> QED
    BY <1>7, <1>9, <1>10, <1>11, PriceCommit

\* set_price: an update where a row was found, an insert otherwise.
LEMMA SetPriceKeeps == ASSUME ShelfInv, NEW c \in Clerks, SetPrice(c) PROVE ShelfInv'
  <1> DEFINE t == desk[c]
             l == t.list
             p == t.product
             n == IF t.found THEN pricing[l].items[p] ELSE pricing[l].items[p] + 1
             items == [pricing[l].items EXCEPT ![p] = n]
             row == [pricing[l] EXCEPT !.items = items]
             outdated == ~t.found /\ (~LiveProduct(p) \/ PriceRowFound(l, p))
  <1>1. /\ t.pc = "setPrice" /\ Commit(c, p, outdated) /\ UNCHANGED <<product, unit, barcode>>
        /\ pricing' = [pricing EXCEPT ![l].items[p] = IF t.found THEN @ ELSE @ + 1]
    BY DEF SetPrice
  <1>2. l \in PriceLists /\ p \in Products /\ t.found \in BOOLEAN
    BY <1>1 DEF ShelfInv, ShelfDesks, ProductTask, ShelfTask
  <1>3. pricing \in [PriceLists -> PriceList] /\ pricing[l] \in PriceList /\ pricing[l].items \in [Products -> Nat]
    BY <1>2 DEF ShelfInv, CatalogueTypeOK, PriceList
  <1>4. pricing' = [pricing EXCEPT ![l] = row]
    BY <1>1, <1>2, <1>3 DEF PriceList
  <1>5. n \in Nat /\ (outdated \/ n = pricing[l].items[p] \/ (n = pricing[l].items[p] + 1 /\ pricing[l].items[p] # 1))
    BY <1>2, <1>3 DEF PriceRowFound
  <1>6. items \in [Products -> Nat] /\ items[p] = n /\ \A q \in Products \ {p} : items[q] = pricing[l].items[q]
    BY <1>2, <1>3, <1>5
  <1> HIDE DEF n, items
  <1>7. row \in PriceList /\ row.items = items /\ row.exists = pricing[l].exists /\ row.default = pricing[l].default
    BY <1>3, <1>6 DEF PriceList
  <1>8. outdated \in BOOLEAN /\ Commit(c, p, outdated) /\ UNCHANGED <<product, unit, barcode>> /\ (outdated \/ stale' = stale)
    BY <1>1, <1>2 DEF Commit, LiveProduct, PriceRowFound
  <1> HIDE DEF row, outdated, l, p
  <1>9. pricing' \in [PriceLists -> PriceList] /\ pricing'[l] = row /\ \A m \in PriceLists \ {l} : pricing'[m] = pricing[m]
    BY <1>2, <1>3, <1>4, <1>7
  <1>10. outdated \/ (OneDefaultList => OneDefaultList')
    BY <1>7, <1>8, <1>9 DEF OneDefaultList
  <1>11. outdated \/ (OnePrice => OnePrice')
    <2> SUFFICES ASSUME ~outdated, OnePrice, stale = {}, NEW m \in PriceLists, NEW q \in Products PROVE pricing'[m].items[q] <= 1
      BY <1>8 DEF OnePrice
    <2>1. pricing[m].items[q] <= 1 /\ pricing[l].items[p] <= 1 /\ pricing[l].items[p] \in Nat
      BY <1>2, <1>3 DEF OnePrice
    <2>2. n <= 1
      BY <1>5, <2>1
    <2> QED
      BY <1>6, <1>7, <1>9, <2>1, <2>2
  <1> QED
    BY <1>8, <1>9, <1>10, <1>11, PriceCommit

\* The first halves of the requests, which only read.
LEMMA ShelfReads ==
  ASSUME ShelfInv, NEW c \in Clerks,
         \/ \E p \in Products, u \in Units, specs \in Seq(VariationSpec) : CreateProductRead(c, p, u, specs)
         \/ \E p \in Products, u \in Units \cup {Nil}, default \in BOOLEAN : AddVariationRead(c, p, u, default)
         \/ \E p \in Products, i \in 1 .. MaxVariations, u \in Units : UpdateVariationRead(c, p, i, u)
         \/ \E p \in Products, b \in Barcodes, primary \in BOOLEAN : AddBarcodeRead(c, p, b, primary)
         \/ \E p \in Products : DeleteProductRead(c, p)
         \/ \E u \in Units : DeleteUnitRead(c, u)
         \/ \E l \in PriceLists, default \in BOOLEAN : CreateListRead(c, l, default)
         \/ \E l \in PriceLists, p \in Products : SetPriceRead(c, l, p)
  PROVE  ShelfInv'
  <1>1. ASSUME NEW p \in Products, NEW u \in Units, NEW specs \in Seq(VariationSpec), CreateProductRead(c, p, u, specs) PROVE ShelfInv'
    <2> DEFINE t == [pc |-> "createProduct", product |-> p, unit |-> u, specs |-> specs]
    <2>1. /\ ProductTask(t) /\ ShelfTask(t)
          /\ \A d \in Clerks : ~SameProduct(t, desk[d]) /\ ~SameProduct(desk[d], t)
      BY <1>1 DEF CreateProductRead, ProductTask, ShelfTask, SameProduct
    <2>2. Read(c, t) /\ UNCHANGED shelfVars
      BY <1>1 DEF CreateProductRead
    <2> HIDE DEF t
    <2> QED
      BY <2>1, <2>2, ShelfRead
  <1>2. ASSUME NEW p \in Products, NEW u \in Units \cup {Nil}, NEW default \in BOOLEAN, AddVariationRead(c, p, u, default) PROVE ShelfInv'
    <2> DEFINE t == [pc |-> "addVariation", product |-> p, unit |-> u, default |-> default,
                    found |-> UnsetDefaultVariations(p, default), saw |-> DefaultVariations(p)]
    <2>1. /\ ProductTask(t) /\ ShelfTask(t)
          /\ \A d \in Clerks : ~SameProduct(t, desk[d]) /\ ~SameProduct(desk[d], t)
      BY <1>2 DEF AddVariationRead, LiveProduct, UnsetDefaultVariations, ProductTask, ShelfTask, SameProduct
    <2>2. Read(c, t) /\ UNCHANGED shelfVars
      BY <1>2 DEF AddVariationRead
    <2> HIDE DEF t
    <2> QED
      BY <2>1, <2>2, ShelfRead
  <1>3. ASSUME NEW p \in Products, NEW b \in Barcodes, NEW primary \in BOOLEAN, AddBarcodeRead(c, p, b, primary) PROVE ShelfInv'
    <2> DEFINE t == [pc |-> "addBarcode", product |-> p, code |-> b, primary |-> primary, found |-> IF primary THEN PrimaryBarcodes(p) ELSE {}]
    <2>1. /\ ProductTask(t) /\ ShelfTask(t)
          /\ \A d \in Clerks : ~SameProduct(t, desk[d]) /\ ~SameProduct(desk[d], t)
      BY <1>3 DEF AddBarcodeRead, LiveProduct, ProductTask, ShelfTask, SameProduct
    <2>2. Read(c, t) /\ UNCHANGED shelfVars
      BY <1>3 DEF AddBarcodeRead
    <2> HIDE DEF t
    <2> QED
      BY <2>1, <2>2, ShelfRead
  <1>4. ASSUME NEW p \in Products, DeleteProductRead(c, p) PROVE ShelfInv'
    <2> DEFINE t == [pc |-> "deleteProduct", product |-> p, codes |-> LiveBarcodes(p), variations |-> LiveVariations(p),
                     lists |-> {l \in PriceLists : pricing[l].items[p] > 0}]
    <2>1. /\ ProductTask(t) /\ ShelfTask(t)
          /\ \A d \in Clerks : ~SameProduct(t, desk[d]) /\ ~SameProduct(desk[d], t)
      BY <1>4 DEF DeleteProductRead, LiveProduct, ProductTask, ShelfTask, SameProduct
    <2>2. Read(c, t) /\ UNCHANGED shelfVars
      BY <1>4 DEF DeleteProductRead
    <2> HIDE DEF t
    <2> QED
      BY <2>1, <2>2, ShelfRead
  <1>5. ASSUME NEW u \in Units, DeleteUnitRead(c, u) PROVE ShelfInv'
    <2> DEFINE t == [pc |-> "deleteUnit", unit |-> u]
    <2>1. /\ ProductTask(t) /\ ShelfTask(t)
          /\ \A d \in Clerks : ~SameProduct(t, desk[d]) /\ ~SameProduct(desk[d], t)
      BY <1>5 DEF DeleteUnitRead, ProductTask, ShelfTask, SameProduct
    <2>2. Read(c, t) /\ UNCHANGED shelfVars
      BY <1>5 DEF DeleteUnitRead
    <2> HIDE DEF t
    <2> QED
      BY <2>1, <2>2, ShelfRead
  <1>6. ASSUME NEW l \in PriceLists, NEW default \in BOOLEAN, CreateListRead(c, l, default) PROVE ShelfInv'
    <2> DEFINE t == [pc |-> "createList", list |-> l, default |-> default, found |-> IF default THEN DefaultLists ELSE {}]
    <2>1. /\ ProductTask(t) /\ ShelfTask(t)
          /\ \A d \in Clerks : ~SameProduct(t, desk[d]) /\ ~SameProduct(desk[d], t)
      BY <1>6 DEF CreateListRead, ProductTask, ShelfTask, SameProduct
    <2>2. Read(c, t) /\ UNCHANGED shelfVars
      BY <1>6 DEF CreateListRead
    <2> HIDE DEF t
    <2> QED
      BY <2>1, <2>2, ShelfRead
  <1>7. ASSUME NEW l \in PriceLists, NEW p \in Products, SetPriceRead(c, l, p) PROVE ShelfInv'
    <2> DEFINE t == [pc |-> "setPrice", list |-> l, product |-> p, found |-> PriceRowFound(l, p)]
    <2>1. /\ ProductTask(t) /\ ShelfTask(t)
          /\ \A d \in Clerks : ~SameProduct(t, desk[d]) /\ ~SameProduct(desk[d], t)
      BY <1>7 DEF SetPriceRead, PriceRowFound, ProductTask, ShelfTask, SameProduct
    <2>2. Read(c, t) /\ UNCHANGED shelfVars
      BY <1>7 DEF SetPriceRead
    <2> HIDE DEF t
    <2> QED
      BY <2>1, <2>2, ShelfRead
  <1>8. ASSUME NEW p \in Products, NEW i \in 1 .. MaxVariations, NEW u \in Units, UpdateVariationRead(c, p, i, u) PROVE ShelfInv'
    <2> DEFINE t == [pc |-> "updateVariation", product |-> p, at |-> i, unit |-> u]
    <2>1. /\ ProductTask(t) /\ ShelfTask(t)
          /\ \A d \in Clerks : ~SameProduct(t, desk[d]) /\ ~SameProduct(desk[d], t)
      BY <1>8 DEF UpdateVariationRead, LiveProduct, ProductTask, ShelfTask, SameProduct
    <2>2. Read(c, t) /\ UNCHANGED shelfVars
      BY <1>8 DEF UpdateVariationRead
    <2> HIDE DEF t
    <2> QED
      BY <2>1, <2>2, ShelfRead
  <1> QED
    BY <1>1, <1>2, <1>3, <1>4, <1>5, <1>6, <1>7, <1>8

\* Every step keeps the invariant.
LEMMA ShelfInvStep == ShelfInv /\ [CatalogueNext]_<<shelfVars, deskVars>> => ShelfInv'
  <1> SUFFICES ASSUME ShelfInv, [CatalogueNext]_<<shelfVars, deskVars>> PROVE ShelfInv'
    OBVIOUS
  <1>1. ASSUME NEW c \in Clerks, ProductWork(c, Units) PROVE ShelfInv'
    <2>1. ASSUME NEW p \in Products, NEW u \in Units, NEW k \in 0 .. MaxVariations, NEW specs \in [1 .. k -> VariationSpec],
                 CreateProductRead(c, p, u, specs)
          PROVE  ShelfInv'
      <3>1. specs \in Seq(VariationSpec)
        BY CatalogueAssumption
      <3> QED
        BY <2>1, <3>1, ShelfReads
    <2> QED
      BY <1>1, <2>1, ShelfReads, UpdateUnitKeeps, CreateProductKeeps, AddVariationKeeps, UpdateVariationKeeps,
         DeleteProductKeeps, DeleteUnitKeeps
         DEF ProductWork
  <1>2. ASSUME NEW c \in Clerks, PriceWork(c) PROVE ShelfInv'
    BY <1>2, ShelfReads, CreateListKeeps, SetPriceKeeps DEF PriceWork
  <1>3. ASSUME NEW c \in Clerks, BarcodeWork(c) PROVE ShelfInv'
    BY <1>3, ShelfReads, AddBarcodeKeeps DEF BarcodeWork
  <1>4. CASE UNCHANGED <<shelfVars, deskVars>>
    <2>1. UNCHANGED <<product, unit, barcode, pricing, desk, stale>>
      BY <1>4 DEF shelfVars, deskVars
    <2>2. ShelfDesks'
      BY <2>1, DesksKept DEF ShelfInv, ShelfDesks
    <2> QED
      BY <2>1, <2>2 DEF ShelfInv, CatalogueTypeOK, OneDefault, OnePrimary, UnitsKept, UnitKept, VariationUnits, CodesFound, OneDefaultList, OnePrice
  <1> QED
    BY <1>1, <1>2, <1>3, <1>4 DEF CatalogueNext

\* A live product has one default variation, at most one primary barcode, and
\* neither its unit nor one of its variations' was deleted by delete_unit; a scan
\* finds a product for every live barcode. All this for all rows but those that
\* a commit has left stale; and until one is, the price lookup meets one row at
\* most (product_service, unit_service, price_service).
THEOREM SellableAlwaysAsShown == CatalogueSpec => []SellableAsShown
  BY ShelfInvInit, ShelfInvStep, ShelfInvImplies, PTL DEF CatalogueSpec
=============================================================================
