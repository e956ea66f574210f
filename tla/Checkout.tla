------------------------------ MODULE Checkout ------------------------------
(***************************************************************************)
(* Requests at the till as concurrent database transactions: sales,        *)
(* returns, voids, cancels, tabs, customer payments, cash movements and     *)
(* the close of a shift.                                                    *)
(*                                                                         *)
(* PostgreSQL runs them at READ COMMITTED: a statement sees what is         *)
(* committed when it runs, a lock is held to the end of the transaction,    *)
(* and a cycle of waiting transactions is broken by aborting one of them.   *)
(* A handler is the sequence of its statements that lock, read or decide    *)
(* (its program); what it writes becomes visible when it commits.           *)
(*                                                                         *)
(* Abstractions.  One branch, one customer, and one older sale, with one    *)
(* unit on each of its lines, that returns, voids, cancels and tab          *)
(* completions are about.  A line asks for one unit.  The layers of a stock *)
(* position are one lock; StockLedger models what happens to their rows.    *)
(* Money is counted in whole units; only cash enters a drawer.              *)
(***************************************************************************)
EXTENDS Integers, FiniteSets, Sequences, Functions

CONSTANTS
    Requests,       \* identities of the requests clients may send
    Body,           \* what each of them asks for
    MaxRequests,    \* bound: requests sent in one behaviour
    Shifts,         \* register shifts, each of another cashier
    Positions,      \* stock positions (product, variation) of the branch
    StockOnHand,    \* units of each position at the start
    CreditLimit,    \* Customer.credit_limit
    FirstSale       \* states the older sale may be in at the start

Ops == {"sale", "return", "void", "cancel", "tab", "close", "pay", "move"}

\* lines: the positions a sale asks for, in line order, or the line a return
\* names; cash, credit: money that goes into or out of the drawer and the
\* account; named: the sale names the customer.
Request ==
    [op: Ops, shift: Shifts, lines: Seq(Positions),
     cash: Nat, credit: Nat, named: BOOLEAN]

\* The older sale: line p sold one unit of position p.
SaleRow ==
    [status: {"held", "partially_paid", "completed", "cancelled", "voided"},
     dineIn: BOOLEAN, shift: Shifts, named: BOOLEAN, cash: Nat, credit: Nat,
     returned: [Positions -> 0..1]]

ASSUME CheckoutAssumption ==
    /\ Positions \subseteq Nat /\ IsFiniteSet(Positions)
    /\ Shifts \subseteq Nat
    /\ DOMAIN Body = Requests /\ \A r \in Requests : Body[r] \in Request
    /\ MaxRequests \in Nat /\ CreditLimit \in Nat
    /\ StockOnHand \in [Positions -> Nat]
    /\ FirstSale \subseteq SaleRow
    \* Credit without a customer is refused before any lock is taken for it.
    /\ \A r \in Requests : Body[r].credit > 0 =>
         IF Body[r].op \in {"return", "tab"} THEN \A s \in FirstSale : s.named
         ELSE Body[r].named
    /\ \A s \in FirstSale : s.credit > 0 => s.named
    \* Opened as a tab, or rung up at the counter, and not reversed yet.
    /\ \A s \in FirstSale :
         /\ s.status \in {"held", "partially_paid", "completed"}
         /\ s.dineIn <=> s.status = "held"
         /\ \A p \in Positions : s.returned[p] = 0
    \* Its credit was granted under the same limit.
    /\ CreditLimit > 0 => \A s \in FirstSale : s.credit <= CreditLimit
    \* A return names one line.
    /\ \A r \in Requests : Body[r].op = "return" => Len(Body[r].lines) = 1

VARIABLES
    phase,      \* per request: not sent, running, or how it ended
    pc,         \* per request: next step of its program
    held,       \* lock table: records [by, res, mode]
    summed,     \* per request: the drawer a closing request has added up
    shift,      \* register_shifts, with the sums of their register_transactions
    owed,       \* what the customer owes (minus the ledger balance)
    stock,      \* balance of the stock movements of each position
    sale,       \* the older sale
    onLines     \* units its lines hold out of stock, from their movements

vars == <<phase, pc, held, summed, shift, owed, stock, sale, onLines>>
db == <<shift, owed, stock, sale, onLines>>

\* till: postings made under the shift's lock; other: the rest.
Drawer == [till: Int, other: Int]
NoDrawer == [till |-> 0, other |-> 0]

Init ==
    /\ phase = [r \in Requests |-> "new"]
    /\ pc = [r \in Requests |-> 1]
    /\ held = {}
    /\ summed = [r \in Requests |-> NoDrawer]
    /\ sale \in FirstSale
    /\ shift = [s \in Shifts |->
         [status |-> "open",
          drawer |-> [till |-> IF s = sale.shift THEN sale.cash ELSE 0, other |-> 0],
          expected |-> NoDrawer]]
    /\ owed = sale.credit
    /\ stock = StockOnHand
    /\ onLines = [p \in Positions |-> IF sale.status = "held" THEN 0 ELSE 1]

-----------------------------------------------------------------------------
(* Locks. *)

\* FOR UPDATE and advisory locks (U) exclude everyone, FOR NO KEY UPDATE and
\* plain updates (N) each other, and the FOR KEY SHARE of a foreign key check
\* (K) only U.
Conflict(m, n) ==
    \/ m = "U" \/ n = "U"
    \/ m = "N" /\ n = "N"

ShiftRow(s) == <<"shift", s>>
CustomerRow == <<"customer", 0>>
Position(p) == <<"position", p>>
Counter(prefix) == <<prefix, 0>>
LayersOf(p) == <<"layers", p>>
LineRow(p) == <<"line", p>>
TargetSale == <<"sale", 0>>
Nothing == <<"nothing", 0>>

SaleShift == <<"sale's shift", 0>>      \* the row of the older sale's shift

\* A step takes a lock, if any, and goes on if its test holds.  The code takes
\* it only where the condition only holds.
On(res, mode, test) == [res |-> res, mode |-> mode, test |-> test, only |-> "always"]
Lock(res, mode) == On(res, mode, "none")
Test(test) == On(Nothing, "K", test)
When(c, steps) == IF c THEN steps ELSE <<>>
OnlyIf(cond, steps) == [i \in DOMAIN steps |-> [steps[i] EXCEPT !.only = cond]]
InOrder(S) ==
    CHOOSE f \in [1..Cardinality(S) -> S] :
        Range(f) = S /\ \A i, j \in DOMAIN f : i < j => f[i] < f[j]
AllLines == InOrder(Positions)
PositionsOf == [r \in Requests |-> InOrder(Range(Body[r].lines))]

\* Mutant: FOR UPDATE.
RequireCallerShiftForUpdate(s) == <<On(ShiftRow(s), "U", "shiftOpen")>>

\* require_caller_shift: FOR NO KEY UPDATE.
RequireCallerShift(s) == <<On(ShiftRow(s), "N", "shiftOpen")>>

\* Mutant: the limit is checked without keeping others out.
CheckCreditUnlocked == <<On(CustomerRow, "K", "creditAvailable")>>

\* assert_credit_available, with lock_customer.
AssertCreditAvailable == <<On(CustomerRow, "U", "creditAvailable")>>

\* lock_stock_positions: keys are sorted, each position once.
LockStockPositions(keys) == [i \in DOMAIN keys |-> Lock(Position(keys[i]), "U")]

\* consume_fifo_layers and restore_fifo_layers, line by line.
LockLayers(lines) == [i \in DOMAIN lines |-> Lock(LayersOf(lines[i]), "U")]

\* generate_document_number: INSERT ... ON CONFLICT DO UPDATE.
NextNumber(prefix) == <<Lock(Counter(prefix), "N")>>

\* _lock_sale_lines_for_update
LockSaleLines == [i \in DOMAIN AllLines |-> Lock(LineRow(AllLines[i]), "U")]

-----------------------------------------------------------------------------
(* The handlers. *)

\* Mutant: stock is checked before its positions are locked.
SaleProgramCheckFirst(r) ==
    RequireCallerShift(Body[r].shift)
    \o When(Body[r].credit > 0, AssertCreditAvailable)
    \o <<Test("stockAvailable")>> \o LockStockPositions(PositionsOf[r])
    \o NextNumber("INV") \o LockLayers(Body[r].lines)
    \o When(Body[r].named /\ Body[r].credit = 0, <<Lock(CustomerRow, "K")>>)

\* create_sale.  The row of a sale that names the customer checks the foreign
\* key on customers when it is inserted, after the layers.
SaleProgram(r) ==
    RequireCallerShift(Body[r].shift)
    \o When(Body[r].credit > 0, AssertCreditAvailable)
    \o LockStockPositions(PositionsOf[r]) \o <<Test("stockAvailable")>>
    \o NextNumber("INV") \o LockLayers(Body[r].lines)
    \o When(Body[r].named /\ Body[r].credit = 0, <<Lock(CustomerRow, "K")>>)

\* create_sale_return of one unit of a line of the older sale.
ReturnProgram(r) ==
    RequireCallerShift(Body[r].shift)
    \o <<Lock(LineRow(Body[r].lines[1]), "U"), Test("returnable")>>
    \o OnlyIf("named", <<Lock(CustomerRow, "U")>>)
    \o <<Test("unitLeft")>>
    \o LockStockPositions(PositionsOf[r]) \o NextNumber("RET")
    \o <<Lock(TargetSale, "K")>> \o LockLayers(Body[r].lines)

\* _reverse_completed_sale_settlements: foreign keys of the register
\* transaction and of the ledger entry.
ReverseSettlements ==
    OnlyIf("paid", <<Lock(SaleShift, "K")>>)
    \o OnlyIf("onAccount", <<Lock(CustomerRow, "K")>>)

\* Mutant: the sale row is locked, its lines are not.
VoidProgramLinesFree(r) ==
    <<On(TargetSale, "U", "voidable"), Test("saleShiftOpen")>>
    \o LockLayers(AllLines) \o ReverseSettlements

\* void_sale.  verify_open_register_shift reads the shift without locking it.
VoidProgram(r) ==
    LockSaleLines
    \o <<On(TargetSale, "U", "voidable"), Test("saleShiftOpen")>>
    \o LockLayers(AllLines) \o ReverseSettlements

\* cancel_sale: no shift is looked at.
CancelProgram(r) ==
    LockSaleLines
    \o <<On(TargetSale, "U", "cancellable")>>
    \o OnlyIf("restores", LockLayers(AllLines))
    \o ReverseSettlements

\* The loop over the tab's lines: consume the layers, write the line's cost.
WriteTabLines ==
    [i \in 1..(2 * Len(AllLines)) |->
        IF i % 2 = 1 THEN Lock(LayersOf(AllLines[(i + 1) \div 2]), "U")
        ELSE Lock(LineRow(AllLines[i \div 2]), "N")]

\* complete_tab: the sale row first, its lines when their costs are written.
TabProgram(r) ==
    <<On(TargetSale, "U", "tabOpen")>>
    \o RequireCallerShift(Body[r].shift)
    \o When(Body[r].credit > 0, AssertCreditAvailable)
    \o LockStockPositions(AllLines) \o <<Test("stockAvailable")>>
    \o WriteTabLines

\* Mutant: the shift is read without a lock.
CloseProgramUnlocked(r) == <<On(ShiftRow(Body[r].shift), "K", "shiftOpen"), Test("sum")>>

\* close_shift: lock the shift, add up its transactions.
CloseProgram(r) == <<On(ShiftRow(Body[r].shift), "U", "shiftOpen"), Test("sum")>>

\* record_customer_payment in cash: verify_open_register_shift, then the
\* foreign keys of the ledger entry and of the register transaction.
PayProgram(r) ==
    <<Test("shiftOpen"), Lock(CustomerRow, "K"), Lock(ShiftRow(Body[r].shift), "K")>>

\* add_cash_movement
MoveProgram(r) == RequireCallerShift(Body[r].shift)

Program ==
    [r \in Requests |->
        CASE Body[r].op = "sale"   -> SaleProgram(r)
          [] Body[r].op = "return" -> ReturnProgram(r)
          [] Body[r].op = "void"   -> VoidProgram(r)
          [] Body[r].op = "cancel" -> CancelProgram(r)
          [] Body[r].op = "tab"    -> TabProgram(r)
          [] Body[r].op = "close"  -> CloseProgram(r)
          [] Body[r].op = "pay"    -> PayProgram(r)
          [] Body[r].op = "move"   -> MoveProgram(r)]

\* An open tab has taken no stock: cancel_sale leaves the layers alone.
SkipRestore == sale.dineIn /\ sale.status \in {"held", "partially_paid"}

\* The branches of the handlers that depend on the older sale.
Applies(cond) ==
    CASE cond = "always" -> TRUE
      [] cond = "named" -> sale.named
      [] cond = "paid" -> sale.cash + sale.credit > 0
      [] cond = "onAccount" -> sale.named /\ sale.credit > 0
      [] cond = "restores" -> ~SkipRestore

\* The positions a request takes units from.
Demanded(r) == IF Body[r].op = "tab" THEN AllLines ELSE Body[r].lines
Demand(r, p) == Cardinality({i \in DOMAIN Demanded(r) : Demanded(r)[i] = p})

\* _assert_stock_available: the demand of all lines together.
StockAvailable(r) == \A p \in Positions : Demand(r, p) = 0 \/ stock[p] >= Demand(r, p)

Holds(test, r) ==
    CASE test = "none" -> TRUE
      [] test = "sum" -> TRUE
      [] test = "shiftOpen" -> shift[Body[r].shift].status = "open"
      [] test = "saleShiftOpen" -> shift[sale.shift].status = "open"
      [] test = "creditAvailable" ->
           CreditLimit = 0 \/ owed + Body[r].credit <= CreditLimit
      [] test = "stockAvailable" -> StockAvailable(r)
      [] test = "returnable" -> sale.status \in {"partially_paid", "completed"}
      [] test = "unitLeft" -> sale.returned[Body[r].lines[1]] = 0
      [] test = "voidable" ->
           sale.status = "completed" /\ \A p \in Positions : sale.returned[p] = 0
      [] test = "cancellable" ->
           /\ sale.status \notin {"completed", "voided"}
           /\ \A p \in Positions : sale.returned[p] = 0
      [] test = "tabOpen" -> sale.dineIn /\ sale.status \in {"held", "partially_paid"}

-----------------------------------------------------------------------------
(* Transactions. *)

Running == {r \in Requests : phase[r] = "running"}
Ready(r) == phase[r] = "running" /\ pc[r] <= Len(Program[r])
Current(r) ==
    LET step == Program[r][pc[r]]
    IN  IF ~Applies(step.only) THEN Test("none")
        ELSE [step EXCEPT !.res = IF @ = SaleShift THEN ShiftRow(sale.shift) ELSE @]
Mine(r) == {l \in held : l.by = r}

\* The requests whose locks keep r from its next step.
Blockers(r) ==
    LET step == Current(r)
    IN  {l.by : l \in {l \in held : l.by # r /\ l.res = step.res /\ Conflict(l.mode, step.mode)}}

Blocked(r) == Blockers(r) # {}

\* The closed walks of requests that wait for each other.
Cycles ==
    LET waiting == {r \in Running : Ready(r) /\ Blocked(r)}
        blockers == [r \in waiting |-> Blockers(r)]
    IN  UNION {{w \in [1..n -> waiting] :
                  \A i \in 1..n : w[(i % n) + 1] \in blockers[w[i]]} :
               n \in 2..Cardinality(waiting)}

\* A client sends request r.
Start(r) ==
    /\ phase[r] = "new"
    /\ Cardinality({q \in Requests : phase[q] # "new"}) < MaxRequests
    /\ phase' = [phase EXCEPT ![r] = "running"]
    /\ UNCHANGED <<pc, held, summed, db>>

\* The next statement of r gets its lock and its test holds.
Step(r) ==
    /\ Ready(r)
    /\ ~Blocked(r)
    /\ LET step == Current(r)
       IN  /\ Holds(step.test, r)
           /\ held' = IF step.res = Nothing THEN held
                      ELSE held \cup {[by |-> r, res |-> step.res, mode |-> step.mode]}
           /\ summed' = IF step.test = "sum"
                        THEN [summed EXCEPT ![r] = shift[Body[r].shift].drawer] ELSE summed
    /\ pc' = [pc EXCEPT ![r] = @ + 1]
    /\ UNCHANGED <<phase, db>>

\* The transaction ends: the database forgets its locks.
End(r, how) ==
    /\ phase' = [phase EXCEPT ![r] = how]
    /\ held' = held \ Mine(r)
    /\ pc' = [pc EXCEPT ![r] = 1]
    /\ summed' = [summed EXCEPT ![r] = NoDrawer]

\* Mutant: the error leaves without a rollback.
RejectAndHold(r) ==
    /\ Ready(r)
    /\ ~Blocked(r)
    /\ ~Holds(Current(r).test, r)
    /\ phase' = [phase EXCEPT ![r] = "rolled_back"]
    /\ UNCHANGED <<pc, held, summed, db>>

\* The handler raises an HTTPException: rollback.
Reject(r) ==
    /\ Ready(r)
    /\ ~Blocked(r)
    /\ ~Holds(Current(r).test, r)
    /\ End(r, "rolled_back")
    /\ UNCHANGED db

\* PostgreSQL aborts a transaction that waits for itself.
DeadlockAbort(r) ==
    /\ \E w \in Cycles : w[1] = r
    /\ End(r, "rolled_back")
    /\ UNCHANGED db

\* The connection is lost, or a statement fails: rollback.
Fail(r) ==
    /\ r \in Running
    /\ End(r, "rolled_back")
    /\ UNCHANGED db

-----------------------------------------------------------------------------
(* What the handlers have written when they commit. *)

Commits(r, op) ==
    /\ Body[r].op = op
    /\ r \in Running
    /\ pc[r] > Len(Program[r])
    /\ End(r, "committed")

Post(s, part, amount) ==
    shift' = [shift EXCEPT ![s].drawer[part] = @ + amount]

CommitSale(r) ==
    /\ Commits(r, "sale")
    /\ stock' = [p \in Positions |-> stock[p] - Demand(r, p)]
    /\ owed' = owed + Body[r].credit
    /\ Post(Body[r].shift, "till", Body[r].cash)
    /\ UNCHANGED <<sale, onLines>>

\* What is not paid out in cash goes to the account of the sale's customer.
CommitReturn(r) ==
    LET p == Body[r].lines[1]
    IN  /\ Commits(r, "return")
        /\ stock' = [stock EXCEPT ![p] = @ + 1]
        /\ onLines' = [onLines EXCEPT ![p] = @ - 1]
        /\ sale' = [sale EXCEPT !.returned[p] = @ + 1]
        /\ owed' = owed - Body[r].credit
        /\ Post(Body[r].shift, "till", -Body[r].cash)

\* _restore_all_sale_line_inventory
PutBack ==
    /\ stock' = [p \in Positions |-> stock[p] + 1]
    /\ onLines' = [p \in Positions |-> onLines[p] - 1]

CommitVoid(r) ==
    /\ Commits(r, "void")
    /\ PutBack
    /\ sale' = [sale EXCEPT !.status = "voided"]
    /\ owed' = owed - sale.credit
    /\ Post(sale.shift, "other", -sale.cash)

CommitCancel(r) ==
    /\ Commits(r, "cancel")
    /\ IF SkipRestore THEN UNCHANGED <<stock, onLines>> ELSE PutBack
    /\ sale' = [sale EXCEPT !.status = "cancelled"]
    /\ owed' = owed - sale.credit
    /\ Post(sale.shift, "other", -sale.cash)

CommitTab(r) ==
    /\ Commits(r, "tab")
    /\ stock' = [p \in Positions |-> stock[p] - 1]
    /\ onLines' = [p \in Positions |-> onLines[p] + 1]
    /\ sale' = [sale EXCEPT !.status = "completed", !.shift = Body[r].shift,
                            !.cash = @ + Body[r].cash, !.credit = @ + Body[r].credit]
    /\ owed' = owed + Body[r].credit
    /\ Post(Body[r].shift, "till", Body[r].cash)

CommitClose(r) ==
    /\ Commits(r, "close")
    /\ shift' = [shift EXCEPT ![Body[r].shift].status = "closed",
                              ![Body[r].shift].expected = summed[r]]
    /\ UNCHANGED <<owed, stock, sale, onLines>>

CommitPay(r) ==
    /\ Commits(r, "pay")
    /\ owed' = owed - Body[r].cash
    /\ Post(Body[r].shift, "other", Body[r].cash)
    /\ UNCHANGED <<stock, sale, onLines>>

CommitMove(r) ==
    /\ Commits(r, "move")
    /\ Post(Body[r].shift, "till", Body[r].cash)
    /\ UNCHANGED <<owed, stock, sale, onLines>>

Commit(r) ==
    \/ CommitSale(r) \/ CommitReturn(r) \/ CommitVoid(r) \/ CommitCancel(r)
    \/ CommitTab(r) \/ CommitClose(r) \/ CommitPay(r) \/ CommitMove(r)

Handle(r) == Step(r) \/ Reject(r) \/ DeadlockAbort(r) \/ Commit(r)

Next == \E r \in Requests : Start(r) \/ Handle(r) \/ Fail(r)

\* While some request can go on, one does: the server does not stop, and
\* PostgreSQL grants free locks and looks for cycles (deadlock_timeout).
\* Clients send what they like and connections need not fail.
Spec == Init /\ [][Next]_vars /\ WF_vars(\E r \in Requests : Handle(r))

-----------------------------------------------------------------------------
(* Properties. *)

TypeOK ==
    /\ phase \in [Requests -> {"new", "running", "committed", "rolled_back"}]
    /\ pc \in [Requests -> Nat]
    /\ held \subseteq
         [by: Requests, res: {"shift", "customer", "position", "INV", "RET", "layers", "line", "sale"}
                             \X (Shifts \cup Positions \cup {0}),
          mode: {"U", "N", "K"}]
    /\ summed \in [Requests -> Drawer]
    /\ shift \in [Shifts -> [status: {"open", "closed"}, drawer: Drawer, expected: Drawer]]
    /\ owed \in Int
    /\ stock \in [Positions -> Int]
    /\ sale \in SaleRow
    /\ onLines \in [Positions -> Int]

\* Sales and tabs that race for the same units never take more than there is:
\* the balance is checked under the position locks (lock_stock_positions).
NoOversell == \A p \in Positions : stock[p] >= 0

\* Sales and tabs on account that race for the same customer never take the
\* balance over the limit (assert_credit_available).
WithinCreditLimit == CreditLimit > 0 => owed <= CreditLimit

\* What require_caller_shift lets into a drawer is in the expected cash of the
\* shift when it is closed, however the postings race with close_shift.
TillReconciles ==
    \A s \in Shifts :
        shift[s].status = "closed" => shift[s].expected.till = shift[s].drawer.till

\* Returns, voids, cancels and tab completions of one sale, in any race, leave
\* each of its lines with the units its final status says it has out of stock.
OneReversal ==
    \A p \in Positions :
        onLines[p] = IF sale.status \in {"partially_paid", "completed"}
                     THEN 1 - sale.returned[p] ELSE 0

\* The requests that do not follow the order shift, customer, positions,
\* layers: voids, cancels and tabs, and cash sales that name the customer.
OutOfOrder(r) ==
    \/ Body[r].op \in {"void", "cancel", "tab"}
    \/ Body[r].op = "sale" /\ Body[r].named /\ Body[r].credit = 0

\* Requests that follow the lock order never wait for each other in a cycle.
LockOrderSuffices == \A w \in Cycles : \E i \in DOMAIN w : OutOfOrder(w[i])

\* "The FOR UPDATE lock serializes postings with a concurrent close of the
\* shift": a closed shift expects what its drawer has received and paid out.
ClosedShiftReconciles ==
    \A s \in Shifts :
        shift[s].status = "closed" => shift[s].expected = shift[s].drawer

\* Every request the server takes up ends, whatever the others do: a rollback
\* or a commit frees what it had locked, and no cycle of waiting stays.
EveryRequestEnds == []<>(Running = {})
=============================================================================
