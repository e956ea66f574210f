---------------------------- MODULE StockLedger ----------------------------
(***************************************************************************)
(* The stock ledger of one product: FIFO cost layers (table                *)
(* purchase_lines), stock movements, sales, tabs, returns, adjustments,    *)
(* waste, production, purchase receipts and transfers between branches.    *)
(*                                                                         *)
(* Every action is one committed transaction of a service.  The services   *)
(* serialise the transactions of one stock position (advisory locks of     *)
(* lock_stock_positions, row locks on layers and sale lines); module       *)
(* Checkout studies that interleaving.                                     *)
(*                                                                         *)
(* Abstractions.  One product and one line per document: the services treat *)
(* each position on its own, so products do not interact here.  Costs and   *)
(* prices are left out.  A stock movement row is kept as what the code      *)
(* reads of it: its contribution to the balance of its layer (moved) or of *)
(* its branch when it names no layer (loose), and, for a sale line, the     *)
(* quantity taken from each layer (trace) and from none (untraced).         *)
(***************************************************************************)
EXTENDS Integers, FiniteSets, Sequences, Functions

CONSTANTS
    Branches,       \* branches of the business
    NoBranch,       \* branch of a layer row that does not exist yet
    Sales,          \* identities of the sales and tabs
    Transfers,      \* identities of the stock transfers
    MaxLayers,      \* bound: rows of purchase_lines
    MaxQty,         \* bound: quantity of one document line
    MaxShort,       \* bound: units a branch may be sold short
    MaxAge,         \* bound: distinct created_at values of layers
    AllowNegative,  \* business setting allow_negative_stock
    AllowNegativeOnSync,  \* server setting allow_negative_stock_on_sync
    CounterKinds,   \* sale_type values clients send to POST /sales
    MaxReturns,     \* bound: linked returns of one sale line
    MaxCancels      \* bound: cancel requests served for one sale

LayerIds == 1..MaxLayers
Ages == 1..MaxAge
Quantities == 1..MaxQty
SaleStatuses ==
    {"none", "held", "draft", "partially_paid", "completed", "cancelled", "voided"}

ASSUME StockAssumption ==
    /\ MaxLayers \in Nat /\ MaxQty \in Nat /\ MaxShort \in Nat /\ MaxAge \in Nat
    /\ MaxReturns \in Nat /\ MaxCancels \in Nat
    /\ AllowNegative \in BOOLEAN /\ AllowNegativeOnSync \in BOOLEAN
    /\ CounterKinds \subseteq {"pos", "dine_in"}
    /\ NoBranch \notin Branches
    /\ IsFiniteSet(Branches) /\ IsFiniteSet(Sales) /\ IsFiniteSet(Transfers)

VARIABLES
    nLayers,        \* number of purchase_lines rows
    layerBranch,    \* PurchaseLine.branch_id
    layerAge,       \* PurchaseLine.created_at
    orderedQty,     \* PurchaseLine.ordered_qty (> received only on an open order)
    receivedQty,    \* PurchaseLine.received_qty
    qtyRemaining,   \* PurchaseLine.qty_remaining
    moved,          \* per layer: sum of the movements that name the layer
    loose,          \* per branch: sum of the movements that name no layer
    sale,           \* the sales with their line
    transfer        \* the stock transfers with their line

layerVars == <<nLayers, layerBranch, layerAge, orderedQty, receivedQty,
               qtyRemaining, moved>>
vars == <<nLayers, layerBranch, layerAge, orderedQty, receivedQty,
          qtyRemaining, moved, loose, sale, transfer>>

NoTrace == [l \in LayerIds |-> 0]

\* A sale or tab with its line.  returned: units of linked returns; returns: how
\* many; hasReturnLines: some return names the sale; restored: units that
\* sale_return movements put back for the line; cancels: cancels served.
SaleRow ==
    [status: SaleStatuses, kind: {"pos", "dine_in"}, offline: BOOLEAN,
     branch: Branches \cup {NoBranch}, qty: Nat,
     trace: [LayerIds -> Nat], untraced: Nat, returned: Nat, returns: Nat,
     hasReturnLines: BOOLEAN, restored: Nat, cancels: Nat]

NoSale ==
    [status |-> "none", kind |-> "pos", offline |-> FALSE, branch |-> NoBranch, qty |-> 0,
     trace |-> NoTrace, untraced |-> 0, returned |-> 0, returns |-> 0,
     hasReturnLines |-> FALSE, restored |-> 0, cancels |-> 0]

\* A transfer: slices are the quantities of its transfer_out movements, in
\* movement_sequence order.
TransferRow ==
    [status: {"none", "in_transit", "received"},
     source: Branches \cup {NoBranch}, dest: Branches \cup {NoBranch},
     slices: Seq(Nat)]

NoTransfer ==
    [status |-> "none", source |-> NoBranch, dest |-> NoBranch,
     slices |-> <<>>]

TypeOK ==
    /\ nLayers \in 0..MaxLayers
    /\ layerBranch \in [LayerIds -> Branches \cup {NoBranch}]
    /\ layerAge \in [LayerIds -> Ages \cup {0}]
    /\ orderedQty \in [LayerIds -> Nat]
    /\ receivedQty \in [LayerIds -> Nat]
    /\ qtyRemaining \in [LayerIds -> Nat]
    /\ moved \in [LayerIds -> Int]
    /\ loose \in [Branches -> Int]
    /\ sale \in [Sales -> SaleRow]
    /\ transfer \in [Transfers -> TransferRow]

Init ==
    /\ nLayers = 0
    /\ layerBranch = [l \in LayerIds |-> NoBranch]
    /\ layerAge = [l \in LayerIds |-> 0]
    /\ orderedQty = [l \in LayerIds |-> 0]
    /\ receivedQty = [l \in LayerIds |-> 0]
    /\ qtyRemaining = [l \in LayerIds |-> 0]
    /\ moved = [l \in LayerIds |-> 0]
    /\ loose = [b \in Branches |-> 0]
    /\ sale = [s \in Sales |-> NoSale]
    /\ transfer = [t \in Transfers |-> NoTransfer]

-----------------------------------------------------------------------------
(* Arithmetic of quantities. *)

Min2(a, b) == IF a < b THEN a ELSE b

\* a - b, or 0 where b exceeds a.
Monus(a, b) == IF b \in 0..a THEN a - b ELSE 0

-----------------------------------------------------------------------------
(* FIFO consumption and LIFO restoration (fifo_service). *)

LayersAt(b) == {l \in LayerIds : layerBranch[l] = b}

\* order_by(created_at, id)
Older(k, l) == layerAge[k] < layerAge[l] \/ (layerAge[k] = layerAge[l] /\ k < l)

\* Mutants: the loop walks the layers newest first; the loop takes the whole
\* demand from every layer it meets.
TakeNewestFirst(b, q, l) ==
    IF layerBranch[l] # b THEN 0
    ELSE Min2(qtyRemaining[l],
              Monus(q, SumFunctionOnSet(qtyRemaining,
                                        {k \in LayersAt(b) : Older(l, k)})))

TakeUnbounded(b, q, l) ==
    IF layerBranch[l] # b \/ \E k \in LayersAt(b) : Older(k, l) THEN 0 ELSE q

\* consume_fifo_layers: what the loop takes from layer l when it asks branch b
\* for q units.  A layer gives what the older layers left unserved.
Take(b, q, l) ==
    IF layerBranch[l] # b THEN 0
    ELSE Min2(qtyRemaining[l],
              Monus(q, SumFunctionOnSet(qtyRemaining,
                                        {k \in LayersAt(b) : Older(k, l)})))

\* The quantity no layer covers: the fallback slice of allocate_sale_line_fifo.
Short(b, q) == Monus(q, SumFunctionOnSet(qtyRemaining, LayersAt(b)))

\* get_stock_balance: the sum of the branch's movements.
StockBalance(b) == SumFunctionOnSet(moved, LayersAt(b)) + loose[b]

\* plan_lifo_restoration: newest consumed layer first.
LifoPlan(trace, q, l) ==
    Min2(trace[l],
         Monus(q, SumFunctionOnSet(trace, {k \in LayerIds : Older(l, k)})))

TracedTotal(trace) == SumFunction(trace)

\* min(remaining, traced_total): the part of q that goes back to known layers.
TracedPart(line, q) == q - Monus(q, TracedTotal(line.trace))

\* restore_sale_line_inventory: units of the line that go back into a layer of
\* their own, because the sale had taken them from no layer.
FreshQty(line, q) ==
    LET traced == TracedTotal(line.trace)
        untraced == IF traced + line.untraced = line.qty THEN line.untraced
                    ELSE Monus(line.qty, traced)
    IN  IF traced = 0 THEN q ELSE Min2(Monus(q, traced), untraced)

\* create_fifo_layer and its movement: n rows whose quantities are given by qs.
AddLayers(b, age, n, qs) ==
    LET new == (nLayers + 1)..(nLayers + n)
        put(f, v) == [l \in LayerIds |-> IF l \in new THEN v ELSE f[l]]
        fill(f) == [l \in LayerIds |-> IF l \in new THEN qs[l - nLayers] ELSE f[l]]
    IN  /\ nLayers + n <= MaxLayers
        /\ nLayers' = nLayers + n
        /\ layerBranch' = put(layerBranch, b)
        /\ layerAge' = put(layerAge, age)
        /\ orderedQty' = fill(orderedQty)
        /\ receivedQty' = fill(receivedQty)
        /\ qtyRemaining' = fill(qtyRemaining)
        /\ moved' = fill(moved)

One(q) == <<q>>

\* consume_to_movements and create_sale_line_stock_movements: q units leave b.
Consume(b, q) ==
    /\ loose[b] - Short(b, q) >= -MaxShort
    /\ qtyRemaining' = [l \in LayerIds |-> qtyRemaining[l] - Take(b, q, l)]
    /\ moved' = [l \in LayerIds |-> moved[l] - Take(b, q, l)]
    /\ loose' = [loose EXCEPT ![b] = @ - Short(b, q)]
    /\ UNCHANGED <<nLayers, layerBranch, layerAge, orderedQty, receivedQty>>

\* Mutant: restore_fifo_layers without its cap.
CappedNever(l, q) == qtyRemaining[l] + q

\* restore_fifo_layers: the layer gets its units back, capped at received_qty.
Capped(l, q) == IF q = 0 THEN qtyRemaining[l]
                ELSE Min2(qtyRemaining[l] + q, receivedQty[l])

\* restore_sale_line_inventory: q units of sale s go back to its branch.
Restore(s, q, age) ==
    LET line == sale[s]
        plan(l) == LifoPlan(line.trace, TracedPart(line, q), l)
        fresh == FreshQty(line, q)
        top == nLayers + 1
        new(l) == fresh > 0 /\ l = top
    IN  /\ fresh > 0 => top <= MaxLayers
        /\ nLayers' = IF fresh > 0 THEN top ELSE nLayers
        /\ layerBranch' = [l \in LayerIds |-> IF new(l) THEN line.branch ELSE layerBranch[l]]
        /\ layerAge' = [l \in LayerIds |-> IF new(l) THEN age ELSE layerAge[l]]
        /\ orderedQty' = [l \in LayerIds |-> IF new(l) THEN fresh ELSE orderedQty[l]]
        /\ receivedQty' = [l \in LayerIds |-> IF new(l) THEN fresh ELSE receivedQty[l]]
        /\ qtyRemaining' = [l \in LayerIds |-> IF new(l) THEN fresh ELSE Capped(l, plan(l))]
        /\ moved' = [l \in LayerIds |-> IF new(l) THEN fresh ELSE moved[l] + plan(l)]
        /\ UNCHANGED loose

\* Units that Restore puts back: the slices of the plan and the fresh layer.
RestoredQty(line, q) ==
    IF TracedTotal(line.trace) = 0 THEN q
    ELSE TracedPart(line, q) + FreshQty(line, q)

-----------------------------------------------------------------------------
(* Stock coming in. *)

\* create_purchase_order: the order line is a row without goods yet, as old as
\* the order.
CreatePurchaseOrder(b, q) ==
    /\ nLayers < MaxLayers
    /\ nLayers' = nLayers + 1
    /\ layerBranch' = [layerBranch EXCEPT ![nLayers + 1] = b]
    /\ \E age \in Ages : layerAge' = [layerAge EXCEPT ![nLayers + 1] = age]
    /\ orderedQty' = [orderedQty EXCEPT ![nLayers + 1] = q]
    /\ UNCHANGED <<receivedQty, qtyRemaining, moved, loose, sale, transfer>>

\* create_purchase_receipt of a line that names no order line.
ReceiveDirect(b, q, age) ==
    /\ AddLayers(b, age, 1, One(q))
    /\ UNCHANGED <<loose, sale, transfer>>

\* create_purchase_receipt at the cost of order line l: the line is the layer.
\* Its age is set by the first receipt.
ReceiveOnOrder(l, q, age) ==
    /\ l <= nLayers
    /\ receivedQty[l] + q <= orderedQty[l]
    /\ receivedQty' = [receivedQty EXCEPT ![l] = @ + q]
    /\ qtyRemaining' = [qtyRemaining EXCEPT ![l] = @ + q]
    /\ moved' = [moved EXCEPT ![l] = @ + q]
    /\ layerAge' = IF receivedQty[l] = 0 THEN [layerAge EXCEPT ![l] = age] ELSE layerAge
    /\ UNCHANGED <<nLayers, layerBranch, orderedQty, loose, sale, transfer>>

\* Mutant: the order line is credited with the units the new layer holds.
ReceiveAtOtherCostTwice(l, q, age) ==
    /\ l <= nLayers
    /\ nLayers < MaxLayers
    /\ receivedQty[l] + q <= orderedQty[l]
    /\ nLayers' = nLayers + 1
    /\ layerBranch' = [layerBranch EXCEPT ![nLayers + 1] = layerBranch[l]]
    /\ layerAge' = [layerAge EXCEPT ![nLayers + 1] = age]
    /\ orderedQty' = [orderedQty EXCEPT ![nLayers + 1] = q]
    /\ receivedQty' = [receivedQty EXCEPT ![l] = @ + q, ![nLayers + 1] = q]
    /\ qtyRemaining' = [qtyRemaining EXCEPT ![l] = @ + q, ![nLayers + 1] = q]
    /\ moved' = [moved EXCEPT ![nLayers + 1] = q]
    /\ UNCHANGED <<loose, sale, transfer>>

\* create_purchase_receipt at another invoiced cost: order line l counts the
\* units as received, a layer of its own holds them.
ReceiveAtOtherCost(l, q, age) ==
    /\ l <= nLayers
    /\ nLayers < MaxLayers
    /\ receivedQty[l] + q <= orderedQty[l]
    /\ nLayers' = nLayers + 1
    /\ layerBranch' = [layerBranch EXCEPT ![nLayers + 1] = layerBranch[l]]
    /\ layerAge' = [layerAge EXCEPT ![nLayers + 1] = age]
    /\ orderedQty' = [orderedQty EXCEPT ![nLayers + 1] = q]
    /\ receivedQty' = [receivedQty EXCEPT ![l] = @ + q, ![nLayers + 1] = q]
    /\ qtyRemaining' = [qtyRemaining EXCEPT ![nLayers + 1] = q]
    /\ moved' = [moved EXCEPT ![nLayers + 1] = q]
    /\ UNCHANGED <<loose, sale, transfer>>

\* create_stock_adjustment with a positive qty_delta.
AdjustIn(b, q, age) ==
    /\ AddLayers(b, age, 1, One(q))
    /\ UNCHANGED <<loose, sale, transfer>>

\* complete_production_order, where the product is what was produced.
ProductionIn(b, q, age) ==
    /\ AddLayers(b, age, 1, One(q))
    /\ UNCHANGED <<loose, sale, transfer>>

-----------------------------------------------------------------------------
(* Stock going out. *)

\* Mutant: the balance check compares with 0 instead of the demand.
StockNotNegative(b, q) == AllowNegative \/ StockBalance(b) >= 0

\* check_sufficient_stock, skipped where the business allows negative stock.
StockAvailable(b, q) == AllowNegative \/ StockBalance(b) >= q

\* create_stock_adjustment with a negative qty_delta.
AdjustOut(b, q) ==
    /\ StockAvailable(b, q)
    /\ Consume(b, q)
    /\ UNCHANGED <<sale, transfer>>

\* create_waste_entry
CreateWasteEntry(b, q) ==
    /\ StockAvailable(b, q)
    /\ Consume(b, q)
    /\ UNCHANGED <<sale, transfer>>

\* complete_production_order, where the product is an ingredient
\* (_consume_ingredient_fifo).
ProductionOut(b, q) ==
    /\ StockAvailable(b, q)
    /\ Consume(b, q)
    /\ UNCHANGED <<sale, transfer>>

\* The slices of a dispatch: one per layer that gives, oldest first, then the
\* part no layer covers.
IsDispatch(b, q, slices) ==
    LET giving == {l \in LayerIds : Take(b, q, l) > 0}
        place(l) == 1 + Cardinality({k \in giving : Older(k, l)})
        last == Cardinality(giving) + (IF Short(b, q) > 0 THEN 1 ELSE 0)
    IN  /\ DOMAIN slices = 1..last
        /\ \A l \in giving : slices[place(l)] = Take(b, q, l)
        /\ Short(b, q) > 0 => slices[last] = Short(b, q)

\* create_stock_transfer: the goods leave the source; here the balance is
\* checked whatever allow_negative_stock says.
CreateStockTransfer(t, b, d, q) ==
    /\ transfer[t].status = "none"
    /\ b # d
    /\ StockBalance(b) >= q
    /\ Consume(b, q)
    /\ \E n \in 1..q : \E slices \in [1..n -> 1..q] :
        /\ IsDispatch(b, q, slices)
        /\ transfer' = [transfer EXCEPT ![t] =
             [status |-> "in_transit", source |-> b, dest |-> d, slices |-> slices]]
    /\ UNCHANGED sale

\* Mutant: receive_stock_transfer leaves the transfer in transit.
ReceiveStockTransferOpen(t, age) ==
    LET row == transfer[t]
    IN  /\ row.status = "in_transit"
        /\ \E n \in 1..MaxLayers :
             /\ DOMAIN row.slices = 1..n
             /\ AddLayers(row.dest, age, n, row.slices)
        /\ UNCHANGED <<loose, sale, transfer>>

\* receive_stock_transfer: one layer per dispatched slice, in the same order.
ReceiveStockTransfer(t, age) ==
    LET row == transfer[t]
    IN  /\ row.status = "in_transit"
        /\ \E n \in 1..MaxLayers :
             /\ DOMAIN row.slices = 1..n
             /\ AddLayers(row.dest, age, n, row.slices)
        /\ transfer' = [transfer EXCEPT ![t].status = "received"]
        /\ UNCHANGED <<loose, sale>>

-----------------------------------------------------------------------------
(* Sales, tabs and returns. *)

\* determine_sale_status: by how much of the total was paid.
PaidStatuses == {"draft", "partially_paid", "completed"}

\* The sale that takes q units from b.
SoldRow(b, q, kind, status, offline) ==
    [NoSale EXCEPT !.status = status, !.kind = kind, !.offline = offline,
                   !.branch = b, !.qty = q,
                   !.trace = [l \in LayerIds |-> Take(b, q, l)],
                   !.untraced = Short(b, q)]

\* create_sale: stock leaves whatever was paid.
CreateSale(s, b, q, kind, status) ==
    /\ sale[s].status = "none"
    /\ StockAvailable(b, q)
    /\ Consume(b, q)
    /\ sale' = [sale EXCEPT ![s] = SoldRow(b, q, kind, status, FALSE)]
    /\ UNCHANGED transfer

\* _h_sale_create: the goods have left the shop, so a sale replayed from an
\* offline device may oversell where the server allows it.
CreateOfflineSale(s, b, q, kind, status) ==
    /\ sale[s].status = "none"
    /\ AllowNegativeOnSync \/ StockBalance(b) >= q
    /\ Consume(b, q)
    /\ sale' = [sale EXCEPT ![s] = SoldRow(b, q, kind, status, TRUE)]
    /\ UNCHANGED transfer

\* open_tab and add_lines_to_tab: no stock moves until the tab is paid.
OpenTab(s, b, q) ==
    /\ sale[s].status = "none"
    /\ sale' = [sale EXCEPT ![s] =
         [NoSale EXCEPT !.status = "held", !.kind = "dine_in", !.branch = b, !.qty = q]]
    /\ UNCHANGED <<layerVars, loose, transfer>>

ActiveTabStatuses == {"held", "draft", "partially_paid"}

\* complete_tab: payments cover the total, the line is consumed.
CompleteTab(s) ==
    LET row == sale[s]
    IN  /\ row.kind = "dine_in"
        /\ row.status \in ActiveTabStatuses
        /\ StockAvailable(row.branch, row.qty)
        /\ Consume(row.branch, row.qty)
        /\ sale' = [sale EXCEPT
             ![s].status = "completed",
             ![s].trace = [l \in LayerIds |-> row.trace[l] + Take(row.branch, row.qty, l)],
             ![s].untraced = row.untraced + Short(row.branch, row.qty)]
        /\ UNCHANGED transfer

\* Mutant: void_sale does not look for return lines.
VoidReturnedSale(s, age) ==
    LET row == sale[s]
    IN  /\ row.status = "completed"
        /\ Restore(s, row.qty, age)
        /\ sale' = [sale EXCEPT ![s].status = "voided",
                                ![s].restored = row.restored + RestoredQty(row, row.qty)]
        /\ UNCHANGED transfer

\* void_sale: all of the line goes back.
VoidSale(s, age) ==
    LET row == sale[s]
    IN  /\ row.status = "completed"
        /\ ~row.hasReturnLines
        /\ Restore(s, row.qty, age)
        /\ sale' = [sale EXCEPT ![s].status = "voided",
                                ![s].restored = row.restored + RestoredQty(row, row.qty)]
        /\ UNCHANGED transfer

\* cancel_sale of an open dine-in tab: nothing was consumed, nothing goes back.
CancelOpenTab(s) ==
    LET row == sale[s]
    IN  /\ row.kind = "dine_in"
        /\ row.status \in ActiveTabStatuses
        /\ ~row.hasReturnLines
        /\ row.cancels < MaxCancels
        /\ sale' = [sale EXCEPT ![s].status = "cancelled", ![s].cancels = row.cancels + 1]
        /\ UNCHANGED <<layerVars, loose, transfer>>

\* cancel_sale otherwise: only completed and voided sales are refused.
CancelSale(s, age) ==
    LET row == sale[s]
    IN  /\ row.status \notin {"none", "completed", "voided"}
        /\ ~(row.kind = "dine_in" /\ row.status \in ActiveTabStatuses)
        /\ ~row.hasReturnLines
        /\ row.cancels < MaxCancels
        /\ Restore(s, row.qty, age)
        /\ sale' = [sale EXCEPT ![s].status = "cancelled", ![s].cancels = row.cancels + 1,
                                ![s].restored = row.restored + RestoredQty(row, row.qty)]
        /\ UNCHANGED transfer

\* create_sale_return refuses these sales.
Returnable(row) ==
    row.status \notin {"none", "cancelled", "voided", "draft", "held"}

\* create_sale_return of q units of a sale line.
ReturnLinked(s, q, age) ==
    LET row == sale[s]
    IN  /\ Returnable(row)
        /\ row.returned + q <= row.qty
        /\ row.returns < MaxReturns
        /\ Restore(s, q, age)
        /\ sale' = [sale EXCEPT
             ![s].returned = row.returned + q, ![s].returns = row.returns + 1, ![s].hasReturnLines = TRUE,
             ![s].restored = row.restored + RestoredQty(row, q)]
        /\ UNCHANGED transfer

\* create_sale_return of a line that names no sale line: a layer of its own.
ReturnUnlinked(b, q, age) ==
    /\ AddLayers(b, age, 1, One(q))
    /\ UNCHANGED <<loose, sale, transfer>>

\* The same, for a return that names the sale but not its line.
ReturnNamingSale(s, q, age) ==
    /\ Returnable(sale[s])
    /\ AddLayers(sale[s].branch, age, 1, One(q))
    /\ sale' = [sale EXCEPT ![s].hasReturnLines = TRUE]
    /\ UNCHANGED <<loose, transfer>>

-----------------------------------------------------------------------------
StockIn ==
    \E q \in Quantities, age \in Ages :
        \/ \E b \in Branches :
             \/ ReceiveDirect(b, q, age)
             \/ AdjustIn(b, q, age)
             \/ ProductionIn(b, q, age)
             \/ ReturnUnlinked(b, q, age)
        \/ \E l \in LayerIds : ReceiveOnOrder(l, q, age) \/ ReceiveAtOtherCost(l, q, age)

StockOut ==
    \E b \in Branches, q \in Quantities :
        \/ CreatePurchaseOrder(b, q) \/ AdjustOut(b, q)
        \/ CreateWasteEntry(b, q) \/ ProductionOut(b, q)

TransferStep ==
    \E t \in Transfers :
        \/ \E b, d \in Branches, q \in Quantities : CreateStockTransfer(t, b, d, q)
        \/ \E age \in Ages : ReceiveStockTransfer(t, age)

SaleStep ==
    \E s \in Sales :
        \/ \E b \in Branches, q \in Quantities :
             \/ \E kind \in CounterKinds, status \in PaidStatuses :
                  \/ CreateSale(s, b, q, kind, status)
                  \/ CreateOfflineSale(s, b, q, kind, status)
             \/ OpenTab(s, b, q)
        \/ CompleteTab(s)
        \/ CancelOpenTab(s)
        \/ \E age \in Ages : VoidSale(s, age) \/ CancelSale(s, age)
        \/ \E q \in Quantities, age \in Ages :
             ReturnLinked(s, q, age) \/ ReturnNamingSale(s, q, age)

Next == StockIn \/ StockOut \/ TransferStep \/ SaleStep

Spec == Init /\ [][Next]_vars

-----------------------------------------------------------------------------
(* Properties. *)

\* The constraint chk_purchase_lines_remaining that every write of
\* fifo_service must respect, and the ledger side of it: a layer never claims
\* more units than its movements put there, whatever the order of sales,
\* returns, voids, repeated cancels and receipts at other costs.
LayersNeverOverstated ==
    \A l \in LayerIds : qtyRemaining[l] <= receivedQty[l] /\ qtyRemaining[l] <= moved[l]

\* "Stock and layers stay in step" (return_service, _restore_untraced): each
\* layer holds exactly the units its movements say.
LayersInStep == \A l \in LayerIds : qtyRemaining[l] = moved[l]

\* Where the business does not allow negative stock, the only units ever booked
\* without a layer, at a fallback cost, are those of oversold offline sales:
\* after them a balance check still keeps every other document within the layers.
CostAlwaysTraced ==
    AllowNegative \/
    \A b \in Branches :
        loose[b] = - SumFunction([s \in Sales |->
            IF sale[s].offline /\ sale[s].branch = b THEN sale[s].untraced ELSE 0])

\* The stock effect of a sale matches its status: a live sale keeps what it
\* sold less its returns, a cancelled or voided one keeps nothing, an open tab
\* has not touched stock.
SaleStockMatchesStatus ==
    \A s \in Sales :
        LET row == sale[s]
            net == TracedTotal(row.trace) + row.untraced - row.restored
        IN  CASE row.status \in {"none", "held", "cancelled", "voided"} -> net = 0
              [] OTHER -> net = row.qty - row.returned

\* FIFO: a consumption (fifo_service orders by age only) that leaves units in
\* a layer takes none from a younger layer of the branch.
OldestLayerFirst ==
    [][\A k, l \in LayerIds :
         (/\ layerBranch[k] = layerBranch[l] /\ Older(k, l)
          /\ qtyRemaining'[l] < qtyRemaining[l])
         => qtyRemaining'[k] = 0]_vars

InTransit ==
    SumFunction([t \in Transfers |->
        IF transfer[t].status = "in_transit" THEN SumFunction(transfer[t].slices) ELSE 0])
TotalStock == SumFunction([b \in Branches |-> StockBalance(b)])

\* Dispatching and receiving a transfer neither create nor lose units: what
\* left the source is in transit until one receipt credits the destination.
TransferConserves ==
    [][TransferStep => TotalStock' + InTransit' = TotalStock + InTransit]_vars
=============================================================================
