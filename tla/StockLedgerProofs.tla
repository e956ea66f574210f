------------------------- MODULE StockLedgerProofs -------------------------
(* The properties of StockLedger for every number of branches, sales,        *)
(* transfers, layers and units: the bounds of the layers, the order of age,  *)
(* what transfers conserve, and, where a line is restored once, the stock of *)
(* a sale and the agreement of layers with their movements.                  *)
EXTENDS StockLedger, Sums

\* The inductive invariant: the bound needs the types of the quantities.
IInv == TypeOK /\ LayersNeverOverstated

-----------------------------------------------------------------------------
(* What the helpers return. *)

\* What is left of a demand is between nothing and the demand.
LEMMA MonusType ==
    ASSUME NEW a \in Nat, NEW b
    PROVE  Monus(a, b) \in 0..a
  BY DEF Monus

\* The smaller of two quantities is a quantity, and exceeds neither.
LEMMA Min2Type ==
    ASSUME NEW a \in Nat, NEW b \in Nat
    PROVE  Min2(a, b) \in Nat /\ Min2(a, b) <= a /\ Min2(a, b) <= b
  BY DEF Min2

\* A layer never gives more than it has (consume_fifo_layers).
LEMMA TakeBound ==
    ASSUME TypeOK, NEW b, NEW q \in Nat, NEW l \in LayerIds
    PROVE  Take(b, q, l) \in Nat /\ Take(b, q, l) <= qtyRemaining[l]
  <1>1. qtyRemaining[l] \in Nat
    BY DEF TypeOK
  <1> DEFINE m == Monus(q, SumFunctionOnSet(qtyRemaining,
                                            {k \in LayersAt(b) : Older(k, l)}))
  <1>2. m \in Nat
    BY MonusType
  <1>3. Min2(qtyRemaining[l], m) \in Nat /\ Min2(qtyRemaining[l], m) <= qtyRemaining[l]
    BY <1>1, <1>2, Min2Type
  <1> QED
    BY <1>1, <1>3 DEF Take

\* What no layer covers is a quantity (allocate_sale_line_fifo).
LEMMA ShortType ==
    ASSUME NEW b, NEW q \in Nat
    PROVE  Short(b, q) \in Nat
  BY MonusType DEF Short

\* What goes back to a layer is a quantity (plan_lifo_restoration).
LEMMA LifoPlanType ==
    ASSUME NEW trace \in [LayerIds -> Nat], NEW q \in Nat, NEW l \in LayerIds
    PROVE  LifoPlan(trace, q, l) \in Nat
  <1> DEFINE m == Monus(q, SumFunctionOnSet(trace, {k \in LayerIds : Older(l, k)}))
  <1>1. m \in Nat
    BY MonusType
  <1>2. Min2(trace[l], m) \in Nat
    BY <1>1, Min2Type
  <1> QED
    BY <1>2 DEF LifoPlan

\* The part of a restoration that known layers get is a quantity.
LEMMA TracedPartType ==
    ASSUME NEW line, NEW q \in Nat
    PROVE  TracedPart(line, q) \in Nat
  BY MonusType DEF TracedPart

\* What goes back into a layer of its own is a quantity (_restore_untraced).
LEMMA FreshQtyType ==
    ASSUME NEW line \in SaleRow, NEW q \in Nat
    PROVE  FreshQty(line, q) \in Nat
  <1> DEFINE traced == TracedTotal(line.trace)
             untraced == IF traced + line.untraced = line.qty THEN line.untraced
                         ELSE Monus(line.qty, traced)
  <1>1. line.qty \in Nat /\ line.untraced \in Nat
    BY DEF SaleRow
  <1>2. Monus(q, traced) \in Nat /\ Monus(line.qty, traced) \in Nat
    BY <1>1, MonusType
  <1>3. untraced \in Nat
    BY <1>1, <1>2
  <1>4. Min2(Monus(q, traced), untraced) \in Nat
    BY <1>2, <1>3, Min2Type
  <1>5. FreshQty(line, q) = IF traced = 0 THEN q ELSE Min2(Monus(q, traced), untraced)
    BY DEF FreshQty
  <1> HIDE DEF traced, untraced
  <1> QED
    BY <1>4, <1>5

\* All a restoration puts back is a quantity.
LEMMA RestoredQtyType ==
    ASSUME NEW line \in SaleRow, NEW q \in Nat
    PROVE  RestoredQty(line, q) \in Nat
  BY TracedPartType, FreshQtyType DEF RestoredQty

\* A capped restoration adds at most what it was asked to and stays within
\* received_qty (restore_fifo_layers).
LEMMA CappedBound ==
    ASSUME IInv, NEW l \in LayerIds, NEW q \in Nat
    PROVE  /\ Capped(l, q) \in Nat
           /\ Capped(l, q) <= receivedQty[l]
           /\ Capped(l, q) <= qtyRemaining[l] + q
  <1>1. qtyRemaining[l] \in Nat /\ receivedQty[l] \in Nat /\ qtyRemaining[l] <= receivedQty[l]
    BY DEF IInv, TypeOK, LayersNeverOverstated
  <1> QED
    BY <1>1 DEF Capped, Min2

-----------------------------------------------------------------------------
(* The three ways in which the layers change keep their types and bounds. *)

LayersOK ==
    /\ nLayers \in 0..MaxLayers
    /\ layerBranch \in [LayerIds -> Branches \cup {NoBranch}]
    /\ layerAge \in [LayerIds -> Ages \cup {0}]
    /\ orderedQty \in [LayerIds -> Nat]
    /\ receivedQty \in [LayerIds -> Nat]
    /\ qtyRemaining \in [LayerIds -> Nat]
    /\ moved \in [LayerIds -> Int]
    /\ LayersNeverOverstated

DocumentsOK ==
    /\ loose \in [Branches -> Int]
    /\ sale \in [Sales -> SaleRow]
    /\ transfer \in [Transfers -> TransferRow]

\* The invariant speaks of the layers and of the documents.
LEMMA IInvParts == IInv <=> LayersOK /\ DocumentsOK
  BY DEF IInv, TypeOK, LayersOK, DocumentsOK

\* create_fifo_layer
LEMMA AddLayersOK ==
    ASSUME IInv, NEW b \in Branches \cup {NoBranch}, NEW age \in Ages, NEW n \in Nat,
           NEW qs, \A i \in 1..n : qs[i] \in Nat, AddLayers(b, age, n, qs)
    PROVE  LayersOK'
  <1> USE StockAssumption
  <1>1. \A l \in LayerIds : l \in (nLayers + 1)..(nLayers + n) => qs[l - nLayers] \in Nat
    BY DEF IInv, TypeOK, LayerIds
  <1>2. nLayers' \in 0..MaxLayers
    BY DEF AddLayers, IInv, TypeOK
  <1>3. LayersNeverOverstated'
    BY <1>1 DEF AddLayers, IInv, TypeOK, LayersNeverOverstated
  <1> QED
    BY <1>1, <1>2, <1>3 DEF AddLayers, IInv, TypeOK, LayersOK

\* consume_to_movements: what leaves a layer leaves its movements too.
LEMMA ConsumeOK ==
    ASSUME IInv, NEW b, NEW q \in Nat, Consume(b, q)
    PROVE  LayersOK' /\ loose' \in [Branches -> Int]
  <1>1. \A l \in LayerIds : Take(b, q, l) \in Nat /\ Take(b, q, l) <= qtyRemaining[l]
    BY TakeBound DEF IInv
  <1>2. Short(b, q) \in Nat
    BY ShortType
  <1>3. loose' \in [Branches -> Int]
    <2>1. loose \in [Branches -> Int]
      BY DEF IInv, TypeOK
    <2>2. loose' = [loose EXCEPT ![b] = loose[b] - Short(b, q)]
      BY DEF Consume
    <2>3. CASE b \in Branches
      BY <1>2, <2>1, <2>2, <2>3
    <2>4. CASE b \notin Branches
      BY <2>1, <2>2, <2>4
    <2> QED
      BY <2>3, <2>4
  <1>4. qtyRemaining' \in [LayerIds -> Nat] /\ moved' \in [LayerIds -> Int]
    BY <1>1 DEF Consume, IInv, TypeOK
  <1>5. LayersNeverOverstated'
    BY <1>1 DEF Consume, IInv, TypeOK, LayersNeverOverstated
  <1> QED
    BY <1>3, <1>4, <1>5 DEF Consume, IInv, TypeOK, LayersOK

\* restore_sale_line_inventory: the cap can only lose units, never invent them.
LEMMA RestoreOK ==
    ASSUME IInv, NEW s \in Sales, NEW q \in Nat, NEW age \in Ages, Restore(s, q, age)
    PROVE  LayersOK' /\ loose' \in [Branches -> Int]
  <1> DEFINE line == sale[s]
             plan(l) == LifoPlan(line.trace, TracedPart(line, q), l)
             fresh == FreshQty(line, q)
  <1>1. line \in SaleRow
    BY DEF IInv, TypeOK
  <1>2. fresh \in Nat
    BY <1>1, FreshQtyType
  <1>3. ASSUME NEW l \in LayerIds
        PROVE  plan(l) \in Nat
    <2>1. line.trace \in [LayerIds -> Nat]
      BY <1>1 DEF SaleRow
    <2> QED
      BY <2>1, TracedPartType, LifoPlanType
  <1>4. ASSUME NEW l \in LayerIds
        PROVE  /\ Capped(l, plan(l)) \in Nat
               /\ Capped(l, plan(l)) <= receivedQty[l]
               /\ Capped(l, plan(l)) <= qtyRemaining[l] + plan(l)
    BY <1>3, CappedBound
  <1>5. line.branch \in Branches \cup {NoBranch}
    BY <1>1 DEF SaleRow
  <1>6. /\ fresh > 0 => nLayers + 1 <= MaxLayers
        /\ nLayers' = IF fresh > 0 THEN nLayers + 1 ELSE nLayers
        /\ layerBranch' = [l \in LayerIds |-> IF fresh > 0 /\ l = nLayers + 1
                                              THEN line.branch ELSE layerBranch[l]]
        /\ layerAge' = [l \in LayerIds |-> IF fresh > 0 /\ l = nLayers + 1
                                           THEN age ELSE layerAge[l]]
        /\ orderedQty' = [l \in LayerIds |-> IF fresh > 0 /\ l = nLayers + 1
                                             THEN fresh ELSE orderedQty[l]]
        /\ receivedQty' = [l \in LayerIds |-> IF fresh > 0 /\ l = nLayers + 1
                                              THEN fresh ELSE receivedQty[l]]
        /\ qtyRemaining' = [l \in LayerIds |-> IF fresh > 0 /\ l = nLayers + 1
                                               THEN fresh ELSE Capped(l, plan(l))]
        /\ moved' = [l \in LayerIds |-> IF fresh > 0 /\ l = nLayers + 1
                                        THEN fresh ELSE moved[l] + plan(l)]
        /\ loose' = loose
    BY DEF Restore
  <1> HIDE DEF plan, fresh, line
  <1>7. nLayers' \in 0..MaxLayers
    BY <1>2, <1>6, StockAssumption DEF IInv, TypeOK
  <1>8. /\ layerBranch' \in [LayerIds -> Branches \cup {NoBranch}]
        /\ layerAge' \in [LayerIds -> Ages \cup {0}]
        /\ orderedQty' \in [LayerIds -> Nat]
        /\ receivedQty' \in [LayerIds -> Nat]
    BY <1>2, <1>5, <1>6 DEF IInv, TypeOK
  <1>9. qtyRemaining' \in [LayerIds -> Nat] /\ moved' \in [LayerIds -> Int]
    BY <1>2, <1>3, <1>4, <1>6 DEF IInv, TypeOK
  <1>10. LayersNeverOverstated'
    <2> SUFFICES ASSUME NEW l \in LayerIds
                 PROVE  qtyRemaining'[l] <= receivedQty'[l] /\ qtyRemaining'[l] <= moved'[l]
      BY DEF LayersNeverOverstated
    <2>1. qtyRemaining[l] \in Nat /\ moved[l] \in Int /\ qtyRemaining[l] <= moved[l]
      BY DEF IInv, TypeOK, LayersNeverOverstated
    <2>2. plan(l) \in Nat
      BY <1>3
    <2>3. /\ Capped(l, plan(l)) \in Nat
          /\ Capped(l, plan(l)) <= receivedQty[l]
          /\ Capped(l, plan(l)) <= qtyRemaining[l] + plan(l)
      BY <1>4
    <2>4. CASE fresh > 0 /\ l = nLayers + 1
      BY <2>4, <1>2, <1>6
    <2>5. CASE ~(fresh > 0 /\ l = nLayers + 1)
      <3>1. /\ qtyRemaining'[l] = Capped(l, plan(l))
            /\ receivedQty'[l] = receivedQty[l]
            /\ moved'[l] = moved[l] + plan(l)
        BY <2>5, <1>6
      <3> QED
        BY <3>1, <2>1, <2>2, <2>3
    <2> QED
      BY <2>4, <2>5
  <1>11. loose' \in [Branches -> Int]
    BY <1>6 DEF IInv, TypeOK
  <1> QED
    BY <1>7, <1>8, <1>9, <1>10, <1>11 DEF LayersOK

-----------------------------------------------------------------------------
(* One lemma per family of actions. *)

\* An empty ledger satisfies the invariant.
LEMMA InitOK == Init => IInv
  BY StockAssumption DEF Init, IInv, TypeOK, LayersNeverOverstated, SaleRow, NoSale,
     NoTrace, SaleStatuses, TransferRow, NoTransfer, LayerIds

\* Receipts, adjustments in, production and returns without a sale keep it.
LEMMA StockInOK ==
    ASSUME IInv, StockIn
    PROVE  IInv'
  <1> USE StockAssumption
  <1>p. PICK q \in Quantities, age \in Ages :
        \/ \E b \in Branches :
             \/ ReceiveDirect(b, q, age)
             \/ AdjustIn(b, q, age)
             \/ ProductionIn(b, q, age)
             \/ ReturnUnlinked(b, q, age)
        \/ \E l \in LayerIds : ReceiveOnOrder(l, q, age) \/ ReceiveAtOtherCost(l, q, age)
    BY DEF StockIn
  <1>0. q \in Nat
    BY DEF Quantities
  <1>1. ASSUME NEW b \in Branches,
               ReceiveDirect(b, q, age) \/ AdjustIn(b, q, age)
               \/ ProductionIn(b, q, age) \/ ReturnUnlinked(b, q, age)
        PROVE  IInv'
    <2>1. AddLayers(b, age, 1, One(q)) /\ UNCHANGED <<loose, sale, transfer>>
      BY <1>1 DEF ReceiveDirect, AdjustIn, ProductionIn, ReturnUnlinked
    <2>2. \A i \in 1..1 : One(q)[i] \in Nat
      BY <1>0 DEF One
    <2>3. LayersOK'
      BY <2>1, <2>2, AddLayersOK
    <2>4. DocumentsOK'
      BY <2>1, IInvParts DEF DocumentsOK
    <2> QED
      BY <2>3, <2>4, IInvParts DEF IInv, TypeOK, LayersOK, DocumentsOK
  <1>2. ASSUME NEW l \in LayerIds, ReceiveOnOrder(l, q, age)
        PROVE  IInv'
    <2>1. TypeOK'
      BY <1>0, <1>2 DEF ReceiveOnOrder, IInv, TypeOK
    <2>2. LayersNeverOverstated'
      BY <1>0, <1>2 DEF ReceiveOnOrder, IInv, TypeOK, LayersNeverOverstated
    <2> QED
      BY <2>1, <2>2 DEF IInv
  <1>3. ASSUME NEW l \in LayerIds, ReceiveAtOtherCost(l, q, age)
        PROVE  IInv'
    <2>1. nLayers + 1 \in LayerIds /\ l # nLayers + 1
      BY <1>3 DEF ReceiveAtOtherCost, IInv, TypeOK, LayerIds
    <2>2. TypeOK'
      BY <1>0, <1>3, <2>1 DEF ReceiveAtOtherCost, IInv, TypeOK
    <2>3. LayersNeverOverstated'
      BY <1>0, <1>3, <2>1 DEF ReceiveAtOtherCost, IInv, TypeOK, LayersNeverOverstated
    <2> QED
      BY <2>2, <2>3 DEF IInv
  <1> QED
    BY <1>p, <1>1, <1>2, <1>3

\* Orders, adjustments out, waste and ingredients keep it.
LEMMA StockOutOK ==
    ASSUME IInv, StockOut
    PROVE  IInv'
  <1> USE StockAssumption
  <1>p. PICK b \in Branches, q \in Quantities :
        \/ CreatePurchaseOrder(b, q) \/ AdjustOut(b, q)
        \/ CreateWasteEntry(b, q) \/ ProductionOut(b, q)
    BY DEF StockOut
  <1>0. q \in Nat
    BY DEF Quantities
  <1>1. CASE CreatePurchaseOrder(b, q)
    <2>1. nLayers + 1 \in LayerIds
      BY <1>1 DEF CreatePurchaseOrder, IInv, TypeOK, LayerIds
    <2> QED
      BY <1>0, <1>1, <2>1 DEF CreatePurchaseOrder, IInv, TypeOK, LayersNeverOverstated
  <1>2. CASE AdjustOut(b, q) \/ CreateWasteEntry(b, q) \/ ProductionOut(b, q)
    <2>1. Consume(b, q) /\ UNCHANGED <<sale, transfer>>
      BY <1>2 DEF AdjustOut, CreateWasteEntry, ProductionOut
    <2>2. LayersOK' /\ loose' \in [Branches -> Int]
      BY <1>0, <2>1, ConsumeOK
    <2> QED
      BY <2>1, <2>2 DEF IInv, TypeOK, LayersOK
  <1> QED
    BY <1>p, <1>1, <1>2

\* Dispatching and receiving a transfer keep it.
LEMMA TransferStepOK ==
    ASSUME IInv, TransferStep
    PROVE  IInv'
  <1> USE StockAssumption
  <1>p. PICK t \in Transfers :
        \/ \E b, d \in Branches, q \in Quantities : CreateStockTransfer(t, b, d, q)
        \/ \E age \in Ages : ReceiveStockTransfer(t, age)
    BY DEF TransferStep
  <1>1. ASSUME NEW b \in Branches, NEW d \in Branches, NEW q \in Quantities,
               CreateStockTransfer(t, b, d, q)
        PROVE  IInv'
    <2>0. q \in Nat
      BY DEF Quantities
    <2>1. Consume(b, q) /\ UNCHANGED sale
      BY <1>1 DEF CreateStockTransfer
    <2>2. LayersOK' /\ loose' \in [Branches -> Int]
      BY <2>0, <2>1, ConsumeOK
    <2>3. PICK n \in 1..q : \E slices \in [1..n -> 1..q] :
            transfer' = [transfer EXCEPT ![t] =
              [status |-> "in_transit", source |-> b, dest |-> d, slices |-> slices]]
      BY <1>1 DEF CreateStockTransfer
    <2>3a. PICK slices \in [1..n -> 1..q] :
            transfer' = [transfer EXCEPT ![t] =
              [status |-> "in_transit", source |-> b, dest |-> d, slices |-> slices]]
      BY <2>3
    <2>4. slices \in Seq(Nat)
      BY <2>0, <2>3a
    <2>5. transfer' \in [Transfers -> TransferRow]
      BY <2>3a, <2>4 DEF TransferRow, IInv, TypeOK
    <2> QED
      BY <2>1, <2>2, <2>5 DEF IInv, TypeOK, LayersOK
  <1>2. ASSUME NEW age \in Ages, ReceiveStockTransfer(t, age)
        PROVE  IInv'
    <2>1. transfer[t] \in TransferRow
      BY DEF IInv, TypeOK
    <2>2. PICK n \in 1..MaxLayers :
            /\ DOMAIN transfer[t].slices = 1..n
            /\ AddLayers(transfer[t].dest, age, n, transfer[t].slices)
      BY <1>2 DEF ReceiveStockTransfer
    <2>3. \A i \in 1..n : transfer[t].slices[i] \in Nat
      BY <2>1, <2>2 DEF TransferRow
    <2>4. transfer[t].dest \in Branches \cup {NoBranch}
      BY <2>1 DEF TransferRow
    <2>5. LayersOK'
      BY <2>2, <2>3, <2>4, AddLayersOK
    <2>6. transfer' \in [Transfers -> TransferRow] /\ UNCHANGED <<loose, sale>>
      BY <1>2, <2>1 DEF ReceiveStockTransfer, TransferRow, IInv, TypeOK
    <2> QED
      BY <2>5, <2>6 DEF IInv, TypeOK, LayersOK
  <1> QED
    BY <1>p, <1>1, <1>2

\* Sales, tabs, voids, cancels and returns keep it.
LEMMA SaleStepOK ==
    ASSUME IInv, SaleStep
    PROVE  IInv'
  <1> USE StockAssumption
  <1>p. PICK s \in Sales :
        \/ \E b \in Branches, q \in Quantities :
             \/ \E kind \in CounterKinds, status \in PaidStatuses :
                  \/ CreateSale(s, b, q, kind, status)
                  \/ CreateOfflineSale(s, b, q, kind, status)
             \/ OpenTab(s, b, q)
        \/ CompleteTab(s)
        \/ CancelOpenTab(s)
        \/ \E age \in Ages : VoidSale(s, age) \/ CancelSale(s, age)
        \/ \E q \in Quantities, age \in Ages :
             ReturnLinked(s, q, age) \/ ReturnNamingSale(s, q, age)
    BY DEF SaleStep
  <1>0. /\ sale[s] \in SaleRow
        /\ sale[s].qty \in Nat /\ sale[s].branch \in Branches \cup {NoBranch}
    BY DEF IInv, TypeOK, SaleRow
  <1>a. \A q \in Quantities : q \in Nat
    BY DEF Quantities
  <1>1. ASSUME NEW b \in Branches, NEW q \in Quantities, NEW kind \in CounterKinds,
               NEW status \in PaidStatuses,
               \/ CreateSale(s, b, q, kind, status)
               \/ CreateOfflineSale(s, b, q, kind, status)
        PROVE  IInv'
    <2>1. Consume(b, q) /\ UNCHANGED transfer
      BY <1>1 DEF CreateSale, CreateOfflineSale
    <2>1a. PICK offline \in BOOLEAN :
             sale' = [sale EXCEPT ![s] = SoldRow(b, q, kind, status, offline)]
      BY <1>1 DEF CreateSale, CreateOfflineSale
    <2>2. LayersOK' /\ loose' \in [Branches -> Int]
      BY <1>a, <2>1, ConsumeOK
    <2>3. [l \in LayerIds |-> Take(b, q, l)] \in [LayerIds -> Nat]
      BY <1>a, TakeBound DEF IInv
    <2>4. Short(b, q) \in Nat
      BY <1>a, ShortType
    <2>5. sale' \in [Sales -> SaleRow]
      BY <1>a, <2>1a, <2>3, <2>4
         DEF SoldRow, NoSale, SaleRow, SaleStatuses, PaidStatuses, IInv, TypeOK
    <2> QED
      BY <2>1, <2>2, <2>5 DEF IInv, TypeOK, LayersOK
  <1>2. ASSUME NEW b \in Branches, NEW q \in Quantities, OpenTab(s, b, q)
        PROVE  IInv'
    <2>1. sale' \in [Sales -> SaleRow]
      BY <1>2, <1>a DEF OpenTab, NoSale, NoTrace, SaleRow, SaleStatuses, IInv, TypeOK
    <2> QED
      BY <1>2, <2>1 DEF OpenTab, layerVars, IInv, TypeOK, LayersNeverOverstated
  <1>3. ASSUME CompleteTab(s)
        PROVE  IInv'
    <2> DEFINE b == sale[s].branch
               q == sale[s].qty
    <2>1. Consume(b, q) /\ UNCHANGED transfer
      BY <1>3 DEF CompleteTab
    <2>2. LayersOK' /\ loose' \in [Branches -> Int]
      BY <1>0, <2>1, ConsumeOK
    <2>3. \A l \in LayerIds : Take(b, q, l) \in Nat
      BY <1>0, TakeBound DEF IInv
    <2>4. Short(b, q) \in Nat
      BY <1>0, ShortType
    <2>5. sale' \in [Sales -> SaleRow]
      <3> DEFINE trace == [l \in LayerIds |-> sale[s].trace[l] + Take(b, q, l)]
                 untraced == sale[s].untraced + Short(b, q)
      <3>1. trace \in [LayerIds -> Nat] /\ untraced \in Nat
        BY <1>0, <2>3, <2>4 DEF SaleRow
      <3>2. sale' = [sale EXCEPT ![s].status = "completed", ![s].trace = trace,
                                 ![s].untraced = untraced]
        BY <1>3 DEF CompleteTab
      <3> HIDE DEF trace, untraced
      <3> QED
        BY <1>0, <3>1, <3>2 DEF SaleRow, SaleStatuses, IInv, TypeOK
    <2> QED
      BY <2>1, <2>2, <2>5 DEF IInv, TypeOK, LayersOK
  <1>4. ASSUME CancelOpenTab(s)
        PROVE  IInv'
    <2>1. sale' = [sale EXCEPT ![s].status = "cancelled", ![s].cancels = sale[s].cancels + 1]
      BY <1>4 DEF CancelOpenTab
    <2>2. sale[s] \in SaleRow /\ sale \in [Sales -> SaleRow]
      BY <1>0 DEF IInv, TypeOK
    <2>3. sale' \in [Sales -> SaleRow]
      BY <2>1, <2>2 DEF SaleRow, SaleStatuses
    <2> QED
      BY <1>0, <1>4, <2>3 DEF CancelOpenTab, layerVars, IInv, TypeOK, LayersNeverOverstated
  <1>5. ASSUME NEW age \in Ages, VoidSale(s, age) \/ CancelSale(s, age)
        PROVE  IInv'
    <2>1. Restore(s, sale[s].qty, age) /\ UNCHANGED transfer
      BY <1>5 DEF VoidSale, CancelSale
    <2>2. LayersOK' /\ loose' \in [Branches -> Int]
      BY <1>0, <2>1, RestoreOK
    <2>3. RestoredQty(sale[s], sale[s].qty) \in Nat
      BY <1>0, RestoredQtyType
    <2>4. sale' \in [Sales -> SaleRow]
      <3> DEFINE back == sale[s].restored + RestoredQty(sale[s], sale[s].qty)
                 times == sale[s].cancels + 1
      <3>0. back \in Nat /\ times \in Nat
        BY <1>0, <2>3 DEF SaleRow
      <3>1. CASE VoidSale(s, age)
        <4>1. sale' = [sale EXCEPT ![s].status = "voided", ![s].restored = back]
          BY <3>1 DEF VoidSale
        <4> HIDE DEF back, times
        <4> QED
          BY <1>0, <3>0, <4>1 DEF SaleRow, SaleStatuses, IInv, TypeOK
      <3>2. CASE CancelSale(s, age)
        <4>1. sale' = [sale EXCEPT ![s].status = "cancelled", ![s].cancels = times,
                                   ![s].restored = back]
          BY <3>2 DEF CancelSale
        <4> HIDE DEF back, times
        <4> QED
          BY <1>0, <3>0, <4>1 DEF SaleRow, SaleStatuses, IInv, TypeOK
      <3> QED
        BY <1>5, <3>1, <3>2
    <2> QED
      BY <2>1, <2>2, <2>4 DEF IInv, TypeOK, LayersOK
  <1>6. ASSUME NEW q \in Quantities, NEW age \in Ages, ReturnLinked(s, q, age)
        PROVE  IInv'
    <2>1. Restore(s, q, age) /\ UNCHANGED transfer
      BY <1>6 DEF ReturnLinked
    <2>2. LayersOK' /\ loose' \in [Branches -> Int]
      BY <1>a, <2>1, RestoreOK
    <2>3. RestoredQty(sale[s], q) \in Nat
      BY <1>0, <1>a, RestoredQtyType
    <2>4. sale' \in [Sales -> SaleRow]
      BY <1>0, <1>6, <1>a, <2>3 DEF ReturnLinked, SaleRow, SaleStatuses, IInv, TypeOK
    <2> QED
      BY <2>1, <2>2, <2>4 DEF IInv, TypeOK, LayersOK
  <1>7. ASSUME NEW q \in Quantities, NEW age \in Ages, ReturnNamingSale(s, q, age)
        PROVE  IInv'
    <2>1. AddLayers(sale[s].branch, age, 1, One(q)) /\ UNCHANGED <<loose, transfer>>
      BY <1>7 DEF ReturnNamingSale
    <2>2. \A i \in 1..1 : One(q)[i] \in Nat
      BY <1>a DEF One
    <2>3. LayersOK'
      BY <1>0, <2>1, <2>2, AddLayersOK
    <2>4. sale' \in [Sales -> SaleRow]
      BY <1>0, <1>7 DEF ReturnNamingSale, SaleRow, IInv, TypeOK
    <2> QED
      BY <2>1, <2>3, <2>4 DEF IInv, TypeOK, LayersOK
  <1> QED
    BY <1>p, <1>1, <1>2, <1>3, <1>4, <1>5, <1>6, <1>7

-----------------------------------------------------------------------------
\* The invariant is inductive.
LEMMA IInvInductive == IInv /\ [Next]_vars => IInv'
  <1> SUFFICES ASSUME IInv, [Next]_vars
               PROVE  IInv'
    OBVIOUS
  <1>1. CASE UNCHANGED vars
    BY <1>1 DEF vars, IInv, TypeOK, LayersNeverOverstated
  <1>2. CASE Next
    BY <1>2, StockInOK, StockOutOK, TransferStepOK, SaleStepOK DEF Next
  <1> QED
    BY <1>1, <1>2

\* Type correctness of the stock ledger.
THEOREM StockTypeCorrect == Spec => []TypeOK
  <1>1. Spec => []IInv
    BY InitOK, IInvInductive, PTL DEF Spec
  <1>2. IInv => TypeOK
    BY DEF IInv
  <1> QED
    BY <1>1, <1>2, PTL

\* However sales, returns, voids, cancels (repeated ones too), receipts and
\* transfers follow each other, a layer respects chk_purchase_lines_remaining
\* and never claims more units than its stock movements put there.
THEOREM LayersAreNeverOverstated == Spec => []LayersNeverOverstated
  <1>1. Spec => []IInv
    BY InitOK, IInvInductive, PTL DEF Spec
  <1>2. IInv => LayersNeverOverstated
    BY DEF IInv
  <1> QED
    BY <1>1, <1>2, PTL

-----------------------------------------------------------------------------
(* Consumption in the order of age.                                          *)

\* Layers are few, and strictly ordered by age and then by id.
LEMMA LayerOrder ==
    ASSUME TypeOK
    PROVE  /\ IsFiniteSet(LayerIds) /\ LayerIds \subseteq Nat
           /\ \A k, l \in LayerIds : k # l => Older(k, l) \/ Older(l, k)
           /\ \A k, l \in LayerIds : ~(Older(k, l) /\ Older(l, k))
           /\ \A j, k, l \in LayerIds : Older(j, k) /\ Older(k, l) => Older(j, l)
  <1>1. IsFiniteSet(LayerIds) /\ LayerIds \subseteq Nat
    BY StockAssumption, FS_Interval DEF LayerIds
  <1>2. \A l \in LayerIds : layerAge[l] \in Nat
    BY StockAssumption DEF TypeOK, Ages
  <1> QED
    BY <1>1, <1>2 DEF Older

\* Among several layers one is the youngest.
LEMMA Youngest ==
    ASSUME TypeOK, NEW T \in SUBSET LayerIds, T # {}
    PROVE  \E m \in T : \A k \in T \ {m} : Older(k, m)
  <1> DEFINE P == {U \in SUBSET LayerIds : U # {} => \E m \in U : \A k \in U \ {m} : Older(k, m)}
  <1>1. {} \in P
    OBVIOUS
  <1>2. ASSUME NEW U \in SUBSET LayerIds, NEW x \in LayerIds \ U, U \in P
        PROVE  U \cup {x} \in P
    <2>1. CASE U = {}
      BY <2>1
    <2>2. CASE U # {}
      <3>1. PICK m \in U : \A k \in U \ {m} : Older(k, m)
        BY <1>2, <2>2
      <3>2. CASE Older(x, m)
        BY <3>1, <3>2
      <3>3. CASE ~Older(x, m)
        <4>1. Older(m, x)
          BY <3>3, LayerOrder
        <4>2. \A k \in U : Older(k, x)
          BY <3>1, <4>1, LayerOrder
        <4> QED
          BY <4>2
      <3> QED
        BY <3>2, <3>3
    <2> QED
      BY <2>1, <2>2
  <1> HIDE DEF P
  <1>3. T \in P
    BY <1>1, <1>2, LayerOrder, InductionOnSubsets
  <1> QED
    BY <1>3 DEF P

Remaining(T) == SumFunctionOnSet(qtyRemaining, T)
Taking(b, q) == [l \in LayerIds |-> Take(b, q, l)]

\* Sums over layers are quantities.
LEMMA LayerSums ==
    ASSUME TypeOK, NEW b, NEW q \in Nat, NEW T \in SUBSET LayerIds
    PROVE  /\ IsFiniteSet(T) /\ Remaining(T) \in Nat
           /\ SumFunctionOnSet(Taking(b, q), T) \in Nat
  <1>1. IsFiniteSet(T)
    BY LayerOrder, FS_Subset
  <1>2. \A l \in T : qtyRemaining[l] \in Nat /\ Taking(b, q)[l] \in Nat
    BY TakeBound DEF TypeOK, Taking
  <1> QED
    BY <1>1, <1>2, SumType DEF Remaining

\* A layer and those of its branch that are older.
LEMMA OldestFirst ==
    ASSUME TypeOK, NEW b, NEW q \in Nat, NEW T \in SUBSET LayersAt(b),
           \A l \in T : \A k \in LayersAt(b) : Older(k, l) => k \in T
    PROVE  SumFunctionOnSet(Taking(b, q), T) = q - Monus(q, Remaining(T))
  <1> DEFINE Closed(U) == \A l \in U : \A k \in LayersAt(b) : Older(k, l) => k \in U
             Served(U) == SumFunctionOnSet(Taking(b, q), U) = q - Monus(q, Remaining(U))
             P == {n \in Nat : \A U \in SUBSET LayersAt(b) : Closed(U) /\ Cardinality(U) = n => Served(U)}
  <1>0. LayersAt(b) \subseteq LayerIds
    BY DEF LayersAt
  <1>1. 0 \in P
    <2> SUFFICES ASSUME NEW U \in SUBSET LayersAt(b), Cardinality(U) = 0
                 PROVE  Served(U)
      OBVIOUS
    <2>1. U = {}
      BY <1>0, LayerSums, FS_EmptySet
    <2>2. SumFunctionOnSet(Taking(b, q), U) = 0 /\ Remaining(U) = 0
      BY <2>1, SumEmpty DEF Remaining
    <2> QED
      BY <2>2 DEF Monus
  <1>2. ASSUME NEW n \in Nat, n \in P
        PROVE  n + 1 \in P
    <2> SUFFICES ASSUME NEW U \in SUBSET LayersAt(b), Closed(U), Cardinality(U) = n + 1
                 PROVE  Served(U)
      OBVIOUS
    <2>1. U # {} /\ IsFiniteSet(U)
      BY <1>0, LayerSums, FS_EmptySet
    <2>2. PICK m \in U : \A k \in U \ {m} : Older(k, m)
      BY <1>0, <2>1, Youngest
    <2> DEFINE V == U \ {m}
    <2>3. V \in SUBSET LayersAt(b) /\ V \cup {m} = U /\ m \notin V /\ m \in LayerIds /\ layerBranch[m] = b
      BY <1>0 DEF LayersAt
    <2>4. Cardinality(V) = n
      BY <2>1, FS_RemoveElement
    <2>5. Closed(V)
      BY <1>0, <2>2, LayerOrder
    <2>6. {k \in LayersAt(b) : Older(k, m)} = V
      BY <1>0, <2>2, LayerOrder
    <2>7. Served(V)
      BY <1>2, <2>3, <2>4, <2>5
    <2> HIDE DEF V
    <2>8. /\ qtyRemaining[m] \in Nat /\ Remaining(V) \in Nat
          /\ Taking(b, q)[m] = Min2(qtyRemaining[m], Monus(q, Remaining(V)))
      BY <1>0, <2>3, <2>6, LayerSums DEF TypeOK, Taking, Take, Remaining
    <2>9. V \in SUBSET U /\ m \in U \ V /\ \A l \in U : qtyRemaining[l] \in Int /\ Taking(b, q)[l] \in Int
      BY <1>0, <2>3, TakeBound DEF TypeOK, Taking
    <2>10. SumFunctionOnSet(Taking(b, q), V \cup {m}) = Taking(b, q)[m] + SumFunctionOnSet(Taking(b, q), V)
      BY <2>1, <2>9, SumAdd
    <2>11. SumFunctionOnSet(qtyRemaining, V \cup {m}) = qtyRemaining[m] + SumFunctionOnSet(qtyRemaining, V)
      BY <2>1, <2>9, SumAdd
    <2>12. \A r, s \in Nat : Min2(r, Monus(q, s)) + (q - Monus(q, s)) = q - Monus(q, r + s)
      BY DEF Min2, Monus
    <2>13. SumFunctionOnSet(Taking(b, q), U) = Min2(qtyRemaining[m], Monus(q, Remaining(V))) + (q - Monus(q, Remaining(V)))
      BY <2>3, <2>7, <2>8, <2>10
    <2>14. Remaining(U) = qtyRemaining[m] + Remaining(V)
      BY <2>3, <2>11 DEF Remaining
    <2>15. Min2(qtyRemaining[m], Monus(q, Remaining(V))) + (q - Monus(q, Remaining(V))) = q - Monus(q, Remaining(U))
      BY <2>8, <2>12, <2>14
    <2> QED
      BY <2>13, <2>15
  <1> HIDE DEF P
  <1>3. \A n \in Nat : n \in P
    BY <1>1, <1>2, InductionOnNat
  <1>4. Cardinality(T) \in Nat
    BY <1>0, LayerSums, FS_CardinalityType
  <1> QED
    BY <1>3, <1>4 DEF P

\* What the layers give and what none of them covers are the demand
\* (consume_fifo_layers, allocate_sale_line_fifo).
LEMMA ConsumeServes ==
    ASSUME TypeOK, NEW b, NEW q \in Nat
    PROVE  /\ SumFunctionOnSet(Taking(b, q), LayersAt(b)) + Short(b, q) = q
           /\ TracedTotal(Taking(b, q)) + Short(b, q) = q
  <1>0. LayersAt(b) \in SUBSET LayerIds
    BY DEF LayersAt
  <1>1. SumFunctionOnSet(Taking(b, q), LayersAt(b)) = q - Monus(q, Remaining(LayersAt(b)))
    BY <1>0, OldestFirst
  <1>2. Short(b, q) = Monus(q, Remaining(LayersAt(b))) /\ Short(b, q) \in Nat
    BY ShortType DEF Short, Remaining
  <1>3. TracedTotal(Taking(b, q)) = SumFunctionOnSet(Taking(b, q), LayerIds)
    BY DEF TracedTotal, SumFunction, Taking
  <1>4. SumFunctionOnSet(Taking(b, q), LayerIds) = SumFunctionOnSet(Taking(b, q), LayersAt(b))
    <2>1. \A l \in LayerIds : Taking(b, q)[l] \in Int
      BY TakeBound DEF Taking
    <2>2. \A l \in LayerIds \ LayersAt(b) : Taking(b, q)[l] = 0
      BY DEF Taking, Take, LayersAt
    <2> QED
      BY <1>0, <2>1, <2>2, LayerOrder, SumOfSupport
  <1> QED
    BY <1>1, <1>2, <1>3, <1>4

-----------------------------------------------------------------------------
(* Which rows there are.                                                     *)

\* A row that does not exist yet holds nothing, and no sale has taken from it.
Rows ==
    \A l \in LayerIds : l > nLayers =>
        /\ layerBranch[l] = NoBranch /\ receivedQty[l] = 0 /\ qtyRemaining[l] = 0 /\ moved[l] = 0
        /\ \A s \in Sales : sale[s].trace[l] = 0

\* Sales and transfers name branches as soon as they exist.
Documents ==
    /\ \A s \in Sales : sale[s].branch = NoBranch <=> sale[s].status = "none"
    /\ \A t \in Transfers : transfer[t].status = "in_transit" => transfer[t].dest \in Branches

LedgerInv == IInv /\ Rows /\ Documents

\* An empty ledger has neither.
LEMMA LedgerInvInit == Init => LedgerInv
  <1> SUFFICES ASSUME Init
               PROVE  LedgerInv
    OBVIOUS
  <1>1. IInv
    BY InitOK
  <1>2. Rows /\ Documents
    BY DEF Init, Rows, Documents, NoSale, NoTrace, NoTransfer
  <1> QED
    BY <1>1, <1>2 DEF LedgerInv

\* What a row contributes to the sums and to the order of age.
LEMMA RowTypes ==
    ASSUME IInv
    PROVE  /\ nLayers \in Nat /\ nLayers <= MaxLayers
           /\ \A l \in LayerIds : /\ qtyRemaining[l] \in Nat /\ receivedQty[l] \in Nat /\ moved[l] \in Int
                                  /\ qtyRemaining[l] <= receivedQty[l] /\ qtyRemaining[l] <= moved[l]
           /\ \A b \in Branches : loose[b] \in Int
           /\ \A s \in Sales : /\ sale[s] \in SaleRow /\ sale[s].trace \in [LayerIds -> Nat]
                               /\ sale[s].untraced \in Nat /\ sale[s].qty \in Nat
                               /\ sale[s].returned \in Nat /\ sale[s].returns \in Nat
                               /\ sale[s].restored \in Nat /\ sale[s].cancels \in Nat
                               /\ sale[s].branch \in Branches \cup {NoBranch}
                               /\ sale[s].status \in SaleStatuses
    BY StockAssumption DEF IInv, TypeOK, LayersNeverOverstated, SaleRow

\* create_fifo_layer fills rows that did not exist.
LEMMA AddLayersRows ==
    ASSUME LedgerInv, NEW b, NEW age, NEW n \in Nat, NEW qs, AddLayers(b, age, n, qs),
           \A s \in Sales : sale'[s].trace = sale[s].trace
    PROVE  Rows'
  <1>1. nLayers' = nLayers + n /\ nLayers \in Nat
    BY RowTypes DEF LedgerInv, AddLayers
  <1>2. ASSUME NEW l \in LayerIds, l > nLayers'
        PROVE  /\ layerBranch'[l] = layerBranch[l] /\ receivedQty'[l] = receivedQty[l]
               /\ qtyRemaining'[l] = qtyRemaining[l] /\ moved'[l] = moved[l] /\ l > nLayers
    BY <1>1, <1>2 DEF AddLayers, LayerIds
  <1> QED
    BY <1>2 DEF Rows, LedgerInv

\* consume_to_movements takes from rows that exist.
LEMMA ConsumeRows ==
    ASSUME LedgerInv, NEW b, NEW q \in Nat, Consume(b, q),
           \A s \in Sales, l \in LayerIds : sale'[s].trace[l] \in {sale[s].trace[l], Take(b, q, l), sale[s].trace[l] + Take(b, q, l)}
    PROVE  Rows'
  <1>1. \A l \in LayerIds : l > nLayers => Take(b, q, l) = 0
    BY TakeBound DEF LedgerInv, IInv, Rows
  <1>2. ASSUME NEW l \in LayerIds, l > nLayers'
        PROVE  /\ layerBranch'[l] = NoBranch /\ receivedQty'[l] = 0 /\ qtyRemaining'[l] = 0 /\ moved'[l] = 0
               /\ l > nLayers
    BY <1>1, <1>2 DEF Consume, Rows, LedgerInv
  <1> QED
    BY <1>1, <1>2 DEF Rows, LedgerInv

\* restore_sale_line_inventory gives to rows that exist, and fills at most one.
LEMMA RestoreRows ==
    ASSUME LedgerInv, NEW s \in Sales, NEW q \in Nat, NEW age, Restore(s, q, age),
           \A t \in Sales : sale'[t].trace = sale[t].trace
    PROVE  Rows'
  <1> DEFINE plan(l) == LifoPlan(sale[s].trace, TracedPart(sale[s], q), l)
             fresh == FreshQty(sale[s], q)
  <1>1. \A l \in LayerIds : l > nLayers => plan(l) = 0
    <2> SUFFICES ASSUME NEW l \in LayerIds, l > nLayers
                 PROVE  plan(l) = 0
      OBVIOUS
    <2>1. sale[s].trace[l] = 0 /\ TracedPart(sale[s], q) \in Nat
      BY TracedPartType DEF LedgerInv, Rows
    <2>2. Monus(TracedPart(sale[s], q), SumFunctionOnSet(sale[s].trace, {k \in LayerIds : Older(l, k)})) \in Nat
      BY <2>1, MonusType
    <2> QED
      BY <2>1, <2>2 DEF LifoPlan, Min2
  <1>2. ASSUME NEW l \in LayerIds, l > nLayers'
        PROVE  /\ layerBranch'[l] = layerBranch[l] /\ receivedQty'[l] = receivedQty[l]
               /\ qtyRemaining'[l] = Capped(l, plan(l)) /\ moved'[l] = moved[l] + plan(l) /\ l > nLayers
    <2>1. nLayers \in Nat /\ l \in Nat
      BY RowTypes, StockAssumption DEF LedgerInv, LayerIds
    <2>2. l > nLayers /\ ~(fresh > 0 /\ l = nLayers + 1)
      BY <1>2, <2>1 DEF Restore
    <2> QED
      BY <2>2 DEF Restore
  <1> HIDE DEF plan
  <1> QED
    BY <1>1, <1>2 DEF Rows, LedgerInv, Capped

-----------------------------------------------------------------------------
(* What becomes of a sale.                                                   *)

\* A step about one existing sale leaves the others, and what the sale was.
OthersKept(s) == \A t \in Sales \ {s} : sale'[t] = sale[t]

Concerns(s) ==
    /\ OthersKept(s)
    /\ sale'[s].branch = sale[s].branch /\ sale'[s].kind = sale[s].kind
    /\ sale'[s].offline = sale[s].offline /\ sale'[s].qty = sale[s].qty

\* A new row.
LEMMA NewRow ==
    ASSUME IInv, NEW s \in Sales, NEW row, sale' = [sale EXCEPT ![s] = row]
    PROVE  sale'[s] = row /\ OthersKept(s)
  BY DEF IInv, TypeOK, OthersKept

\* The tab is paid and its line is consumed (complete_tab).
LEMMA CompleteTabRow ==
    ASSUME IInv, NEW s \in Sales, CompleteTab(s)
    PROVE  /\ Concerns(s)
           /\ sale'[s].status = "completed"
           /\ sale'[s].trace = [l \in LayerIds |-> sale[s].trace[l] + Take(sale[s].branch, sale[s].qty, l)]
           /\ sale'[s].untraced = sale[s].untraced + Short(sale[s].branch, sale[s].qty)
           /\ sale'[s].returned = sale[s].returned /\ sale'[s].returns = sale[s].returns
           /\ sale'[s].hasReturnLines = sale[s].hasReturnLines /\ sale'[s].restored = sale[s].restored
           /\ sale'[s].cancels = sale[s].cancels
  <1> DEFINE trace == [l \in LayerIds |-> sale[s].trace[l] + Take(sale[s].branch, sale[s].qty, l)]
             untraced == sale[s].untraced + Short(sale[s].branch, sale[s].qty)
  <1>1. sale' = [sale EXCEPT ![s].status = "completed", ![s].trace = trace, ![s].untraced = untraced]
    BY DEF CompleteTab
  <1>2. sale[s] \in SaleRow /\ sale \in [Sales -> SaleRow]
    BY DEF IInv, TypeOK
  <1> HIDE DEF trace, untraced
  <1>3. /\ Concerns(s) /\ sale'[s].status = "completed" /\ sale'[s].trace = trace /\ sale'[s].untraced = untraced
        /\ sale'[s].returned = sale[s].returned /\ sale'[s].returns = sale[s].returns
        /\ sale'[s].hasReturnLines = sale[s].hasReturnLines /\ sale'[s].restored = sale[s].restored
        /\ sale'[s].cancels = sale[s].cancels
    BY <1>1, <1>2 DEF SaleRow, Concerns, OthersKept
  <1> QED
    BY <1>3 DEF trace, untraced

\* The tab is closed without stock (cancel_sale).
LEMMA CancelOpenTabRow ==
    ASSUME IInv, NEW s \in Sales, CancelOpenTab(s)
    PROVE  /\ Concerns(s)
           /\ sale'[s].status = "cancelled"
           /\ sale'[s].cancels = sale[s].cancels + 1
           /\ sale'[s].trace = sale[s].trace /\ sale'[s].untraced = sale[s].untraced
           /\ sale'[s].returned = sale[s].returned /\ sale'[s].returns = sale[s].returns
           /\ sale'[s].hasReturnLines = sale[s].hasReturnLines /\ sale'[s].restored = sale[s].restored
  BY DEF CancelOpenTab, IInv, TypeOK, SaleRow, Concerns, OthersKept

\* The sale is voided (void_sale).
LEMMA VoidSaleRow ==
    ASSUME IInv, NEW s \in Sales, NEW age, VoidSale(s, age)
    PROVE  /\ Concerns(s)
           /\ sale'[s].status = "voided"
           /\ sale'[s].restored = sale[s].restored + RestoredQty(sale[s], sale[s].qty)
           /\ sale'[s].trace = sale[s].trace /\ sale'[s].untraced = sale[s].untraced
           /\ sale'[s].returned = sale[s].returned /\ sale'[s].returns = sale[s].returns
           /\ sale'[s].hasReturnLines = sale[s].hasReturnLines /\ sale'[s].cancels = sale[s].cancels
  BY DEF VoidSale, IInv, TypeOK, SaleRow, Concerns, OthersKept

\* The sale is cancelled (cancel_sale).
LEMMA CancelSaleRow ==
    ASSUME IInv, NEW s \in Sales, NEW age, CancelSale(s, age)
    PROVE  /\ Concerns(s)
           /\ sale'[s].status = "cancelled"
           /\ sale'[s].cancels = sale[s].cancels + 1
           /\ sale'[s].restored = sale[s].restored + RestoredQty(sale[s], sale[s].qty)
           /\ sale'[s].trace = sale[s].trace /\ sale'[s].untraced = sale[s].untraced
           /\ sale'[s].returned = sale[s].returned /\ sale'[s].returns = sale[s].returns
           /\ sale'[s].hasReturnLines = sale[s].hasReturnLines
  BY DEF CancelSale, IInv, TypeOK, SaleRow, Concerns, OthersKept

\* Units of the line come back (create_sale_return).
LEMMA ReturnLinkedRow ==
    ASSUME IInv, NEW s \in Sales, NEW q, NEW age, ReturnLinked(s, q, age)
    PROVE  /\ Concerns(s)
           /\ sale'[s].returned = sale[s].returned + q
           /\ sale'[s].returns = sale[s].returns + 1
           /\ sale'[s].hasReturnLines = TRUE
           /\ sale'[s].restored = sale[s].restored + RestoredQty(sale[s], q)
           /\ sale'[s].status = sale[s].status /\ sale'[s].trace = sale[s].trace
           /\ sale'[s].untraced = sale[s].untraced /\ sale'[s].cancels = sale[s].cancels
  BY DEF ReturnLinked, IInv, TypeOK, SaleRow, Concerns, OthersKept

\* A return names the sale (create_sale_return).
LEMMA ReturnNamingSaleRow ==
    ASSUME IInv, NEW s \in Sales, NEW q, NEW age, ReturnNamingSale(s, q, age)
    PROVE  /\ Concerns(s)
           /\ sale'[s].hasReturnLines = TRUE
           /\ sale'[s].status = sale[s].status /\ sale'[s].trace = sale[s].trace
           /\ sale'[s].untraced = sale[s].untraced /\ sale'[s].returned = sale[s].returned
           /\ sale'[s].returns = sale[s].returns /\ sale'[s].restored = sale[s].restored
           /\ sale'[s].cancels = sale[s].cancels
  BY DEF ReturnNamingSale, IInv, TypeOK, SaleRow, Concerns, OthersKept

\* The row of a sale that takes stock at once (create_sale and its offline replay).
LEMMA SoldSaleRow ==
    ASSUME IInv, NEW s \in Sales, NEW b, NEW q, NEW kind, NEW status,
           CreateSale(s, b, q, kind, status) \/ CreateOfflineSale(s, b, q, kind, status)
    PROVE  /\ OthersKept(s)
           /\ sale'[s].status = status /\ sale'[s].kind = kind /\ sale'[s].branch = b /\ sale'[s].qty = q
           /\ sale'[s].trace = Taking(b, q) /\ sale'[s].untraced = Short(b, q) /\ sale'[s].returned = 0
           /\ sale'[s].returns = 0 /\ sale'[s].hasReturnLines = FALSE /\ sale'[s].restored = 0 /\ sale'[s].cancels = 0
  <1> DEFINE Row(offline, trace, short) ==
               [NoSale EXCEPT !.status = status, !.kind = kind, !.offline = offline, !.branch = b, !.qty = q,
                              !.trace = trace, !.untraced = short]
  <1>1. \/ sale' = [sale EXCEPT ![s] = Row(FALSE, Taking(b, q), Short(b, q))]
        \/ sale' = [sale EXCEPT ![s] = Row(TRUE, Taking(b, q), Short(b, q))]
    BY DEF CreateSale, CreateOfflineSale, SoldRow, Taking
  <1> HIDE DEF Row
  <1>2. PICK row, offline : row = Row(offline, Taking(b, q), Short(b, q)) /\ sale' = [sale EXCEPT ![s] = row]
    BY <1>1
  <1>3. sale'[s] = row /\ OthersKept(s)
    BY <1>2, NewRow
  <1>4. /\ row.status = status /\ row.kind = kind /\ row.branch = b /\ row.qty = q
        /\ row.trace = Taking(b, q) /\ row.untraced = Short(b, q) /\ row.returned = 0 /\ row.returns = 0
        /\ row.hasReturnLines = FALSE /\ row.restored = 0 /\ row.cancels = 0
    BY <1>2 DEF Row, NoSale
  <1> QED
    BY <1>2, <1>3, <1>4

\* Only the offline replay marks its sale as such.
LEMMA SoldOffline ==
    ASSUME IInv, NEW s \in Sales, NEW b, NEW q, NEW kind, NEW status
    PROVE  /\ CreateSale(s, b, q, kind, status) => sale'[s].offline = FALSE
           /\ CreateOfflineSale(s, b, q, kind, status) => sale'[s].offline = TRUE
  <1> DEFINE trace == [l \in LayerIds |-> Take(b, q, l)]
             short == Short(b, q)
  <1>1. ASSUME CreateSale(s, b, q, kind, status)
        PROVE  sale'[s].offline = FALSE
    <2>1. sale' = [sale EXCEPT ![s] =
                    [NoSale EXCEPT !.status = status, !.kind = kind, !.offline = FALSE, !.branch = b, !.qty = q,
                                   !.trace = trace, !.untraced = short]]
      BY <1>1 DEF CreateSale, SoldRow
    <2> HIDE DEF trace, short
    <2> QED
      BY <2>1 DEF NoSale, IInv, TypeOK
  <1>2. ASSUME CreateOfflineSale(s, b, q, kind, status)
        PROVE  sale'[s].offline = TRUE
    <2>1. sale' = [sale EXCEPT ![s] =
                    [NoSale EXCEPT !.status = status, !.kind = kind, !.offline = TRUE, !.branch = b, !.qty = q,
                                   !.trace = trace, !.untraced = short]]
      BY <1>2 DEF CreateOfflineSale, SoldRow
    <2> HIDE DEF trace, short
    <2> QED
      BY <2>1 DEF NoSale, IInv, TypeOK
  <1> QED
    BY <1>1, <1>2

\* open_tab
LEMMA OpenTabRow ==
    ASSUME IInv, NEW s \in Sales, NEW b, NEW q, OpenTab(s, b, q)
    PROVE  /\ OthersKept(s)
           /\ sale'[s].status = "held" /\ sale'[s].kind = "dine_in" /\ sale'[s].offline = FALSE /\ sale'[s].branch = b
           /\ sale'[s].qty = q /\ sale'[s].trace = NoTrace /\ sale'[s].untraced = 0 /\ sale'[s].returned = 0
           /\ sale'[s].returns = 0 /\ sale'[s].hasReturnLines = FALSE /\ sale'[s].restored = 0 /\ sale'[s].cancels = 0
  <1>1. sale' = [sale EXCEPT ![s] = [NoSale EXCEPT !.status = "held", !.kind = "dine_in", !.branch = b, !.qty = q]]
    BY DEF OpenTab
  <1>2. /\ OthersKept(s)
        /\ sale'[s] = [NoSale EXCEPT !.status = "held", !.kind = "dine_in", !.branch = b, !.qty = q]
    BY <1>1, NewRow
  <1> QED
    BY <1>2 DEF NoSale

\* Receipts, adjustments, production, waste and orders keep the rows in order.
LEMMA StockRows ==
    ASSUME LedgerInv, StockIn \/ StockOut
    PROVE  Rows' /\ Documents'
  <1>1. UNCHANGED <<sale, transfer>>
    BY DEF StockIn, StockOut, ReceiveDirect, AdjustIn, ProductionIn, ReturnUnlinked, ReceiveOnOrder,
       ReceiveAtOtherCost, CreatePurchaseOrder, AdjustOut, CreateWasteEntry, ProductionOut
  <1>2. Documents'
    BY <1>1 DEF LedgerInv, Documents
  <1>3. ASSUME NEW q \in Quantities, NEW age \in Ages, NEW b \in Branches,
               ReceiveDirect(b, q, age) \/ AdjustIn(b, q, age) \/ ProductionIn(b, q, age) \/ ReturnUnlinked(b, q, age)
        PROVE  Rows'
    <2>1. AddLayers(b, age, 1, One(q))
      BY <1>3 DEF ReceiveDirect, AdjustIn, ProductionIn, ReturnUnlinked
    <2> QED
      BY <1>1, <2>1, AddLayersRows
  <1>4. ASSUME NEW q \in Quantities, NEW age \in Ages, NEW k \in LayerIds,
               ReceiveOnOrder(k, q, age) \/ ReceiveAtOtherCost(k, q, age)
        PROVE  Rows'
    <2>1. nLayers \in Nat /\ nLayers' \in Nat /\ nLayers' >= nLayers /\ k <= nLayers
      BY <1>4, RowTypes DEF LedgerInv, ReceiveOnOrder, ReceiveAtOtherCost
    <2>2. ASSUME NEW l \in LayerIds, l > nLayers'
          PROVE  /\ layerBranch'[l] = layerBranch[l] /\ receivedQty'[l] = receivedQty[l]
                 /\ qtyRemaining'[l] = qtyRemaining[l] /\ moved'[l] = moved[l] /\ l > nLayers
      <3>1. l \in Nat /\ k \in Nat
        BY StockAssumption DEF LayerIds
      <3>2. l > nLayers /\ l # k
        BY <2>1, <2>2, <3>1
      <3>3. CASE ReceiveOnOrder(k, q, age)
        BY <3>2, <3>3 DEF ReceiveOnOrder, LedgerInv, IInv, TypeOK
      <3>4. CASE ReceiveAtOtherCost(k, q, age)
        <4>1. l # nLayers + 1
          BY <2>1, <2>2, <3>4 DEF ReceiveAtOtherCost
        <4> QED
          BY <3>2, <3>4, <4>1 DEF ReceiveAtOtherCost, LedgerInv, IInv, TypeOK
      <3> QED
        BY <1>4, <3>3, <3>4
    <2> QED
      BY <1>1, <2>2 DEF Rows, LedgerInv
  <1>5. ASSUME NEW b \in Branches, NEW q \in Quantities, CreatePurchaseOrder(b, q)
        PROVE  Rows'
    <2>1. nLayers \in Nat /\ nLayers' = nLayers + 1
      BY <1>5, RowTypes DEF LedgerInv, CreatePurchaseOrder
    <2>2. ASSUME NEW l \in LayerIds, l > nLayers'
          PROVE  /\ layerBranch'[l] = layerBranch[l] /\ receivedQty'[l] = receivedQty[l]
                 /\ qtyRemaining'[l] = qtyRemaining[l] /\ moved'[l] = moved[l] /\ l > nLayers
      <3>1. l \in Nat
        BY StockAssumption DEF LayerIds
      <3>2. l > nLayers /\ l # nLayers + 1
        BY <2>1, <2>2, <3>1
      <3> QED
        BY <1>5, <3>2 DEF CreatePurchaseOrder, LedgerInv, IInv, TypeOK
    <2> QED
      BY <1>1, <2>2 DEF Rows, LedgerInv
  <1>6. ASSUME NEW b \in Branches, NEW q \in Quantities, AdjustOut(b, q) \/ CreateWasteEntry(b, q) \/ ProductionOut(b, q)
        PROVE  Rows'
    <2>1. Consume(b, q) /\ q \in Nat
      BY <1>6 DEF AdjustOut, CreateWasteEntry, ProductionOut, Quantities
    <2> QED
      BY <1>1, <2>1, ConsumeRows
  <1> QED
    BY <1>2, <1>3, <1>4, <1>5, <1>6 DEF StockIn, StockOut

\* So do transfers.
LEMMA TransferRows ==
    ASSUME LedgerInv, TransferStep
    PROVE  Rows' /\ Documents'
  <1>1. ASSUME NEW t \in Transfers, NEW b \in Branches, NEW d \in Branches, NEW q \in Quantities,
               CreateStockTransfer(t, b, d, q)
        PROVE  Rows' /\ Documents'
    <2>1. Consume(b, q) /\ q \in Nat /\ UNCHANGED sale
      BY <1>1 DEF CreateStockTransfer, Quantities
    <2>2. PICK slices : transfer' = [transfer EXCEPT ![t] =
             [status |-> "in_transit", source |-> b, dest |-> d, slices |-> slices]]
      BY <1>1 DEF CreateStockTransfer
    <2>3. Documents'
      BY <2>1, <2>2 DEF LedgerInv, Documents, IInv, TypeOK
    <2> QED
      BY <2>1, <2>3, ConsumeRows
  <1>2. ASSUME NEW t \in Transfers, NEW age \in Ages, ReceiveStockTransfer(t, age)
        PROVE  Rows' /\ Documents'
    <2>1. PICK n \in 1..MaxLayers : AddLayers(transfer[t].dest, age, n, transfer[t].slices)
      BY <1>2 DEF ReceiveStockTransfer
    <2>2. UNCHANGED sale /\ n \in Nat
      BY <1>2 DEF ReceiveStockTransfer
    <2>3. Rows'
      BY <2>1, <2>2, AddLayersRows
    <2>4. transfer' = [transfer EXCEPT ![t].status = "received"]
      BY <1>2 DEF ReceiveStockTransfer
    <2>5. Documents'
      BY <2>2, <2>4 DEF LedgerInv, Documents, IInv, TypeOK, TransferRow
    <2> QED
      BY <2>3, <2>5
  <1> QED
    BY <1>1, <1>2 DEF TransferStep

\* So do sales, tabs and returns.
LEMMA SaleRows ==
    ASSUME LedgerInv, SaleStep
    PROVE  Rows' /\ Documents'
  <1>0. IInv /\ \A q \in Quantities : q \in Nat
    BY DEF LedgerInv, Quantities
  <1>1. ASSUME NEW s \in Sales, NEW b \in Branches, NEW q \in Quantities, NEW kind \in CounterKinds, NEW status \in PaidStatuses,
               CreateSale(s, b, q, kind, status) \/ CreateOfflineSale(s, b, q, kind, status)
        PROVE  Rows' /\ Documents'
    <2>1. Consume(b, q) /\ UNCHANGED transfer
      BY <1>1 DEF CreateSale, CreateOfflineSale
    <2>3. OthersKept(s)
      BY <1>0, <1>1, SoldSaleRow
    <2>4. sale'[s].trace = Taking(b, q) /\ sale'[s].status = status /\ sale'[s].branch = b
      BY <1>0, <1>1, SoldSaleRow
    <2>5. Rows'
      BY <1>0, <2>1, <2>3, <2>4, ConsumeRows DEF Taking, OthersKept
    <2>6. status # "none" /\ b # NoBranch
      BY StockAssumption DEF PaidStatuses
    <2> QED
      BY <2>1, <2>3, <2>4, <2>5, <2>6 DEF LedgerInv, Documents, OthersKept
  <1>2. ASSUME NEW s \in Sales, NEW b \in Branches, NEW q \in Quantities, OpenTab(s, b, q)
        PROVE  Rows' /\ Documents'
    <2>1. UNCHANGED <<layerVars, loose, transfer>>
      BY <1>2 DEF OpenTab
    <2>2. /\ OthersKept(s)
          /\ sale'[s].status = "held" /\ sale'[s].branch = b /\ sale'[s].trace = NoTrace
      BY <1>0, <1>2, OpenTabRow
    <2>3. Rows'
      BY <2>1, <2>2 DEF LedgerInv, Rows, layerVars, NoTrace, OthersKept
    <2>4. Documents'
      BY <2>1, <2>2, StockAssumption DEF LedgerInv, Documents, OthersKept
    <2> QED
      BY <2>3, <2>4
  <1>3. ASSUME NEW s \in Sales, Concerns(s), UNCHANGED transfer, sale[s].status # "none", sale'[s].status # "none"
        PROVE  Documents'
    BY <1>3 DEF LedgerInv, Documents, Concerns, OthersKept
  <1>4. ASSUME NEW s \in Sales, CompleteTab(s)
        PROVE  Rows' /\ Documents'
    <2>1. Consume(sale[s].branch, sale[s].qty) /\ UNCHANGED transfer /\ sale[s].status # "none"
      BY <1>4 DEF CompleteTab, ActiveTabStatuses
    <2>2. /\ Concerns(s) /\ sale'[s].status = "completed"
          /\ sale'[s].trace = [l \in LayerIds |-> sale[s].trace[l] + Take(sale[s].branch, sale[s].qty, l)]
      BY <1>0, <1>4, CompleteTabRow
    <2>3. sale[s].qty \in Nat
      BY <1>0, RowTypes
    <2>4. Rows'
      BY <2>1, <2>2, <2>3, ConsumeRows DEF Concerns, OthersKept
    <2> QED
      BY <1>3, <2>1, <2>2, <2>4
  <1>5. ASSUME NEW s \in Sales, CancelOpenTab(s)
        PROVE  Rows' /\ Documents'
    <2>1. UNCHANGED <<layerVars, loose, transfer>> /\ sale[s].status # "none"
      BY <1>5 DEF CancelOpenTab, ActiveTabStatuses
    <2>2. Concerns(s) /\ sale'[s].status = "cancelled" /\ sale'[s].trace = sale[s].trace
      BY <1>0, <1>5, CancelOpenTabRow
    <2>3. Rows'
      BY <2>1, <2>2 DEF LedgerInv, Rows, layerVars, Concerns, OthersKept
    <2> QED
      BY <1>3, <2>1, <2>2, <2>3
  <1>6. ASSUME NEW s \in Sales, NEW age \in Ages, VoidSale(s, age) \/ CancelSale(s, age)
        PROVE  Rows' /\ Documents'
    <2>1. Restore(s, sale[s].qty, age) /\ UNCHANGED transfer /\ sale[s].status # "none"
      BY <1>6 DEF VoidSale, CancelSale
    <2>2. Concerns(s) /\ sale'[s].status # "none" /\ sale'[s].trace = sale[s].trace
      BY <1>0, <1>6, VoidSaleRow, CancelSaleRow
    <2>3. sale[s].qty \in Nat /\ \A t \in Sales : sale'[t].trace = sale[t].trace
      BY <1>0, <2>2, RowTypes DEF Concerns, OthersKept
    <2>4. Rows'
      BY <2>1, <2>3, RestoreRows
    <2> QED
      BY <1>3, <2>1, <2>2, <2>4
  <1>7. ASSUME NEW s \in Sales, NEW q \in Quantities, NEW age \in Ages, ReturnLinked(s, q, age)
        PROVE  Rows' /\ Documents'
    <2>1. Restore(s, q, age) /\ UNCHANGED transfer /\ sale[s].status # "none"
      BY <1>7 DEF ReturnLinked, Returnable
    <2>2. Concerns(s) /\ sale'[s].status = sale[s].status /\ sale'[s].trace = sale[s].trace
      BY <1>0, <1>7, ReturnLinkedRow
    <2>3. \A t \in Sales : sale'[t].trace = sale[t].trace
      BY <2>2 DEF Concerns, OthersKept
    <2>4. Rows'
      BY <1>0, <2>1, <2>3, RestoreRows
    <2> QED
      BY <1>3, <2>1, <2>2, <2>4
  <1>8. ASSUME NEW s \in Sales, NEW q \in Quantities, NEW age \in Ages, ReturnNamingSale(s, q, age)
        PROVE  Rows' /\ Documents'
    <2>1. AddLayers(sale[s].branch, age, 1, One(q)) /\ UNCHANGED transfer /\ sale[s].status # "none"
      BY <1>8 DEF ReturnNamingSale, Returnable
    <2>2. Concerns(s) /\ sale'[s].status = sale[s].status /\ sale'[s].trace = sale[s].trace
      BY <1>0, <1>8, ReturnNamingSaleRow
    <2>3. \A t \in Sales : sale'[t].trace = sale[t].trace
      BY <2>2 DEF Concerns, OthersKept
    <2>4. Rows'
      BY <2>1, <2>3, AddLayersRows
    <2> QED
      BY <1>3, <2>1, <2>2, <2>4
  <1> QED
    BY <1>1, <1>2, <1>4, <1>5, <1>6, <1>7, <1>8 DEF SaleStep

\* Every step keeps the rows in order.
LEMMA LedgerInvInductive == LedgerInv /\ [Next]_vars => LedgerInv'
  <1> SUFFICES ASSUME LedgerInv, [Next]_vars
               PROVE  LedgerInv'
    OBVIOUS
  <1>1. IInv'
    BY IInvInductive DEF LedgerInv
  <1>2. CASE UNCHANGED vars
    BY <1>1, <1>2 DEF vars, LedgerInv, Rows, Documents
  <1>3. CASE Next
    <2>1. Rows' /\ Documents'
      BY <1>3, StockRows, TransferRows, SaleRows DEF Next
    <2> QED
      BY <1>1, <2>1 DEF LedgerInv
  <1> QED
    BY <1>2, <1>3

\* The ledger's invariant holds always.
LEMMA LedgerAlways == Spec => []LedgerInv
  BY LedgerInvInit, LedgerInvInductive, PTL DEF Spec

-----------------------------------------------------------------------------
(* The oldest layer goes first.                                              *)

\* A layer gives only what the older layers of its branch cannot serve.
LEMMA OlderTakenWhole ==
    ASSUME TypeOK, NEW b, NEW q \in Nat, NEW k \in LayerIds, NEW l \in LayerIds,
           layerBranch[k] = layerBranch[l], Older(k, l), Take(b, q, l) > 0
    PROVE  Take(b, q, k) = qtyRemaining[k]
  <1> DEFINE before(m) == {j \in LayersAt(b) : Older(j, m)}
  <1>1. layerBranch[k] = b /\ layerBranch[l] = b
    BY DEF Take
  <1>2. /\ Take(b, q, l) = Min2(qtyRemaining[l], Monus(q, Remaining(before(l))))
        /\ Take(b, q, k) = Min2(qtyRemaining[k], Monus(q, Remaining(before(k))))
    BY <1>1 DEF Take, Remaining
  <1>3. /\ before(l) \in SUBSET LayerIds /\ before(k) \in SUBSET before(l)
        /\ before(k) \cup {k} \in SUBSET before(l) /\ k \in before(l) \ before(k)
    BY <1>1, LayerOrder DEF LayersAt
  <1>4. IsFiniteSet(before(l)) /\ Remaining(before(l)) \in Nat /\ Remaining(before(k)) \in Nat
    BY <1>3, LayerSums
  <1>5. \A j \in LayerIds : qtyRemaining[j] \in Nat
    BY DEF TypeOK
  <1> HIDE DEF before
  <1>6. Remaining(before(k) \cup {k}) = qtyRemaining[k] + Remaining(before(k))
    BY <1>3, <1>4, <1>5, SumAdd DEF Remaining
  <1>7. Remaining(before(k) \cup {k}) <= Remaining(before(l))
    BY <1>3, <1>4, <1>5, SumPart DEF Remaining
  <1>8. \A r, s \in Nat : Min2(r, Monus(q, s)) > 0 => s < q
    BY DEF Min2, Monus
  <1>9. Remaining(before(l)) < q
    BY <1>2, <1>4, <1>5, <1>8
  <1>10. qtyRemaining[k] \in Nat /\ qtyRemaining[k] + Remaining(before(k)) < q
    BY <1>4, <1>5, <1>6, <1>7, <1>9
  <1>11. \A r, s \in Nat : r + s < q => Min2(r, Monus(q, s)) = r
    BY DEF Min2, Monus
  <1> QED
    BY <1>2, <1>4, <1>10, <1>11

\* Only consumption takes units out of a layer.
LEMMA OnlyConsumptionTakes ==
    ASSUME LedgerInv, Next, NEW l \in LayerIds, qtyRemaining'[l] < qtyRemaining[l]
    PROVE  \E b : \E q \in Nat : Consume(b, q)
  <1>0. /\ \A q \in Quantities : q \in Nat
        /\ qtyRemaining'[l] \in Nat /\ qtyRemaining[l] \in Nat /\ receivedQty[l] \in Nat
        /\ qtyRemaining[l] <= receivedQty[l] /\ (l > nLayers => qtyRemaining[l] = 0)
        /\ nLayers \in Nat /\ l \in Nat
    <2>1. IInv /\ IInv'
      BY IInvInductive DEF LedgerInv
    <2>2. qtyRemaining'[l] \in Nat
      BY <2>1 DEF IInv, TypeOK
    <2> QED
      BY <2>1, <2>2, RowTypes, StockAssumption DEF LedgerInv, Rows, Quantities, LayerIds
  <1>1. ASSUME NEW b, NEW age, NEW n \in Nat, NEW qs, AddLayers(b, age, n, qs)
        PROVE  FALSE
    BY <1>0, <1>1 DEF AddLayers
  <1>2. ASSUME NEW s \in Sales, NEW q \in Nat, NEW age, Restore(s, q, age)
        PROVE  FALSE
    <2> DEFINE plan(k) == LifoPlan(sale[s].trace, TracedPart(sale[s], q), k)
               fresh == FreshQty(sale[s], q)
    <2>1. sale[s].trace \in [LayerIds -> Nat]
      BY RowTypes DEF LedgerInv
    <2>2. plan(l) \in Nat
      BY <2>1, TracedPartType, LifoPlanType
    <2>3. qtyRemaining'[l] = IF fresh > 0 /\ l = nLayers + 1 THEN fresh ELSE Capped(l, plan(l))
      BY <1>2 DEF Restore
    <2> HIDE DEF plan, fresh
    <2>4. Capped(l, plan(l)) >= qtyRemaining[l]
      BY <1>0, <2>2 DEF Capped, Min2
    <2>5. CASE fresh > 0 /\ l = nLayers + 1
      BY <1>0, <2>5
    <2>6. CASE ~(fresh > 0 /\ l = nLayers + 1)
      BY <1>0, <2>3, <2>4, <2>6
    <2> QED
      BY <2>5, <2>6
  <1>3. ASSUME StockIn
        PROVE  FALSE
    <2>1. ASSUME NEW q \in Quantities, NEW age, NEW b,
                 ReceiveDirect(b, q, age) \/ AdjustIn(b, q, age) \/ ProductionIn(b, q, age) \/ ReturnUnlinked(b, q, age)
          PROVE  FALSE
      BY <1>1, <2>1 DEF ReceiveDirect, AdjustIn, ProductionIn, ReturnUnlinked
    <2>2. ASSUME NEW q \in Quantities, NEW age, NEW k \in LayerIds, ReceiveOnOrder(k, q, age)
          PROVE  FALSE
      BY <1>0, <2>2 DEF ReceiveOnOrder, LedgerInv, IInv, TypeOK
    <2>3. ASSUME NEW q \in Quantities, NEW age, NEW k \in LayerIds, ReceiveAtOtherCost(k, q, age)
          PROVE  FALSE
      BY <1>0, <2>3 DEF ReceiveAtOtherCost, LedgerInv, IInv, TypeOK
    <2> QED
      BY <1>3, <2>1, <2>2, <2>3 DEF StockIn
  <1>4. ASSUME StockOut
        PROVE  \E b : \E q \in Nat : Consume(b, q)
    <2>1. PICK b \in Branches, q \in Quantities :
            CreatePurchaseOrder(b, q) \/ AdjustOut(b, q) \/ CreateWasteEntry(b, q) \/ ProductionOut(b, q)
      BY <1>4 DEF StockOut
    <2>2. ~CreatePurchaseOrder(b, q)
      BY <1>0 DEF CreatePurchaseOrder
    <2> QED
      BY <1>0, <2>1, <2>2 DEF AdjustOut, CreateWasteEntry, ProductionOut
  <1>5. ASSUME TransferStep
        PROVE  \E b : \E q \in Nat : Consume(b, q)
    <2>1. ASSUME NEW t \in Transfers, NEW b, NEW d, NEW q \in Quantities, CreateStockTransfer(t, b, d, q)
          PROVE  \E a : \E r \in Nat : Consume(a, r)
      BY <1>0, <2>1 DEF CreateStockTransfer
    <2>2. ASSUME NEW t \in Transfers, NEW age, ReceiveStockTransfer(t, age)
          PROVE  FALSE
      BY <1>1, <2>2 DEF ReceiveStockTransfer
    <2> QED
      BY <1>5, <2>1, <2>2 DEF TransferStep
  <1>6. ASSUME SaleStep
        PROVE  \E b : \E q \in Nat : Consume(b, q)
    <2>0. \A s \in Sales : sale[s].qty \in Nat
      BY RowTypes DEF LedgerInv
    <2>1. ASSUME NEW s \in Sales, NEW b, NEW q \in Quantities, NEW kind, NEW status,
                 CreateSale(s, b, q, kind, status) \/ CreateOfflineSale(s, b, q, kind, status)
          PROVE  \E a : \E r \in Nat : Consume(a, r)
      BY <1>0, <2>1 DEF CreateSale, CreateOfflineSale
    <2>2. ASSUME NEW s \in Sales, NEW b, NEW q, OpenTab(s, b, q) \/ CancelOpenTab(s)
          PROVE  FALSE
      BY <1>0, <2>2 DEF OpenTab, CancelOpenTab, layerVars
    <2>3. ASSUME NEW s \in Sales, CompleteTab(s)
          PROVE  \E a : \E r \in Nat : Consume(a, r)
      BY <2>0, <2>3 DEF CompleteTab
    <2>4. ASSUME NEW s \in Sales, NEW age, VoidSale(s, age) \/ CancelSale(s, age)
          PROVE  FALSE
      BY <1>2, <2>0, <2>4 DEF VoidSale, CancelSale
    <2>5. ASSUME NEW s \in Sales, NEW q \in Quantities, NEW age, ReturnLinked(s, q, age)
          PROVE  FALSE
      BY <1>0, <1>2, <2>5 DEF ReturnLinked
    <2>6. ASSUME NEW s \in Sales, NEW q \in Quantities, NEW age, ReturnNamingSale(s, q, age)
          PROVE  FALSE
      BY <1>1, <2>6 DEF ReturnNamingSale
    <2> QED
      BY <1>6, <2>1, <2>2, <2>3, <2>4, <2>5, <2>6 DEF SaleStep
  <1> QED
    BY <1>3, <1>4, <1>5, <1>6 DEF Next

\* A step that takes units of one layer leaves none in an older layer of the
\* branch (fifo_service.consume_fifo_layers).
LEMMA OldestFirstStep ==
    LedgerInv /\ [Next]_vars =>
        [\A k, l \in LayerIds :
           (/\ layerBranch[k] = layerBranch[l] /\ Older(k, l)
            /\ qtyRemaining'[l] < qtyRemaining[l])
           => qtyRemaining'[k] = 0]_vars
  <1> SUFFICES ASSUME LedgerInv, Next, NEW k \in LayerIds, NEW l \in LayerIds,
                      layerBranch[k] = layerBranch[l], Older(k, l), qtyRemaining'[l] < qtyRemaining[l]
               PROVE  qtyRemaining'[k] = 0
    OBVIOUS
  <1>0. PICK b : \E q \in Nat : Consume(b, q)
    BY OnlyConsumptionTakes
  <1>1. PICK q \in Nat : Consume(b, q)
    BY <1>0
  <1>2. /\ TypeOK /\ qtyRemaining[l] \in Nat /\ qtyRemaining[k] \in Nat /\ Take(b, q, l) \in Nat
    BY TakeBound DEF LedgerInv, IInv, TypeOK
  <1>3. qtyRemaining'[l] = qtyRemaining[l] - Take(b, q, l) /\ qtyRemaining'[k] = qtyRemaining[k] - Take(b, q, k)
    BY <1>1 DEF Consume
  <1>4. Take(b, q, l) > 0
    BY <1>2, <1>3
  <1>5. Take(b, q, k) = qtyRemaining[k]
    BY <1>2, <1>4, OlderTakenWhole
  <1> QED
    BY <1>2, <1>3, <1>5

\* FIFO: whatever the sales, transfers, adjustments and restorations before it,
\* a consumption takes from a layer only when every older layer of its branch
\* is empty after it (fifo_service.consume_fifo_layers).
THEOREM OldestLayerGoesFirst == Spec => OldestLayerFirst
  BY LedgerAlways, OldestFirstStep, PTL DEF Spec, OldestLayerFirst

-----------------------------------------------------------------------------
(* What a sale holds of the stock.                                           *)

\* Tabs are opened, not sent as paid sales, and a sale is cancelled once.
PlainSales == CounterKinds \subseteq {"pos"} /\ MaxCancels <= 1

\* The traces of a sale and what came back of it, by its status.
SaleSound(s) ==
    LET row == sale[s]
        sold == TracedTotal(row.trace) + row.untraced
    IN  /\ row.returned <= row.qty
        /\ ~row.hasReturnLines => row.returned = 0
        /\ row.kind = "dine_in" => row.status \notin {"draft", "partially_paid"}
        /\ row.status = "held" => row.kind = "dine_in"
        /\ row.status \in {"none", "held"} => sold = 0 /\ row.restored = 0 /\ row.returned = 0
        /\ row.status \in PaidStatuses => sold = row.qty /\ row.restored = row.returned
        /\ row.status \in {"cancelled", "voided"} => row.restored = sold
        /\ row.status = "cancelled" => row.cancels >= 1

SalesSound == \A s \in Sales : SaleSound(s)

\* The units of a trace are a quantity.
LEMMA TracedType ==
    ASSUME TypeOK, NEW trace \in [LayerIds -> Nat]
    PROVE  TracedTotal(trace) \in Nat
  <1>1. DOMAIN trace = LayerIds /\ \A l \in LayerIds : trace[l] \in Nat
    OBVIOUS
  <1>2. SumFunctionOnSet(trace, LayerIds) \in Nat
    BY <1>1, LayerOrder, SumType
  <1> QED
    BY <1>1, <1>2 DEF TracedTotal, SumFunction

\* Nothing is traced to no layer.
LEMMA TracedNothing ==
    ASSUME TypeOK
    PROVE  TracedTotal(NoTrace) = 0
  <1>1. DOMAIN NoTrace = LayerIds /\ \A l \in LayerIds : NoTrace[l] = 0
    BY DEF NoTrace
  <1>2. SumFunctionOnSet(NoTrace, LayerIds) = 0
    BY <1>1, LayerOrder, SumZero
  <1> QED
    BY <1>1, <1>2 DEF TracedTotal, SumFunction

\* What a paid tab traces is what it had and what is consumed for it.
LEMMA TracedSum ==
    ASSUME TypeOK, NEW trace \in [LayerIds -> Nat], NEW b, NEW q \in Nat
    PROVE  TracedTotal([l \in LayerIds |-> trace[l] + Take(b, q, l)])
             = TracedTotal(trace) + TracedTotal(Taking(b, q))
  <1> DEFINE both == [l \in LayerIds |-> trace[l] + Take(b, q, l)]
  <1>1. DOMAIN trace = LayerIds /\ DOMAIN both = LayerIds /\ DOMAIN Taking(b, q) = LayerIds
    BY DEF Taking
  <1>2. \A l \in LayerIds : /\ trace[l] \in Int /\ Taking(b, q)[l] \in Int
                            /\ both[l] = trace[l] + Taking(b, q)[l]
    BY TakeBound DEF Taking
  <1> HIDE DEF both
  <1>3. SumFunctionOnSet(both, LayerIds) = SumFunctionOnSet(trace, LayerIds) + SumFunctionOnSet(Taking(b, q), LayerIds)
    BY <1>2, LayerOrder, SumPlus
  <1>4. TracedTotal(both) = TracedTotal(trace) + TracedTotal(Taking(b, q))
    BY <1>1, <1>3 DEF TracedTotal, SumFunction
  <1> QED
    BY <1>4 DEF both

\* Units of a line whose consumption is on record come back entirely
\* (restore_sale_line_inventory).
LEMMA ComesBackWhole ==
    ASSUME TypeOK, NEW line \in SaleRow, NEW q \in Nat, q <= line.qty,
           TracedTotal(line.trace) + line.untraced = line.qty
    PROVE  RestoredQty(line, q) = q
  <1> DEFINE traced == TracedTotal(line.trace)
  <1>1. line.trace \in [LayerIds -> Nat] /\ line.untraced \in Nat /\ line.qty \in Nat
    BY DEF SaleRow
  <1>2. traced \in Nat
    BY <1>1, TracedType
  <1>3. /\ TracedPart(line, q) = q - Monus(q, traced)
        /\ traced # 0 => FreshQty(line, q) = Min2(Monus(q, traced), line.untraced)
        /\ RestoredQty(line, q) = IF traced = 0 THEN q ELSE TracedPart(line, q) + FreshQty(line, q)
    BY DEF TracedPart, FreshQty, RestoredQty
  <1> HIDE DEF traced
  <1>4. \A t, u, n \in Nat : q <= n /\ t + u = n => (q - Monus(q, t)) + Min2(Monus(q, t), u) = q
    BY DEF Min2, Monus
  <1>5. traced + line.untraced = line.qty
    BY DEF traced
  <1> QED
    BY <1>1, <1>2, <1>3, <1>4, <1>5

\* No sale, no stock.
LEMMA SalesSoundInit == Init => SalesSound
  <1> SUFFICES ASSUME Init, NEW s \in Sales
               PROVE  SaleSound(s)
    BY DEF SalesSound
  <1>1. TypeOK
    BY InitOK DEF IInv
  <1>2. sale[s] = NoSale
    BY DEF Init
  <1>3. TracedTotal(NoTrace) = 0
    BY <1>1, TracedNothing
  <1> QED
    BY <1>2, <1>3 DEF SaleSound, NoSale, PaidStatuses

\* Every step about a sale keeps it sound.
LEMMA SaleStepSound ==
    ASSUME PlainSales, LedgerInv, SalesSound, SaleStep
    PROVE  SalesSound'
  <1>0. IInv /\ TypeOK /\ \A q \in Quantities : q \in Nat
    BY DEF LedgerInv, IInv, Quantities
  <1>a. ASSUME NEW s \in Sales, OthersKept(s), SaleSound(s)'
        PROVE  SalesSound'
    <2>1. \A t \in Sales \ {s} : SaleSound(t)'
      BY <1>a DEF SalesSound, SaleSound, OthersKept
    <2> QED
      BY <1>a, <2>1 DEF SalesSound
  <1>b. \A s \in Sales : /\ SaleSound(s) /\ sale[s] \in SaleRow /\ sale[s].trace \in [LayerIds -> Nat]
                         /\ sale[s].untraced \in Nat /\ sale[s].qty \in Nat
                         /\ sale[s].returned \in Nat /\ sale[s].returns \in Nat
                         /\ sale[s].restored \in Nat /\ sale[s].cancels \in Nat
                         /\ TracedTotal(sale[s].trace) \in Nat
    BY <1>0, RowTypes, TracedType DEF SalesSound
  <1>1. ASSUME NEW s \in Sales, NEW b \in Branches, NEW q \in Quantities, NEW kind \in CounterKinds, NEW status \in PaidStatuses,
               CreateSale(s, b, q, kind, status) \/ CreateOfflineSale(s, b, q, kind, status)
        PROVE  SalesSound'
    <2>1. OthersKept(s)
      BY <1>0, <1>1, SoldSaleRow
    <2>2. /\ sale'[s].status = status /\ sale'[s].kind = kind /\ sale'[s].qty = q
          /\ sale'[s].trace = Taking(b, q) /\ sale'[s].untraced = Short(b, q) /\ sale'[s].returned = 0
          /\ sale'[s].hasReturnLines = FALSE /\ sale'[s].restored = 0
      BY <1>0, <1>1, SoldSaleRow
    <2>3. TracedTotal(Taking(b, q)) + Short(b, q) = q /\ q \in Nat
      BY <1>0, ConsumeServes
    <2>4. kind = "pos"
      BY DEF PlainSales
    <2>5. SaleSound(s)'
      BY <2>2, <2>3, <2>4 DEF SaleSound, PaidStatuses
    <2> QED
      BY <1>a, <2>1, <2>5
  <1>2. ASSUME NEW s \in Sales, NEW b \in Branches, NEW q \in Quantities, OpenTab(s, b, q)
        PROVE  SalesSound'
    <2>0. OpenTab(s, b, q)
      BY <1>2
    <2>1. OthersKept(s)
      BY <1>0, <2>0, OpenTabRow, ZenonT(30)
    <2>2. /\ sale'[s].status = "held" /\ sale'[s].kind = "dine_in" /\ sale'[s].qty = q
          /\ sale'[s].trace = NoTrace /\ sale'[s].untraced = 0 /\ sale'[s].returned = 0
          /\ sale'[s].hasReturnLines = FALSE /\ sale'[s].restored = 0
      BY <1>0, <2>0, OpenTabRow, ZenonT(30)
    <2>3. TracedTotal(NoTrace) = 0 /\ q \in Nat
      BY <1>0, TracedNothing
    <2>4. SaleSound(s)'
      BY <2>2, <2>3 DEF SaleSound, PaidStatuses
    <2> QED
      BY <1>a, <2>1, <2>4
  <1>3. ASSUME NEW s \in Sales, CompleteTab(s)
        PROVE  SalesSound'
    <2>1. sale[s].status = "held"
      BY <1>b, <1>3 DEF CompleteTab, ActiveTabStatuses, SaleSound
    <2>2. /\ Concerns(s) /\ sale'[s].status = "completed"
          /\ sale'[s].trace = [l \in LayerIds |-> sale[s].trace[l] + Take(sale[s].branch, sale[s].qty, l)]
          /\ sale'[s].untraced = sale[s].untraced + Short(sale[s].branch, sale[s].qty)
          /\ sale'[s].returned = sale[s].returned /\ sale'[s].restored = sale[s].restored
          /\ sale'[s].hasReturnLines = sale[s].hasReturnLines
      BY <1>0, <1>3, CompleteTabRow
    <2> DEFINE more == TracedTotal(Taking(sale[s].branch, sale[s].qty))
               short == Short(sale[s].branch, sale[s].qty)
    <2>3. more + short = sale[s].qty /\ short \in Nat
      BY <1>0, <1>b, ConsumeServes, ShortType
    <2>4. TracedTotal(sale'[s].trace) = TracedTotal(sale[s].trace) + more
      BY <1>0, <1>b, <2>2, TracedSum
    <2>5. more \in Nat
      <3>1. Taking(sale[s].branch, sale[s].qty) \in [LayerIds -> Nat]
        BY <1>0, <1>b, TakeBound DEF Taking
      <3> QED
        BY <1>0, <3>1, TracedType
    <2> HIDE DEF more
    <2>6. /\ TracedTotal(sale[s].trace) + sale[s].untraced = 0
          /\ sale[s].restored = 0 /\ sale[s].returned = 0
      BY <1>b, <2>1 DEF SaleSound
    <2>7. TracedTotal(sale'[s].trace) + sale'[s].untraced = sale[s].qty
      <3>1. sale'[s].untraced = sale[s].untraced + short
        BY <2>2
      <3> HIDE DEF short
      <3> QED
        BY <1>b, <2>3, <2>4, <2>5, <2>6, <3>1
    <2>8. SaleSound(s)'
      BY <1>b, <2>2, <2>6, <2>7 DEF SaleSound, PaidStatuses, Concerns
    <2> QED
      BY <1>a, <2>2, <2>8 DEF Concerns
  <1>4. ASSUME NEW s \in Sales, CancelOpenTab(s)
        PROVE  SalesSound'
    <2>1. sale[s].status = "held"
      BY <1>b, <1>4 DEF CancelOpenTab, ActiveTabStatuses, SaleSound
    <2>2. /\ Concerns(s) /\ sale'[s].status = "cancelled" /\ sale'[s].cancels = sale[s].cancels + 1
          /\ sale'[s].trace = sale[s].trace /\ sale'[s].untraced = sale[s].untraced
          /\ sale'[s].returned = sale[s].returned /\ sale'[s].restored = sale[s].restored
          /\ sale'[s].hasReturnLines = sale[s].hasReturnLines
      BY <1>0, <1>4, CancelOpenTabRow
    <2>3. SaleSound(s)'
      BY <1>b, <2>1, <2>2 DEF SaleSound, PaidStatuses, Concerns
    <2> QED
      BY <1>a, <2>2, <2>3 DEF Concerns
  <1>5. ASSUME NEW s \in Sales, NEW age \in Ages, VoidSale(s, age) \/ CancelSale(s, age)
        PROVE  SalesSound'
    <2>1. sale[s].status \in PaidStatuses /\ ~sale[s].hasReturnLines
      <3>1. CASE VoidSale(s, age)
        BY <3>1 DEF VoidSale, PaidStatuses
      <3>2. CASE CancelSale(s, age)
        <4>1. sale[s].cancels < 1 /\ sale[s].status # "cancelled"
          BY <1>b, <3>2, StockAssumption DEF CancelSale, PlainSales, SaleSound
        <4>2. sale[s].status \in SaleStatuses
          BY <1>0, RowTypes
        <4> QED
          BY <1>b, <3>2, <4>1, <4>2 DEF CancelSale, SaleSound, SaleStatuses, PaidStatuses, ActiveTabStatuses
      <3> QED
        BY <1>5, <3>1, <3>2
    <2>2. /\ TracedTotal(sale[s].trace) + sale[s].untraced = sale[s].qty
          /\ sale[s].returned = 0 /\ sale[s].restored = 0
      BY <1>b, <2>1 DEF SaleSound
    <2>3. RestoredQty(sale[s], sale[s].qty) = sale[s].qty
      BY <1>0, <1>b, <2>2, ComesBackWhole
    <2>4. /\ Concerns(s) /\ sale'[s].status \in {"voided", "cancelled"}
          /\ sale'[s].status = "cancelled" => sale'[s].cancels = sale[s].cancels + 1
          /\ sale'[s].restored = sale[s].restored + RestoredQty(sale[s], sale[s].qty)
          /\ sale'[s].trace = sale[s].trace /\ sale'[s].untraced = sale[s].untraced
          /\ sale'[s].returned = sale[s].returned
      <3>1. CASE VoidSale(s, age)
        BY <1>0, <3>1, VoidSaleRow
      <3>2. CASE CancelSale(s, age)
        BY <1>0, <3>2, CancelSaleRow
      <3> QED
        BY <1>5, <3>1, <3>2
    <2>5. SaleSound(s)'
      BY <1>b, <2>2, <2>3, <2>4 DEF SaleSound, PaidStatuses, Concerns
    <2> QED
      BY <1>a, <2>4, <2>5 DEF Concerns
  <1>6. ASSUME NEW s \in Sales, NEW q \in Quantities, NEW age \in Ages, ReturnLinked(s, q, age)
        PROVE  SalesSound'
    <2>1. sale[s].status \in {"partially_paid", "completed"} /\ sale[s].returned + q <= sale[s].qty
      BY <1>0, <1>6, RowTypes DEF ReturnLinked, Returnable, SaleStatuses
    <2>2. /\ TracedTotal(sale[s].trace) + sale[s].untraced = sale[s].qty
          /\ sale[s].restored = sale[s].returned
      BY <1>b, <2>1 DEF SaleSound, PaidStatuses
    <2>3. q \in Nat /\ q <= sale[s].qty
      BY <1>0, <1>b, <2>1
    <2>4. RestoredQty(sale[s], q) = q
      BY <1>0, <1>b, <2>2, <2>3, ComesBackWhole
    <2>5. /\ Concerns(s) /\ sale'[s].status = sale[s].status /\ sale'[s].hasReturnLines = TRUE
          /\ sale'[s].returned = sale[s].returned + q
          /\ sale'[s].restored = sale[s].restored + RestoredQty(sale[s], q)
          /\ sale'[s].trace = sale[s].trace /\ sale'[s].untraced = sale[s].untraced
          /\ sale'[s].cancels = sale[s].cancels
      BY <1>0, <1>6, ReturnLinkedRow
    <2>6. SaleSound(s)'
      BY <1>b, <2>1, <2>2, <2>3, <2>4, <2>5 DEF SaleSound, PaidStatuses, Concerns
    <2> QED
      BY <1>a, <2>5, <2>6 DEF Concerns
  <1>7. ASSUME NEW s \in Sales, NEW q \in Quantities, NEW age \in Ages, ReturnNamingSale(s, q, age)
        PROVE  SalesSound'
    <2>1. /\ Concerns(s) /\ sale'[s].status = sale[s].status /\ sale'[s].hasReturnLines = TRUE
          /\ sale'[s].returned = sale[s].returned /\ sale'[s].restored = sale[s].restored
          /\ sale'[s].trace = sale[s].trace /\ sale'[s].untraced = sale[s].untraced
          /\ sale'[s].cancels = sale[s].cancels
      BY <1>0, <1>7, ReturnNamingSaleRow
    <2>2. SaleSound(s)'
      BY <1>b, <2>1 DEF SaleSound, PaidStatuses, Concerns
    <2> QED
      BY <1>a, <2>1, <2>2 DEF Concerns
  <1> QED
    BY <1>1, <1>2, <1>3, <1>4, <1>5, <1>6, <1>7 DEF SaleStep

\* So does every other step, which leaves the sales alone.
LEMMA SalesSoundInductive ==
    ASSUME PlainSales
    PROVE  LedgerInv /\ SalesSound /\ [Next]_vars => SalesSound'
  <1> SUFFICES ASSUME LedgerInv, SalesSound, [Next]_vars
               PROVE  SalesSound'
    OBVIOUS
  <1>1. CASE UNCHANGED sale
    BY <1>1 DEF SalesSound, SaleSound
  <1>2. StockIn \/ StockOut \/ TransferStep => UNCHANGED sale
    BY DEF StockIn, StockOut, TransferStep, ReceiveDirect, AdjustIn, ProductionIn, ReturnUnlinked, ReceiveOnOrder,
       ReceiveAtOtherCost, CreatePurchaseOrder, AdjustOut, CreateWasteEntry, ProductionOut, CreateStockTransfer,
       ReceiveStockTransfer
  <1>3. CASE SaleStep
    BY <1>3, SaleStepSound
  <1> QED
    BY <1>1, <1>2, <1>3 DEF Next, vars

\* Where tabs are opened as tabs and a sale is cancelled once, the stock effect
\* of a sale matches its status, however often goods are returned, whatever is
\* sold short and whatever else happens (sale_service, restaurant_tab_service,
\* return_service, fifo_service).
THEOREM SaleStockAlwaysMatchesStatus ==
    ASSUME PlainSales
    PROVE  Spec => []SaleStockMatchesStatus
  <1>1. Init => SalesSound
    BY SalesSoundInit
  <1>2. LedgerInv /\ SalesSound /\ [Next]_vars => SalesSound'
    BY SalesSoundInductive
  <1>3. LedgerInv /\ SalesSound => SaleStockMatchesStatus
    <2> SUFFICES ASSUME LedgerInv, SalesSound, NEW s \in Sales
                 PROVE  CASE sale[s].status \in {"none", "held", "cancelled", "voided"} ->
                               TracedTotal(sale[s].trace) + sale[s].untraced - sale[s].restored = 0
                          [] OTHER -> TracedTotal(sale[s].trace) + sale[s].untraced - sale[s].restored
                                        = sale[s].qty - sale[s].returned
      BY DEF SaleStockMatchesStatus
    <2>1. /\ sale[s].untraced \in Nat /\ sale[s].restored \in Nat /\ sale[s].qty \in Nat /\ sale[s].returned \in Nat
          /\ TracedTotal(sale[s].trace) \in Nat /\ sale[s].status \in SaleStatuses
      BY RowTypes, TracedType DEF LedgerInv, IInv
    <2>2. SaleSound(s)
      BY DEF SalesSound
    <2> QED
      BY <2>1, <2>2 DEF SaleSound, PaidStatuses, SaleStatuses
  <1> QED
    BY <1>1, <1>2, <1>3, LedgerAlways, PTL DEF Spec

-----------------------------------------------------------------------------
(* Layers in step with their movements.                                      *)

\* A line is returned at most once, and a sale cancelled at most once: what
\* restore_fifo_layers keeps no record of.
RestoredOnce == MaxReturns <= 1 /\ MaxCancels <= 1

\* What a restoration of sale s may still give back to layer l.
Owed(s, l) ==
    IF sale[s].status \notin {"cancelled", "voided"} /\ sale[s].returns = 0 THEN sale[s].trace[l] ELSE 0

OwedTo(l) == SumFunctionOnSet([s \in Sales |-> Owed(s, l)], Sales)

\* A layer has room for whatever may come back, so the cap of
\* restore_fifo_layers never bites.
Room == \A l \in LayerIds : qtyRemaining[l] + OwedTo(l) <= receivedQty[l]

\* The sale's own record of its returns and cancels.
RestorationsKnown ==
    \A s \in Sales : /\ ~sale[s].hasReturnLines => sale[s].returns = 0
                     /\ sale[s].status = "cancelled" => sale[s].cancels >= 1

InStep == LayersInStep /\ Room /\ RestorationsKnown

\* What is owed is a quantity.
LEMMA OwedType ==
    ASSUME IInv, NEW l \in LayerIds
    PROVE  OwedTo(l) \in Nat /\ \A s \in Sales : Owed(s, l) \in Nat
  <1>1. \A s \in Sales : Owed(s, l) \in Nat
    BY RowTypes DEF Owed
  <1> DEFINE f == [s \in Sales |-> Owed(s, l)]
  <1>2. \A s \in Sales : f[s] \in Nat
    BY <1>1
  <1>3. SumFunctionOnSet(f, Sales) \in Nat
    BY <1>2, StockAssumption, SumType
  <1> QED
    BY <1>1, <1>3 DEF OwedTo

\* A step about one sale changes what that sale is owed.
LEMMA OwedChanges ==
    ASSUME IInv, IInv', NEW s \in Sales, OthersKept(s), NEW l \in LayerIds
    PROVE  OwedTo(l)' = OwedTo(l) - Owed(s, l) + Owed(s, l)'
  <1> DEFINE f == [t \in Sales |-> Owed(t, l)]
             g == [t \in Sales |-> Owed(t, l)']
  <1>1. \A t \in Sales : Owed(t, l) \in Nat /\ Owed(t, l)' \in Nat
    BY OwedType, RowTypes DEF Owed, IInv, TypeOK, SaleRow
  <1>2. \A t \in Sales \ {s} : Owed(t, l)' = Owed(t, l)
    BY DEF Owed, OthersKept
  <1>3. /\ \A t \in Sales : f[t] \in Int /\ g[t] \in Int
        /\ \A t \in Sales \ {s} : g[t] = f[t]
        /\ f[s] = Owed(s, l) /\ g[s] = Owed(s, l)'
    BY <1>1, <1>2
  <1>4. SumFunctionOnSet(f, Sales) = OwedTo(l) /\ SumFunctionOnSet(g, Sales) = OwedTo(l)'
    BY DEF OwedTo
  <1> HIDE DEF f, g
  <1>5. SumFunctionOnSet(g, Sales) = SumFunctionOnSet(f, Sales) - f[s] + g[s]
    BY <1>3, StockAssumption, SumUpdate
  <1> QED
    BY <1>3, <1>4, <1>5

\* Stock comes in as layers of its own (create_fifo_layer).
LEMMA AddLayersInStep ==
    ASSUME LedgerInv, IInv', InStep, NEW b, NEW age, NEW n \in Nat, NEW qs, AddLayers(b, age, n, qs),
           \A l \in LayerIds : OwedTo(l)' = OwedTo(l)
    PROVE  LayersInStep' /\ Room'
  <1>1. ASSUME NEW l \in LayerIds
        PROVE  qtyRemaining'[l] = moved'[l] /\ qtyRemaining'[l] + OwedTo(l)' <= receivedQty'[l]
    <2>1. OwedTo(l) \in Nat /\ l \in Nat /\ nLayers \in Nat
      BY OwedType, RowTypes, StockAssumption DEF LedgerInv, LayerIds
    <2>2. CASE l \in (nLayers + 1)..(nLayers + n)
      <3>1. l > nLayers
        BY <2>1, <2>2
      <3>2. OwedTo(l) = 0
        <4>1. \A s \in Sales : [t \in Sales |-> Owed(t, l)][s] = 0
          BY <3>1 DEF LedgerInv, Rows, Owed
        <4> QED
          BY <4>1, StockAssumption, SumZero DEF OwedTo
      <3>3. qtyRemaining'[l] = qs[l - nLayers] /\ moved'[l] = qs[l - nLayers] /\ receivedQty'[l] = qs[l - nLayers]
        BY <2>2 DEF AddLayers
      <3>4. qtyRemaining'[l] \in Nat
        BY DEF IInv, TypeOK
      <3> QED
        BY <3>2, <3>3, <3>4
    <2>3. CASE l \notin (nLayers + 1)..(nLayers + n)
      BY <2>3 DEF AddLayers, InStep, LayersInStep, Room
    <2> QED
      BY <2>2, <2>3
  <1> QED
    BY <1>1 DEF LayersInStep, Room

\* Consumption takes as much from a layer as its movement says
\* (consume_to_movements), and the sale is owed that at most.
LEMMA ConsumeInStep ==
    ASSUME LedgerInv, InStep, NEW b, NEW q \in Nat, Consume(b, q),
           \A l \in LayerIds : OwedTo(l)' \in Nat /\ OwedTo(l)' <= OwedTo(l) + Take(b, q, l)
    PROVE  LayersInStep' /\ Room'
  <1>1. ASSUME NEW l \in LayerIds
        PROVE  qtyRemaining'[l] = moved'[l] /\ qtyRemaining'[l] + OwedTo(l)' <= receivedQty'[l]
    <2>1. /\ qtyRemaining'[l] = qtyRemaining[l] - Take(b, q, l) /\ moved'[l] = moved[l] - Take(b, q, l)
          /\ receivedQty'[l] = receivedQty[l]
      BY DEF Consume
    <2>2. /\ OwedTo(l) \in Nat /\ qtyRemaining[l] \in Nat /\ receivedQty[l] \in Nat /\ Take(b, q, l) \in Nat
          /\ qtyRemaining[l] = moved[l] /\ qtyRemaining[l] + OwedTo(l) <= receivedQty[l]
      BY OwedType, RowTypes, TakeBound DEF LedgerInv, IInv, InStep, LayersInStep, Room
    <2> QED
      BY <2>1, <2>2
  <1> QED
    BY <1>1 DEF LayersInStep, Room

\* A restoration gives back no more than the sale is owed, so the cap leaves
\* the layer in step with its movement (restore_fifo_layers).
LEMMA RestoreInStep ==
    ASSUME LedgerInv, IInv', InStep, NEW s \in Sales, NEW q \in Nat, NEW age, Restore(s, q, age), OthersKept(s),
           \A l \in LayerIds : Owed(s, l) = sale[s].trace[l] /\ Owed(s, l)' = 0
    PROVE  LayersInStep' /\ Room'
  <1> DEFINE plan(l) == LifoPlan(sale[s].trace, TracedPart(sale[s], q), l)
             fresh == FreshQty(sale[s], q)
  <1>1. ASSUME NEW l \in LayerIds
        PROVE  qtyRemaining'[l] = moved'[l] /\ qtyRemaining'[l] + OwedTo(l)' <= receivedQty'[l]
    <2>1. /\ OwedTo(l) \in Nat /\ OwedTo(l)' \in Nat /\ qtyRemaining[l] \in Nat /\ receivedQty[l] \in Nat
          /\ qtyRemaining[l] = moved[l] /\ qtyRemaining[l] + OwedTo(l) <= receivedQty[l]
          /\ sale[s].trace[l] \in Nat
      <3>1. IInv /\ IInv'
        BY DEF LedgerInv
      <3>2. OwedTo(l)' \in Nat
        <4>1. \A t \in Sales : Owed(t, l)' \in Nat
          BY <3>1 DEF Owed, IInv, TypeOK, SaleRow
        <4>2. SumFunctionOnSet([t \in Sales |-> Owed(t, l)'], Sales) \in Nat
          BY <4>1, StockAssumption, SumType
        <4> QED
          BY <4>2 DEF OwedTo
      <3> QED
        BY <3>1, <3>2, OwedType, RowTypes DEF InStep, LayersInStep, Room
    <2>2. OwedTo(l)' = OwedTo(l) - sale[s].trace[l]
      <3>1. OwedTo(l)' = OwedTo(l) - Owed(s, l) + Owed(s, l)'
        BY OwedChanges DEF LedgerInv
      <3> QED
        BY <2>1, <3>1
    <2>3. plan(l) \in Nat /\ plan(l) <= sale[s].trace[l]
      <3> DEFINE rest == Monus(TracedPart(sale[s], q), SumFunctionOnSet(sale[s].trace, {k \in LayerIds : Older(l, k)}))
      <3>1. rest \in Nat
        BY MonusType, TracedPartType
      <3>2. plan(l) = Min2(sale[s].trace[l], rest)
        BY DEF LifoPlan
      <3> HIDE DEF rest, plan
      <3> QED
        BY <2>1, <3>1, <3>2, Min2Type
    <2>4. /\ qtyRemaining'[l] = IF fresh > 0 /\ l = nLayers + 1 THEN fresh ELSE Capped(l, plan(l))
          /\ moved'[l] = IF fresh > 0 /\ l = nLayers + 1 THEN fresh ELSE moved[l] + plan(l)
          /\ receivedQty'[l] = IF fresh > 0 /\ l = nLayers + 1 THEN fresh ELSE receivedQty[l]
      BY DEF Restore
    <2> HIDE DEF plan, fresh
    <2>5. CASE fresh > 0 /\ l = nLayers + 1
      <3>1. l > nLayers
        BY <2>5, RowTypes DEF LedgerInv
      <3>2. OwedTo(l) = 0
        <4>1. \A t \in Sales : [u \in Sales |-> Owed(u, l)][t] = 0
          BY <3>1 DEF LedgerInv, Rows, Owed
        <4> QED
          BY <4>1, StockAssumption, SumZero DEF OwedTo
      <3>3. sale[s].trace[l] = 0 /\ fresh \in Int
        <4>1. qtyRemaining'[l] \in Nat
          BY DEF IInv, TypeOK
        <4> QED
          BY <2>4, <2>5, <3>1, <4>1 DEF LedgerInv, Rows
      <3> QED
        BY <2>2, <2>4, <2>5, <3>2, <3>3
    <2>6. CASE ~(fresh > 0 /\ l = nLayers + 1)
      <3>1. Capped(l, plan(l)) = qtyRemaining[l] + plan(l)
        <4>1. qtyRemaining[l] + plan(l) <= receivedQty[l]
          BY <2>1, <2>2, <2>3
        <4> QED
          BY <2>1, <2>3, <4>1 DEF Capped, Min2
      <3> QED
        BY <2>1, <2>2, <2>3, <2>4, <2>6, <3>1
    <2> QED
      BY <2>5, <2>6
  <1> QED
    BY <1>1 DEF LayersInStep, Room

\* An empty ledger is in step.
LEMMA InStepInit == Init => InStep
  <1> SUFFICES ASSUME Init
               PROVE  InStep
    OBVIOUS
  <1>1. LayersInStep /\ RestorationsKnown
    BY DEF Init, LayersInStep, RestorationsKnown, NoSale
  <1>2. ASSUME NEW l \in LayerIds
        PROVE  OwedTo(l) = 0
    <2> DEFINE f == [s \in Sales |-> Owed(s, l)]
    <2>1. \A s \in Sales : f[s] = 0
      BY DEF Init, Owed, NoSale, NoTrace
    <2>2. SumFunctionOnSet(f, Sales) = 0
      BY <2>1, StockAssumption, SumZero
    <2> QED
      BY <2>2 DEF OwedTo
  <1>3. Room
    BY <1>2 DEF Init, Room
  <1> QED
    BY <1>1, <1>3 DEF InStep

\* Stock coming in, and consumption that is not a sale's.
LEMMA StockInStep ==
    ASSUME LedgerInv, IInv', InStep, StockIn \/ StockOut \/ TransferStep
    PROVE  InStep'
  <1>0. UNCHANGED sale /\ \A q \in Quantities : q \in Nat
    BY DEF Quantities, StockIn, StockOut, TransferStep, ReceiveDirect, AdjustIn, ProductionIn, ReturnUnlinked, ReceiveOnOrder,
       ReceiveAtOtherCost, CreatePurchaseOrder, AdjustOut, CreateWasteEntry, ProductionOut, CreateStockTransfer,
       ReceiveStockTransfer
  <1>1. RestorationsKnown' /\ \A l \in LayerIds : OwedTo(l)' = OwedTo(l)
    BY <1>0 DEF InStep, RestorationsKnown, OwedTo, Owed
  <1>2. \A l \in LayerIds : OwedTo(l) \in Nat /\ OwedTo(l)' \in Nat
    BY <1>1, OwedType DEF LedgerInv
  <1>3. ASSUME NEW b, NEW age, NEW n \in Nat, NEW qs, AddLayers(b, age, n, qs)
        PROVE  LayersInStep' /\ Room'
    BY <1>1, <1>3, AddLayersInStep
  <1>4. ASSUME NEW b, NEW q \in Nat, Consume(b, q)
        PROVE  LayersInStep' /\ Room'
    <2>1. \A l \in LayerIds : OwedTo(l)' \in Nat /\ OwedTo(l)' <= OwedTo(l) + Take(b, q, l)
      <3>1. \A l \in LayerIds : Take(b, q, l) \in Nat
        BY TakeBound DEF LedgerInv, IInv
      <3> QED
        BY <1>1, <1>2, <3>1
    <2> QED
      BY <1>4, <2>1, ConsumeInStep
  <1>5. \A l \in LayerIds : /\ l \in Nat /\ qtyRemaining[l] \in Nat /\ receivedQty[l] \in Nat /\ qtyRemaining[l] = moved[l]
                            /\ qtyRemaining[l] + OwedTo(l) <= receivedQty[l] /\ nLayers \in Nat
                            /\ (l > nLayers => qtyRemaining[l] = 0 /\ receivedQty[l] = 0)
    BY RowTypes, StockAssumption DEF LedgerInv, InStep, LayersInStep, Room, Rows, LayerIds
  <1>6. ASSUME StockIn
        PROVE  LayersInStep' /\ Room'
    <2>1. ASSUME NEW q \in Quantities, NEW age, NEW b,
                 ReceiveDirect(b, q, age) \/ AdjustIn(b, q, age) \/ ProductionIn(b, q, age) \/ ReturnUnlinked(b, q, age)
          PROVE  LayersInStep' /\ Room'
      BY <1>3, <2>1 DEF ReceiveDirect, AdjustIn, ProductionIn, ReturnUnlinked
    <2>2. ASSUME NEW q \in Quantities, NEW age, NEW k \in LayerIds, ReceiveOnOrder(k, q, age)
          PROVE  LayersInStep' /\ Room'
      <3>1. \A l \in LayerIds :
              /\ qtyRemaining'[l] = IF l = k THEN qtyRemaining[l] + q ELSE qtyRemaining[l]
              /\ receivedQty'[l] = IF l = k THEN receivedQty[l] + q ELSE receivedQty[l]
              /\ moved'[l] = IF l = k THEN moved[l] + q ELSE moved[l]
        BY <2>2 DEF ReceiveOnOrder, LedgerInv, IInv, TypeOK
      <3>2. \A l \in LayerIds : qtyRemaining'[l] = moved'[l] /\ qtyRemaining'[l] + OwedTo(l)' <= receivedQty'[l]
        BY <1>0, <1>1, <1>2, <1>5, <3>1
      <3> QED
        BY <3>2 DEF LayersInStep, Room
    <2>3. ASSUME NEW q \in Quantities, NEW age, NEW k \in LayerIds, ReceiveAtOtherCost(k, q, age)
          PROVE  LayersInStep' /\ Room'
      <3>1. /\ k <= nLayers /\ k \in Nat
            /\ receivedQty' = [receivedQty EXCEPT ![k] = @ + q, ![nLayers + 1] = q]
            /\ qtyRemaining' = [qtyRemaining EXCEPT ![nLayers + 1] = q]
            /\ moved' = [moved EXCEPT ![nLayers + 1] = q]
        BY <1>5, <2>3 DEF ReceiveAtOtherCost
      <3>2. /\ receivedQty \in [LayerIds -> Nat] /\ qtyRemaining \in [LayerIds -> Nat] /\ moved \in [LayerIds -> Int]
            /\ nLayers \in Nat /\ k # nLayers + 1
        BY <1>5, <3>1 DEF LedgerInv, IInv, TypeOK
      <3>3. \A l \in LayerIds :
              /\ qtyRemaining'[l] = IF l = nLayers + 1 THEN q ELSE qtyRemaining[l]
              /\ receivedQty'[l] = IF l = k THEN receivedQty[l] + q ELSE IF l = nLayers + 1 THEN q ELSE receivedQty[l]
              /\ moved'[l] = IF l = nLayers + 1 THEN q ELSE moved[l]
        BY <3>1, <3>2
      <3>4. \A l \in LayerIds : l = nLayers + 1 => OwedTo(l) = 0
        BY <1>2, <1>5
      <3>5. \A l \in LayerIds : qtyRemaining'[l] = moved'[l] /\ qtyRemaining'[l] + OwedTo(l)' <= receivedQty'[l]
        BY <1>0, <1>1, <1>2, <1>5, <3>2, <3>3, <3>4
      <3> QED
        BY <3>5 DEF LayersInStep, Room
    <2> QED
      BY <1>6, <2>1, <2>2, <2>3 DEF StockIn
  <1>7. ASSUME StockOut
        PROVE  LayersInStep' /\ Room'
    <2>1. ASSUME NEW b, NEW q \in Quantities, AdjustOut(b, q) \/ CreateWasteEntry(b, q) \/ ProductionOut(b, q)
          PROVE  LayersInStep' /\ Room'
      BY <1>0, <1>4, <2>1 DEF AdjustOut, CreateWasteEntry, ProductionOut
    <2>2. ASSUME NEW b, NEW q, CreatePurchaseOrder(b, q)
          PROVE  LayersInStep' /\ Room'
      BY <1>1, <2>2 DEF CreatePurchaseOrder, InStep, LayersInStep, Room
    <2> QED
      BY <1>7, <2>1, <2>2 DEF StockOut
  <1>8. ASSUME TransferStep
        PROVE  LayersInStep' /\ Room'
    <2>1. ASSUME NEW t \in Transfers, NEW b, NEW d, NEW q \in Quantities, CreateStockTransfer(t, b, d, q)
          PROVE  LayersInStep' /\ Room'
      BY <1>0, <1>4, <2>1 DEF CreateStockTransfer
    <2>2. ASSUME NEW t \in Transfers, NEW age, ReceiveStockTransfer(t, age)
          PROVE  LayersInStep' /\ Room'
      <3>1. PICK n \in 1..MaxLayers : AddLayers(transfer[t].dest, age, n, transfer[t].slices)
        BY <2>2 DEF ReceiveStockTransfer
      <3>2. n \in Nat
        OBVIOUS
      <3> QED
        BY <1>3, <3>1, <3>2
    <2> QED
      BY <1>8, <2>1, <2>2 DEF TransferStep
  <1> QED
    BY <1>1, <1>6, <1>7, <1>8 DEF InStep

\* Sales, tabs, cancels and returns.
LEMMA SaleInStep ==
    ASSUME RestoredOnce, LedgerInv, IInv', InStep, SaleStep
    PROVE  InStep'
  <1>0. IInv /\ \A q \in Quantities : q \in Nat
    BY DEF LedgerInv, Quantities
  <1>a. \A l \in LayerIds : /\ OwedTo(l) \in Nat /\ \A s \in Sales : Owed(s, l) \in Nat /\ Owed(s, l)' \in Nat
                            /\ \A s \in Sales : OthersKept(s) => OwedTo(l)' = OwedTo(l) - Owed(s, l) + Owed(s, l)'
    <2>1. \A l \in LayerIds : \A s \in Sales : Owed(s, l)' \in Nat
      BY DEF Owed, IInv, TypeOK, SaleRow
    <2> QED
      BY <1>0, <2>1, OwedType, OwedChanges
  <1>b. ASSUME NEW s \in Sales, OthersKept(s),
               ~sale'[s].hasReturnLines => sale'[s].returns = 0,
               sale'[s].status = "cancelled" => sale'[s].cancels >= 1
        PROVE  RestorationsKnown'
    BY <1>b DEF InStep, RestorationsKnown, OthersKept
  <1>c. \A s \in Sales : /\ sale[s].returns \in Nat /\ sale[s].cancels \in Nat /\ sale[s].qty \in Nat
                         /\ sale[s].trace \in [LayerIds -> Nat]
                         /\ (~sale[s].hasReturnLines => sale[s].returns = 0)
                         /\ (sale[s].status = "cancelled" => sale[s].cancels >= 1)
    BY <1>0, RowTypes DEF InStep, RestorationsKnown
  <1>d. ASSUME NEW s \in Sales, OthersKept(s), \A l \in LayerIds : Owed(s, l)' <= Owed(s, l), UNCHANGED <<layerVars, loose>>
        PROVE  LayersInStep' /\ Room'
    <2>1. \A l \in LayerIds : OwedTo(l)' <= OwedTo(l) /\ OwedTo(l)' \in Int
      BY <1>a, <1>d
    <2>2. \A l \in LayerIds : qtyRemaining[l] \in Nat /\ receivedQty[l] \in Nat
      BY <1>0, RowTypes
    <2> QED
      BY <1>a, <1>d, <2>1, <2>2 DEF layerVars, InStep, LayersInStep, Room
  <1>e. ASSUME NEW s \in Sales, OthersKept(s), NEW b, NEW q \in Nat, Consume(b, q),
               \A l \in LayerIds : Owed(s, l)' <= Owed(s, l) + Take(b, q, l)
        PROVE  LayersInStep' /\ Room'
    <2>1. \A l \in LayerIds : Take(b, q, l) \in Nat
      BY <1>0, TakeBound DEF IInv
    <2>2. \A l \in LayerIds : OwedTo(l)' \in Nat
      <3>1. ASSUME NEW l \in LayerIds
            PROVE  OwedTo(l)' \in Nat
        <4> DEFINE f == [t \in Sales |-> Owed(t, l)']
        <4>1. \A t \in Sales : f[t] \in Nat
          BY <1>a
        <4>2. SumFunctionOnSet(f, Sales) \in Nat
          BY <4>1, StockAssumption, SumType
        <4> QED
          BY <4>2 DEF OwedTo
      <3> QED
        BY <3>1
    <2>3. \A l \in LayerIds : OwedTo(l)' <= OwedTo(l) + Take(b, q, l)
      BY <1>a, <1>e, <2>1
    <2> QED
      BY <1>e, <2>2, <2>3, ConsumeInStep
  <1>1. ASSUME NEW s \in Sales, NEW b \in Branches, NEW q \in Quantities, NEW kind \in CounterKinds, NEW status \in PaidStatuses,
               CreateSale(s, b, q, kind, status) \/ CreateOfflineSale(s, b, q, kind, status)
        PROVE  InStep'
    <2>1. OthersKept(s)
      BY <1>0, <1>1, SoldSaleRow
    <2>2. /\ sale'[s].status = status /\ sale'[s].trace = Taking(b, q) /\ sale'[s].returns = 0
      BY <1>0, <1>1, SoldSaleRow
    <2>3. status # "cancelled" /\ status # "voided"
      BY DEF PaidStatuses
    <2>4. RestorationsKnown'
      BY <1>b, <2>1, <2>2, <2>3
    <2>5. Consume(b, q)
      BY <1>1 DEF CreateSale, CreateOfflineSale
    <2>6. \A l \in LayerIds : Owed(s, l)' = Take(b, q, l)
      BY <2>2, <2>3 DEF Owed, Taking
    <2>7. \A l \in LayerIds : Owed(s, l)' <= Owed(s, l) + Take(b, q, l)
      BY <1>a, <2>6
    <2> QED
      BY <1>0, <1>e, <2>1, <2>4, <2>5, <2>7 DEF InStep
  <1>2. ASSUME NEW s \in Sales, NEW b \in Branches, NEW q \in Quantities, OpenTab(s, b, q)
        PROVE  InStep'
    <2>1. OthersKept(s) /\ sale'[s].status = "held" /\ sale'[s].trace = NoTrace /\ sale'[s].returns = 0
      BY <1>0, <1>2, OpenTabRow
    <2>2. RestorationsKnown'
      BY <1>b, <2>1
    <2>3. \A l \in LayerIds : Owed(s, l)' = 0
      BY <2>1 DEF Owed, NoTrace
    <2>4. \A l \in LayerIds : Owed(s, l)' <= Owed(s, l)
      BY <1>a, <2>3
    <2> QED
      BY <1>2, <1>d, <2>1, <2>2, <2>4 DEF InStep, OpenTab
  <1>3. ASSUME NEW s \in Sales, CompleteTab(s)
        PROVE  InStep'
    <2>1. /\ OthersKept(s) /\ sale'[s].status = "completed"
          /\ sale'[s].trace = [l \in LayerIds |-> sale[s].trace[l] + Take(sale[s].branch, sale[s].qty, l)]
          /\ sale'[s].returns = sale[s].returns /\ sale'[s].hasReturnLines = sale[s].hasReturnLines
      BY <1>0, <1>3, CompleteTabRow DEF Concerns
    <2>2. sale[s].status \in ActiveTabStatuses /\ Consume(sale[s].branch, sale[s].qty) /\ sale[s].qty \in Nat
      BY <1>3, <1>c DEF CompleteTab
    <2>3. RestorationsKnown'
      BY <1>b, <1>c, <2>1
    <2>4. \A l \in LayerIds : /\ Take(sale[s].branch, sale[s].qty, l) \in Nat
                              /\ Owed(s, l) = IF sale[s].returns = 0 THEN sale[s].trace[l] ELSE 0
                              /\ Owed(s, l)' = IF sale[s].returns = 0
                                               THEN sale[s].trace[l] + Take(sale[s].branch, sale[s].qty, l) ELSE 0
      <3>1. \A l \in LayerIds : Take(sale[s].branch, sale[s].qty, l) \in Nat
        BY <1>0, <2>2, TakeBound DEF IInv
      <3>2. \A l \in LayerIds : Owed(s, l) = IF sale[s].returns = 0 THEN sale[s].trace[l] ELSE 0
        BY <2>2 DEF Owed, ActiveTabStatuses
      <3>3. \A l \in LayerIds : Owed(s, l)' = IF sale[s].returns = 0
                                              THEN sale[s].trace[l] + Take(sale[s].branch, sale[s].qty, l) ELSE 0
        BY <2>1 DEF Owed
      <3> QED
        BY <3>1, <3>2, <3>3
    <2>5. \A l \in LayerIds : Owed(s, l)' <= Owed(s, l) + Take(sale[s].branch, sale[s].qty, l)
      BY <1>c, <2>4
    <2> QED
      BY <1>e, <2>1, <2>2, <2>3, <2>5 DEF InStep
  <1>4. ASSUME NEW s \in Sales, CancelOpenTab(s)
        PROVE  InStep'
    <2>1. /\ OthersKept(s) /\ sale'[s].status = "cancelled" /\ sale'[s].cancels = sale[s].cancels + 1
          /\ sale'[s].returns = sale[s].returns /\ sale'[s].hasReturnLines = sale[s].hasReturnLines
      BY <1>0, <1>4, CancelOpenTabRow DEF Concerns
    <2>2. RestorationsKnown'
      BY <1>b, <1>c, <2>1
    <2>3. \A l \in LayerIds : Owed(s, l)' = 0
      BY <2>1 DEF Owed
    <2>4. \A l \in LayerIds : Owed(s, l)' <= Owed(s, l)
      BY <1>a, <2>3
    <2> QED
      BY <1>4, <1>d, <2>1, <2>2, <2>4 DEF InStep, CancelOpenTab
  <1>5. ASSUME NEW s \in Sales, NEW age \in Ages, VoidSale(s, age) \/ CancelSale(s, age)
        PROVE  InStep'
    <2>1. sale[s].status \notin {"cancelled", "voided"} /\ ~sale[s].hasReturnLines /\ Restore(s, sale[s].qty, age)
      <3>1. CASE VoidSale(s, age)
        BY <3>1 DEF VoidSale
      <3>2. CASE CancelSale(s, age)
        <4>1. sale[s].cancels < 1
          BY <1>c, <3>2, StockAssumption DEF CancelSale, RestoredOnce
        <4> QED
          BY <1>c, <3>2, <4>1 DEF CancelSale
      <3> QED
        BY <1>5, <3>1, <3>2
    <2>2. /\ OthersKept(s) /\ sale'[s].status \in {"voided", "cancelled"}
          /\ sale'[s].status = "cancelled" => sale'[s].cancels = sale[s].cancels + 1
          /\ sale'[s].returns = sale[s].returns /\ sale'[s].hasReturnLines = sale[s].hasReturnLines
      <3>1. CASE VoidSale(s, age)
        BY <1>0, <3>1, VoidSaleRow DEF Concerns
      <3>2. CASE CancelSale(s, age)
        BY <1>0, <3>2, CancelSaleRow DEF Concerns
      <3> QED
        BY <1>5, <3>1, <3>2
    <2>3. RestorationsKnown'
      BY <1>b, <1>c, <2>2
    <2>4. \A l \in LayerIds : Owed(s, l) = sale[s].trace[l] /\ Owed(s, l)' = 0
      BY <1>c, <2>1, <2>2 DEF Owed
    <2> QED
      BY <1>c, <2>1, <2>2, <2>3, <2>4, RestoreInStep DEF InStep
  <1>6. ASSUME NEW s \in Sales, NEW q \in Quantities, NEW age \in Ages, ReturnLinked(s, q, age)
        PROVE  InStep'
    <2>1. /\ sale[s].status \notin {"cancelled", "voided"} /\ sale[s].returns = 0 /\ Restore(s, q, age)
      BY <1>c, <1>6, StockAssumption DEF ReturnLinked, Returnable, RestoredOnce
    <2>2. /\ OthersKept(s) /\ sale'[s].status = sale[s].status /\ sale'[s].cancels = sale[s].cancels
          /\ sale'[s].returns = sale[s].returns + 1 /\ sale'[s].hasReturnLines = TRUE
      BY <1>0, <1>6, ReturnLinkedRow DEF Concerns
    <2>3. RestorationsKnown'
      BY <1>b, <1>c, <2>2
    <2>4. \A l \in LayerIds : Owed(s, l) = sale[s].trace[l] /\ Owed(s, l)' = 0
      BY <2>1, <2>2 DEF Owed
    <2> QED
      BY <1>0, <2>1, <2>2, <2>3, <2>4, RestoreInStep DEF InStep
  <1>7. ASSUME NEW s \in Sales, NEW q \in Quantities, NEW age \in Ages, ReturnNamingSale(s, q, age)
        PROVE  InStep'
    <2>1. /\ OthersKept(s) /\ sale'[s].status = sale[s].status /\ sale'[s].cancels = sale[s].cancels
          /\ sale'[s].returns = sale[s].returns /\ sale'[s].hasReturnLines = TRUE /\ sale'[s].trace = sale[s].trace
      BY <1>0, <1>7, ReturnNamingSaleRow DEF Concerns
    <2>2. RestorationsKnown'
      BY <1>b, <1>c, <2>1
    <2>3. \A l \in LayerIds : Owed(s, l)' = Owed(s, l)
      BY <2>1 DEF Owed
    <2>4. \A l \in LayerIds : OwedTo(l)' = OwedTo(l)
      BY <1>a, <2>1, <2>3
    <2>5. AddLayers(sale[s].branch, age, 1, One(q))
      BY <1>7 DEF ReturnNamingSale
    <2>6. LayersInStep' /\ Room'
      BY <2>4, <2>5, AddLayersInStep
    <2> QED
      BY <2>2, <2>6 DEF InStep
  <1> QED
    BY <1>1, <1>2, <1>3, <1>4, <1>5, <1>6, <1>7 DEF SaleStep

\* Every step keeps layers and movements in step.
LEMMA InStepInductive ==
    ASSUME RestoredOnce
    PROVE  LedgerInv /\ InStep /\ [Next]_vars => InStep'
  <1> SUFFICES ASSUME LedgerInv, InStep, [Next]_vars
               PROVE  InStep'
    OBVIOUS
  <1>1. IInv'
    BY IInvInductive DEF LedgerInv
  <1>2. CASE UNCHANGED vars
    BY <1>2 DEF vars, InStep, LayersInStep, Room, RestorationsKnown, OwedTo, Owed
  <1>3. CASE Next
    BY <1>1, <1>3, StockInStep, SaleInStep DEF Next
  <1> QED
    BY <1>2, <1>3

\* Where a line is returned once and a sale cancelled once, stock and layers
\* stay in step, whatever the order of sales, short sales, returns, voids,
\* cancels, transfers and receipts at other costs (fifo_service).
THEOREM LayersAlwaysInStep ==
    ASSUME RestoredOnce
    PROVE  Spec => []LayersInStep
  <1>1. Init => InStep
    BY InStepInit
  <1>2. LedgerInv /\ InStep /\ [Next]_vars => InStep'
    BY InStepInductive
  <1>3. InStep => LayersInStep
    BY DEF InStep
  <1> QED
    BY <1>1, <1>2, <1>3, LedgerAlways, PTL DEF Spec

-----------------------------------------------------------------------------
(* Units booked without a layer.                                             *)

\* What an oversold offline sale booked at branch b without a layer.
Oversold(s, b) == IF sale[s].offline /\ sale[s].branch = b THEN sale[s].untraced ELSE 0

OversoldAt(b) == SumFunctionOnSet([s \in Sales |-> Oversold(s, b)], Sales)

\* Every unit a branch lacks was oversold offline.
OnlyOversold == \A b \in Branches : loose[b] = - OversoldAt(b)

\* The property says the same of the model's sum.
LEMMA CostIsOversold == CostAlwaysTraced <=> AllowNegative \/ OnlyOversold
  <1>1. ASSUME NEW b
        PROVE  SumFunction([s \in Sales |-> IF sale[s].offline /\ sale[s].branch = b THEN sale[s].untraced ELSE 0])
                 = OversoldAt(b)
    BY DEF SumFunction, OversoldAt, Oversold
  <1> QED
    BY <1>1 DEF CostAlwaysTraced, OnlyOversold

\* Oversold units are a quantity.
LEMMA OversoldType ==
    ASSUME IInv, NEW b
    PROVE  OversoldAt(b) \in Nat /\ \A s \in Sales : Oversold(s, b) \in Nat
  <1> DEFINE f == [s \in Sales |-> Oversold(s, b)]
  <1>1. \A s \in Sales : Oversold(s, b) \in Nat
    BY RowTypes DEF Oversold
  <1>2. \A s \in Sales : f[s] \in Nat
    BY <1>1
  <1>3. SumFunctionOnSet(f, Sales) \in Nat
    BY <1>2, StockAssumption, SumType
  <1> QED
    BY <1>1, <1>3 DEF OversoldAt

\* A step about one sale changes what that sale oversold.
LEMMA OversoldChanges ==
    ASSUME IInv, IInv', NEW s \in Sales, OthersKept(s), NEW b
    PROVE  OversoldAt(b)' = OversoldAt(b) - Oversold(s, b) + Oversold(s, b)'
  <1> DEFINE f == [t \in Sales |-> Oversold(t, b)]
             g == [t \in Sales |-> Oversold(t, b)']
  <1>1. \A t \in Sales : Oversold(t, b) \in Nat /\ Oversold(t, b)' \in Nat
    BY OversoldType, RowTypes DEF Oversold, IInv, TypeOK, SaleRow
  <1>2. \A t \in Sales \ {s} : Oversold(t, b)' = Oversold(t, b)
    BY DEF Oversold, OthersKept
  <1>3. /\ \A t \in Sales : f[t] \in Int /\ g[t] \in Int
        /\ \A t \in Sales \ {s} : g[t] = f[t]
        /\ f[s] = Oversold(s, b) /\ g[s] = Oversold(s, b)'
    BY <1>1, <1>2
  <1>4. SumFunctionOnSet(f, Sales) = OversoldAt(b) /\ SumFunctionOnSet(g, Sales) = OversoldAt(b)'
    BY DEF OversoldAt
  <1> HIDE DEF f, g
  <1>5. SumFunctionOnSet(g, Sales) = SumFunctionOnSet(f, Sales) - f[s] + g[s]
    BY <1>3, StockAssumption, SumUpdate
  <1> QED
    BY <1>3, <1>4, <1>5

\* Layers in step and no loose stock but a deficit: what the balance covers,
\* the layers cover.
LEMMA CoveredByLayers ==
    ASSUME LedgerInv, LayersInStep, OnlyOversold, NEW b \in Branches, NEW q \in Nat, StockBalance(b) >= q
    PROVE  Short(b, q) = 0
  <1>1. LayersAt(b) \in SUBSET LayerIds /\ TypeOK
    BY DEF LayersAt, LedgerInv, IInv
  <1>2. IsFiniteSet(LayersAt(b)) /\ Remaining(LayersAt(b)) \in Nat
    BY <1>1, LayerSums
  <1>3. SumFunctionOnSet(moved, LayersAt(b)) = Remaining(LayersAt(b))
    <2>1. \A l \in LayersAt(b) : moved[l] = qtyRemaining[l]
      BY <1>1 DEF LayersInStep
    <2> QED
      BY <1>2, <2>1, SumSame DEF Remaining
  <1>4. loose[b] = - OversoldAt(b) /\ OversoldAt(b) \in Nat
    BY OversoldType DEF OnlyOversold, LedgerInv
  <1>5. Remaining(LayersAt(b)) + loose[b] >= q
    BY <1>3 DEF StockBalance
  <1>6. Remaining(LayersAt(b)) >= q
    BY <1>2, <1>4, <1>5
  <1>7. \A r \in Nat : r >= q => Monus(q, r) = 0
    BY DEF Monus
  <1> QED
    BY <1>2, <1>6, <1>7 DEF Short, Remaining

\* An empty ledger lacks nothing.
LEMMA OversoldInit == Init => OnlyOversold
  <1> SUFFICES ASSUME Init, NEW b \in Branches
               PROVE  loose[b] = - OversoldAt(b)
    BY DEF OnlyOversold
  <1> DEFINE f == [s \in Sales |-> Oversold(s, b)]
  <1>1. \A s \in Sales : f[s] = 0
    BY DEF Init, Oversold, NoSale
  <1>2. SumFunctionOnSet(f, Sales) = 0
    BY <1>1, StockAssumption, SumZero
  <1>3. loose[b] = 0 /\ OversoldAt(b) = 0
    BY <1>2 DEF Init, OversoldAt
  <1>4. \A x, y \in Int : x + y = 0 => x = - y
    OBVIOUS
  <1>5. loose[b] \in Int /\ OversoldAt(b) \in Int /\ loose[b] + OversoldAt(b) = 0
    BY <1>3
  <1> QED
    BY <1>4, <1>5

\* Only offline sales take what no layer covers.
LEMMA OversoldStep ==
    ASSUME ~AllowNegative, LedgerInv, IInv', LayersInStep, OnlyOversold, Next
    PROVE  OnlyOversold'
  <1>0. IInv /\ (\A q \in Quantities : q \in Nat) /\ \A s \in Sales : sale[s].qty \in Nat
    BY RowTypes DEF LedgerInv, Quantities
  <1>a. ASSUME NEW b, NEW q \in Nat, Consume(b, q), StockBalance(b) >= q
        PROVE  \A a \in Branches : loose'[a] = loose[a]
    <2>1. CASE b \in Branches
      <3>1. Short(b, q) = 0
        BY <1>a, <2>1, CoveredByLayers
      <3>2. loose \in [Branches -> Int] /\ loose' = [loose EXCEPT ![b] = loose[b] - Short(b, q)]
        BY <1>0, <1>a DEF Consume, IInv, TypeOK
      <3> QED
        BY <2>1, <3>1, <3>2
    <2>2. CASE b \notin Branches
      BY <1>0, <1>a, <2>2 DEF Consume, IInv, TypeOK
    <2> QED
      BY <2>1, <2>2
  <1>b. ASSUME UNCHANGED sale, \A a \in Branches : loose'[a] = loose[a]
        PROVE  OnlyOversold'
    BY <1>b DEF OnlyOversold, OversoldAt, Oversold
  <1>c. ASSUME NEW s \in Sales, OthersKept(s), \A a \in Branches : loose'[a] = loose[a] /\ Oversold(s, a)' = Oversold(s, a)
        PROVE  OnlyOversold'
    <2>1. \A a \in Branches : OversoldAt(a)' = OversoldAt(a) - Oversold(s, a) + Oversold(s, a)'
      BY <1>0, <1>c, OversoldChanges
    <2>2. \A a \in Branches : OversoldAt(a) \in Nat /\ Oversold(s, a) \in Nat
      BY <1>0, OversoldType
    <2>3. \A a \in Branches : OversoldAt(a)' = OversoldAt(a)
      BY <1>c, <2>1, <2>2
    <2> QED
      BY <1>c, <2>3 DEF OnlyOversold
  <1>1. CASE StockIn
    BY <1>1, <1>b DEF StockIn, ReceiveDirect, AdjustIn, ProductionIn, ReturnUnlinked, ReceiveOnOrder, ReceiveAtOtherCost
  <1>2. CASE StockOut
    <2>1. ASSUME NEW b, NEW q \in Quantities, AdjustOut(b, q) \/ CreateWasteEntry(b, q) \/ ProductionOut(b, q)
          PROVE  OnlyOversold'
      <3>1. Consume(b, q) /\ StockBalance(b) >= q /\ UNCHANGED sale
        BY <2>1 DEF AdjustOut, CreateWasteEntry, ProductionOut, StockAvailable
      <3> QED
        BY <1>0, <1>a, <1>b, <3>1
    <2>2. ASSUME NEW b, NEW q, CreatePurchaseOrder(b, q)
          PROVE  OnlyOversold'
      BY <2>2, <1>b DEF CreatePurchaseOrder
    <2> QED
      BY <1>2, <2>1, <2>2 DEF StockOut
  <1>3. CASE TransferStep
    <2>1. ASSUME NEW t \in Transfers, NEW b, NEW d, NEW q \in Quantities, CreateStockTransfer(t, b, d, q)
          PROVE  OnlyOversold'
      <3>1. Consume(b, q) /\ StockBalance(b) >= q /\ UNCHANGED sale
        BY <2>1 DEF CreateStockTransfer
      <3> QED
        BY <1>0, <1>a, <1>b, <3>1
    <2>2. ASSUME NEW t \in Transfers, NEW age, ReceiveStockTransfer(t, age)
          PROVE  OnlyOversold'
      BY <2>2, <1>b DEF ReceiveStockTransfer
    <2> QED
      BY <1>3, <2>1, <2>2 DEF TransferStep
  <1>4. CASE SaleStep
    <2>1. ASSUME NEW s \in Sales, NEW b \in Branches, NEW q \in Quantities, NEW kind \in CounterKinds, NEW status \in PaidStatuses,
                 CreateSale(s, b, q, kind, status)
          PROVE  OnlyOversold'
      <3>1. OthersKept(s)
        BY <1>0, <2>1, SoldSaleRow
      <3>2. sale'[s].offline = FALSE
        BY <1>0, <2>1, SoldOffline
      <3>3. sale[s].branch = NoBranch
        BY <2>1 DEF CreateSale, LedgerInv, Documents
      <3>4. \A a \in Branches : Oversold(s, a)' = Oversold(s, a)
        BY <3>2, <3>3, StockAssumption DEF Oversold
      <3>5. Consume(b, q) /\ StockBalance(b) >= q
        BY <2>1 DEF CreateSale, StockAvailable
      <3> QED
        BY <1>0, <1>a, <1>c, <3>1, <3>4, <3>5
    <2>2. ASSUME NEW s \in Sales, NEW b \in Branches, NEW q \in Quantities, NEW kind \in CounterKinds, NEW status \in PaidStatuses,
                 CreateOfflineSale(s, b, q, kind, status)
          PROVE  OnlyOversold'
      <3>1. OthersKept(s)
        BY <1>0, <2>2, SoldSaleRow
      <3>2. sale'[s].branch = b /\ sale'[s].untraced = Short(b, q)
        BY <1>0, <2>2, SoldSaleRow
      <3>3. sale'[s].offline = TRUE
        BY <1>0, <2>2, SoldOffline
      <3>4. sale[s].branch = NoBranch
        BY <2>2 DEF CreateOfflineSale, LedgerInv, Documents
      <3>5. \A a \in Branches : Oversold(s, a) = 0 /\ Oversold(s, a)' = IF a = b THEN Short(b, q) ELSE 0
        BY <3>2, <3>3, <3>4, StockAssumption DEF Oversold
      <3>6. \A a \in Branches : OversoldAt(a)' = OversoldAt(a) - Oversold(s, a) + Oversold(s, a)'
        BY <1>0, <3>1, OversoldChanges
      <3>7. \A a \in Branches : OversoldAt(a) \in Nat /\ loose[a] = - OversoldAt(a)
        BY <1>0, OversoldType DEF OnlyOversold
      <3>8. Short(b, q) \in Nat
        BY <1>0, ShortType
      <3>9. loose \in [Branches -> Int] /\ loose' = [loose EXCEPT ![b] = loose[b] - Short(b, q)]
        BY <1>0, <2>2 DEF CreateOfflineSale, Consume, IInv, TypeOK
      <3>10. \A a \in Branches : loose'[a] = - OversoldAt(a)'
        BY <3>5, <3>6, <3>7, <3>8, <3>9
      <3> QED
        BY <3>10 DEF OnlyOversold
    <2>3. ASSUME NEW s \in Sales, NEW b \in Branches, NEW q, OpenTab(s, b, q)
          PROVE  OnlyOversold'
      <3>1. OthersKept(s)
        BY <1>0, <2>3, OpenTabRow
      <3>2. sale'[s].offline = FALSE
        BY <1>0, <2>3, OpenTabRow
      <3>3. sale[s].branch = NoBranch
        BY <2>3 DEF OpenTab, LedgerInv, Documents
      <3>4. \A a \in Branches : Oversold(s, a)' = Oversold(s, a)
        BY <3>2, <3>3, StockAssumption DEF Oversold
      <3> QED
        BY <1>c, <2>3, <3>1, <3>4 DEF OpenTab
    <2>a. ASSUME NEW s \in Sales, Concerns(s), sale'[s].untraced = sale[s].untraced
          PROVE  OthersKept(s) /\ \A a : Oversold(s, a)' = Oversold(s, a)
      BY <2>a DEF Concerns, Oversold
    <2>4. ASSUME NEW s \in Sales, CompleteTab(s)
          PROVE  OnlyOversold'
      <3>1. Concerns(s) /\ sale'[s].untraced = sale[s].untraced + Short(sale[s].branch, sale[s].qty)
        BY <1>0, <2>4, CompleteTabRow
      <3>2. Consume(sale[s].branch, sale[s].qty) /\ StockBalance(sale[s].branch) >= sale[s].qty
        BY <2>4 DEF CompleteTab, StockAvailable
      <3>3. sale[s].branch \in Branches
        <4>1. sale[s].status # "none" /\ sale[s].branch \in Branches \cup {NoBranch}
          BY <1>0, <2>4, RowTypes DEF CompleteTab, ActiveTabStatuses
        <4> QED
          BY <4>1 DEF LedgerInv, Documents
      <3>4. Short(sale[s].branch, sale[s].qty) = 0 /\ sale[s].untraced \in Nat
        BY <1>0, <3>2, <3>3, CoveredByLayers, RowTypes
      <3>5. sale'[s].untraced = sale[s].untraced
        BY <3>1, <3>4
      <3> QED
        BY <1>0, <1>a, <1>c, <2>a, <3>1, <3>2, <3>5
    <2>5. ASSUME NEW s \in Sales, NEW age, CancelOpenTab(s) \/ VoidSale(s, age) \/ CancelSale(s, age)
          PROVE  OnlyOversold'
      <3>1. Concerns(s) /\ sale'[s].untraced = sale[s].untraced
        BY <1>0, <2>5, CancelOpenTabRow, VoidSaleRow, CancelSaleRow
      <3>2. UNCHANGED loose
        BY <2>5 DEF CancelOpenTab, VoidSale, CancelSale, Restore
      <3> QED
        BY <1>c, <2>a, <3>1, <3>2
    <2>6. ASSUME NEW s \in Sales, NEW q, NEW age, ReturnLinked(s, q, age) \/ ReturnNamingSale(s, q, age)
          PROVE  OnlyOversold'
      <3>1. Concerns(s) /\ sale'[s].untraced = sale[s].untraced
        BY <1>0, <2>6, ReturnLinkedRow, ReturnNamingSaleRow
      <3>2. UNCHANGED loose
        BY <2>6 DEF ReturnLinked, ReturnNamingSale, Restore
      <3> QED
        BY <1>c, <2>a, <3>1, <3>2
    <2> QED
      BY <1>4, <2>1, <2>2, <2>3, <2>4, <2>5, <2>6 DEF SaleStep
  <1> QED
    BY <1>1, <1>2, <1>3, <1>4 DEF Next

\* Where negative stock is not allowed, a line is returned once and a sale
\* cancelled once, the units booked at a fallback cost are those of oversold
\* offline sales (check_sufficient_stock, allocate_sale_line_fifo).
THEOREM CostIsAlwaysTraced ==
    ASSUME RestoredOnce
    PROVE  Spec => []CostAlwaysTraced
  <1>1. CASE AllowNegative
    <2>1. CostAlwaysTraced
      BY <1>1, CostIsOversold
    <2> QED
      BY <2>1, PTL
  <1>2. CASE ~AllowNegative
    <2>1. Init => OnlyOversold
      BY OversoldInit
    <2>2. LedgerInv /\ LedgerInv' /\ LayersInStep /\ OnlyOversold /\ [Next]_vars => OnlyOversold'
      <3> SUFFICES ASSUME LedgerInv, LedgerInv', LayersInStep, OnlyOversold, [Next]_vars
                   PROVE  OnlyOversold'
        OBVIOUS
      <3>1. CASE UNCHANGED vars
        BY <3>1 DEF vars, OnlyOversold, OversoldAt, Oversold
      <3>2. CASE Next
        BY <1>2, <3>2, OversoldStep DEF LedgerInv
      <3> QED
        BY <3>1, <3>2
    <2>3. OnlyOversold => CostAlwaysTraced
      BY CostIsOversold
    <2>4. Spec => []LayersInStep
      BY LayersAlwaysInStep
    <2> QED
      BY <2>1, <2>2, <2>3, <2>4, LedgerAlways, PTL DEF Spec
  <1> QED
    BY <1>1, <1>2

-----------------------------------------------------------------------------
(* Transfers.                                                                *)

\* A balance is a number, and layers of a branch are layers.
LEMMA BalanceType ==
    ASSUME IInv, NEW b \in Branches
    PROVE  /\ LayersAt(b) \in SUBSET LayerIds /\ IsFiniteSet(LayersAt(b))
           /\ \A l \in LayerIds : moved[l] \in Int
           /\ StockBalance(b) \in Int
  <1>1. LayersAt(b) \in SUBSET LayerIds /\ TypeOK
    BY DEF LayersAt, IInv
  <1>2. IsFiniteSet(LayersAt(b)) /\ \A l \in LayerIds : moved[l] \in Int
    BY <1>1, LayerSums DEF TypeOK
  <1>3. SumFunctionOnSet(moved, LayersAt(b)) \in Int
    BY <1>1, <1>2, SumType
  <1> QED
    BY <1>1, <1>2, <1>3 DEF StockBalance, TypeOK

\* Consumption lowers the balance of its branch by the demand, and no other
\* (get_stock_balance).
LEMMA ConsumeBalance ==
    ASSUME IInv, NEW b \in Branches, NEW q \in Nat, Consume(b, q), NEW a \in Branches
    PROVE  StockBalance(a)' = IF a = b THEN StockBalance(a) - q ELSE StockBalance(a)
  <1>0. /\ TypeOK /\ LayersAt(a) \in SUBSET LayerIds /\ IsFiniteSet(LayersAt(a)) /\ \A l \in LayerIds : moved[l] \in Int
    BY BalanceType DEF IInv
  <1>1. LayersAt(a)' = LayersAt(a)
    BY DEF Consume, LayersAt
  <1>2. StockBalance(a)' = SumFunctionOnSet(moved', LayersAt(a)) + loose'[a]
    BY <1>1 DEF StockBalance
  <1>3. \A l \in LayersAt(a) : /\ moved[l] \in Int /\ Taking(b, q)[l] \in Int
                               /\ moved'[l] = moved[l] - Taking(b, q)[l]
    BY <1>0, TakeBound DEF Consume, Taking
  <1>4. SumFunctionOnSet(moved, LayersAt(a)) = SumFunctionOnSet(moved', LayersAt(a)) + SumFunctionOnSet(Taking(b, q), LayersAt(a))
    <2> DEFINE m == moved'
    <2>1. \A l \in LayersAt(a) : m[l] \in Int /\ Taking(b, q)[l] \in Int /\ moved[l] = m[l] + Taking(b, q)[l]
      BY <1>3
    <2> HIDE DEF m
    <2>2. SumFunctionOnSet(moved, LayersAt(a)) = SumFunctionOnSet(m, LayersAt(a)) + SumFunctionOnSet(Taking(b, q), LayersAt(a))
      BY <1>0, <2>1, SumPlus
    <2> QED
      BY <2>2 DEF m
  <1>5. SumFunctionOnSet(moved', LayersAt(a)) \in Int /\ SumFunctionOnSet(Taking(b, q), LayersAt(a)) \in Nat
    <2> DEFINE m == moved'
    <2>1. \A l \in LayersAt(a) : m[l] \in Int
      BY <1>3
    <2> HIDE DEF m
    <2>2. SumFunctionOnSet(m, LayersAt(a)) \in Int
      BY <1>0, <2>1, SumType
    <2> QED
      BY <1>0, <2>2, LayerSums DEF m
  <1>6. loose[a] \in Int /\ loose'[a] = (IF a = b THEN loose[a] - Short(b, q) ELSE loose[a]) /\ Short(b, q) \in Nat
    BY <1>0, ShortType DEF Consume, TypeOK
  <1>7. CASE a = b
    <2>1. SumFunctionOnSet(Taking(b, q), LayersAt(b)) + Short(b, q) = q
      BY <1>0, ConsumeServes
    <2> DEFINE T == SumFunctionOnSet(Taking(b, q), LayersAt(a))
               M == SumFunctionOnSet(moved, LayersAt(a))
               N == SumFunctionOnSet(moved', LayersAt(a))
    <2>2. /\ StockBalance(a)' = N + loose'[a] /\ StockBalance(a) = M + loose[a]
          /\ M = N + T /\ N \in Int /\ T \in Nat /\ T + Short(b, q) = q
      BY <1>2, <1>4, <1>5, <1>7, <2>1 DEF StockBalance
    <2> HIDE DEF T, M, N
    <2> QED
      BY <1>6, <1>7, <2>2
  <1>8. CASE a # b
    <2>1. \A l \in LayersAt(a) : Taking(b, q)[l] = 0
      BY <1>0, <1>8 DEF LayersAt, Taking, Take
    <2>2. SumFunctionOnSet(Taking(b, q), LayersAt(a)) = 0
      BY <1>0, <2>1, SumZero
    <2> QED
      BY <1>2, <1>4, <1>5, <1>6, <1>8, <2>2 DEF StockBalance
  <1> QED
    BY <1>7, <1>8

\* The slices of a dispatch are the demand, whatever layers gave them
\* (create_stock_transfer).
LEMMA DispatchIsDemand ==
    ASSUME TypeOK, NEW b, NEW q \in Nat, NEW slices, IsDispatch(b, q, slices)
    PROVE  SumFunction(slices) = q
  <1> DEFINE giving == {l \in LayerIds : Take(b, q, l) > 0}
             before(l) == {k \in giving : Older(k, l)}
             place(l) == 1 + Cardinality(before(l))
             N == Cardinality(giving)
             taking == Taking(b, q)
  <1>0. /\ DOMAIN slices = 1..(N + (IF Short(b, q) > 0 THEN 1 ELSE 0))
        /\ \A l \in giving : slices[place(l)] = Take(b, q, l)
        /\ Short(b, q) > 0 => slices[N + 1] = Short(b, q)
    BY DEF IsDispatch
  <1>1. /\ giving \in SUBSET LayerIds /\ giving \in SUBSET LayersAt(b) /\ IsFiniteSet(giving) /\ N \in Nat
    <2>1. giving \in SUBSET LayersAt(b)
      BY DEF LayersAt, Take
    <2> QED
      BY <2>1, LayerSums, FS_CardinalityType
  <1>2. \A l \in giving : IsFiniteSet(before(l)) /\ Cardinality(before(l)) \in Nat /\ Cardinality(before(l)) < N
    <2> SUFFICES ASSUME NEW l \in giving
                 PROVE  IsFiniteSet(before(l)) /\ Cardinality(before(l)) \in Nat /\ Cardinality(before(l)) < N
      OBVIOUS
    <2>1. before(l) \in SUBSET giving /\ before(l) # giving
      BY LayerOrder
    <2> QED
      BY <1>1, <2>1, FS_Subset, FS_CardinalityType
  <1>3. \A k, l \in giving : Older(k, l) => place(k) < place(l)
    <2> SUFFICES ASSUME NEW k \in giving, NEW l \in giving, Older(k, l)
                 PROVE  place(k) < place(l)
      OBVIOUS
    <2>1. before(k) \in SUBSET before(l) /\ before(k) # before(l)
      BY LayerOrder
    <2>2. Cardinality(before(k)) < Cardinality(before(l))
      <3>1. IsFiniteSet(before(l)) /\ Cardinality(before(l)) \in Nat /\ Cardinality(before(k)) \in Nat
        BY <1>2
      <3> HIDE DEF before
      <3>2. Cardinality(before(k)) <= Cardinality(before(l)) /\ Cardinality(before(k)) # Cardinality(before(l))
        BY <2>1, <3>1, FS_Subset
      <3> QED
        BY <3>1, <3>2
    <2>3. Cardinality(before(l)) \in Nat /\ Cardinality(before(k)) \in Nat
      BY <1>2
    <2> HIDE DEF before, giving
    <2> QED
      BY <2>2, <2>3
  <1> DEFINE p == [l \in giving |-> place(l)]
  <1>4. p \in Injection(giving, 1..N)
    <2>1. \A l \in giving : place(l) \in 1..N
      <3> SUFFICES ASSUME NEW l \in giving
                   PROVE  place(l) \in 1..N
        OBVIOUS
      <3>1. Cardinality(before(l)) \in Nat /\ Cardinality(before(l)) < N /\ N \in Nat
        BY <1>1, <1>2
      <3> HIDE DEF before, N
      <3> QED
        BY <3>1
    <2>2. \A k, l \in giving : place(k) = place(l) => k = l
      <3> SUFFICES ASSUME NEW k \in giving, NEW l \in giving, k # l
                   PROVE  place(k) # place(l)
        OBVIOUS
      <3>1. Older(k, l) \/ Older(l, k)
        BY LayerOrder
      <3>2. place(k) \in Nat /\ place(l) \in Nat
        <4>1. Cardinality(before(k)) \in Nat /\ Cardinality(before(l)) \in Nat
          BY <1>2
        <4> HIDE DEF before
        <4> QED
          BY <4>1
      <3> HIDE DEF place
      <3> QED
        BY <1>3, <3>1, <3>2
    <2> HIDE DEF place, giving, N
    <2> QED
      BY <2>1, <2>2 DEF Injection, IsInjective
  <1>5. {p[l] : l \in giving} = 1..N
    <2>1. IsFiniteSet(1..N) /\ Cardinality(1..N) = N
      BY <1>1, FS_Interval
    <2> HIDE DEF p, giving
    <2>2. p \in Surjection(giving, 1..N)
      <3>1. Cardinality(giving) = N
        OBVIOUS
      <3> HIDE DEF N
      <3> QED
        BY <1>4, <2>1, <3>1, FS_Injection
    <2> QED
      BY <2>2 DEF Surjection
  <1>6. SumFunctionOnSet(taking, giving) = SumFunctionOnSet(slices, 1..N)
    <2>1. \A k, l \in giving : p[k] = p[l] => k = l
      BY <1>4 DEF Injection, IsInjective
    <2>2. \A l \in giving : taking[l] \in Int /\ slices[p[l]] = taking[l]
      BY <1>0, <1>1, TakeBound DEF Taking
    <2> HIDE DEF p, giving, N, taking
    <2>3. SumFunctionOnSet(taking, giving) = SumFunctionOnSet(slices, {p[l] : l \in giving})
      BY <1>1, <2>1, <2>2, SumMoved
    <2> QED
      BY <1>5, <2>3
  <1>7. SumFunctionOnSet(taking, giving) = SumFunctionOnSet(taking, LayersAt(b))
    <2>1. LayersAt(b) \in SUBSET LayerIds
      BY DEF LayersAt
    <2>2. \A l \in LayersAt(b) : taking[l] \in Int
      BY <2>1, TakeBound DEF Taking
    <2>3. \A l \in LayersAt(b) \ giving : taking[l] = 0
      BY <2>1, TakeBound DEF Taking
    <2>4. IsFiniteSet(LayersAt(b))
      BY <2>1, LayerSums
    <2> HIDE DEF giving, taking
    <2> QED
      BY <1>1, <2>2, <2>3, <2>4, SumOfSupport
  <1>8. SumFunctionOnSet(taking, LayersAt(b)) + Short(b, q) = q /\ Short(b, q) \in Nat
    BY ConsumeServes, ShortType
  <1>9. SumFunction(slices) = SumFunctionOnSet(slices, DOMAIN slices)
    BY DEF SumFunction
  <1>10. SumFunctionOnSet(slices, 1..N) \in Int
    <2>1. SumFunctionOnSet(taking, LayersAt(b)) \in Nat
      BY LayerSums DEF LayersAt
    <2> QED
      BY <1>6, <1>7, <2>1
  <1> DEFINE served == SumFunctionOnSet(slices, 1..N)
  <1>11. served + Short(b, q) = q
    BY <1>6, <1>7, <1>8
  <1>12. CASE Short(b, q) > 0
    <2>1. DOMAIN slices = 1..(N + 1) /\ slices[N + 1] = Short(b, q)
      BY <1>0, <1>12
    <2>2. IsFiniteSet(1..(N + 1)) /\ 1..N \in SUBSET (1..(N + 1)) /\ N + 1 \in (1..(N + 1)) \ (1..N) /\ (1..N) \cup {N + 1} = 1..(N + 1)
      <3>1. N \in Nat
        BY <1>1
      <3> HIDE DEF N
      <3>2. IsFiniteSet(1..(N + 1))
        BY <3>1, FS_Interval
      <3>3. 1..N \in SUBSET (1..(N + 1)) /\ N + 1 \in (1..(N + 1)) \ (1..N)
        BY <3>1
      <3>4. (1..N) \cup {N + 1} = 1..(N + 1)
        BY <3>1
      <3> QED
        BY <3>2, <3>3, <3>4
    <2>3. \A i \in 1..(N + 1) : slices[i] \in Int
      <3> SUFFICES ASSUME NEW i \in 1..(N + 1)
                   PROVE  slices[i] \in Int
        OBVIOUS
      <3>1. CASE i = N + 1
        BY <1>8, <2>1, <3>1
      <3>2. CASE i # N + 1
        <4>1. i \in 1..N
          <5> HIDE DEF N
          <5> QED
            BY <1>1, <3>2
        <4>2. PICK l \in giving : p[l] = i
          <5> HIDE DEF p, giving, N
          <5> QED
            BY <1>5, <4>1
        <4>3. slices[i] = Take(b, q, l)
          BY <1>0, <4>2
        <4> QED
          BY <1>1, <4>3, TakeBound
      <3> QED
        BY <3>1, <3>2
    <2> HIDE DEF N
    <2>4. SumFunctionOnSet(slices, (1..N) \cup {N + 1}) = slices[N + 1] + SumFunctionOnSet(slices, 1..N)
      <3> DEFINE A == 1..N
                 B == 1..(N + 1)
      <3>1. IsFiniteSet(B) /\ A \in SUBSET B /\ N + 1 \in B \ A /\ \A i \in B : slices[i] \in Int
        BY <2>2, <2>3
      <3> HIDE DEF A, B
      <3>2. SumFunctionOnSet(slices, A \cup {N + 1}) = slices[N + 1] + SumFunctionOnSet(slices, A)
        BY <3>1, SumAdd
      <3> QED
        BY <3>2 DEF A
    <2>5. SumFunctionOnSet(slices, DOMAIN slices) = Short(b, q) + served
      BY <2>1, <2>2, <2>4
    <2> HIDE DEF served
    <2> QED
      BY <1>8, <1>9, <1>10, <1>11, <2>5 DEF served
  <1>13. CASE ~(Short(b, q) > 0)
    <2>1. DOMAIN slices = 1..N /\ Short(b, q) = 0
      BY <1>0, <1>1, <1>8, <1>13
    <2>2. served \in Int
      BY <1>10
    <2> HIDE DEF N
    <2> QED
      BY <1>9, <1>11, <2>1, <2>2
  <1> QED
    BY <1>12, <1>13

\* A receipt raises the balance of its branch by what its rows hold, and no
\* other (create_fifo_layer).
LEMMA AddLayersBalance ==
    ASSUME LedgerInv, IInv', NEW b \in Branches, NEW age, NEW n \in Nat, NEW qs, AddLayers(b, age, n, qs),
           UNCHANGED loose, NEW a \in Branches
    PROVE  StockBalance(a)' = IF a = b THEN StockBalance(a) + SumFunctionOnSet(qs, 1..n) ELSE StockBalance(a)
  <1> DEFINE new == (nLayers + 1)..(nLayers + n)
             m == moved'
             old == LayersAt(a)
  <1>0. IInv /\ nLayers \in Nat /\ nLayers + n <= MaxLayers /\ MaxLayers \in Nat /\ NoBranch \notin Branches
    BY RowTypes, StockAssumption DEF LedgerInv, AddLayers
  <1>1. new \in SUBSET LayerIds /\ IsFiniteSet(new)
    BY <1>0, FS_Interval DEF LayerIds
  <1>2. \A l \in new : layerBranch[l] = NoBranch
    BY <1>0, <1>1 DEF LedgerInv, Rows
  <1>3. old \in SUBSET LayerIds /\ IsFiniteSet(old) /\ old \cap new = {}
    BY <1>0, <1>2, BalanceType DEF LayersAt
  <1>4. \A l \in LayerIds : m[l] \in Int
    BY DEF IInv, TypeOK
  <1>5. \A l \in LayerIds : /\ l \notin new => m[l] = moved[l] /\ layerBranch'[l] = layerBranch[l]
                            /\ l \in new => m[l] = qs[l - nLayers] /\ layerBranch'[l] = b
    BY DEF AddLayers
  <1>6. LayersAt(a)' = IF a = b THEN old \cup new ELSE old
    BY <1>0, <1>1, <1>2, <1>5 DEF LayersAt
  <1>7. StockBalance(a)' = SumFunctionOnSet(m, LayersAt(a)') + loose[a]
    BY DEF StockBalance
  <1>8. SumFunctionOnSet(m, old) = SumFunctionOnSet(moved, old)
    <2>1. \A l \in old : m[l] = moved[l]
      BY <1>3, <1>5
    <2> HIDE DEF m, old
    <2> QED
      BY <1>3, <2>1, SumSame
  <1>9. SumFunctionOnSet(m, old \cup new) = SumFunctionOnSet(m, old) + SumFunctionOnSet(m, new)
    <2>1. \A l \in old \cup new : m[l] \in Int
      BY <1>1, <1>3, <1>4
    <2> HIDE DEF m, old, new
    <2> QED
      BY <1>1, <1>3, <2>1, SumDisjoint
  <1>10. SumFunctionOnSet(m, new) = SumFunctionOnSet(qs, 1..n)
    <2> DEFINE p == [i \in 1..n |-> nLayers + i]
               S == 1..n
    <2>1. \A i, j \in S : p[i] = p[j] => i = j
      BY <1>0
    <2>2. \A i \in S : p[i] \in new /\ p[i] - nLayers = i
      BY <1>0
    <2>3. \A i \in S : qs[i] \in Int /\ m[p[i]] = qs[i]
      <3> SUFFICES ASSUME NEW i \in S
                   PROVE  qs[i] \in Int /\ m[p[i]] = qs[i]
        OBVIOUS
      <3>1. p[i] \in new /\ p[i] - nLayers = i
        BY <2>2
      <3> HIDE DEF p, new, m, S
      <3>2. p[i] \in LayerIds /\ m[p[i]] = qs[p[i] - nLayers] /\ m[p[i]] \in Int
        BY <1>1, <1>4, <1>5, <3>1
      <3> QED
        BY <3>1, <3>2
    <2>4. {p[i] : i \in S} = new
      <3>1. \A l \in new : l - nLayers \in S /\ p[l - nLayers] = l
        BY <1>0
      <3>2. \A i \in S : p[i] \in new
        BY <2>2
      <3> HIDE DEF p, new, S
      <3> QED
        BY <3>1, <3>2
    <2>5. IsFiniteSet(S)
      BY FS_Interval
    <2> HIDE DEF p, new, m, S
    <2>6. SumFunctionOnSet(qs, S) = SumFunctionOnSet(m, {p[i] : i \in S})
      BY <2>1, <2>3, <2>5, SumMoved
    <2> QED
      BY <2>4, <2>6 DEF S
  <1>11. SumFunctionOnSet(m, old) \in Int /\ SumFunctionOnSet(m, new) \in Int
    <2>1. \A l \in old \cup new : m[l] \in Int
      BY <1>1, <1>3, <1>4
    <2> HIDE DEF m, old, new
    <2> QED
      BY <1>1, <1>3, <2>1, SumType
  <1>12. loose[a] \in Int /\ StockBalance(a) = SumFunctionOnSet(moved, old) + loose[a]
    BY <1>0 DEF StockBalance, IInv, TypeOK
  <1> HIDE DEF m, old, new
  <1> DEFINE A == SumFunctionOnSet(m, old)
             B == SumFunctionOnSet(m, new)
  <1>13. A \in Int /\ B \in Int /\ SumFunctionOnSet(m, old \cup new) = A + B /\ StockBalance(a) = A + loose[a]
         /\ B = SumFunctionOnSet(qs, 1..n)
    BY <1>8, <1>9, <1>10, <1>11, <1>12
  <1>14. StockBalance(a)' = (IF a = b THEN A + B ELSE A) + loose[a]
    BY <1>6, <1>7, <1>13
  <1> HIDE DEF A, B
  <1> QED
    BY <1>12, <1>13, <1>14

\* What one branch gains or loses, the whole business does.
LEMMA TotalChanges ==
    ASSUME IInv, IInv', NEW b \in Branches, NEW delta \in Int, StockBalance(b)' = StockBalance(b) + delta,
           \A a \in Branches \ {b} : StockBalance(a)' = StockBalance(a)
    PROVE  TotalStock' = TotalStock + delta /\ TotalStock \in Int
  <1> DEFINE f == [a \in Branches |-> StockBalance(a)]
             g == [a \in Branches |-> StockBalance(a)']
  <1>1. \A a \in Branches : StockBalance(a) \in Int /\ StockBalance(a)' \in Int
    <2> SUFFICES ASSUME NEW a \in Branches
                 PROVE  StockBalance(a) \in Int /\ StockBalance(a)' \in Int
      OBVIOUS
    <2>1. LayersAt(a)' \in SUBSET LayerIds
      BY DEF LayersAt
    <2>2. IsFiniteSet(LayersAt(a)')
      BY <2>1, LayerOrder, FS_Subset DEF IInv
    <2> DEFINE m == moved'
               S == LayersAt(a)'
    <2>3. \A l \in S : m[l] \in Int
      BY <2>1 DEF IInv, TypeOK
    <2>4. loose'[a] \in Int /\ StockBalance(a)' = SumFunctionOnSet(m, S) + loose'[a]
      BY DEF IInv, TypeOK, StockBalance
    <2> HIDE DEF m, S
    <2>5. SumFunctionOnSet(m, S) \in Int
      BY <2>2, <2>3, SumType DEF S
    <2> QED
      BY <2>4, <2>5, BalanceType
  <1>2. TotalStock = SumFunctionOnSet(f, Branches) /\ TotalStock' = SumFunctionOnSet(g, Branches)
    BY DEF TotalStock, SumFunction
  <1>3. /\ \A a \in Branches : f[a] \in Int /\ g[a] \in Int
        /\ \A a \in Branches \ {b} : g[a] = f[a]
        /\ f[b] = StockBalance(b) /\ g[b] = StockBalance(b) + delta /\ f[b] \in Int
    BY <1>1
  <1> HIDE DEF f, g
  <1>4. SumFunctionOnSet(g, Branches) = SumFunctionOnSet(f, Branches) - f[b] + g[b]
    BY <1>3, StockAssumption, SumUpdate
  <1>5. SumFunctionOnSet(f, Branches) \in Int
    BY <1>3, StockAssumption, SumType
  <1> QED
    BY <1>2, <1>3, <1>4, <1>5

\* The units of one transfer on the road.
Carried(t) == IF transfer[t].status = "in_transit" THEN SumFunction(transfer[t].slices) ELSE 0

\* What one transfer takes up or delivers, the road gains or loses.
LEMMA TransitChanges ==
    ASSUME NEW t \in Transfers, NEW delta \in Int, \A u \in Transfers : Carried(u) \in Int,
           Carried(t)' = Carried(t) + delta, \A u \in Transfers \ {t} : Carried(u)' = Carried(u)
    PROVE  InTransit' = InTransit + delta /\ InTransit \in Int
  <1> DEFINE f == [u \in Transfers |-> Carried(u)]
             g == [u \in Transfers |-> Carried(u)']
  <1>1. InTransit = SumFunctionOnSet(f, Transfers) /\ InTransit' = SumFunctionOnSet(g, Transfers)
    BY DEF InTransit, SumFunction, Carried
  <1>2. /\ \A u \in Transfers : f[u] \in Int /\ g[u] \in Int
        /\ \A u \in Transfers \ {t} : g[u] = f[u]
        /\ g[t] = f[t] + delta
    OBVIOUS
  <1> HIDE DEF f, g
  <1>3. SumFunctionOnSet(g, Transfers) = SumFunctionOnSet(f, Transfers) - f[t] + g[t]
    BY <1>2, StockAssumption, SumUpdate
  <1>4. SumFunctionOnSet(f, Transfers) \in Int
    BY <1>2, StockAssumption, SumType
  <1> QED
    BY <1>1, <1>2, <1>3, <1>4

\* A transfer carries a number of units.
LEMMA CarriedType ==
    ASSUME TypeOK
    PROVE  \A t \in Transfers : Carried(t) \in Int /\ SumFunction(transfer[t].slices) \in Int
  <1> SUFFICES ASSUME NEW t \in Transfers
               PROVE  SumFunction(transfer[t].slices) \in Int
    BY DEF Carried
  <1> DEFINE qs == transfer[t].slices
  <1>1. qs \in Seq(Nat)
    BY DEF TypeOK, TransferRow
  <1> HIDE DEF qs
  <1>2. DOMAIN qs = 1..Len(qs) /\ Len(qs) \in Nat /\ \A i \in DOMAIN qs : qs[i] \in Int
    BY <1>1
  <1>3. IsFiniteSet(DOMAIN qs)
    BY <1>2, FS_Interval
  <1>4. SumFunctionOnSet(qs, DOMAIN qs) \in Int
    BY <1>2, <1>3, SumType
  <1> QED
    BY <1>4 DEF SumFunction, qs

\* Dispatching puts on the road what it takes from the source, receiving takes
\* it off and adds it to the destination.
LEMMA TransferConservesStep ==
    ASSUME LedgerInv, IInv', TransferStep
    PROVE  TotalStock' + InTransit' = TotalStock + InTransit
  <1>0. IInv /\ TypeOK /\ \A t \in Transfers : Carried(t) \in Int /\ SumFunction(transfer[t].slices) \in Int
    BY CarriedType DEF LedgerInv, IInv
  <1>1. ASSUME NEW t \in Transfers, NEW b \in Branches, NEW d \in Branches, NEW q \in Quantities,
               CreateStockTransfer(t, b, d, q)
        PROVE  TotalStock' + InTransit' = TotalStock + InTransit
    <2>1. q \in Nat /\ Consume(b, q) /\ Carried(t) = 0
      BY <1>1 DEF CreateStockTransfer, Quantities, Carried
    <2>2. PICK n \in 1..q : \E slices \in [1..n -> 1..q] :
             /\ IsDispatch(b, q, slices)
             /\ transfer' = [transfer EXCEPT ![t] =
                  [status |-> "in_transit", source |-> b, dest |-> d, slices |-> slices]]
      BY <1>1 DEF CreateStockTransfer
    <2>3. PICK slices \in [1..n -> 1..q] :
             /\ IsDispatch(b, q, slices)
             /\ transfer' = [transfer EXCEPT ![t] =
                  [status |-> "in_transit", source |-> b, dest |-> d, slices |-> slices]]
      BY <2>2
    <2>4. SumFunction(slices) = q
      BY <1>0, <2>1, <2>3, DispatchIsDemand
    <2>5. transfer \in [Transfers -> TransferRow]
      BY <1>0 DEF TypeOK
    <2>6. /\ transfer'[t] = [status |-> "in_transit", source |-> b, dest |-> d, slices |-> slices]
          /\ \A u \in Transfers \ {t} : transfer'[u] = transfer[u]
      BY <2>3, <2>5
    <2>7. Carried(t)' = Carried(t) + q /\ \A u \in Transfers \ {t} : Carried(u)' = Carried(u)
      <3>1. Carried(t)' = SumFunction(slices)
        BY <2>6 DEF Carried
      <3>2. \A u \in Transfers \ {t} : Carried(u)' = Carried(u)
        BY <2>6 DEF Carried
      <3> QED
        BY <2>1, <2>4, <3>1, <3>2
    <2>8. InTransit' = InTransit + q /\ InTransit \in Int
      BY <1>0, <2>1, <2>7, TransitChanges
    <2>9. StockBalance(b)' = StockBalance(b) - q /\ \A a \in Branches \ {b} : StockBalance(a)' = StockBalance(a)
      BY <1>0, <2>1, ConsumeBalance
    <2>10. StockBalance(b)' = StockBalance(b) + (0 - q) /\ 0 - q \in Int
      BY <1>0, <2>1, <2>9, BalanceType
    <2>11. TotalStock' = TotalStock + (0 - q) /\ TotalStock \in Int
      BY <1>0, <2>9, <2>10, TotalChanges
    <2> QED
      BY <2>1, <2>8, <2>11
  <1>2. ASSUME NEW t \in Transfers, NEW age, ReceiveStockTransfer(t, age)
        PROVE  TotalStock' + InTransit' = TotalStock + InTransit
    <2>0. PICK qs, units, dest : qs = transfer[t].slices /\ units = SumFunction(qs) /\ dest = transfer[t].dest
      OBVIOUS
    <2>1. /\ transfer[t].status = "in_transit" /\ dest \in Branches /\ UNCHANGED loose
          /\ transfer' = [transfer EXCEPT ![t].status = "received"]
      BY <1>2, <2>0 DEF ReceiveStockTransfer, LedgerInv, Documents
    <2>2. PICK n \in 1..MaxLayers : DOMAIN qs = 1..n /\ AddLayers(dest, age, n, qs)
      BY <1>2, <2>0 DEF ReceiveStockTransfer
    <2>3. units = SumFunctionOnSet(qs, 1..n) /\ units \in Int /\ n \in Nat
      BY <1>0, <2>0, <2>2 DEF SumFunction
    <2>4. transfer'[t].status = "received" /\ \A u \in Transfers \ {t} : transfer'[u] = transfer[u]
      BY <1>0, <2>1 DEF TypeOK, TransferRow
    <2>5. Carried(t) = units /\ Carried(t)' = 0 /\ \A u \in Transfers \ {t} : Carried(u)' = Carried(u)
      <3>1. Carried(t) = units
        BY <2>0, <2>1 DEF Carried
      <3>2. Carried(t)' = 0
        BY <2>4 DEF Carried
      <3>3. \A u \in Transfers \ {t} : Carried(u)' = Carried(u)
        BY <2>4 DEF Carried
      <3> QED
        BY <3>1, <3>2, <3>3
    <2>6. Carried(t)' = Carried(t) + (0 - units) /\ 0 - units \in Int
      BY <2>3, <2>5
    <2>7. InTransit' = InTransit + (0 - units) /\ InTransit \in Int
      BY <1>0, <2>5, <2>6, TransitChanges
    <2>8. StockBalance(dest)' = StockBalance(dest) + units
          /\ \A a \in Branches \ {dest} : StockBalance(a)' = StockBalance(a)
      BY <2>1, <2>2, <2>3, AddLayersBalance
    <2>9. TotalStock' = TotalStock + units /\ TotalStock \in Int
      BY <1>0, <2>1, <2>3, <2>8, TotalChanges
    <2> QED
      BY <2>3, <2>7, <2>9
  <1> QED
    BY <1>1, <1>2 DEF TransferStep

\* Whatever the layers, the short sales and the restorations, dispatching and
\* receiving a transfer neither create nor lose units (transfer_service).
THEOREM TransfersAlwaysConserve == Spec => TransferConserves
  <1>1. LedgerInv /\ LedgerInv' /\ [Next]_vars => [TransferStep => TotalStock' + InTransit' = TotalStock + InTransit]_vars
    BY TransferConservesStep DEF LedgerInv
  <1> QED
    BY <1>1, LedgerAlways, PTL DEF Spec, TransferConserves
=============================================================================
