---------------------------- MODULE Manufacturing ---------------------------
(* Bills of materials and production orders: manufacturing_bom_service and  *)
(* manufacturing_production_service. What completing an order does to the   *)
(* stock is CompleteProduction of StockLedger. No request locks the order   *)
(* or the bill it changes.                                                  *)
EXTENDS Desk, Integers, FiniteSets

CONSTANTS Boms, ProductOf, Orders,
          MaxQty        \* bound: units of one production order

ASSUME ManufacturingAssumption ==
  /\ MaxQty \in Nat \ {0} /\ Nil \notin Boms
  /\ DOMAIN ProductOf = Boms

VARIABLES
  bom,        \* bom_headers; `rows' are the requests whose bom_lines are live
  order,      \* production_orders
  batches     \* history: the completions of each order, with their quantity

plantVars == <<bom, order, batches>>

BomHeader == [status : {"none", "live", "deleted"}, active : BOOLEAN, rows : SUBSET Clerks]
ProductionOrder ==
  [status : {"none", "draft", "in_progress", "completed", "cancelled"},
   bom : Boms \cup {Nil}, wanted : 0 .. MaxQty, made : 0 .. MaxQty]

ManufacturingTypeOK ==
  /\ bom \in [Boms -> BomHeader]
  /\ order \in [Orders -> ProductionOrder]
  /\ batches \in [Orders -> SUBSET (Clerks \X (1 .. MaxQty))]

ManufacturingInit ==
  /\ bom = [b \in Boms |-> [status |-> "none", active |-> FALSE, rows |-> {}]]
  /\ order = [o \in Orders |-> [status |-> "none", bom |-> Nil, wanted |-> 0, made |-> 0]]
  /\ batches = [o \in Orders |-> {}]

-----------------------------------------------------------------------------
(* Bills of materials. A product has one bill in use.                       *)

LiveBom(b) == bom[b].status = "live"
ActiveOthers(b) == {d \in Boms \ {b} : ProductOf[d] = ProductOf[b] /\ LiveBom(d) /\ bom[d].active}

\* _deactivate_other_active_boms writes those it has read as active (`inUse'
\* of a request is history: what there was to read).
DeactivateOthers(b, active) == IF active THEN ActiveOthers(b) ELSE {}

CreateBomRead(c, b, active) ==
  /\ bom[b].status = "none" /\ \A d \in Clerks : desk[d].pc = "createBom" => desk[d].bom # b
  /\ Read(c, [pc |-> "createBom", bom |-> b, active |-> active, others |-> DeactivateOthers(b, active), inUse |-> ActiveOthers(b)])
  /\ UNCHANGED plantVars

Deactivated(set) == [b \in Boms |-> IF b \in set THEN [bom[b] EXCEPT !.active = FALSE] ELSE bom[b]]

CreateBomHeader(c) ==
  LET t == desk[c] IN
  /\ t.pc = "createBom"
  /\ bom' = [Deactivated(t.others) EXCEPT ![t.bom] = [status |-> "live", active |-> t.active, rows |-> {c}]]
  /\ Commit(c, t.bom, t.active /\ ~(ActiveOthers(t.bom) \subseteq t.inUse))
  /\ UNCHANGED <<order, batches>>

\* update_bom_header; `lines' says that the request replaces the lines:
\* _replace_bom_lines deletes those that it finds.
UpdateBomRead(c, b, active, lines) ==
  /\ LiveBom(b)
  /\ Read(c, [pc |-> "updateBom", bom |-> b, seen |-> bom[b].active, active |-> active,
              others |-> DeactivateOthers(b, active), inUse |-> ActiveOthers(b), found |-> IF lines THEN bom[b].rows ELSE {}, lines |-> lines])
  /\ UNCHANGED plantVars

UpdateBomHeader(c) ==
  LET t == desk[c] IN
  /\ t.pc = "updateBom"
  /\ bom' = [Deactivated(t.others) EXCEPT
               ![t.bom].active = IF t.active = t.seen THEN @ ELSE t.active,
               ![t.bom].rows = IF t.lines THEN (@ \ t.found) \cup {c} ELSE @]
  /\ Commit(c, t.bom, t.active /\ (~(ActiveOthers(t.bom) \subseteq t.inUse) \/ ~LiveBom(t.bom)))
  /\ UNCHANGED <<order, batches>>

\* Orders that use the bill are not looked for.
DeleteBomHeader(b) ==
  /\ LiveBom(b)
  /\ bom' = [bom EXCEPT ![b] = [status |-> "deleted", active |-> FALSE, rows |-> {}]]
  /\ UNCHANGED <<order, batches, desk, stale>>

-----------------------------------------------------------------------------
(* Production orders.                                                       *)

VerifyActiveBom(b) == LiveBom(b) /\ bom[b].active /\ bom[b].rows # {}

CreateProductionOrder(o, b, qty) ==
  /\ order[o].status = "none" /\ VerifyActiveBom(b)
  /\ order' = [order EXCEPT ![o] = [status |-> "draft", bom |-> b, wanted |-> qty, made |-> 0]]
  /\ UNCHANGED <<bom, batches, desk, stale>>

UpdateOrderRead(c, o, b, qty) ==
  /\ order[o].status = "draft"
  /\ b = order[o].bom \/ VerifyActiveBom(b)
  /\ Read(c, [pc |-> "updateOrder", order |-> o, seen |-> order[o], bom |-> b, wanted |-> qty])
  /\ UNCHANGED plantVars

UpdateProductionOrder(c) ==
  LET t == desk[c] IN
  /\ t.pc = "updateOrder"
  /\ order' = [order EXCEPT ![t.order].bom = IF t.bom = t.seen.bom THEN @ ELSE t.bom,
                            ![t.order].wanted = IF t.wanted = t.seen.wanted THEN @ ELSE t.wanted]
  /\ Commit(c, t.order, order[t.order].status # "draft")
  /\ UNCHANGED <<bom, batches>>

StartRead(c, o) ==
  /\ order[o].status = "draft" /\ VerifyActiveBom(order[o].bom)
  /\ Read(c, [pc |-> "start", order |-> o])
  /\ UNCHANGED plantVars

StartProductionOrder(c) ==
  LET o == desk[c].order IN
  /\ desk[c].pc = "start"
  /\ order' = [order EXCEPT ![o].status = "in_progress"]
  /\ Commit(c, o, order[o].status # "draft")
  /\ UNCHANGED <<bom, batches>>

AnyOpen(o) == order[o].status # "none"
Cancellable(o) == order[o].status \notin {"none", "completed", "cancelled"}

CancelOrderRead(c, o) ==
  /\ Cancellable(o)
  /\ Read(c, [pc |-> "cancelOrder", order |-> o])
  /\ UNCHANGED plantVars

CancelProductionOrder(c) ==
  LET o == desk[c].order IN
  /\ desk[c].pc = "cancelOrder"
  /\ order' = [order EXCEPT ![o].status = "cancelled"]
  /\ Commit(c, o, ~Cancellable(o))
  /\ UNCHANGED <<bom, batches>>

\* complete_production_order; the lines of the bill are consumed as they are now.
CompleteAnswers(o, qty) ==
  /\ order[o].status = "in_progress" /\ order[o].made = 0
  /\ qty <= order[o].wanted /\ bom[order[o].bom].rows # {}

CompleteOrderRead(c, o, qty) ==
  /\ CompleteAnswers(o, qty)
  /\ Read(c, [pc |-> "completeOrder", order |-> o, qty |-> qty])
  /\ UNCHANGED plantVars

CompleteProductionOrder(c) ==
  LET t == desk[c] IN
  /\ t.pc = "completeOrder"
  /\ order' = [order EXCEPT ![t.order].made = t.qty, ![t.order].status = "completed"]
  /\ batches' = [batches EXCEPT ![t.order] = @ \cup {<<c, t.qty>>}]
  /\ Commit(c, t.order, order[t.order].status # "in_progress" \/ t.qty > order[t.order].wanted)
  /\ UNCHANGED bom

-----------------------------------------------------------------------------

\* With the bills that requests may name.
BomWork(c, boms) ==
  \/ \E b \in boms, active \in BOOLEAN : CreateBomRead(c, b, active) \/ \E lines \in BOOLEAN : UpdateBomRead(c, b, active, lines)
  \/ CreateBomHeader(c) \/ UpdateBomHeader(c)

OrderWork(c) ==
  \/ \E o \in Orders, b \in Boms, qty \in 1 .. MaxQty : UpdateOrderRead(c, o, b, qty)
  \/ \E o \in Orders, qty \in 1 .. MaxQty : CompleteOrderRead(c, o, qty)
  \/ \E o \in Orders : StartRead(c, o) \/ CancelOrderRead(c, o)
  \/ UpdateProductionOrder(c) \/ StartProductionOrder(c) \/ CancelProductionOrder(c) \/ CompleteProductionOrder(c)

CreateOrDelete ==
  \/ \E b \in Boms : DeleteBomHeader(b)
  \/ \E o \in Orders, b \in Boms, qty \in 1 .. MaxQty : CreateProductionOrder(o, b, qty)

ManufacturingNext == CreateOrDelete \/ \E c \in Clerks : BomWork(c, Boms) \/ OrderWork(c)
ManufacturingSpec == ManufacturingInit /\ DeskInit /\ [][ManufacturingNext]_<<plantVars, deskVars>>

-----------------------------------------------------------------------------

\* A production order puts finished goods into stock at most once, only as
\* many as it wanted, and says so: a completed order has one batch, of the
\* quantity it reports, and any other order none. Excepted are the orders where two
\* requests crossed (the order is read without a lock).
ProducedOnce ==
  \A o \in Orders \ stale :
    /\ order[o].status = "completed" =>
         order[o].made \in 1 .. order[o].wanted /\ \E c \in Clerks : batches[o] = {<<c, order[o].made>>}
    /\ order[o].status # "completed" => batches[o] = {} /\ order[o].made = 0

\* A product has at most one bill in use, and it has lines, whatever bills
\* are created, edited, activated and deleted; unless two activations crossed.
OneRecipe ==
  \A b \in Boms \ stale :
    LiveBom(b) => /\ bom[b].rows # {}
                  /\ bom[b].active => ActiveOthers(b) \subseteq stale

\* The plant makes each order once, from the one recipe of the product.
PlantInOrder == ProducedOnce /\ OneRecipe

=============================================================================
