----------------------------- MODULE MCSyncPush -----------------------------
(* Small sessions of a device. `twin' is the cash sale pushed again under    *)
(* another op_id, like `customer2', `payment2', `open2' (a second shift) and *)
(* `close2'; `stale' is too old, and `after' depends on it.                  *)
EXTENDS SyncPush

CONSTANTS open, customer, sale, cashSale, twin, expense, close, payment, return, void,
          open2, customer2, payment2, close2, stale, after

MCQueue == <<open, customer, sale, cashSale, twin, expense, close, payment, return, void,
             open2, customer2, payment2, close2, stale, after>>
MCSessions == {{open, customer, close, payment}, {open, customer, sale}, {open, cashSale, twin},
               {open, cashSale, void, return}, {open, cashSale, return, close},
               {open, expense, close}, {open, stale, after},
               {open, open2}, {open, close, close2},
               {customer, customer2, payment2}, {customer, payment, payment2}}
MCAlone == {close, void, after}

New(type, row) == [type |-> type, row |-> row, customer |-> "", shift |-> "", sale |-> "",
                   deps |-> {}, barred |-> FALSE]
CashSale == [New("sale.create", "t") EXCEPT !.shift = "h", !.deps = {open}]
Payment == [New("customer.payment", "p") EXCEPT !.shift = "h", !.customer = "c", !.deps = {customer}]
Close == [New("shift.close", "x") EXCEPT !.shift = "h"]

MCOp == [o \in Range(MCQueue) |->
  CASE o = open -> New("shift.open", "h")
    [] o = open2 -> New("shift.open", "i")
    [] o \in {customer, customer2} -> New("customer.create", "c")
    [] o = sale -> [New("sale.create", "s") EXCEPT !.shift = "h", !.customer = "c"]
    [] o \in {cashSale, twin} -> CashSale
    [] o = expense -> New("expense.create", "e")
    [] o \in {close, close2} -> Close
    [] o = payment -> Payment
    [] o = payment2 -> [Payment EXCEPT !.deps = {}]
    [] o = void -> [New("sale.void", "v") EXCEPT !.sale = "t"]
    [] o = return -> [New("return.create", "r") EXCEPT !.sale = "t", !.deps = {cashSale}]
    [] o = stale -> [New("customer.create", "d") EXCEPT !.barred = TRUE]
    [] o = after -> [New("shift.open", "i") EXCEPT !.deps = {stale}]]
=============================================================================
