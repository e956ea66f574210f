---------------------------- MODULE MCCheckout ----------------------------
(* Model-checking instances of Checkout. *)
EXTENDS Checkout

Req(op, s, lines, cash, credit, named) ==
    [op |-> op, shift |-> s, lines |-> lines,
     cash |-> cash, credit |-> credit, named |-> named]

\* Two cashiers (shifts 1 and 2), two positions, one customer.
Bodies ==
    [s1 |-> Req("sale", 1, <<2, 1>>, 0, 1, TRUE),
     s2 |-> Req("sale", 2, <<1, 1>>, 1, 1, TRUE),
     s3 |-> Req("sale", 2, <<1, 2>>, 2, 0, TRUE),
     r1 |-> Req("return", 1, <<1>>, 1, 0, FALSE),
     r2 |-> Req("return", 2, <<1>>, 0, 1, FALSE),
     v  |-> Req("void", 1, <<>>, 0, 0, FALSE),
     x  |-> Req("cancel", 1, <<>>, 0, 0, FALSE),
     t  |-> Req("tab", 2, <<>>, 1, 1, FALSE),
     c  |-> Req("close", 1, <<>>, 0, 0, FALSE),
     p  |-> Req("pay", 1, <<>>, 1, 0, FALSE),
     m  |-> Req("move", 1, <<>>, 1, 0, FALSE)]

Busy == DOMAIN Bodies

\* A manager voids while the cashier closes the shift.
ClosingTime == {"v", "c", "m"}

BodyOf(S) == [r \in S |-> Bodies[r]]
BusyBodies == BodyOf(Busy)
ClosingBodies == BodyOf(ClosingTime)

OlderSale(status, cash, credit) ==
    [status |-> status, dineIn |-> status = "held", shift |-> 1, named |-> TRUE,
     cash |-> cash, credit |-> credit, returned |-> [p \in {1, 2} |-> 0]]

FirstSales ==
    {OlderSale("completed", 1, 1), OlderSale("partially_paid", 1, 0), OlderSale("held", 0, 0)}

OnHand == [p \in {1, 2} |-> IF p = 1 THEN 2 ELSE 1]
=============================================================================
