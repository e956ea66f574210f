------------------------------ MODULE Pricing -------------------------------
(* The money of a sale: the split of a discount scheme (discount_engine),   *)
(* the lines and the total (pricing_engine, compute_sale_pricing) and the   *)
(* payments that settle it (settlement). Amounts are cents; the product of  *)
(* quantity and price is in tenths of a cent, so that it must be rounded.   *)
EXTENDS Integers, Sequences, FiniteSets, FiniteSetsExt, Functions

CONSTANTS Prices,       \* exact line amounts
          Rates,        \* tax rates and percentages
          Manual,       \* discounts typed in, a percentage and an amount
          Amounts,      \* amounts of payments
          MaxLines,     \* bound: lines of a sale
          MaxPayments   \* bound: payments of a sale

ASSUME PricingAssumption ==
  Prices \cup Rates \subseteq Nat /\ Manual \subseteq [pct : 0 .. 100, amount : Nat] /\ Amounts \subseteq Nat \ {0} /\ MaxLines \in Nat /\ MaxPayments \in Nat

VARIABLE bill

\* A line as the request gives it; `manual' is the discount_pct and the
\* discount_amount typed in, `inScope' what the scheme says of its product or
\* category.
SaleLineInput == [exact : Prices, manual : Manual, inScope : BOOLEAN, tax : Rates]
NoDiscount == [pct |-> 0, amount |-> 0]
DiscountScheme == [type : {"none", "percentage", "fixed_amount"}, value : Nat, minimum : Nat]
Payment == [cash : BOOLEAN, amount : Amounts]

NoBill == [stage |-> "open", lines |-> <<>>, scheme |-> [type |-> "none", value |-> 0, minimum |-> 0],
           priced |-> <<>>, due |-> 0, payments |-> <<>>, applied |-> <<>>, change |-> 0]
PricingInit == bill = NoBill
PricingTypeOK ==
  /\ bill.stage \in {"open", "priced", "settled", "refused"} /\ bill.due \in Int /\ bill.scheme \in DiscountScheme
  /\ \A i \in DOMAIN bill.applied : bill.applied[i].amount > 0 /\ bill.applied[i].change >= 0

-----------------------------------------------------------------------------
(* Rounding. The discount engine borrows _round2 of the invoices, which     *)
(* rounds half to even; the pricing engine rounds half up.                  *)

RoundHalfEven(n, d) ==
  LET q == n \div d
      r == n % d IN
  IF 2 * r > d \/ (2 * r = d /\ q % 2 = 1) THEN q + 1 ELSE q
RoundHalfUp(n, d) == IF n < 0 THEN -((2 * (-n) + d) \div (2 * d)) ELSE (2 * n + d) \div (2 * d)

Least(a, b) == IF a < b THEN a ELSE b
Most(a, b) == IF a < b THEN b ELSE a
Total(f) == SumFunctionOnSet(f, DOMAIN f)

-----------------------------------------------------------------------------
(* apply_discount_scheme.                                                   *)

EligibleLines(lines, scheme) ==
  {i \in DOMAIN lines : lines[i].manual = NoDiscount /\ lines[i].inScope /\ scheme.type # "none"}
LineSubtotal(line) == RoundHalfEven(line.exact, 10)
EligibleSubtotal(lines, scheme) == Total([i \in EligibleLines(lines, scheme) |-> LineSubtotal(lines[i])])

\* The first check refuses the sale; the last is the division by the eligible
\* subtotal, which fails where several free lines share a fixed amount.
SchemeApplies(lines, scheme) ==
  LET eligible == EligibleLines(lines, scheme) IN
  scheme.type # "none" =>
    /\ eligible # {}
    /\ EligibleSubtotal(lines, scheme) >= scheme.minimum
    /\ scheme.type = "fixed_amount" /\ Cardinality(eligible) > 1 => EligibleSubtotal(lines, scheme) > 0

\* The last eligible line takes what the others leave of a fixed amount.
Share(lines, scheme, i) ==
  LET eligible == EligibleLines(lines, scheme)
      subtotal == EligibleSubtotal(lines, scheme)
      total == Least(scheme.value, subtotal)
      Part(j) == RoundHalfEven(total * LineSubtotal(lines[j]), subtotal)
      part == IF i = Max(eligible) THEN total - Total([j \in eligible \ {i} |-> Part(j)]) ELSE Part(i) IN
  Least(part, LineSubtotal(lines[i]))

ShareUncapped(lines, scheme, i) ==
  LET eligible == EligibleLines(lines, scheme)
      subtotal == EligibleSubtotal(lines, scheme) IN
  RoundHalfEven(scheme.value * LineSubtotal(lines[i]), Most(subtotal, 1))
FixedShare(lines, scheme, i) == Share(lines, scheme, i)

\* The percentage and the amount of a line, a manual discount first.
MergeLineDiscount(lines, scheme, i) ==
  IF i \notin EligibleLines(lines, scheme) THEN lines[i].manual
  ELSE IF scheme.type = "percentage" THEN [pct |-> scheme.value, amount |-> 0]
  ELSE [pct |-> 0, amount |-> FixedShare(lines, scheme, i)]

-----------------------------------------------------------------------------
(* calculate_line_total and calculate_sale_totals.                          *)

CalculateLineTotal(line, discount) ==
  LET subtotal == RoundHalfUp(line.exact, 10)
      effective == Most(discount.amount, RoundHalfUp(subtotal * discount.pct, 100))
      tax == RoundHalfUp((subtotal - effective) * line.tax, 100) IN
  [subtotal |-> subtotal, discount |-> effective, tax |-> tax, total |-> subtotal - effective + tax]

TotalOf(priced) ==
  Total([i \in DOMAIN priced |-> priced[i].subtotal]) - Total([i \in DOMAIN priced |-> priced[i].discount])
    + Total([i \in DOMAIN priced |-> priced[i].tax])

ComputeSalePricing(lines, scheme) ==
  LET priced == [i \in DOMAIN lines |-> CalculateLineTotal(lines[i], MergeLineDiscount(lines, scheme, i))] IN
  /\ bill.stage = "open"
  /\ bill' = IF SchemeApplies(lines, scheme)
               THEN [bill EXCEPT !.stage = "priced", !.lines = lines, !.scheme = scheme, !.priced = priced, !.due = TotalOf(priced)]
               ELSE [bill EXCEPT !.stage = "refused"]

-----------------------------------------------------------------------------
(* settle_payments.                                                         *)

CashRows(payments) == {i \in DOMAIN payments : payments[i].cash}
Tendered(payments, rows) == Total([i \in rows |-> payments[i].amount])
CashDue(due, payments) == due - Tendered(payments, DOMAIN payments \ CashRows(payments))

Acceptable(due, payments) ==
  /\ payments = <<>> => due <= 0
  /\ payments # <<>> => CashDue(due, payments) >= 0
  /\ CashRows(payments) # {} => CashDue(due, payments) > 0

\* What is taken of row i: cash is used up in the order of the rows.
Taken(due, payments, i) ==
  IF ~payments[i].cash THEN payments[i].amount
  ELSE LET before == Tendered(payments, {j \in CashRows(payments) : j < i}) IN
       Most(0, Least(payments[i].amount, CashDue(due, payments) - before))

\* The rows that are kept, with their change; the last cash row among them
\* also carries the tender of the cash rows that became change entirely.
AppliedRows(due, payments) == {i \in DOMAIN payments : Taken(due, payments, i) > 0}
FoldedNowhere(due, payments, i) == 0
FoldedChange(due, payments, i) ==
  LET kept == AppliedRows(due, payments) \cap CashRows(payments) IN
  IF kept # {} /\ i = Max(kept) THEN Tendered(payments, DOMAIN payments \ AppliedRows(due, payments)) ELSE 0

AppliedPayments(due, payments) ==
  [i \in AppliedRows(due, payments) |->
     LET extra == FoldedChange(due, payments, i) IN
     [cash |-> payments[i].cash, amount |-> Taken(due, payments, i), tendered |-> payments[i].amount + extra,
      change |-> payments[i].amount - Taken(due, payments, i) + extra]]

SettlePayments(payments) ==
  /\ bill.stage = "priced"
  /\ bill' = IF Acceptable(bill.due, payments)
               THEN [bill EXCEPT !.stage = "settled", !.payments = payments, !.applied = AppliedPayments(bill.due, payments),
                                 !.change = IF CashRows(payments) = {} THEN 0
                                           ELSE Most(0, Tendered(payments, CashRows(payments)) - CashDue(bill.due, payments))]
               ELSE [bill EXCEPT !.stage = "refused"]

UpTo(n, S) == UNION {[1 .. k -> S] : k \in 0 .. n}
PricingNext(schemes) ==
  \/ \E k \in 1 .. MaxLines : \E lines \in [1 .. k -> SaleLineInput], scheme \in schemes : ComputeSalePricing(lines, scheme)
  \/ \E payments \in UpTo(MaxPayments, Payment) : SettlePayments(payments)
PricingSpec == PricingInit /\ [][PricingNext(DiscountScheme)]_bill

-----------------------------------------------------------------------------

\* No scheme discounts a line below zero, and the lines of a bill add up to
\* its total to the cent, although discount, tax and subtotal are rounded
\* line by line, in two ways of rounding. Excepted are percentages above 100,
\* which only the creation of a scheme refuses, not its update.
SchemeFitsLines ==
  bill.stage = "priced" =>
    /\ (bill.scheme.type = "percentage" => bill.scheme.value <= 100) =>
         \A i \in DOMAIN bill.lines : bill.lines[i].manual = NoDiscount => bill.priced[i].discount \in 0 .. bill.priced[i].subtotal
    /\ Total([i \in DOMAIN bill.priced |-> bill.priced[i].total]) = bill.due

\* A settled sale accounts for every cent handed over: what is kept of all
\* rows and the change make up the tender, the change is given from cash only
\* and only on a sale paid in full, and nobody pays more than is due.
TenderAccounted ==
  bill.stage = "settled" =>
    LET rows == bill.applied
        kept == Total([i \in DOMAIN rows |-> rows[i].amount]) IN
    /\ Total([i \in DOMAIN rows |-> rows[i].tendered]) = Tendered(bill.payments, DOMAIN bill.payments)
    /\ Total([i \in DOMAIN rows |-> rows[i].change]) = bill.change
    /\ \A i \in DOMAIN rows : rows[i].tendered = rows[i].amount + rows[i].change /\ (rows[i].change > 0 => rows[i].cash)
    /\ rows # <<>> => kept <= bill.due /\ (bill.change > 0 => kept = bill.due)

=============================================================================
