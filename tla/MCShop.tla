------------------------------- MODULE MCShop -------------------------------
(* The restaurant, the till's arithmetic and the back office. They share no *)
(* row, so that each behaviour exercises one of them, its focus.            *)
EXTENDS Restaurant, Pricing, Accounting, Manufacturing, Payables, Catalogue, TLC

CONSTANTS g1, g2, m1, m2, m3, w1, w2, l1, l2, s1, s2, t1,
          c1, c2, a1, a2, a3, b1, b2, p1, u1

VARIABLE focus

ModifierGroups == (m1 :> g1) @@ (m2 :> g1) @@ (m3 :> g2)
OneProduct == [b \in Boms |-> p1]

Scheme(type, value, minimum) == [type |-> type, value |-> value, minimum |-> minimum]
Schemes ==
  {Scheme("none", 0, 0)} \cup {Scheme("percentage", v, 0) : v \in {50, 150}}
    \cup {Scheme("fixed_amount", v, n) : v \in {3, 5}, n \in {0, 4}}

Typed == {NoDiscount, [pct |-> 0, amount |-> 3], [pct |-> 25, amount |-> 0]}

Line(a, n) == [acct |-> a, net |-> n]
Sheets == {{Line(a1, 1), Line(a2, -1)}, {Line(a1, 1), Line(a2, 1)}}
Moves == [parent : Accounts \cup {Nil}, active : {TRUE}, type : {"asset"}]
Edits == [parent : {Nil}, active : BOOLEAN, type : AccountTypes]

Hall == {"hall", "kitchen"}
Office == {"chart", "journal", "bom", "order", "purchase", "expense", "shelf", "units"}

Init ==
  /\ RestaurantInit /\ PricingInit /\ DeskInit
  /\ AccountingInit /\ ManufacturingInit /\ PayablesInit /\ CatalogueInit
  /\ focus \in Hall \cup Office \cup {"menu", "bill"}

DinerNext ==
  \/ focus = "menu" /\ MenuNext /\ UNCHANGED hallVars
  \/ focus \in Hall /\ (EditTables \/ AddLines \/ \E w \in Workers : TabWork(w)) /\ UNCHANGED menuVars
  \/ focus = "hall" /\ (\E w \in Workers : TableWork(w)) /\ UNCHANGED menuVars
  \/ focus = "kitchen" /\ (\E w \in Workers : KitchenWork(w)) /\ UNCHANGED menuVars

BooksNext(c) ==
  \/ focus = "chart" /\ ChartWork(c, Accounts, Moves)
  \/ focus = "journal" /\ (JournalWork(c, Sheets) \/ ChartWork(c, {a2}, Edits))
  \/ focus \in {"chart", "journal"} /\ PostOrSeed

PlantNext(c) ==
  \/ focus = "bom" /\ BomWork(c, Boms)
  \/ focus = "order" /\ (BomWork(c, {b1}) \/ OrderWork(c))
  \/ focus \in {"bom", "order"} /\ CreateOrDelete

PayNext(c) ==
  \/ focus = "purchase" /\ (PurchaseWork(c) \/ ReceiveGoods)
  \/ focus = "expense" /\ ExpenseWork(c)

ShelfNext(c) ==
  \/ focus = "shelf" /\ (ProductWork(c, {u1}) \/ BarcodeWork(c) \/ PriceWork(c))
  \/ focus = "units" /\ ProductWork(c, Units)

Next ==
  /\ UNCHANGED focus
  /\ \/ DinerNext /\ UNCHANGED <<bill, deskVars, bookVars, plantVars, payVars, shelfVars>>
     \/ focus = "bill" /\ PricingNext(Schemes) /\ UNCHANGED <<menuVars, hallVars, deskVars, bookVars, plantVars, payVars, shelfVars>>
     \/ \E c \in Clerks :
          /\ UNCHANGED <<menuVars, hallVars, bill>>
          /\ \/ BooksNext(c) /\ UNCHANGED <<plantVars, payVars, shelfVars>>
             \/ PlantNext(c) /\ UNCHANGED <<bookVars, payVars, shelfVars>>
             \/ PayNext(c) /\ UNCHANGED <<bookVars, plantVars, shelfVars>>
             \/ ShelfNext(c) /\ UNCHANGED <<bookVars, plantVars, payVars>>
Spec == Init /\ [][Next]_<<focus, menuVars, hallVars, bill, deskVars, bookVars, plantVars, payVars, shelfVars>>

\* A request that sets a kitchen status to what it is.
Repeats(j) == \/ j.pc = "header" /\ j.to = j.seen
              \/ j.pc = "line" /\ \E l \in j.set : j.to = j.lines[l]

\* What is explored from a state on; a state where a request has overtaken
\* another is checked and left.
Bounds ==
  /\ stale = {}
  /\ group[g2].min <= 1 /\ group[g2].max = 0 /\ ~group[g2].single /\ ~group[g2].required
  /\ focus = "hall" => lineOf[l2] = None
  /\ focus = "kitchen" => table[t1] # "deleted" /\ \A w \in Workers : job[w].tab # s2 /\ job[w].pc \notin {"bill", "complete"}
  /\ \A w, v \in Workers : w # v /\ Repeats(job[w]) => job[v].pc \in {"idle", "header", "line"} /\ ~Repeats(job[v])
  /\ focus = "bill" /\ bill.stage = "priced" => Len(bill.lines) = 1
  /\ (\A b \in Barcodes : barcode[b].of = Nil) \/ (\A l \in PriceLists : ~pricing[l].exists)
  /\ focus = "bom" => \A o \in Orders : order[o].status = "none"
  /\ focus = "order" => /\ \E c \in Clerks : desk[c].pc \notin {"createBom", "updateBom"}
                        /\ Cardinality(bom[b1].rows) <= 1

\* Workers and clerks are exchanged together: no behaviour uses both.
Alike ==
  {f \in Permutations({w1, w2, c1, c2}) : f[w1] \in Workers /\ f[w2] \in Workers /\ (f[w1] = w1 <=> f[c1] = c1)}
=============================================================================
