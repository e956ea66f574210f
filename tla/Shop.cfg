SPECIFICATION Spec
CONSTANTS
  Groups = {g1, g2}
  Modifiers = {m1, m2, m3}
  GroupOf <- ModifierGroups
  MaxCount = 2
  Tables = {t1}
  Tabs = {s1, s2}
  Lines = {l1, l2}
  Kots = {k1, k2}
  Workers = {w1, w2}
  None = None
  g1 = g1
  g2 = g2
  m1 = m1
  m2 = m2
  m3 = m3
  w1 = w1
  w2 = w2
  l1 = l1
  l2 = l2
  s1 = s1
  s2 = s2
  t1 = t1
  c1 = c1
  c2 = c2
  a1 = a1
  a2 = a2
  a3 = a3
  b1 = b1
  b2 = b2
  p1 = p1
  u1 = u1
  Clerks = {c1, c2}
  Nil = Nil
  Prices = {0, 25, 100}
  Rates = {10}
  Manual <- Typed
  Amounts = {1, 2, 5}
  MaxLines = 3
  MaxPayments = 3
  Accounts = {a1, a2, a3}
  SystemAccounts = {a1}
  Entries = {j1}
  AccountTypes = {"asset", "income"}
  Boms = {b1, b2}
  ProductOf <- OneProduct
  Orders = {o1}
  MaxQty = 2
  Suppliers = {v1}
  PurchaseOrders = {q1, q2}
  OrderLines = {x1, x2}
  Categories = {h1}
  Expenses = {e1, e2}
  OrderedQty = 2
  MaxAmount = 2
  Products = {p1}
  Units = {u1, u2}
  Barcodes = {d1, d2}
  PriceLists = {y1, y2}
  MaxVariations = 2
INVARIANT SeatedAlone
INVARIANT CookedOnce
INVARIANT HeaderFollowsLines
INVARIANT DishOrderable
INVARIANT SchemeFitsLines
INVARIANT TenderAccounted
INVARIANT BooksInOrder
INVARIANT PlantInOrder
INVARIANT PayablesInOrder
INVARIANT SellableAsShown
CONSTRAINT Bounds
SYMMETRY Alike
CHECK_DEADLOCK FALSE
