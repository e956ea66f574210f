----------------------------- MODULE Catalogue ------------------------------
(* Products with their variations, barcodes and prices, and the units they  *)
(* are counted in: product_service, price_service and unit_service. Nothing *)
(* is locked; flags such as is_default are moved by unsetting those found.  *)
EXTENDS Desk, Integers, Sequences, FiniteSets

CONSTANTS Products, Units, Barcodes, PriceLists,
          MaxVariations   \* bound: variations of a product

ASSUME CatalogueAssumption == MaxVariations \in Nat \ {0} /\ Nil \notin Products \cup Units

VARIABLES
  product,    \* products: status, base unit and the variations in the order they were added
  unit,       \* units: live, or deleted_at is set: by delete_unit, or (history) "retired" by a PATCH
  barcode,    \* barcodes: the product, Nil while the code was never used
  pricing     \* price lists: whether they exist and are the default, and the rows without variation

shelfVars == <<product, unit, barcode, pricing>>

ProductVariation == [live : BOOLEAN, default : BOOLEAN, unit : Units \cup {Nil}]
Product ==
  [status : {"none", "live", "deleted"}, unit : Units \cup {Nil},
   variations : Seq(ProductVariation)]
Barcode == [of : Products \cup {Nil}, live : BOOLEAN, primary : BOOLEAN]
PriceList == [exists : BOOLEAN, default : BOOLEAN, items : [Products -> Nat]]

CatalogueTypeOK ==
  /\ product \in [Products -> Product]
  /\ unit \in [Units -> {"live", "retired", "deleted"}]
  /\ barcode \in [Barcodes -> Barcode]
  /\ pricing \in [PriceLists -> PriceList]

CatalogueInit ==
  /\ product = [p \in Products |-> [status |-> "none", unit |-> Nil, variations |-> <<>>]]
  /\ unit = [u \in Units |-> "live"]
  /\ barcode = [b \in Barcodes |-> [of |-> Nil, live |-> FALSE, primary |-> FALSE]]
  /\ pricing = [l \in PriceLists |-> [exists |-> FALSE, default |-> FALSE, items |-> [p \in Products |-> 0]]]

LiveProduct(p) == product[p].status = "live"
LiveBarcodes(p) == {b \in Barcodes : barcode[b].live /\ barcode[b].of = p}
LiveVariations(p) == {i \in DOMAIN product[p].variations : product[p].variations[i].live}

-----------------------------------------------------------------------------
(* Products, variations and units.                                          *)

\* _create_variations: the first variation marked as default is, else the
\* first; a product without variations gets one, counted in its base unit.
VariationSpec == [default : BOOLEAN, unit : Units \cup {Nil}]
DefaultIndex(specs) ==
  LET marked == {i \in DOMAIN specs : specs[i].default} IN
  IF marked = {} THEN 1 ELSE CHOOSE i \in marked : \A j \in marked : i <= j
NewVariations(specs, u) ==
  [i \in 1 .. IF specs = <<>> THEN 1 ELSE Len(specs) |->
     [live |-> TRUE, default |-> i = DefaultIndex(specs), unit |-> IF specs = <<>> THEN u ELSE specs[i].unit]]

\* _verify_unit, for a unit that was given.
UnitGiven(u) == u \in Units => unit[u] = "live"

CreateProductRead(c, p, u, specs) ==
  /\ product[p].status = "none" /\ \A d \in Clerks : desk[d].pc = "createProduct" => desk[d].product # p
  /\ unit[u] = "live" /\ \A i \in DOMAIN specs : UnitGiven(specs[i].unit)
  /\ Read(c, [pc |-> "createProduct", product |-> p, unit |-> u, specs |-> specs])
  /\ UNCHANGED shelfVars

CreateProduct(c) ==
  LET t == desk[c] IN
  /\ t.pc = "createProduct"
  /\ product' = [product EXCEPT ![t.product] = [status |-> "live", unit |-> t.unit,
                                                variations |-> NewVariations(t.specs, t.unit)]]
  /\ Commit(c, t.product, ~(UnitGiven(t.unit) /\ \A i \in DOMAIN t.specs : UnitGiven(t.specs[i].unit)))
  /\ UNCHANGED <<unit, barcode, pricing>>

\* add_variation, with what _unset_default_variations finds; `saw' is history.
DefaultVariations(p) == {i \in LiveVariations(p) : product[p].variations[i].default}
DefaultsKept(p, default) == {}
UnsetDefaultVariations(p, default) == IF default THEN DefaultVariations(p) ELSE {}

AddVariationRead(c, p, u, default) ==
  /\ LiveProduct(p) /\ UnitGiven(u)
  /\ Read(c, [pc |-> "addVariation", product |-> p, unit |-> u, default |-> default, found |-> UnsetDefaultVariations(p, default),
              saw |-> DefaultVariations(p)])
  /\ UNCHANGED shelfVars

AddVariation(c) ==
  LET t == desk[c]
      old == product[t.product].variations
      Kept(i) == IF i \in t.found THEN [old[i] EXCEPT !.default = FALSE] ELSE old[i] IN
  /\ t.pc = "addVariation" /\ Len(old) < MaxVariations
  /\ product' = [product EXCEPT ![t.product].variations =
                   Append([i \in DOMAIN old |-> Kept(i)], [live |-> TRUE, default |-> t.default, unit |-> t.unit])]
  /\ Commit(c, t.product, ~LiveProduct(t.product) \/ ~UnitGiven(t.unit) \/ (t.default /\ DefaultVariations(t.product) # t.saw))
  /\ UNCHANGED <<unit, barcode, pricing>>

\* delete_product deletes what it finds of the product.
DeleteProductRead(c, p) ==
  /\ LiveProduct(p)
  /\ Read(c, [pc |-> "deleteProduct", product |-> p, codes |-> LiveBarcodes(p), variations |-> LiveVariations(p),
              lists |-> {l \in PriceLists : pricing[l].items[p] > 0}])
  /\ UNCHANGED shelfVars

DeleteProduct(c) ==
  LET t == desk[c]
      p == t.product
      old == product[p].variations IN
  /\ t.pc = "deleteProduct"
  /\ product' = [product EXCEPT ![p].status = "deleted",
                                ![p].variations = [i \in DOMAIN old |-> [old[i] EXCEPT !.live = @ /\ i \notin t.variations]]]
  /\ barcode' = [b \in Barcodes |-> [barcode[b] EXCEPT !.live = @ /\ b \notin t.codes]]
  /\ pricing' = [l \in PriceLists |-> IF l \in t.lists THEN [pricing[l] EXCEPT !.items[p] = 0] ELSE pricing[l]]
  /\ Commit(c, p, ~(LiveBarcodes(p) \subseteq t.codes /\ LiveVariations(p) \subseteq t.variations)
                  \/ \E l \in PriceLists \ t.lists : pricing[l].items[p] > 0)
  /\ UNCHANGED unit

\* update_variation, of what it changes the unit.
UpdateVariationRead(c, p, i, u) ==
  /\ LiveProduct(p) /\ i \in LiveVariations(p) /\ unit[u] = "live"
  /\ Read(c, [pc |-> "updateVariation", product |-> p, at |-> i, unit |-> u])
  /\ UNCHANGED shelfVars

UpdateVariation(c) ==
  LET t == desk[c]
      old == product[t.product].variations
      New(i) == IF i = t.at THEN [old[i] EXCEPT !.unit = t.unit] ELSE old[i] IN
  /\ t.pc = "updateVariation"
  /\ product' = [product EXCEPT ![t.product].variations = [i \in DOMAIN old |-> New(i)]]
  /\ Commit(c, t.product, ~UnitGiven(t.unit))
  /\ UNCHANGED <<unit, barcode, pricing>>

\* update_unit with is_active = FALSE deletes the unit, whoever uses it.
UpdateUnit(u) ==
  /\ unit[u] = "live"
  /\ unit' = [unit EXCEPT ![u] = "retired"]
  /\ UNCHANGED <<product, barcode, pricing, deskVars>>

\* delete_unit counts the products, and then the variations, that use it.
VariationsUse(p, u) == \E i \in LiveVariations(p) : product[p].variations[i].unit = u
UnitUnused(u) == \A p \in Products : ~(LiveProduct(p) /\ product[p].unit = u) /\ ~VariationsUse(p, u)

DeleteUnitRead(c, u) ==
  /\ unit[u] = "live" /\ UnitUnused(u)
  /\ Read(c, [pc |-> "deleteUnit", unit |-> u])
  /\ UNCHANGED shelfVars

DeleteUnit(c) ==
  LET u == desk[c].unit IN
  /\ desk[c].pc = "deleteUnit"
  /\ unit' = [unit EXCEPT ![u] = "deleted"]
  /\ Commit(c, u, ~UnitUnused(u))
  /\ UNCHANGED <<product, barcode, pricing>>

-----------------------------------------------------------------------------
(* Barcodes. The unique constraint of the table also counts deleted rows,   *)
(* which _check_barcode_unique does not: the insert then fails.             *)

PrimaryBarcodes(p) == {b \in LiveBarcodes(p) : barcode[b].primary}

AddBarcodeRead(c, p, b, primary) ==
  /\ LiveProduct(p) /\ ~barcode[b].live
  /\ Read(c, [pc |-> "addBarcode", product |-> p, code |-> b, primary |-> primary,
              found |-> IF primary THEN PrimaryBarcodes(p) ELSE {}])
  /\ UNCHANGED shelfVars

AddBarcode(c) ==
  LET t == desk[c]
      new == barcode[t.code].of = Nil
      Unset(b) == IF b \in t.found THEN [barcode[b] EXCEPT !.primary = FALSE] ELSE barcode[b] IN
  /\ t.pc = "addBarcode"
  /\ barcode' = IF new THEN [[b \in Barcodes |-> Unset(b)] EXCEPT ![t.code] = [of |-> t.product, live |-> TRUE, primary |-> t.primary]]
                       ELSE barcode
  /\ Commit(c, t.product, new /\ (~LiveProduct(t.product) \/ (t.primary /\ PrimaryBarcodes(t.product) # t.found)))
  /\ UNCHANGED <<product, unit, pricing>>

\* search_by_barcode: the product that a scan finds.
SearchByBarcode(b) == IF barcode[b].live /\ LiveProduct(barcode[b].of) THEN barcode[b].of ELSE Nil

-----------------------------------------------------------------------------
(* Price lists. Null variations are distinct to the unique constraint of    *)
(* price_list_items.                                                        *)

DefaultLists == {l \in PriceLists : pricing[l].exists /\ pricing[l].default}

CreateListRead(c, l, default) ==
  /\ ~pricing[l].exists /\ \A d \in Clerks : desk[d].pc = "createList" => desk[d].list # l
  /\ Read(c, [pc |-> "createList", list |-> l, default |-> default, found |-> IF default THEN DefaultLists ELSE {}])
  /\ UNCHANGED shelfVars

CreatePriceList(c) ==
  LET t == desk[c]
      Unset(l) == IF l \in t.found THEN [pricing[l] EXCEPT !.default = FALSE] ELSE pricing[l] IN
  /\ t.pc = "createList"
  /\ pricing' = [[l \in PriceLists |-> Unset(l)] EXCEPT ![t.list].exists = TRUE, ![t.list].default = t.default]
  /\ Commit(c, t.list, t.default /\ DefaultLists # t.found)
  /\ UNCHANGED <<product, unit, barcode>>

\* set_price: a row that is found is updated, otherwise one is inserted.
PriceRowFound(l, p) == pricing[l].items[p] = 1

SetPriceRead(c, l, p) ==
  /\ pricing[l].exists /\ LiveProduct(p) /\ pricing[l].items[p] <= 1
  /\ Read(c, [pc |-> "setPrice", list |-> l, product |-> p, found |-> PriceRowFound(l, p)])
  /\ UNCHANGED shelfVars

SetPrice(c) ==
  LET t == desk[c] IN
  /\ t.pc = "setPrice"
  /\ pricing' = [pricing EXCEPT ![t.list].items[t.product] = IF t.found THEN @ ELSE @ + 1]
  /\ Commit(c, t.product, ~t.found /\ (~LiveProduct(t.product) \/ PriceRowFound(t.list, t.product)))
  /\ UNCHANGED <<product, unit, barcode>>

\* get_product_price fails when the default list, or its row, is not unique.
PriceAnswers(p) == Cardinality(DefaultLists) <= 1 /\ \A l \in PriceLists : pricing[l].items[p] <= 1

-----------------------------------------------------------------------------

\* `us' are the units that the requests name.
ProductWork(c, us) ==
  \/ \E p \in Products, u \in us, k \in 0 .. MaxVariations : \E specs \in [1 .. k -> VariationSpec] :
       (\A i \in 1 .. k : specs[i].unit \in us \cup {Nil}) /\ CreateProductRead(c, p, u, specs)
  \/ \E p \in Products, u \in us \cup {Nil}, default \in BOOLEAN : AddVariationRead(c, p, u, default)
  \/ \E p \in Products, i \in 1 .. MaxVariations, u \in us : UpdateVariationRead(c, p, i, u)
  \/ \E p \in Products : DeleteProductRead(c, p)
  \/ \E u \in us : UpdateUnit(u) \/ DeleteUnitRead(c, u)
  \/ CreateProduct(c) \/ AddVariation(c) \/ UpdateVariation(c) \/ DeleteProduct(c) \/ DeleteUnit(c)

BarcodeWork(c) ==
  \/ \E p \in Products, b \in Barcodes, primary \in BOOLEAN : AddBarcodeRead(c, p, b, primary)
  \/ AddBarcode(c)

PriceWork(c) ==
  \/ \E l \in PriceLists, default \in BOOLEAN : CreateListRead(c, l, default)
  \/ \E l \in PriceLists, p \in Products : SetPriceRead(c, l, p)
  \/ CreatePriceList(c) \/ SetPrice(c)

CatalogueNext == \E c \in Clerks : ProductWork(c, Units) \/ BarcodeWork(c) \/ PriceWork(c)
CatalogueSpec == CatalogueInit /\ DeskInit /\ [][CatalogueNext]_<<shelfVars, deskVars>>

-----------------------------------------------------------------------------

\* The till can sell what the catalogue shows: a product on sale has exactly
\* one default variation and at most one primary barcode, neither its unit nor
\* that of a variation was deleted by delete_unit, a scan finds a product for
\* every live barcode, and the price lookup never meets two rows where it
\* expects one. Excepted are rows where two requests crossed: the flags and
\* the prices are read, and then written, without a lock. The unit may be gone
\* all the same: update_unit deletes it without asking who uses it.
SellableAsShown ==
  /\ \A p \in Products \ stale :
       LiveProduct(p) =>
         /\ Cardinality(DefaultVariations(p)) = 1 /\ Cardinality(PrimaryBarcodes(p)) <= 1
         /\ \A u \in Units \ stale : unit[u] = "deleted" => product[p].unit # u /\ ~VariationsUse(p, u)
         /\ stale = {} => PriceAnswers(p)
  /\ \A b \in Barcodes : barcode[b].live => SearchByBarcode(b) # Nil \/ barcode[b].of \in stale

=============================================================================
