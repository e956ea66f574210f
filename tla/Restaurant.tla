---------------------------- MODULE Restaurant ------------------------------
(* Dining tables, tabs and kitchen orders of one branch:                    *)
(* restaurant_table_service, restaurant_tab_service and                     *)
(* restaurant_kot_service. A request locks the sale, the kitchen order or   *)
(* the kitchen line it changes; the table is always read without a lock,    *)
(* and a row is written only where its new value differs from the one read. *)
EXTENDS Menu

CONSTANTS Tables, Tabs, Lines, Kots, Workers,
          None

ASSUME RestaurantAssumption == None \notin Tables \cup Tabs \cup Kots

VARIABLES
  table,      \* dining_tables: the status, or "deleted"
  tab,        \* dine-in sales
  lineOf,     \* sale_lines: the tab a line was added to
  kot,        \* kot_orders and kot_order_lines
  job,        \* what each request has read so far
  touched,    \* history: tables set by hand under a tab, or written from an outdated reading
  strayed     \* history: kitchen orders whose status was computed from an outdated reading

hallVars == <<table, tab, lineOf, kot, job, touched, strayed>>

TableStatuses == {"available", "reserved", "occupied", "billing", "cleaning"}
KotStatuses == {"pending", "preparing", "ready", "served", "cancelled"}
TabRow == [status : {"none", "held", "completed", "cancelled"}, table : Tables \cup {None}]
KotRow == [tab : Tabs \cup {None}, status : KotStatuses, line : [Lines -> KotStatuses \cup {"none"}]]
NoKot == [tab |-> None, status |-> "pending", line |-> [l \in Lines |-> "none"]]

\* `seen' is the status of the table or of the kitchen order when it was
\* read, `set' the lines or kitchen orders that were read with it, `counted'
\* the other tabs that were counted on the table.
Idle == [pc |-> "idle", tab |-> None, table |-> None, kot |-> None, seen |-> "none", to |-> "none",
         set |-> {}, counted |-> {}, lines |-> <<>>]

JobSteps == {"idle", "open", "count", "fire", "bill", "complete", "cancel", "free", "hand", "header", "line"}
Job ==
  [pc : JobSteps, tab : Tabs \cup {None}, table : Tables \cup {None}, kot : Kots \cup {None},
   seen : TableStatuses \cup KotStatuses \cup {"none"}, to : TableStatuses \cup KotStatuses \cup {"none"},
   set : SUBSET (Lines \cup Kots), counted : SUBSET Tabs, lines : {<<>>} \cup [Lines -> KotStatuses \cup {"none"}]]

RestaurantTypeOK ==
  /\ MenuTypeOK
  /\ table \in [Tables -> TableStatuses \cup {"none", "deleted"}]
  /\ tab \in [Tabs -> TabRow]
  /\ lineOf \in [Lines -> Tabs \cup {None}]
  /\ kot \in [Kots -> KotRow]
  /\ job \in [Workers -> Job]
  /\ touched \subseteq Tables
  /\ strayed \subseteq Kots

RestaurantInit ==
  /\ MenuInit
  /\ table = [t \in Tables |-> "none"]
  /\ tab = [s \in Tabs |-> [status |-> "none", table |-> None]]
  /\ lineOf = [l \in Lines |-> None]
  /\ kot = [k \in Kots |-> NoKot]
  /\ job = [w \in Workers |-> Idle]
  /\ touched = {} /\ strayed = {}

Do(w, j) == job' = [job EXCEPT ![w] = j]
Done(w) == Do(w, Idle)

-----------------------------------------------------------------------------
(* Dining tables.                                                           *)

\* TABLE_STATUS_TRANSITIONS.
TableTransitions ==
  [available |-> {"occupied", "reserved"}, reserved |-> {"occupied", "available"},
   occupied |-> {"billing", "available"}, billing |-> {"cleaning", "occupied"}, cleaning |-> {"available"}]

ValidTableTransition(from, to, force) == force \/ from = to \/ to \in TableTransitions[from]

Here(t) == table[t] \in TableStatuses
HeldAt(t) == {s \in Tabs : tab[s].status = "held" /\ tab[s].table = t}

\* transition_table_status, when the transaction commits. `outdated' says that
\* the tabs of the table are not those that the request counted.
WriteTable(t, seen, to, outdated) ==
  /\ table' = [table EXCEPT ![t] = IF seen = to \/ @ = "deleted" THEN @ ELSE to]
  /\ touched' = IF table[t] # seen \/ outdated THEN touched \cup {t} ELSE touched

CreateDiningTable(t) ==
  /\ table[t] = "none"
  /\ table' = [table EXCEPT ![t] = "available"]
  /\ UNCHANGED <<tab, lineOf, kot, job, touched, strayed>>

\* No open tab is looked for.
DeleteDiningTable(t) ==
  /\ Here(t)
  /\ table' = [table EXCEPT ![t] = "deleted"]
  /\ touched' = touched \cup {t}
  /\ UNCHANGED <<tab, lineOf, kot, job, strayed>>

\* update_dining_table_status reads, checks and commits; the status that the
\* table already has is not written.
ReadTableByHand(w, t, to, force) ==
  /\ job[w] = Idle /\ Here(t) /\ to # table[t]
  /\ ValidTableTransition(table[t], to, force)
  /\ Do(w, [Idle EXCEPT !.pc = "hand", !.table = t, !.seen = table[t], !.to = to])
  /\ UNCHANGED <<table, tab, lineOf, kot, touched, strayed>>

UpdateDiningTableStatus(w) ==
  LET j == job[w] IN
  /\ j.pc = "hand"
  /\ WriteTable(j.table, j.seen, j.to, HeldAt(j.table) # {})
  /\ Done(w)
  /\ UNCHANGED <<tab, lineOf, kot, strayed>>

-----------------------------------------------------------------------------
(* Tabs. The lock on the sale is held from the reading to the commit.       *)

TabLocked(s) == \E w \in Workers : job[w].pc \in {"fire", "bill", "complete", "cancel", "free"} /\ job[w].tab = s
TabAnswers(w, s) == job[w] = Idle /\ ~TabLocked(s)
Mutable(s) == tab[s].status = "held"

\* open_tab: the table, then the count of its tabs, then insert and commit.
OpenRead(w, s, t) ==
  /\ job[w] = Idle /\ tab[s].status = "none" /\ Here(t)
  /\ \A v \in Workers : ~(job[v].pc \in {"open", "count"} /\ job[v].tab = s)
  /\ Do(w, [Idle EXCEPT !.pc = "open", !.tab = s, !.table = t, !.seen = table[t]])
  /\ UNCHANGED <<table, tab, lineOf, kot, touched, strayed>>

NoActiveTab(t) == HeldAt(t) = {}
OpenCount(w) ==
  LET j == job[w] IN
  /\ j.pc = "open"
  /\ IF NoActiveTab(j.table) /\ ValidTableTransition(j.seen, "occupied", FALSE)
       THEN Do(w, [j EXCEPT !.pc = "count", !.counted = HeldAt(j.table)])
       ELSE Done(w)
  /\ UNCHANGED <<table, tab, lineOf, kot, touched, strayed>>

OpenTab(w) ==
  LET j == job[w] IN
  /\ j.pc = "count"
  /\ tab' = [tab EXCEPT ![j.tab] = [status |-> "held", table |-> j.table]]
  /\ WriteTable(j.table, j.seen, "occupied", HeldAt(j.table) # j.counted)
  /\ Done(w)
  /\ UNCHANGED <<lineOf, kot, strayed>>

\* add_lines_to_tab, one line of the dish with its modifiers.
AddLinesToTab(s, l, selected) ==
  /\ Mutable(s) /\ ~TabLocked(s) /\ lineOf[l] = None
  /\ ValidateLineModifiers(selected)
  /\ lineOf' = [lineOf EXCEPT ![l] = s]
  /\ UNCHANGED <<table, tab, kot, job, touched, strayed>>

LinesOf(s) == {l \in Lines : lineOf[l] = s}

\* _get_fired_sale_line_ids: the lines of a cancelled order may go again.
FiredSaleLines(s) ==
  {l \in Lines : \E k \in Kots : kot[k].tab = s /\ kot[k].status # "cancelled" /\ kot[k].line[l] # "none"}

FireUnlocked(w, s) == job[w] = Idle
FireAnswers(w, s) == TabAnswers(w, s)

FireRead(w, s, requested) ==
  LET unfired == (LinesOf(s) \ FiredSaleLines(s)) \cap requested IN
  /\ FireAnswers(w, s) /\ Mutable(s)
  /\ unfired # {}
  /\ Do(w, [Idle EXCEPT !.pc = "fire", !.tab = s, !.set = unfired])
  /\ UNCHANGED <<table, tab, lineOf, kot, touched, strayed>>

FireTabToKitchen(w) ==
  LET j == job[w] IN
  /\ j.pc = "fire"
  /\ \E k \in Kots :
       /\ kot[k] = NoKot
       /\ kot' = [kot EXCEPT ![k] = [tab |-> j.tab, status |-> "pending",
                                     line |-> [l \in Lines |-> IF l \in j.set THEN "pending" ELSE "none"]]]
  /\ Done(w)
  /\ UNCHANGED <<table, tab, lineOf, touched, strayed>>

\* request_tab_bill.
BillRead(w, s) ==
  LET t == tab[s].table IN
  /\ TabAnswers(w, s) /\ Mutable(s)
  /\ Here(t) /\ ValidTableTransition(table[t], "billing", FALSE)
  /\ Do(w, [Idle EXCEPT !.pc = "bill", !.tab = s, !.table = t, !.seen = table[t]])
  /\ UNCHANGED <<table, tab, lineOf, kot, touched, strayed>>

RequestTabBill(w) ==
  LET j == job[w] IN
  /\ j.pc = "bill"
  /\ WriteTable(j.table, j.seen, "billing", FALSE)
  /\ Done(w)
  /\ UNCHANGED <<tab, lineOf, kot, strayed>>

\* complete_tab: stock, payment and drawer are in StockLedger and Checkout.
CompleteRead(w, s) ==
  LET t == tab[s].table IN
  /\ TabAnswers(w, s) /\ Mutable(s) /\ LinesOf(s) # {} /\ Here(t)
  /\ Do(w, [Idle EXCEPT !.pc = "complete", !.tab = s, !.table = t, !.seen = table[t]])
  /\ UNCHANGED <<table, tab, lineOf, kot, touched, strayed>>

CompleteTab(w) ==
  LET j == job[w] IN
  /\ j.pc = "complete"
  /\ tab' = [tab EXCEPT ![j.tab].status = "completed"]
  /\ WriteTable(j.table, j.seen, IF j.seen \in {"billing", "occupied"} THEN "cleaning" ELSE j.seen, FALSE)
  /\ Done(w)
  /\ UNCHANGED <<lineOf, kot, strayed>>

\* cancel_sale of a tab, also of one that was cancelled before: the kitchen
\* orders and the other tabs of the table are read, then the table.
ReleaseAlways(s) == TRUE
MaybeRelease(s) == HeldAt(tab[s].table) \subseteq {s}

CancelRead(w, s) ==
  /\ TabAnswers(w, s) /\ tab[s].status \in {"held", "cancelled"}
  /\ Do(w, [Idle EXCEPT !.pc = IF MaybeRelease(s) THEN "free" ELSE "cancel", !.tab = s, !.table = tab[s].table,
                        !.counted = HeldAt(tab[s].table) \ {s},
                        !.set = {k \in Kots : kot[k].tab = s /\ kot[k].status # "cancelled"}])
  /\ UNCHANGED <<table, tab, lineOf, kot, touched, strayed>>

\* maybe_release_dining_table; without the table the request is refused.
CancelTable(w) ==
  LET j == job[w] IN
  /\ j.pc = "free"
  /\ IF Here(j.table) THEN Do(w, [j EXCEPT !.pc = "cancel", !.seen = table[j.table]]) ELSE Done(w)
  /\ UNCHANGED <<table, tab, lineOf, kot, touched, strayed>>

KotLocked(k) == \E w \in Workers : job[w].pc = "header" /\ job[w].kot = k

\* Only the headers of the kitchen orders are cancelled, not their lines.
CancelTab(w) ==
  LET j == job[w] IN
  /\ j.pc = "cancel" /\ \A k \in j.set : ~KotLocked(k)
  /\ tab' = [tab EXCEPT ![j.tab].status = "cancelled"]
  /\ kot' = [k \in Kots |-> IF k \in j.set THEN [kot[k] EXCEPT !.status = "cancelled"] ELSE kot[k]]
  /\ IF j.seen = "none" THEN UNCHANGED <<table, touched>>
     ELSE WriteTable(j.table, j.seen, "available", HeldAt(j.table) \ {j.tab} # j.counted)
  /\ Done(w)
  /\ UNCHANGED <<lineOf, strayed>>

-----------------------------------------------------------------------------
(* Kitchen orders.                                                          *)

Priority == [pending |-> 0, preparing |-> 1, ready |-> 2, served |-> 3]
KotTransitions ==
  [pending |-> {"preparing", "cancelled"}, preparing |-> {"ready", "cancelled"},
   ready |-> {"served", "cancelled"}, served |-> {}, cancelled |-> {}]
ValidKotTransition(from, to) == from = to \/ to \in KotTransitions[from]

\* derive_kot_header_status: the slowest line that is not cancelled.
DeriveKotHeaderStatus(lines) ==
  LET active == {lines[l] : l \in Lines} \ {"none", "cancelled"} IN
  IF active = {} THEN "cancelled"
  ELSE CHOOSE s \in active : \A x \in active : Priority[s] <= Priority[x]

\* update_kot_order_status: every line goes along.
PromoteNone(line, to) == line
PromoteLine(line, to) ==
  CASE line \in {"none", "cancelled"} -> line
    [] line \notin {"none", "cancelled"} /\ to = "cancelled" -> to
    [] line \notin {"none", "cancelled"} /\ to # "cancelled" -> IF Priority[line] < Priority[to] THEN to ELSE line

LineLocked(k, l) == \E w \in Workers : job[w].pc = "line" /\ job[w].kot = k /\ job[w].set = {l}

HeaderRead(w, k, to) ==
  /\ job[w] = Idle /\ kot[k] # NoKot /\ ~KotLocked(k)
  /\ ValidKotTransition(kot[k].status, to)
  /\ Do(w, [Idle EXCEPT !.pc = "header", !.kot = k, !.to = to, !.seen = kot[k].status, !.lines = kot[k].line])
  /\ UNCHANGED <<table, tab, lineOf, kot, touched, strayed>>

Rewritten(j) == {l \in Lines : PromoteLine(j.lines[l], j.to) # j.lines[l]}

UpdateKotOrderStatus(w) ==
  LET j == job[w] IN
  /\ j.pc = "header" /\ \A l \in Rewritten(j) : ~LineLocked(j.kot, l)
  /\ kot' = [kot EXCEPT ![j.kot].status = j.to,
                        ![j.kot].line = [l \in Lines |-> IF l \in Rewritten(j) THEN PromoteLine(j.lines[l], j.to) ELSE @[l]]]
  /\ strayed' = IF kot[j.kot].line # j.lines THEN strayed \cup {j.kot} ELSE strayed
  /\ Done(w)
  /\ UNCHANGED <<table, tab, lineOf, touched>>

\* update_kot_order_line_status locks the line; the order and its other lines
\* are only read.
LineRead(w, k, l, to) ==
  /\ job[w] = Idle /\ kot[k].line[l] # "none" /\ ~LineLocked(k, l)
  /\ ValidKotTransition(kot[k].line[l], to)
  /\ Do(w, [Idle EXCEPT !.pc = "line", !.kot = k, !.set = {l}, !.to = to, !.seen = kot[k].status, !.lines = kot[k].line])
  /\ UNCHANGED <<table, tab, lineOf, kot, touched, strayed>>

UpdateKotOrderLineStatus(w) ==
  LET j == job[w]
      after == [l \in Lines |-> IF l \in j.set THEN j.to ELSE j.lines[l]]
      derived == DeriveKotHeaderStatus(after) IN
  /\ j.pc = "line" /\ ~KotLocked(j.kot)
  /\ kot' = [kot EXCEPT ![j.kot].line = [l \in Lines |-> IF l \in j.set THEN j.to ELSE @[l]],
                        ![j.kot].status = IF derived = j.seen THEN @ ELSE derived]
  /\ strayed' = IF kot[j.kot].line # j.lines \/ kot[j.kot].status # j.seen THEN strayed \cup {j.kot} ELSE strayed
  /\ Done(w)
  /\ UNCHANGED <<table, tab, lineOf, touched>>

\* A header request that waits for a line, and the line's request for the
\* header: PostgreSQL ends one of them.
DeadlockVictim(w) ==
  /\ \E v \in Workers :
       /\ {job[v].pc, job[w].pc} = {"header", "line"} /\ job[v].kot = job[w].kot
       /\ \A x \in {v, w}, y \in {v, w} :
            job[x].pc = "header" /\ job[y].pc = "line" => job[y].set \subseteq Rewritten(job[x])
  /\ Done(w)
  /\ UNCHANGED <<table, tab, lineOf, kot, touched, strayed>>

-----------------------------------------------------------------------------

TableWork(w) ==
  \/ \E t \in Tables, to \in TableStatuses, force \in BOOLEAN : ReadTableByHand(w, t, to, force)
  \/ UpdateDiningTableStatus(w)

TabWork(w) ==
  \/ \E s \in Tabs, t \in Tables : OpenRead(w, s, t)
  \/ \E s \in Tabs : BillRead(w, s) \/ CompleteRead(w, s) \/ CancelRead(w, s)
  \/ OpenCount(w) \/ OpenTab(w) \/ RequestTabBill(w) \/ CompleteTab(w) \/ CancelTable(w) \/ CancelTab(w)

KitchenWork(w) ==
  \/ \E s \in Tabs, ls \in SUBSET Lines : FireRead(w, s, ls)
  \/ \E k \in Kots, to \in KotStatuses : HeaderRead(w, k, to) \/ \E l \in Lines : LineRead(w, k, l, to)
  \/ FireTabToKitchen(w) \/ UpdateKotOrderStatus(w) \/ UpdateKotOrderLineStatus(w) \/ DeadlockVictim(w)

AddLines == \E s \in Tabs, l \in Lines, selected \in SUBSET Modifiers : AddLinesToTab(s, l, selected)
EditTables == \E t \in Tables : CreateDiningTable(t) \/ DeleteDiningTable(t)

HallNext == EditTables \/ AddLines \/ \E w \in Workers : TableWork(w) \/ TabWork(w) \/ KitchenWork(w)
RestaurantNext == (MenuNext /\ UNCHANGED hallVars) \/ (HallNext /\ UNCHANGED menuVars)
RestaurantSpec == RestaurantInit /\ [][RestaurantNext]_<<menuVars, hallVars>>

-----------------------------------------------------------------------------

\* A table has at most one open tab, and while it has one it is occupied or
\* waiting for its bill: whatever order tabs are opened, billed, completed,
\* cancelled and cancelled again in. Excepted are tables that the staff set by
\* hand under an open tab or deleted, and tables written from a reading that
\* was no longer true (assert_no_active_tab_on_table takes no lock).
SeatedAlone ==
  \A t \in Tables \ touched :
    HeldAt(t) # {} => Cardinality(HeldAt(t)) = 1 /\ table[t] \in {"occupied", "billing"}

\* No line of a tab is cooked twice: it is live in at most one kitchen order,
\* although the lines of a cancelled order can be fired again and header and
\* line requests cross.
CookedOnce ==
  \A l \in Lines : Cardinality({k \in Kots : kot[k].line[l] \notin {"none", "cancelled"}}) <= 1

\* The kitchen display shows the slowest line of an order, and an order all of
\* whose lines are cancelled as cancelled. Excepted are the orders of a
\* cancelled tab, and those where two requests crossed, each computing the
\* status from what it had read.
HeaderFollowsLines ==
  \A k \in Kots \ strayed :
    kot[k] # NoKot /\ tab[kot[k].tab].status # "cancelled" =>
      LET active == {l \in Lines : kot[k].line[l] \notin {"none", "cancelled"}} IN
      IF kot[k].status = "cancelled" THEN active = {}
      ELSE /\ \A l \in active : Priority[kot[k].line[l]] >= Priority[kot[k].status]
           /\ \E l \in active : kot[k].line[l] = kot[k].status

=============================================================================
