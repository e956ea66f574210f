# Verification of the sas_backend point-of-sale server

TLA+ specifications of the parts of sas_backend where several requests, several
documents or several devices have to agree. TLC checks them on small instances;
every safety property that a passing run checks, and the one refinement, is also
a theorem that TLAPS proves for every size. Liveness is checked by TLC only.

| module | what it models | checked by |
|---|---|---|
| `StockLedger` | FIFO layers, stock movements and every document that moves stock; one action per committed transaction | `StockSales`, `StockAnyOrder`, `StockRepeatedReturn` |
| `StockLedgerProofs` | proofs about the ledger: layers, their order, what sales hold, transfers | tlapm |
| `Checkout` | the requests at the till as concurrent transactions, statement by statement, with row locks, deadlocks and rollbacks | `CheckoutBusy`, `CheckoutLateVoid` |
| `CheckoutProofs` | proofs about locks, what was checked under them, and their order | tlapm |
| `Pricing` | discount schemes, rounding, totals, payments and change | `Shop` |
| `Menu` | modifier groups, modifiers and the validation of a line | `Shop`, `MenuOff` |
| `Restaurant` (extends `Menu`) | dining tables, tabs, kitchen orders and lines | `Shop` |
| `SyncFeed` | change stamps, pull, paged snapshot, cursors of offline devices | `FeedQuiet`, `FeedBusy` |
| `SyncFeedProofs` | proof that the feed skips nothing | tlapm |
| `SyncPush` | the operations an offline device sends, with dependencies, stored results and retries | `Push` |
| `OnceOnly` | abstract: a job is decided once and every answer is that decision | implemented by `SyncPush`: in `Push`, and proved |
| `SyncPushProofs` | proofs about the drawers, and that `SyncPush` implements `OnceOnly` | tlapm |
| `Idempotency` | requests under one Idempotency-Key | `Retries` |
| `Sessions` | sign-in, lock, refresh-token rotation, sign-out, changes of credentials | `Access` |
| `Staff` | users, roles, permission keys and the caches of the processes | `Access` |
| `Platform` | subscription, payments, leases, an admin's one-time codes | `Access` |
| `AccessProofs` | proofs about `Sessions`, `Staff`, `Platform` | tlapm |
| `Desk` | a back-office request: read and check, then commit, without a lock | used by the next four |
| `Accounting` | chart of accounts and journal | `Shop` |
| `Manufacturing` | bills of materials and production orders | `Shop` |
| `Payables` | suppliers, purchase orders, expenses and their payments | `Shop` |
| `Catalogue` | products, variations, barcodes, units, price lists | `Shop` |
| `BackOfficeProofs` | proofs about these four | tlapm |
| `ServiceProofs` | proofs about `Menu`, `Restaurant`, `Pricing`, `Idempotency` | tlapm |
| `Sums` | lemmas on sums over finite sets, and induction over naturals and subsets | tlapm |
| `MC...` | instances for TLC; `MCAccess` and `MCShop` compose the modules above | |

Run `tlc -config X.cfg MCModule`, and `tlapm` on `Sums.tla` and each `...Proofs.tla`.

## 1. Inventory

The server is a FastAPI application over PostgreSQL (READ COMMITTED, SQLAlchemy
async sessions). A request is one transaction, or a few; all shared state is in
the database, except a permission cache and a rate limiter in each process.

| component | state | operations | interacts with | hard behaviour | correct when |
|---|---|---|---|---|---|
| FIFO ledger (`fifo_service`, `stock_service`) | `purchase_lines` (layers), `stock_movements` | consume, restore, balance | every stock document | restoring in the wrong amount or layer; order by age | layers and movements agree, oldest first |
| Sales (`sale_service`) | `sales`, `sale_lines`, `payments` | create, void, cancel | ledger, register, customer | races for stock, credit, lines; lock order | no oversell, one reversal per line |
| Pricing (`pricing_engine`, `discount_engine`, `settlement`) | none | price, split, settle | sales, tabs, sync | two ways of rounding; last share; change over several rows | lines add up to the total, tender is accounted for |
| Returns (`return_service`) | `sale_returns` and lines | create | ledger, register, customer | repeated partial returns; race with void | never more than was sold |
| Tabs, tables, kitchen (`restaurant_*`) | held sales, `dining_tables`, `kot_orders` | open, add lines, fire, bill, complete, cancel, status by hand | ledger, register, menu | the table is never locked; lines and header of an order race | one tab per table, each line cooked once, header follows lines |
| Modifiers (`restaurant_modifier_service`) | groups, modifiers, links | edit, validate a line | tabs, sales | bounds patched one by one; a filtered relation is flushed | a dish that can be ordered is sold |
| Register (`register_service`) | shifts, register transactions | open, close, cash in and out | sales, returns, customers, expenses | close races postings | expected cash = what the drawer received |
| Customers (`customer_service`) | ledger entries, credit limit | check, lock, pay | sales, returns | check then act | balance within the limit |
| Purchasing, suppliers | orders, receipts, suppliers | create, status, receive, delete | ledger | cancel against receipt | status says what arrived |
| Expenses | expenses, payments, categories | create, pay, edit, delete | register | two payments at once | paid within due |
| Transfers, waste, adjustments | their documents | create, receive | ledger | double receipt | stock conserved |
| Manufacturing | bills, production orders | edit, activate, start, complete, cancel | ledger | two activations or completions at once | one recipe, goods produced once |
| Accounting | chart, journal | edit, move, post | | update against post; cycles | posted entries stay sound, chart is a forest |
| Catalogue | products, variations, barcodes, units, prices | create, delete, flags | sales | flags moved without a lock | what is shown can be sold |
| Sync feed (`sync_feed`, migration 019) | `change_seq` of every row, `sync_counters` | stamp, pull, snapshot | every synced table, roles, subscription | commit order, paging under changes | nothing skipped, devices catch up |
| Sync push (`sync_push`) | `sync_ops` | run operations with dependencies | sales, registers, customers, expenses | duplicates, parts of a batch, retries, late cash | each operation once, dependencies first |
| Idempotency (`core/idempotency`) | claims | claim, wait, store, release | sales, returns | crash after commit, stale claims | one effect per key |
| Login and tokens | `users`, `refresh_tokens` | sign in, rotate, revoke, sign out | every request | double submit, reuse, revocation against rotation | one successor per token, ended sessions stay ended |
| Users, roles, permission cache | roles, cache per process | change, invalidate, read | every request | late put after invalidation; last owner | no old permission beyond the cache's lifetime, an owner remains |
| Platform (`subscription`, `lease_service`, `platform_*`) | dates, payments, leases, admins | patch, pay, suspend, lease, sign in | login, feed, push | three computations of one status; reuse of a code | access only while served, periods disjoint |
| Settings, registration, categories, brands, licences, analytics, HTTP layer | rows of their own | CRUD and queries | | little | |

`PROJECT.json` lists all of them with what is modelled, and the hazards at their
lines with the properties that would catch them.

## 2. Module by module

### StockLedger

One product. `nLayers`, `layerBranch`, `layerAge`, `orderedQty`, `receivedQty`,
`qtyRemaining` are the columns of `purchase_lines`; `moved` and `loose` are sums
over `stock_movements`, per layer and, for movements that name no layer, per
branch. A sale row keeps what the code later reads back from its own movements:
units per layer (`trace`) and from none (`untraced`). Each action is a whole
transaction of a service: `CreateSale`, `CreateOfflineSale` (the replay of
`_h_sale_create`), `OpenTab`, `CompleteTab`, `VoidSale`, `CancelSale`,
`CancelOpenTab`, `ReturnLinked`, `ReturnUnlinked`, `ReturnNamingSale`,
`CreatePurchaseOrder`, three kinds of receipt, `AdjustIn`, `AdjustOut`,
`CreateWasteEntry`, `ProductionIn`, `ProductionOut`, `CreateStockTransfer`,
`ReceiveStockTransfer`.

Loops over layers are stated by what they compute: `Take` gives a layer what the
older ones left unserved, `LifoPlan` restores the newest first. `created_at` is
chosen freely for every new layer: two transactions may read the clock in one
order and commit in the other, and two rows may share a time; ties go by id, as in
the query.

Abstractions: one line per document (positions do not interact), no costs, and
quantities are small naturals (the code's are decimals, used only with +, -, min
and comparison). A tab completed after it had been rung up at the counter merges
two sets of movements into one `trace`. `VoidSale` leaves the check of the shift
to Checkout. Sales of services, which move no stock, and recipes are outside.

### Checkout

A request is a program: the sequence of its statements that lock, read or decide,
in the order of the code. `Step` runs one; `Blocked` follows PostgreSQL's row
lock conflicts (`FOR UPDATE` and advisory locks exclude all, `FOR NO KEY UPDATE`
and updates each other, foreign key checks only `FOR UPDATE`). Locks are held to
the end. A failed test rolls back (`Reject`), a cycle of waits is broken
(`DeadlockAbort`), a connection may be lost at any point (`Fail`). The
`Commit...` actions carry the writes. `InOrder` is `sorted(set(...))`, the order in
which `lock_stock_positions` takes its locks. A linked return names one line.

The state: shifts with the sum of their register transactions, split into
postings made under the shift's lock (`till`) and others; what one customer owes;
the balance of each position; one older sale that returns, voids, cancels and tab
completions are about, and `onLines`, the units its lines hold according to their
movements.

Abstractions: the layers of a position are one lock (`restore_fifo_layers` locks
several in no stated order); a void or return books its money when it commits; a
sale is cancelled by one request only (repeated cancels are StockLedger's);
returns that name no line, offline sales, cash expenses and changes of a
customer's limit are outside.

### SyncFeed

A row's content is its `change_seq`, so a device is up to date on a row when it
holds that number. `Stamp` is the deferred triggers at commit, which take the
counter row and keep it until `Commit` or `Rollback`. A pull is one `ReadTable`
per entity, then `EndPull`; a snapshot page is one `SnapshotTable` per entity,
`NextPage` asks for more, `FinishSnapshot` stores the cursor. `copy` and `cursor`
are the device's. Around them: lost answers, a device that stops after applying a
page and before storing the cursor, expiry, role changes, a blocked subscription.
`view` stands for the visible entities and for `permissions_version`.

Cursor signatures, `invalid_cursor` for foreign tokens and the change of user on a
device are left out, as are hard deletes and branch scopes. A cursor carries no
branch; a device that changes branch is not modelled.

### Pricing

Amounts are cents; quantity times price is in tenths of a cent, so that it has to
be rounded. `RoundHalfEven` is the `_round2` the discount engine borrows from the
invoices, `RoundHalfUp` the pricing engine's. A bill is priced once
(`ComputeSalePricing`) and settled once (`SettlePayments`), or refused. What a
scheme says of a line's product or category is a Boolean of the line; a discount
typed in is a percentage, an amount, or both, and then the larger counts. Loops over
lines and payments are sums over sets of indices. The total of a sale with a
discount typed in that is larger than a line may be negative; the code allows it. A
percentage above 100 is refused when a scheme is created but not when it is updated;
`shop` has one of 150, and `SchemeFitsLines` excepts what it takes off. The rounded
shares of a fixed amount can exceed it by cents when there are five or more equal
lines; the last share, then negative, becomes zero. The proof covers that.

### Menu and Restaurant

`Menu`: one dish (`offered` are its linked groups), groups with minimum, maximum,
kind and requirement, modifiers per group. `ValidateLineModifiers` is the whole
validation, the failure of the flush included (`Detached`).

`Restaurant`: a request is a worker's `job`. It locks the sale, the kitchen order
or the line and reads the table without a lock (`...Read`), then commits. A row is
written only where its new value differs from the one read, as the ORM does. The
status that a kitchen order or line already has may be set again, and derives the
header anew. Two
requests on header and line of one order can deadlock (`DeadlockVictim`). History
variables `touched` and `strayed` name the tables and orders that were written
from an outdated reading, or by hand under an open tab; the properties except
them, and say so. Floor plans, table names, reprints and the money of a tab are
elsewhere or left out.

### SyncPush and OnceOnly

A device makes operations in the order of `Queue` and sends all it has no final
answer for, or one by itself, possibly while an earlier delivery still runs.
`PickOp` is a turn of `process_push` up to the handler: dependencies, the lock on
the op_id, the stored result. The handlers run with the gate and the stored result
in one transaction; statements that take no lock are read at the start (`seen`),
among them the status of the sale that `_h_sale_void` loads.
Faults: a database error with the retries of `_run_op`, the end of the server, a
lost answer, a lapsed subscription.

`OnceOnly` states the promise abstractly; the refinement mapping `Decided` reads
the decision off the stored result and the effect, and is "torn" where they
disagree, which no abstract step allows. An operation with a failed ancestor is
decided although nothing is stored for it. The assumptions on the queue are what
a device does: it names each operation once and dependencies first
(`QueueAssumption`, `OpAssumption`), and two operations share a row only if they are
the same creation pushed twice (`RowAssumption`).

Left out: an op_id used again with another payload, circular `depends_on`,
operations that do not parse, several users and branches.

### Idempotency

One key. Each statement of `_claim`, `_release_stale`, `_store`, `_release` is a
step, and so is the handler's commit. `Crash` ends a request anywhere; `Age` makes
the row two minutes, then a day old; only handlers in `Slow` run that long.
`lapses` counts the events after which the server has forgotten an effect.

### Sessions, Staff, Platform

`Sessions`: one user, refresh tokens in the order they were issued, named by
family. A worker is suspended between statements; a statement that revokes many
tokens works on the rows it saw when it began and waits for locked ones. A replay within
the grace reads the token, its successor (`LookUpSuccessor`) and the user
(`ReplayRecentRotation`) in statements of their own. `crossed` records the sessions
that `ClosedSessionsStayClosed` excepts, each a race the code has: a rotation that
commits while the family is being revoked (the revoking statement cannot see the
successor); a change of credentials between the two last reads of a replay, which
then mints an access token of the new version for a session just closed; a sign-in
that had checked the old credentials; a change computed from a row that another
change has written since, which does not raise `token_version`. `Staff`:
the checks of a change are a step before its commit, and the invalidation of the
own process's cache one after it. The entries of two users never meet, so one
caller is followed. `Platform`: time is a day counter and a calendar of uneven
months; `ComputeState`, `StatusCase` and `ValidUntil` are translated separately
from the three places that compare the dates. Changes of the business hold its
row lock and are one step. The guard `InCalendar` keeps a payment within the months
that the calendar has.

### Desk, Accounting, Manufacturing, Payables, Catalogue

The back-office services read, check and commit without locks, so each operation
is a `...Read` step, which keeps what was read on the clerk's `desk`, and a commit
step, which writes what the code computes from it. Operations that lock
(`PostJournalEntry`, `CreatePurchaseReceipt`), or that check nothing another
request could change, are one step. `stale` names the rows that a request wrote
after what it had checked stopped being true. The properties hold of all other
rows: they say that one request after another cannot break the data, and which
crossings can. `Accounting` has debits and credits of one unit; `Manufacturing`
records the batches that orders put into stock; `Payables` keeps the received
quantities and the sum of the payments; `Catalogue` counts the price rows that have
no variation. `delete_unit` refuses while a product or a variation uses the unit;
`update_unit` with `is_active` false deletes the unit and asks nothing
(`UpdateUnit`). So "a unit that exists" does not hold of the code; `SellableAsShown`
says that `delete_unit` never takes a unit in use, and tells the units that a PATCH
deleted from those by their status "retired".

## 3. Runs

| run | instance | shows |
|---|---|---|
| `stock_sales` | 1 branch, 3 layers, 2 ages, quantities to 2, one sale, one return and one cancel; negative stock only for offline sales | layers equal movements, uncovered units come only from offline sales, stock effect of a sale matches its status, oldest layer first |
| `stock_any_order` | 2 branches, 2 layers, a transfer, negative stock, dine-in sales at the counter, two returns, two cancels | layers are never overstated; transfers conserve stock |
| `stock_repeated_return` | two partial returns of a line | **violated**: layers and movements part |
| `checkout_busy` | any 3 of 11 requests (3 sales, 2 returns, void, cancel, tab, close, payment, cash movement), 3 states of the older sale, 2 shifts, 2 positions | no oversell, credit limit, drawers, one reversal per line, lock order suffices, every request ends |
| `checkout_late_void` | void, close, cash movement | **violated**: a refund is posted to a closed shift |
| `feed_quiet` | settings and 2 products, 2 writers, pages of 1, 3 stamps, 2 faults | nothing is skipped; the device catches up |
| `feed_busy` | the same with commits between the statements of a pull | **violated**: a row is skipped |
| `retries` | 4 deliveries of one key, one with another body, one slow | a repeated effect has a cause outside the promise, a replay answers its own request, all are answered |
| `push` | 11 sessions of 3 or 4 of 16 operations, 2 deliveries at a time, one fault | refines `OnceOnly`; cash reaches the drawer and the closed shift; all operations are settled |
| `access` | 2 workers, 3 tokens; 2 users, 2 roles, 2 processes; 4 days, 2 payments, 2 patches; 2 sign-ins by code | rotation, ended sessions, locks, old permissions, owners, leases, periods, one-time codes |
| `shop` | 2 concurrent requests; 1 table, 2 tabs, 2 lines, 2 kitchen orders; 3 modifiers in 2 groups; bills of 3 lines and 3 payments; 3 accounts, 1 entry; 2 bills of materials, 1 order; 2 purchase orders of 2 lines, 2 expenses; 1 product, 2 units, 2 barcodes, 2 price lists | tables, kitchen, menu, totals, tender, books, plant, payables and catalogue stay consistent |
| `menu_off` | the same | **violated**: a modifier that is switched off takes its dishes with it |

The four violations disagree with what a comment, a test or a docstring of the
repository says; `findings` in `PROJECT.json` quotes them.

`access` and `shop` put modules together that share no row. Each behaviour has a
`focus` and moves only one of them, so the states add up instead of multiplying and
nothing is lost. `Bounds` limits each focus: in `hall` one line is ordered, in
`kitchen` one tab is followed and a request that sets a status to what it already is
(`Repeats`) runs beside a header or line request at most, the units are in a focus of
their own, bills of three lines are priced and those of one
line also settled (settling depends on the total only). A state in which back-office requests have
crossed (`stale`) is checked and then left. What later requests make of it is
covered by the proofs (section 5): the properties hold of all other rows for ever,
the forest of accounts and the price lists as long as none of theirs is stale. Workers and clerks
are interchangeable, and symmetry uses it.

Bounds. Two layers are the least for which FIFO and LIFO differ, the third lets a
return or receipt open a layer beside them; quantity 2 allows partial takes,
partial returns and a sale over two layers; two ages let the order by
`created_at` and the order by id differ. `MaxShort` ends the otherwise endless
selling below zero. Three concurrent requests contain every pairwise race and the
waits of three; positions in both orders make the sorting of `lock_stock_positions`
matter, and a stock of 2 and 1 makes sales compete. In the feed, pages of one row
with two rows of an entity make every snapshot span pages; `feed_busy` has pages
of two, since the cursor must pass a row in one answer. `MaxSeq`, `MaxTouched` and
`MaxFaults` end the histories. Every bound is in a guard, so all runs allow
terminal states (`CHECK_DEADLOCK FALSE`): a shop at rest is no deadlock; waiting
in a cycle is covered by `LockOrderSuffices` and `EveryRequestEnds`.
Branches are interchangeable in `stock_any_order`, which uses that symmetry.

`QuietPulls` and `PaidSnapshots` are assumptions about the surroundings, made by
the passing feed run. Without the first the run is `feed_busy`. Without the second
`NothingSkipped` fails too: a snapshot taken while the business is blocked holds
the settings alone, yet its cursor stands at the head; what changed before is
never pulled unless the cursor is refused for another reason.

`CounterKinds` lists the sale types clients send to `POST /sales`. With `dine_in`
a sale at the counter takes stock, can be completed again as a tab and takes it
once more, and if cancelled gives nothing back; `stock_any_order` includes it.

In `retries`, one wait and one slow handler suffice for every order of two claims;
`push` needs the second delivery for races on one op_id, and its sessions pair each
operation with those it can disturb. In `access` three tokens are the least for a
rotation beside a second session, a lifetime of two ticks tells "within" from "at
the end", and months of two and three days make `add_months` clip.

## 4. Fairness

`Checkout`: weak fairness on "some request takes a step, is refused, aborted or
commits". The server keeps running, PostgreSQL grants free locks, and its deadlock
detector ends a cycle after `deadlock_timeout`. It is fairness of the whole, not
of each request: with finitely many requests it suffices. Clients need not send
anything, connections need not fail.

`SyncFeed`: weak fairness on the device's own steps, pull or snapshot: the client
polls, and asks again at once if there is more. Writers, faults, role changes and
renewals owe nothing; `CatchesUp` therefore asks that the subscription be served
from some point on. Changes and faults end because they are bounded.

`Idempotency`: weak fairness on each request's own steps: the event loop resumes
it after every await. Crashes, failures and ageing owe nothing.

`SyncPush`: weak fairness on the work of each delivery (the server runs it to its
answer), strong fairness on sending the whole queue: a device retries as long as
something is unanswered, though a delivery slot may be busy from time to time.
`EveryOpSettled` names what no fairness settles: an operation whose dependency was
refused in an earlier delivery without being stored is answered "retry" for ever,
and so is the close of a shift that never opened, or a return without an open
shift.

The other modules have safety properties only.

## 5. Proofs

Every safety property of a passing run is also a theorem: TLC shows it on the
instance of the run, TLAPS for every value of the constants that satisfies the
assumptions of the module. Each module is proved by itself, under its own
specification; the compositions for TLC add nothing, since the modules share no
row. The argument is the same everywhere: an inductive invariant that holds at
first, is kept by every action, and implies the property. What follows is what
each invariant adds to the property, and why the property is not inductive without
it.

Assumptions on constants are named, stand in the module that declares the
constants, and say what the code or its callers guarantee: bounds are naturals,
settings are Booleans, sets of rows are finite where sums or cardinalities over
them are taken, and placeholders are no rows.

**StockLedger.** `LayersNeverOverstated` needs only the types (`IInv`): that a
restoration keeps a remaining quantity within its movements needs the bound before
it, and a consumption stays natural because `Take` is bounded by the layer. The
rest is over `LedgerInv` (`Rows`: what exists is consecutive; `Documents`: what
the rows of sales and transfers refer to). `OldestLayerFirst`: if `Take` gives a
layer anything, the older ones at that branch are used up (`ConsumeServes`).
`SaleStockMatchesStatus` adds `SalesSound`, which says of every status what a sale
has taken and given back. It holds where tabs are not rung up at the counter and a
sale is cancelled once (`PlainSales`); `stock_any_order`, without that, does not
check it. `LayersInStep` needs `Room`: what sales may still give back to a layer
fits between its remaining and its received quantity, so that the cap of
`restore_fifo_layers` never bites. It holds where a line is returned once and a
sale cancelled once (`RestoredOnce`), which is what `stock_repeated_return` shows
to be necessary; TLC checked `Room` before it was proved. `CostAlwaysTraced`
follows from it, as layers and movements then agree on what a balance check
admits. `TransferConserves` compares sums over layers before and after: the slices
of a dispatch add up to the demand, by numbering the layers in order of age.

**Checkout.** `LockInv` says that conflicting locks exclude each other and that a
request holds exactly the locks its program has passed. `CheckoutInv` adds what a
request has checked, as long as it holds the lock the check was made under
(`Checked`), and what it has read into its totals (`Summed`): the rows cannot have
changed since, so the check still holds at the commit. `OneReversal` needs that
only one request cancels the sale (`OneCancel`). `LockOrderSuffices`: each program
of a sale or return takes its locks in one order of ranks (lines, customer,
positions by key, number, sale, layers), and whoever
holds or waits for layers holds the lock on their position, so two of them never meet
there. Hence each request in a cycle would wait for a lock below the one its holder
waits for, which cannot go on round a circle.

**SyncFeed.** `FeedInv`: one transaction holds the counter and its stamps are
above the head; what a pull has read of an entity is all that is newer than its
cursor, or more than a page; what a snapshot has passed is delivered as of the
head it began at. The hypotheses are `QuietPulls` and `PaidSnapshots`, without
which `NothingSkipped` is false (section 3).

**Idempotency.** `RepeatInv` counts: the effects there are and those still to
come, but for one, are paid for by lapses, and all of them are once the server has
forgotten the key (`Paid`). `AnswerInv` adds, as long as no claim was taken from a
working request, that only the owner of the row works and that a stored response
was committed by its owner.

**SyncPush.** `PushInv`: whatever took effect has its result stored, dependencies
were met, what a running delivery has decided agrees with the rows, and each
drawer holds what was posted to it. The refinement maps each step to a decision,
an answer or a stutter of `OnceOnly`; the invariant is what excludes the "torn"
outcome. That a queue is consistent (each operation once, dependencies earlier) is
the device's part (`QueueAssumption`, `OpAssumption`).

**Menu and Restaurant.** `MenuInv` is the bounds of each group. `HallInv` adds to
the types what each kind of request still knows between reading and commit
(`Jobs`), what a table and its tab say of each other (`Rooms`), and of the orders
whose lines are live where, and what their headers show (`Kitchen`). Two requests
that hold the same row would clash, and no two do.

**Pricing.** `BillInv` is the two properties. The work is in the arithmetic: both
roundings stay within half a unit, the last share absorbs the remainders, and the
tender splits over cash, other means and the rows that keep less than was paid.

**Sessions, Staff, Platform.** `SessionsInv`: what every suspended request has
read is related to the rows as they are now (`JobsGood`), only the last token of a
family is live (`Chains`), a replay that has found its successor and waits for the
user's row is of a session that no change of credentials has closed, or `crossed`, what was handed out for a token is the next of its
family (`HandedNext`), and no access token of a session is ahead of the user's
version (`VersionsBehind`). `StaffInv`: an entry of a cache that was right when it
was put is wrong for no longer than it has been there; a removal that counted the
owners leaves one. `PlatformInv`: a lease that stands ends within the trial, or
the paid period and its grace (`LeaseGrounded`); no payment reaches past the paid
period (`PaymentsCovered`), so the next one starts after it; and the codes
accepted for a secret are at or below the step recorded in `last_totp_step`
(`CodesRecorded`).

**Accounting, Manufacturing, Payables, Catalogue.** Each invariant says of every
row that is not stale what the property needs, and of every desk what its request
has read and that the commit is either over the rows it read or marks its row as
stale. In Catalogue `UnitsKept` says of each unit that `delete_unit` deleted, and of
each about to be, that no row uses it; a unit that a PATCH retired may be in use. The
hard part is `Tree` of Accounting: that a move under an account which is not below it
closes no loop, for chains of any length (`MoveClosesNoLoop`).

**Sums** holds lemmas on finite sums: the library defines them by a recursion over
subsets, and its induction theorems take an operator as parameter, which the
provers cannot instantiate. Instead the sets on which a claim fails are considered
as one set, and the least of them refuted.

Only model-checked are `CatchesUp`, `EveryRequestEnds`, `EveryOpSettled` and
`EveryRequestAnswered`. They are liveness properties under fairness, out of the
proof system's reach. The violations of the four other runs are counterexamples
and need no proof.

## 6. Plan

The models are complete as far as section 7 does not say otherwise. What is left:

1. The hypotheses `OneCancel`, `PlainSales` and `RestoredOnce`: state what still
   holds without them (a cancel repeated gives back at most what the sale traced), and
   prove that.
2. Shorter proofs: the invariants of Restaurant and Accounting split by action and
   conjunct in places where one lemma could serve several.
3. The two hazards that no property covers: the cursor of a snapshot of a
   blocked business, and returns that name no line in Checkout.

## 7. Weaknesses seen, and what is not modelled

Weaknesses of the code that the models contain and the properties except, so that no
property is refuted by them:

- `update_unit` with `is_active` false deletes a unit that products and variations
  use (unit_service.py:90), though `delete_unit` answers "Cannot delete unit in use by
  products" (unit_service.py:121).
- The races on sessions of section 2 (`crossed`), two removals that leave no owner
  (user_service.py:546), the sign-in that clears a newer lock, the reset of an admin's
  secret during a sign-in, the crossings on unlocked rows of restaurant and back office
  (`touched`, `strayed`, `stale`, `lax`).

And one that no property sees: two operations that void one sale, delivered side by
side, both pass, since `_h_sale_void` decides on the status it loaded before it locked
the row (sync_push.py:771, sale_service.py:857). A session of `push` has one void at
most.

Not modelled:

- Registration, settings, feature flags, onboarding presets, branches: set-up in
  one transaction; what it leaves is the initial state of the models.
- Categories and brands: single rows. Two weaknesses were seen and are not in a
  model: `update_category` excludes only the category itself as parent, so two
  moves form a cycle, and `delete_category` counts only active products.
- CRUD of tax rates, discount schemes, plans, notes, registers, floor plans, unit
  conversions; names, codes and SKUs everywhere.
- The supplier ledger, refund amounts, costs. `delete_expense` and
  `update_expense` book nothing back to a drawer; Payables shows the expense side.
- Ingredient locks of a production order, which are taken in recipe order, and the
  rounding of small ingredient quantities to zero.
- Returns that name no line under concurrency, snapshots of blocked businesses
  (see `PaidSnapshots`), op_ids used twice with different payloads.
- Licences, signatures of cursors, tokens and leases, password hashing.
- Analytics, exports, search, invoices, notifications, audit: they read only, or
  write rows nothing reads back.
- Request validation, rate limiting, routing; migrations other than the triggers
  of 019.
