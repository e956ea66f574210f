------------------------------ MODULE SyncPush ------------------------------
(* The push of offline operations: services/sync_push.py behind the route   *)
(* push_ops, and the device that keeps sending what it has no final answer  *)
(* for. An operation is one transaction, effects and stored result          *)
(* together; a delivery is a sequence of them, and several deliveries of    *)
(* the same operations run side by side when the device has given up on an  *)
(* earlier one. Op_ids are unique and dependencies acyclic, as devices make *)
(* them; all operations are of one user, with every permission, at one      *)
(* branch with one register.                                                *)

EXTENDS Integers, SequencesExt

CONSTANTS
  Queue,        \* operations in the order a device makes them
  Sessions,     \* the sets of them that a device may have made
  Op,           \* the content of each: see OpEnvelope
  Alone,        \* those it may also send by themselves
  Deliveries,   \* deliveries that can be under way at one time
  MaxAttempts,  \* the attempts _run_op makes when it is a deadlock's victim
  MaxFaults,    \* database errors, server ends, lost answers and deliveries
                \* while the subscription has lapsed, in all
  Nothing

Ops == Range(Queue)
Deps(o) == Op[o].deps
Types == {"customer.create", "sale.create", "sale.void", "customer.payment",
          "expense.create", "shift.open", "shift.close", "return.create"}
\* LAPSED_ALLOWED: the money is already taken
LapsedAllowed == {"sale.create", "customer.payment", "shift.close"}

\* An operation creates or acts on `row', may name a customer, a shift and a
\* sale; `barred' says that the gate refuses it for good (too old, dated in
\* the future, or without the permission).
OpEnvelope == [type : Types, row : STRING, customer : STRING, shift : STRING,
               sale : STRING, deps : SUBSET Ops, barred : BOOLEAN]

Shifts == {Op[o].row : o \in {p \in Ops : Op[p].type = "shift.open"}}
Final == {"applied", "rejected", "conflict"}

ASSUME OpAssumption == /\ Op \in [Ops -> OpEnvelope]
                       /\ \A i \in DOMAIN Queue : Deps(Queue[i]) \subseteq {Queue[j] : j \in 1..(i-1)}

\* A device makes each operation once. What is created twice is pushed twice,
\* with one content; an expense or a return gets its id from the server, and a
\* void makes no row. Shifts are opened through the queue, and a close names
\* its own.
ASSUME QueueAssumption == Queue \in Seq(Ops) /\ IsInjective(Queue)
ASSUME RowAssumption ==
  /\ \A o, p \in Ops : Op[o].row = Op[p].row =>
       /\ Op[o].type = Op[p].type /\ Op[o].shift = Op[p].shift /\ Op[o].sale = Op[p].sale
       /\ Op[o].type \in {"expense.create", "return.create", "sale.void"} => o = p
  /\ \A o \in Ops : /\ Op[o].row # "" /\ Op[o].shift \in Shifts \cup {""}
                    /\ Op[o].type = "shift.close" => Op[o].shift # ""
ASSUME SessionAssumption == \A S \in Sessions : S \subseteq Ops
ASSUME MaxAttemptsAssumption == MaxAttempts \in Nat \ {0}
ASSUME NothingAssumption == Nothing \notin Final \cup {"retry"}

VARIABLES
  log,       \* sync_ops: the stored status of an op_id
  rows,      \* ids of the customers, sales, ledger entries, expenses, returns
  voided,    \* sales that were voided
  shift,     \* status of each register_shifts row
  drawer,    \* its register_transactions: the operations that made them
  expected,  \* the transactions its expected_cash sums up, once it is closed
  job,       \* the deliveries under way
  made,      \* on the device: its operations
  told,      \* on the device: the final answer to an operation
  faults,
  runs,      \* history: how often an operation took effect
  late       \* history: transactions posted to a shift read open, then closed

\* made is set once and for all, so it stands with the rows of the business.
business == <<rows, voided, shift, drawer, expected, late, made>>
vars == <<log, rows, voided, shift, drawer, expected, job, made, told, faults, runs, late>>

Idle == [pc |-> "idle", left |-> {}, got |-> <<>>, service |-> "active",
         op |-> Nothing, seen |-> {}, attempt |-> 0]

\* Answers within a delivery: a final one, or "retry" for error.retryable.
Answers == Final \cup {"retry"}

TypeOK ==
  /\ log \in [Ops -> Final \cup {Nothing}]
  /\ rows \subseteq {Op[o].row : o \in Ops} /\ voided \subseteq rows
  /\ shift \in [Shifts -> {"none", "open", "closed"}]
  /\ drawer \in [Shifts -> SUBSET Ops] /\ expected \in [Shifts -> SUBSET Ops] /\ late \subseteq Ops
  /\ \A d \in Deliveries : LET j == job[d] IN
       /\ j.pc \in {"idle", "pick", "run"}
       /\ j.left \subseteq Ops /\ Range(j.got) \subseteq Answers
       /\ DOMAIN j.got \cap j.left = {}
       /\ j.op \in Ops \cup {Nothing} /\ j.attempt \in 0..(MaxAttempts - 1)
  /\ told \in [Ops -> Final \cup {Nothing}]
  /\ made \in Sessions
  /\ faults \in 0..MaxFaults
  /\ runs \in [Ops -> 0..2]

Init ==
  /\ log = [o \in Ops |-> Nothing] /\ told = log
  /\ rows = {} /\ voided = {}
  /\ shift = [s \in Shifts |-> "none"]
  /\ drawer = [s \in Shifts |-> {}] /\ expected = drawer /\ late = {}
  /\ job = [d \in Deliveries |-> Idle]
  /\ made \in Sessions
  /\ faults = 0
  /\ runs = [o \in Ops |-> 0]

-----------------------------------------------------------------------------
(* The device and the route.                                                *)

Pending == {o \in made : told[o] = Nothing}

\* push_ops: process_push reads the subscription once for the whole batch.
\* (A device that touch_device finds revoked sends nothing any more.)
Send(d, batch, service) ==
  /\ job[d].pc = "idle" /\ batch # {}
  /\ \A e \in Deliveries : e < d => job[e].pc # "idle"
  /\ job' = [job EXCEPT ![d] = [Idle EXCEPT !.pc = "pick", !.left = batch, !.service = service]]
  /\ UNCHANGED <<log, business, told, runs>>

SendAll(d) == Send(d, Pending, "active") /\ UNCHANGED faults
SendPart(d) == \E o \in Pending \cap Alone : Send(d, {o}, "active") /\ UNCHANGED faults
SendLapsed(d) == Send(d, Pending, "lapsed") /\ faults < MaxFaults /\ faults' = faults + 1

\* The results reach the device; only what is not retryable leaves its queue.
Answer(d) ==
  LET j == job[d] IN
  /\ j.pc = "pick" /\ j.left = {}
  /\ told' = [o \in Ops |-> IF o \in DOMAIN j.got /\ j.got[o] \in Final THEN j.got[o] ELSE told[o]]
  /\ job' = [job EXCEPT ![d] = Idle]
  /\ UNCHANGED <<log, business, faults, runs>>

\* The server process ends, or the answer is lost: what was not committed is gone.
Lose(d) ==
  /\ job[d].pc # "idle" /\ faults < MaxFaults
  /\ job' = [job EXCEPT ![d] = Idle]
  /\ faults' = faults + 1
  /\ UNCHANGED <<log, business, told, runs>>

-----------------------------------------------------------------------------
(* process_push: the first operation left whose dependencies in the batch   *)
(* are finished, then the check of its dependencies.                        *)

First(s) == Queue[Min({i \in DOMAIN Queue : Queue[i] \in s})]
Picked(d) == First({o \in job[d].left : Deps(o) \cap job[d].left \subseteq {o}})

With(got, o, answer) == [x \in DOMAIN got \cup {o} |-> IF x = o THEN answer ELSE got[x]]
Put(d, o, answer) ==
  LET j == job[d] IN
  job' = [job EXCEPT ![d] = [Idle EXCEPT !.pc = "pick", !.left = j.left \ {o}, !.service = j.service,
                                         !.got = With(j.got, o, answer)]]

\* _dependency_error: the batch's own outcome, else the stored one. A failed
\* dependency is as final as its own answer, and nothing is stored for o.
NoDependencyError(d, o) == [dep \in {} |-> "retry"]
BatchDependencyError(d, o) ==
  LET got == job[d].got IN
  [dep \in {x \in Deps(o) : x \in DOMAIN got => got[x] # "applied"} |-> "retry"]
DependencyError(d, o) ==
  LET got == job[d].got
      Of(dep) == IF dep \in DOMAIN got THEN IF got[dep] = "retry" THEN "retry" ELSE "rejected"
                 ELSE IF log[dep] = Nothing THEN "retry" ELSE "rejected"
      Fails(dep) == IF dep \in DOMAIN got THEN got[dep] # "applied" ELSE log[dep] # "applied"
  IN [dep \in {x \in Deps(o) : Fails(x)} |-> Of(dep)]

OpenShifts == {s \in Shifts : shift[s] = "open"}

\* The statements of a handler that take no lock: what they read may have
\* changed when the transaction commits.
Reads(o) ==
  CASE Op[o].type = "sale.create" -> rows \cap {Op[o].row}
    [] Op[o].type = "sale.void" -> {s \in OpenShifts : Op[o].sale \notin voided}
    [] Op[o].type = "expense.create" -> OpenShifts
    [] OTHER -> {}

Locked(o) == \E d \in Deliveries : job[d].pc = "run" /\ job[d].op = o

\* One turn of process_push's loop up to the handler: the dependencies, then
\* the advisory lock on the op_id, then the stored result ("duplicate" is
\* "applied" to the device). Dependencies that were met stay met, so checking
\* them and taking the lock is one step.
PickOp(d) ==
  /\ job[d].pc = "pick" /\ job[d].left # {}
  /\ LET o == Picked(d)
         errors == DependencyError(d, o) IN
       \/ \E dep \in DOMAIN errors : Put(d, o, errors[dep])
       \/ DOMAIN errors = {} /\ ~Locked(o) /\ log[o] # Nothing /\ Put(d, o, log[o])
       \/ /\ DOMAIN errors = {} /\ ~Locked(o) /\ log[o] = Nothing
          /\ job' = [job EXCEPT ![d] = [job[d] EXCEPT !.pc = "run", !.op = o, !.seen = Reads(o)]]
  /\ UNCHANGED <<log, business, told, faults, runs>>

\* A deadlock's victim rolls back and starts again, at most MaxAttempts times;
\* then, and at once for any other database error, the answer is retryable.
DatabaseError(d) ==
  /\ job[d].pc = "run" /\ faults < MaxFaults
  /\ faults' = faults + 1
  /\ \/ /\ job[d].attempt < MaxAttempts - 1
        /\ job' = [job EXCEPT ![d] = [job[d] EXCEPT !.pc = "pick", !.op = Nothing, !.seen = {},
                                                    !.attempt = job[d].attempt + 1]]
     \/ Put(d, job[d].op, "retry")
  /\ UNCHANGED <<log, business, told, runs>>

-----------------------------------------------------------------------------
(* The gate, the handlers and the end of _run_op_once: one transaction.     *)

Withheld(d) == job[d].service # "active" /\ Op[job[d].op].type \notin LapsedAllowed
Running(d, type) ==
  /\ job[d].pc = "run" /\ Op[job[d].op].type = type
  /\ ~Withheld(d) /\ ~Op[job[d].op].barred

\* The result is stored with the effects, unless it is retryable.
FinishStoreLater(d, answer, effect) ==
  LET o == job[d].op IN
  /\ Put(d, o, answer)
  /\ UNCHANGED log
  /\ runs' = IF effect /\ runs[o] < 2 THEN [runs EXCEPT ![o] = @ + 1] ELSE runs
  /\ UNCHANGED <<told, faults, made>>
Finish(d, answer, effect) ==
  LET o == job[d].op IN
  /\ Put(d, o, answer)
  /\ log' = IF answer = "retry" THEN log ELSE [log EXCEPT ![o] = answer]
  /\ runs' = IF effect /\ runs[o] < 2 THEN [runs EXCEPT ![o] = @ + 1] ELSE runs
  /\ UNCHANGED <<told, faults, made>>

Apply(d) == Finish(d, "applied", TRUE)
Refuse(d, answer) == Finish(d, answer, FALSE) /\ UNCHANGED business

Gate(d) ==
  /\ job[d].pc = "run"
  /\ \/ Withheld(d) /\ Refuse(d, "retry")
     \/ ~Withheld(d) /\ Op[job[d].op].barred /\ Refuse(d, "rejected")

SaleOf(o) == CHOOSE p \in Ops : Op[p].type = "sale.create" /\ Op[p].row = Op[o].sale

\* Cash into a locked shift's drawer: a closed shift's expected cash is
\* computed anew (_refresh_closed_shift_totals).
PostOnly(o, s) == drawer' = [drawer EXCEPT ![s] = @ \cup {o}] /\ UNCHANGED <<expected, late>>
Post(o, s) ==
  /\ drawer' = [drawer EXCEPT ![s] = @ \cup {o}]
  /\ IF shift[s] = "closed"
       THEN expected' = [expected EXCEPT ![s] = drawer'[s]] /\ late' = late \ drawer'[s]
       ELSE UNCHANGED <<expected, late>>

\* The same without the refresh, to a shift that was read open without a lock.
PostUnlocked(o, s) ==
  /\ drawer' = [drawer EXCEPT ![s] = @ \cup {o}]
  /\ late' = IF shift[s] = "closed" THEN late \cup {o} ELSE late
  /\ UNCHANGED expected

NoCash == UNCHANGED <<drawer, expected, late>>
Insert(o) == rows' = rows \cup {Op[o].row}

CustomerCreate(d) ==
  LET o == job[d].op IN
  /\ Running(d, "customer.create")
  /\ IF Op[o].row \in rows THEN Refuse(d, "conflict")
     ELSE Apply(d) /\ Insert(o) /\ NoCash /\ UNCHANGED <<voided, shift>>

ShiftOpen(d) ==
  LET o == job[d].op IN
  /\ Running(d, "shift.open")
  /\ IF shift[Op[o].row] # "none" \/ OpenShifts # {} THEN Refuse(d, "conflict")
     ELSE /\ Apply(d)
          /\ shift' = [shift EXCEPT ![Op[o].row] = "open"]
          /\ drawer' = [drawer EXCEPT ![Op[o].row] = @ \cup {o}]
          /\ UNCHANGED <<rows, voided, expected, late>>

ShiftClose(d) ==
  LET o == job[d].op
      s == Op[o].shift IN
  /\ Running(d, "shift.close")
  /\ CASE shift[s] = "none" -> Refuse(d, "retry")
       [] shift[s] = "closed" -> Refuse(d, "conflict")
       [] shift[s] = "open" ->
            /\ Apply(d)
            /\ shift' = [shift EXCEPT ![s] = "closed"]
            /\ expected' = [expected EXCEPT ![s] = drawer[s]]
            /\ UNCHANGED <<rows, voided, drawer, late>>

\* A sale that is there already is not made again; one that appeared since the
\* look violates its key, and so does nothing here. The sale of an unknown
\* shift is accepted with a flag, and its cash is in no drawer.
SaleCreate(d) ==
  LET o == job[d].op
      s == Op[o].shift
      unknown == Op[o].customer # "" /\ Op[o].customer \notin rows IN
  /\ Running(d, "sale.create")
  /\ CASE job[d].seen # {} -> Finish(d, "applied", FALSE) /\ UNCHANGED business
       [] job[d].seen = {} /\ unknown -> Refuse(d, "retry")
       [] job[d].seen = {} /\ ~unknown /\ Op[o].row \in rows -> Refuse(d, "conflict")
       [] OTHER -> /\ Apply(d) /\ Insert(o) /\ UNCHANGED <<voided, shift>>
                   /\ IF s # "" /\ shift[s] # "none" THEN Post(o, s) ELSE NoCash

Returned(sale) == \E p \in Ops : Op[p].type = "return.create" /\ Op[p].sale = sale /\ Op[p].row \in rows

\* void_sale: without returns, of a shift read open, and completed when
\* _h_sale_void loaded it: the session answers the locking query with that row.
SaleVoid(d) ==
  LET o == job[d].op
      target == Op[o].sale
      s == Op[SaleOf(o)].shift IN
  /\ Running(d, "sale.void")
  /\ CASE target \notin rows -> Refuse(d, "retry")
       [] target \in rows /\ (s \notin job[d].seen \/ Returned(target)) -> Refuse(d, "conflict")
       [] OTHER -> /\ Apply(d)
                   /\ voided' = voided \cup {target}
                   /\ PostUnlocked(o, s)
                   /\ UNCHANGED <<rows, shift>>

CustomerPayment(d) ==
  LET o == job[d].op
      s == Op[o].shift IN
  /\ Running(d, "customer.payment")
  /\ CASE Op[o].customer \notin rows -> Refuse(d, "retry")
       [] Op[o].customer \in rows /\ Op[o].row \in rows -> Refuse(d, "conflict")
       [] OTHER -> /\ Apply(d) /\ Insert(o) /\ UNCHANGED <<voided, shift>>
                   /\ IF s # "" /\ shift[s] # "none" THEN Post(o, s) ELSE NoCash

\* create_expense: cash comes from the branch's open shift, read without a lock.
ExpenseCreate(d) ==
  LET o == job[d].op IN
  /\ Running(d, "expense.create")
  /\ Apply(d) /\ Insert(o) /\ UNCHANGED <<voided, shift>>
  /\ IF job[d].seen # {} THEN PostUnlocked(o, CHOOSE s \in job[d].seen : TRUE) ELSE NoCash

\* create_sale_return locks the user's open shift and pays out of it.
ReturnCreate(d) ==
  LET o == job[d].op IN
  /\ Running(d, "return.create")
  /\ CASE Op[o].sale \notin rows \/ OpenShifts = {} -> Refuse(d, "retry")
       [] Op[o].sale \in rows /\ OpenShifts # {} /\ (Op[o].sale \in voided \/ Returned(Op[o].sale)) -> Refuse(d, "conflict")
       [] OTHER -> /\ Apply(d) /\ Insert(o) /\ UNCHANGED <<voided, shift>>
                   /\ Post(o, CHOOSE s \in OpenShifts : TRUE)

Settled == Pending = {} /\ (\A d \in Deliveries : job[d].pc = "idle") /\ UNCHANGED vars

RunOp(d) ==
  \/ PickOp(d) \/ Gate(d)
  \/ CustomerCreate(d) \/ ShiftOpen(d) \/ ShiftClose(d) \/ SaleCreate(d) \/ SaleVoid(d)
  \/ CustomerPayment(d) \/ ExpenseCreate(d) \/ ReturnCreate(d)

Next ==
  \/ \E d \in Deliveries :
       \/ SendAll(d) \/ SendPart(d) \/ SendLapsed(d) \/ RunOp(d) \/ Answer(d) \/ DatabaseError(d) \/ Lose(d)
  \/ Settled

\* The server works a delivery off and answers it (the lost ones are faults);
\* the device goes on sending all it has no answer for.
Fairness == \A d \in Deliveries :
  WF_vars(RunOp(d) \/ Answer(d)) /\ SF_vars(SendAll(d))

Spec == Init /\ [][Next]_vars /\ Fairness
-----------------------------------------------------------------------------
(* What the operations promise.                                             *)

\* All operations an operation depends on, directly or not.
Before[i \in DOMAIN Queue] ==
  Deps(Queue[i]) \cup UNION {Before[k] : k \in {n \in 1..(i-1) : Queue[n] \in Deps(Queue[i])}}
Ancestors(o) == Before[CHOOSE i \in DOMAIN Queue : Queue[i] = o]

SameAs(o, p) == Op[o].type = Op[p].type /\ Op[o].row = Op[p].row

\* What is decided about an operation, read off its effect and its stored
\* result; "torn" when the two disagree. What has a failed ancestor can never
\* be applied, and is answered dependency_failed without being stored.
Decided(o) ==
  CASE log[o] = Nothing /\ runs[o] = 0 ->
         IF \E a \in made : log[a] \in {"rejected", "conflict"} /\ a \in Ancestors(o) THEN "rejected" ELSE Nothing
    [] log[o] = "applied" /\ Cardinality({p \in made : runs[p] > 0 /\ SameAs(o, p)}) = 1 /\ runs[o] < 2 -> "applied"
    [] log[o] \in {"rejected", "conflict"} /\ runs[o] = 0 -> log[o]
    [] OTHER -> "torn"

Once == INSTANCE OnceOnly WITH Jobs <- Ops, Outcomes <- Final, Open <- Nothing,
                               outcome <- [o \in Ops |-> Decided(o)], told <- told

\* However deliveries are repeated, split, lost, crashed and run side by side,
\* every operation is decided once, takes effect once if it is applied, and
\* each final answer the device gets is that decision (_run_op_once, _store).
ImplementsOnceOnly == Once!Spec

\* depends_on keeps money in the drawer: an applied sale or payment that depends
\* on the opening of its shift is among that shift's transactions, in whatever
\* order and grouping the operations arrived (_dependency_error, process_push).
CashReachesDrawer ==
  \A o \in Ops, h \in Ops :
    /\ runs[o] = 1 /\ Op[o].type \in {"sale.create", "customer.payment"}
    /\ Op[h].type = "shift.open" /\ Op[h].row = Op[o].shift /\ h \in Deps(o)
    => o \in drawer[Op[o].shift]

\* A closed shift expects the cash of all its transactions, the late ones too;
\* only what was posted to a shift read open without a lock escapes it
\* (_refresh_closed_shift_totals, create_expense, void_sale).
ClosedShiftExpectsLateCash ==
  \A s \in Shifts : shift[s] = "closed" => expected[s] = drawer[s] \ late

\* What no answer will ever settle: an operation whose failed dependency was
\* answered in an earlier delivery and never stored; the close of a shift whose
\* opening failed, without depending on it; and a return for which nobody opens
\* a shift again.
Orphan(o) == \E a \in Deps(o) : told[a] = "rejected" /\ log[a] = Nothing
ShiftMissing(o) ==
  \/ Op[o].type = "shift.close" /\ shift[Op[o].shift] = "none"
  \/ Op[o].type = "return.create" /\ OpenShifts = {}

\* Every operation of a device that keeps sending gets its final answer,
\* unless it is one of those (_finish_rejected, the retry rule).
EveryOpSettled ==
  <>[](\A o \in Pending : Orphan(o) \/ ShiftMissing(o))
=============================================================================
