--------------------------- MODULE SyncPushProofs ---------------------------
(* Proofs about the push of offline operations: it implements OnceOnly, and  *)
(* the drawers get and expect the cash of what was applied.                  *)
EXTENDS SyncPush, Sums

-----------------------------------------------------------------------------
(* The queue and the ancestors of an operation.                              *)

\* One operation of the queue, and those it depends on.
LEMMA OpFacts ==
  ASSUME NEW o \in Ops
  PROVE  /\ Op[o] \in OpEnvelope /\ Op[o].type \in Types /\ Deps(o) \subseteq Ops
         /\ Op[o].row # "" /\ Op[o].shift \in Shifts \cup {""}
         /\ Op[o].type = "shift.close" => Op[o].shift \in Shifts
         /\ Op[o].type = "shift.open" => Op[o].row \in Shifts
  <1>1. Op[o] \in OpEnvelope BY OpAssumption
  <1>2. Op[o].row # "" /\ Op[o].shift \in Shifts \cup {""} /\ (Op[o].type = "shift.close" => Op[o].shift # "")
    BY RowAssumption
  <1>3. Op[o].type \in Types /\ Op[o].deps \subseteq Ops BY <1>1 DEF OpEnvelope
  <1>4. Op[o].type = "shift.open" => Op[o].row \in Shifts BY DEF Shifts
  <1> QED BY <1>1, <1>2, <1>3, <1>4 DEF Deps

\* Each operation has one place in the queue, after all it depends on.
LEMMA QueueFacts ==
  /\ DOMAIN Queue = 1..Len(Queue) /\ Len(Queue) \in Nat
  /\ \A i \in DOMAIN Queue : Queue[i] \in Ops
  /\ \A o \in Ops : \E i \in DOMAIN Queue : Queue[i] = o
  /\ \A i, k \in DOMAIN Queue : Queue[i] = Queue[k] => i = k
  /\ \A i, k \in DOMAIN Queue : Queue[k] \in Deps(Queue[i]) => k < i
  /\ \A i \in DOMAIN Queue : \A dep \in Deps(Queue[i]) : \E k \in 1..(i - 1) : Queue[k] = dep
  <1>1. DOMAIN Queue = 1..Len(Queue) /\ Len(Queue) \in Nat BY QueueAssumption
  <1>2. \A i, k \in DOMAIN Queue : Queue[i] = Queue[k] => i = k BY QueueAssumption DEF IsInjective
  <1>3. Ops = {Queue[i] : i \in DOMAIN Queue} BY DEF Ops, Range
  <1>4. \A i \in DOMAIN Queue : \A dep \in Deps(Queue[i]) : \E k \in 1..(i - 1) : Queue[k] = dep
    BY OpAssumption
  <1>5. ASSUME NEW i \in DOMAIN Queue, NEW k \in DOMAIN Queue, Queue[k] \in Deps(Queue[i]) PROVE k < i
    <2>1. PICK n \in 1..(i - 1) : Queue[n] = Queue[k] BY <1>4, <1>5
    <2>2. n \in DOMAIN Queue BY <1>1, <2>1
    <2> QED BY <1>1, <1>2, <2>1, <2>2
  <1> QED BY <1>1, <1>2, <1>3, <1>4, <1>5

\* One unfolding of Before.
BeforeStep(f, i) == Deps(Queue[i]) \cup UNION {f[k] : k \in {n \in 1..(i-1) : Queue[n] \in Deps(Queue[i])}}

\* The recursion has a solution.
LEMMA BeforeExists ==
  \A n \in Nat : \E f : f = [i \in 1..n |-> BeforeStep(f, i)]
  <1> DEFINE P == {n \in Nat : \E f : f = [i \in 1..n |-> BeforeStep(f, i)]}
  <1>1. 0 \in P
    <2> DEFINE f == [i \in 1..0 |-> {}]
    <2>1. f = [i \in 1..0 |-> BeforeStep(f, i)] OBVIOUS
    <2> QED BY <2>1
  <1>2. ASSUME NEW n \in Nat, n \in P PROVE n + 1 \in P
    <2>1. PICK f : f = [i \in 1..n |-> BeforeStep(f, i)] BY <1>2
    <2> DEFINE g == [i \in 1..(n + 1) |-> IF i = n + 1 THEN BeforeStep(f, n + 1) ELSE f[i]]
    <2>2. \A i \in 1..n : g[i] = f[i] OBVIOUS
    <2>3. DOMAIN g = 1..(n + 1) /\ g[n + 1] = BeforeStep(f, n + 1) OBVIOUS
    <2>4. g = [i \in 1..(n + 1) |-> g[i]] OBVIOUS
    <2> HIDE DEF g
    <2>5. ASSUME NEW i \in 1..(n + 1) PROVE BeforeStep(g, i) = BeforeStep(f, i)
      <3>1. \A k \in {m \in 1..(i-1) : Queue[m] \in Deps(Queue[i])} : g[k] = f[k] BY <2>2
      <3>2. {g[k] : k \in {m \in 1..(i-1) : Queue[m] \in Deps(Queue[i])}}
            = {f[k] : k \in {m \in 1..(i-1) : Queue[m] \in Deps(Queue[i])}} BY <3>1
      <3> QED BY <3>2 DEF BeforeStep
    <2>6. ASSUME NEW i \in 1..(n + 1) PROVE g[i] = BeforeStep(g, i)
      <3>1. CASE i = n + 1 BY <2>3, <2>5, <3>1
      <3>2. CASE i \in 1..n
        <4>1. f[i] = BeforeStep(f, i) BY <2>1, <3>2
        <4> QED BY <2>2, <2>5, <3>2, <4>1
      <3> QED BY <3>1, <3>2
    <2>7. g = [i \in 1..(n + 1) |-> BeforeStep(g, i)] BY <2>4, <2>6
    <2> QED BY <2>7
  <1> HIDE DEF P
  <1>3. \A n \in Nat : n \in P BY <1>1, <1>2, InductionOnNat
  <1> QED BY <1>3 DEF P

\* What comes before an operation: what it depends on, and what comes before that.
LEMMA AncestorsClosed ==
  ASSUME NEW o \in Ops
  PROVE  /\ Deps(o) \subseteq Ancestors(o)
         /\ \A dep \in Deps(o) : Ancestors(dep) \subseteq Ancestors(o)
         /\ \A a \in Ancestors(o) : a \in Deps(o) \/ \E dep \in Deps(o) : a \in Ancestors(dep)
  <1>1. Before = [i \in DOMAIN Queue |-> BeforeStep(Before, i)]
    <2>1. \E f : f = [i \in DOMAIN Queue |-> BeforeStep(f, i)] BY BeforeExists, QueueFacts
    <2>2. Before = CHOOSE f : f = [i \in DOMAIN Queue |-> BeforeStep(f, i)] BY DEF Before, BeforeStep
    <2> QED BY <2>1, <2>2
  <1>2. \A p \in Ops : \A i \in DOMAIN Queue : Queue[i] = p => Ancestors(p) = Before[i]
    <2> SUFFICES ASSUME NEW p \in Ops, NEW i \in DOMAIN Queue, Queue[i] = p PROVE Ancestors(p) = Before[i] OBVIOUS
    <2>1. \A k \in DOMAIN Queue : Queue[k] = p => k = i BY QueueFacts
    <2>2. (CHOOSE k \in DOMAIN Queue : Queue[k] = p) = i BY <2>1
    <2> QED BY <2>2 DEF Ancestors
  <1>3. PICK i \in DOMAIN Queue : Queue[i] = o BY QueueFacts
  <1>4. Ancestors(o) = BeforeStep(Before, i) BY <1>1, <1>2, <1>3
  <1>5. \A dep \in Deps(o) : \E k \in 1..(i - 1) : Queue[k] = dep /\ k \in DOMAIN Queue
    BY <1>3, QueueFacts
  <1>6. \A k \in 1..(i - 1) : k \in DOMAIN Queue BY <1>3, QueueFacts
  <1>7. \A dep \in Deps(o) : Ancestors(dep) \subseteq Ancestors(o)
    <2> SUFFICES ASSUME NEW dep \in Deps(o) PROVE Ancestors(dep) \subseteq Ancestors(o) OBVIOUS
    <2>1. PICK k \in 1..(i - 1) : Queue[k] = dep /\ k \in DOMAIN Queue BY <1>5
    <2>2. Ancestors(dep) = Before[k] BY <1>2, <2>1, OpFacts
    <2> QED BY <1>3, <1>4, <2>1, <2>2 DEF BeforeStep
  <1>8. ASSUME NEW a \in Ancestors(o), a \notin Deps(o) PROVE \E dep \in Deps(o) : a \in Ancestors(dep)
    <2>1. PICK k \in 1..(i - 1) : Queue[k] \in Deps(o) /\ a \in Before[k] BY <1>3, <1>4, <1>8 DEF BeforeStep
    <2>2. Ancestors(Queue[k]) = Before[k] BY <1>2, <1>6, QueueFacts
    <2> QED BY <2>1, <2>2
  <1> QED BY <1>3, <1>4, <1>7, <1>8 DEF BeforeStep

-----------------------------------------------------------------------------
(* The invariant.                                                            *)

\* An operation is decided only after all it depends on was applied.
DepsMet ==
  \A o \in Ops : log[o] # Nothing => o \in made /\ \A dep \in Deps(o) : log[dep] = "applied"

\* What is decided has all its ancestors applied.
LEMMA AncestorsApplied ==
  DepsMet => \A o \in Ops : log[o] # Nothing => \A a \in Ancestors(o) : log[a] = "applied"
  <1> SUFFICES ASSUME DepsMet
               PROVE  \A o \in Ops : log[o] # Nothing => \A a \in Ancestors(o) : log[a] = "applied"
    OBVIOUS
  <1> DEFINE P == {n \in Nat : \A i \in DOMAIN Queue :
                     i <= n /\ log[Queue[i]] # Nothing => \A a \in Ancestors(Queue[i]) : log[a] = "applied"}
  <1>1. 0 \in P BY QueueFacts
  <1>2. ASSUME NEW n \in Nat, n \in P PROVE n + 1 \in P
    <2> SUFFICES ASSUME NEW i \in DOMAIN Queue, i <= n + 1, log[Queue[i]] # Nothing, NEW a \in Ancestors(Queue[i])
                 PROVE  log[a] = "applied"
      OBVIOUS
    <2>1. Queue[i] \in Ops BY QueueFacts
    <2>2. CASE a \in Deps(Queue[i]) BY <2>1, <2>2 DEF DepsMet
    <2>3. ASSUME NEW dep \in Deps(Queue[i]), a \in Ancestors(dep) PROVE log[a] = "applied"
      <3>1. PICK k \in 1..(i - 1) : Queue[k] = dep BY QueueFacts
      <3>2. k \in DOMAIN Queue /\ k <= n BY QueueFacts
      <3>3. log[dep] # Nothing BY <2>1, NothingAssumption DEF DepsMet, Final
      <3> QED BY <1>2, <2>3, <3>1, <3>2, <3>3
    <2> QED BY <2>1, <2>2, <2>3, AncestorsClosed
  <1> HIDE DEF P
  <1>3. \A n \in Nat : n \in P BY <1>1, <1>2, InductionOnNat
  <1>4. \A i \in DOMAIN Queue : i \in Nat BY QueueFacts
  <1> QED BY <1>3, <1>4, QueueFacts DEF P

\* Two pushes of one creation are of one type and name the same shift and sale.
LEMMA SameRow ==
  ASSUME NEW o \in Ops, NEW p \in Ops, Op[o].row = Op[p].row
  PROVE  /\ SameAs(o, p) /\ Op[o].type = Op[p].type /\ Op[o].shift = Op[p].shift /\ Op[o].sale = Op[p].sale
         /\ Op[o].type \in {"expense.create", "return.create", "sale.void"} => o = p
  BY RowAssumption DEF SameAs

PushTypes ==
  /\ log \in [Ops -> Final \cup {Nothing}] /\ told \in [Ops -> Final \cup {Nothing}]
  /\ runs \in [Ops -> {0, 1}] /\ made \subseteq Ops
  /\ shift \in [Shifts -> {"none", "open", "closed"}]

\* What applying an operation leaves behind.
Done(o) ==
  CASE Op[o].type = "shift.open" -> shift[Op[o].row] # "none"
    [] Op[o].type = "shift.close" -> shift[Op[o].shift] = "closed"
    [] Op[o].type = "sale.void" -> Op[o].sale \in voided
    [] OTHER -> Op[o].row \in rows

\* What took effect is stored as applied, and of two pushes of one creation one
\* took effect.
EffectsStored ==
  /\ \A o \in Ops : runs[o] = 1 => o \in made /\ log[o] = "applied" /\ Done(o)
  /\ \A o \in Ops : log[o] = "applied" => \E p \in made : runs[p] = 1 /\ Op[o].row = Op[p].row
  /\ \A x \in rows : \E p \in made : runs[p] = 1 /\ Op[p].row = x
  /\ \A o, p \in Ops : runs[o] = 1 /\ runs[p] = 1 /\ Op[o].row = Op[p].row => o = p

\* An operation with an ancestor that failed.
Barred(o) == \E a \in made : log[a] \in {"rejected", "conflict"} /\ a \in Ancestors(o)

\* An answer that is not retryable is what is stored, or what an ancestor's
\* failure implies.
Justified(o, answer) ==
  /\ answer = "applied" => log[o] = "applied"
  /\ answer \in {"rejected", "conflict"} => log[o] = answer \/ (answer = "rejected" /\ Barred(o))

Shape(j) == DOMAIN j = {"pc", "left", "got", "service", "op", "seen", "attempt"}

\* What a delivery knows and does.
Sound(j) ==
  /\ Shape(j) /\ j.left \subseteq made
  /\ \A o \in Ops : o \in DOMAIN j.got => j.got[o] \in Answers /\ Justified(o, j.got[o])
  /\ j.pc = "run" =>
       /\ j.op \in made /\ log[j.op] = Nothing /\ \A dep \in Deps(j.op) : log[dep] = "applied"
       /\ Op[j.op].type = "sale.create" /\ j.seen # {} => Op[j.op].row \in rows
       /\ Op[j.op].type \in {"sale.void", "expense.create"} => j.seen \subseteq Shifts

\* The deliveries under way; the lock on an op_id keeps them from one operation.
JobsSound ==
  /\ job = [d \in Deliveries |-> job[d]]
  /\ \A d \in Deliveries : Sound(job[d])
  /\ \A d, e \in Deliveries : d # e /\ job[d].pc = "run" /\ job[e].pc = "run" => job[d].op # job[e].op

\* The drawers: each transaction is of one applied operation, and in one drawer.
CashInv ==
  /\ drawer \in [Shifts -> SUBSET Ops] /\ expected \in [Shifts -> SUBSET Ops] /\ late \subseteq Ops
  /\ \A o \in late : log[o] = "applied"
  /\ \A s \in Shifts : \A o \in drawer[s] : log[o] = "applied"
  /\ \A s, t \in Shifts : s # t => drawer[s] \cap drawer[t] = {}
  /\ \A s \in Shifts : shift[s] # "closed" => drawer[s] \cap late = {}
  /\ ClosedShiftExpectsLateCash

PushInv == PushTypes /\ DepsMet /\ EffectsStored /\ JobsSound /\ CashInv /\ CashReachesDrawer

-----------------------------------------------------------------------------
(* The steps of a delivery.                                                  *)

\* A new content of one delivery.
LEMMA JobChange ==
  ASSUME JobsSound, NEW d \in Deliveries, NEW j, job' = [job EXCEPT ![d] = j]
  PROVE  job'[d] = j /\ (\A e \in Deliveries \ {d} : job'[e] = job[e]) /\ job' = [e \in Deliveries |-> job'[e]]
  BY DEF JobsSound

\* The answer to one operation is put down.
LEMMA PutFields ==
  ASSUME JobsSound, NEW d \in Deliveries, NEW o, NEW answer, Put(d, o, answer)
  PROVE  /\ job' = [e \in Deliveries |-> job'[e]] /\ \A e \in Deliveries \ {d} : job'[e] = job[e]
         /\ Shape(job'[d]) /\ job'[d].pc = "pick" /\ job'[d].left = job[d].left \ {o}
         /\ DOMAIN job'[d].got = DOMAIN job[d].got \cup {o}
         /\ \A p \in DOMAIN job'[d].got :
              job'[d].got[p] = IF p = o THEN answer ELSE job[d].got[p]
  <1> DEFINE old == job[d]
             got == With(old.got, o, answer)
             new == [Idle EXCEPT !.pc = "pick", !.left = old.left \ {o}, !.service = old.service, !.got = got]
  <1>1. job' = [job EXCEPT ![d] = new] BY DEF Put
  <1>2. /\ DOMAIN got = DOMAIN old.got \cup {o}
        /\ \A p \in DOMAIN got : got[p] = IF p = o THEN answer ELSE old.got[p]
    BY DEF With
  <1> HIDE DEF got
  <1>3. Shape(Idle) BY DEF Shape, Idle
  <1>4. Shape(new) BY <1>3, Zenon DEF Shape
  <1>5. new.pc = "pick" BY <1>3, Zenon DEF Shape
  <1>6. new.left = old.left \ {o} BY <1>3, Zenon DEF Shape
  <1>7. new.got = got BY <1>3, Zenon DEF Shape
  <1> HIDE DEF new
  <1>8. job'[d] = new /\ (\A e \in Deliveries \ {d} : job'[e] = job[e]) /\ job' = [e \in Deliveries |-> job'[e]]
    BY <1>1, JobChange
  <1> QED BY <1>2, <1>4, <1>5, <1>6, <1>7, <1>8

\* An answer that was justified stays so: what is stored stays stored.
LEMMA JustifiedStays ==
  ASSUME PushTypes, NEW o \in Ops, NEW answer, Justified(o, answer), made' = made,
         \A p \in Ops : log[p] # Nothing => log'[p] = log[p]
  PROVE  Justified(o, answer)'
  <1>1. Barred(o) => Barred(o)'
    <2> SUFFICES ASSUME NEW a \in made, log[a] \in {"rejected", "conflict"}, a \in Ancestors(o)
                 PROVE  log'[a] = log[a]
      BY DEF Barred
    <2> QED BY NothingAssumption DEF PushTypes, Final
  <1>2. log[o] # Nothing => log'[o] = log[o] OBVIOUS
  <1>3. Nothing \notin {"applied", "rejected", "conflict"} BY NothingAssumption DEF Final
  <1> QED BY <1>1, <1>2, <1>3 DEF Justified

\* The other deliveries do not notice what one of them does.
LEMMA JobsKeep ==
  ASSUME PushTypes, JobsSound, NEW d \in Deliveries,
         job' = [e \in Deliveries |-> job'[e]], \A e \in Deliveries \ {d} : job'[e] = job[e],
         made' = made, rows \subseteq rows', \A p \in Ops : log[p] # Nothing => log'[p] = log[p],
         \A e \in Deliveries \ {d} : job[e].pc = "run" => log'[job[e].op] = Nothing,
         Sound(job[d])',
         \A e \in Deliveries \ {d} : job'[d].pc = "run" /\ job[e].pc = "run" => job'[d].op # job[e].op
  PROVE  JobsSound'
  <1>1. ASSUME NEW e \in Deliveries \ {d} PROVE Sound(job[e])'
    <2>1. job'[e] = job[e] /\ Sound(job[e]) BY DEF JobsSound
    <2>2. \A o \in Ops : o \in DOMAIN job[e].got => Justified(o, job[e].got[o])'
      <3> SUFFICES ASSUME NEW o \in Ops, o \in DOMAIN job[e].got PROVE Justified(o, job[e].got[o])' OBVIOUS
      <3>1. Justified(o, job[e].got[o]) BY <2>1 DEF Sound
      <3>2. PICK answer : answer = job[e].got[o] OBVIOUS
      <3>3. answer = job'[e].got[o] BY <2>1, <3>2
      <3>4. Justified(o, answer)' BY <3>1, <3>2, JustifiedStays
      <3> QED BY <2>1, <3>3, <3>4
    <2>3. ASSUME job[e].pc = "run"
          PROVE  /\ job[e].op \in made /\ log'[job[e].op] = Nothing
                 /\ \A dep \in Deps(job[e].op) : log'[dep] = "applied"
      <3>1. job[e].op \in made /\ \A dep \in Deps(job[e].op) : log[dep] = "applied" BY <2>1, <2>3 DEF Sound
      <3>2. Deps(job[e].op) \subseteq Ops BY <3>1, OpFacts DEF PushTypes
      <3> QED BY <2>3, <3>1, <3>2, NothingAssumption DEF Final
    <2>4. job[e].pc = "run" =>
            /\ Op[job[e].op].type = "sale.create" /\ job[e].seen # {} => Op[job[e].op].row \in rows'
            /\ Op[job[e].op].type \in {"sale.void", "expense.create"} => job[e].seen \subseteq Shifts
      BY <2>1 DEF Sound
    <2> QED BY <2>1, <2>2, <2>3, <2>4 DEF Sound
  <1>2. ASSUME NEW e \in Deliveries, NEW f \in Deliveries, e # f, job'[e].pc = "run", job'[f].pc = "run"
        PROVE  job'[e].op # job'[f].op
    <2>1. CASE e # d /\ f # d BY <1>2, <2>1 DEF JobsSound
    <2>2. CASE e = d BY <1>2, <2>2
    <2>3. CASE f = d BY <1>2, <2>3
    <2> QED BY <2>1, <2>2, <2>3
  <1> QED BY <1>1, <1>2 DEF JobsSound

\* A step that stores nothing keeps the invariant if its delivery stays sound.
LEMMA QuietStep ==
  ASSUME PushInv, UNCHANGED <<log, business, runs>>, told' \in [Ops -> Final \cup {Nothing}], JobsSound'
  PROVE  PushInv'
  <1>1. UNCHANGED <<log, rows, voided, shift, drawer, expected, late, made, runs>> BY DEF business
  <1>2. PushTypes' /\ DepsMet' BY <1>1 DEF PushInv, PushTypes, DepsMet
  <1>3. EffectsStored'
    <2>1. \A o \in Ops : Done(o)' <=> Done(o) BY <1>1 DEF Done
    <2> QED BY <1>1, <2>1 DEF PushInv, EffectsStored
  <1>4. CashInv' /\ CashReachesDrawer' BY <1>1 DEF PushInv, CashInv, CashReachesDrawer, ClosedShiftExpectsLateCash
  <1> QED BY <1>2, <1>3, <1>4 DEF PushInv

\* A delivery that is over, or about to pick, is sound by what it has answered.
LEMMA NewTurn ==
  ASSUME PushInv, NEW d \in Deliveries, NEW j, job' = [job EXCEPT ![d] = j], UNCHANGED <<log, business, runs>>,
         told' \in [Ops -> Final \cup {Nothing}], Shape(j), j.pc # "run", j.left \subseteq made,
         \A o \in Ops : o \in DOMAIN j.got => j.got[o] \in Answers /\ Justified(o, j.got[o])
  PROVE  PushInv'
  <1>1. UNCHANGED <<log, rows, made>> BY DEF business
  <1>2. JobsSound /\ PushTypes BY DEF PushInv
  <1>3. job'[d] = j /\ (\A e \in Deliveries \ {d} : job'[e] = job[e]) /\ job' = [e \in Deliveries |-> job'[e]]
    BY <1>2, JobChange
  <1>4. Sound(job[d])'
    <2>1. \A o \in Ops : o \in DOMAIN job'[d].got => Justified(o, job[d].got[o])'
      BY <1>1, <1>3 DEF Justified, Barred
    <2> QED BY <1>1, <1>3, <2>1 DEF Sound
  <1>5. \A e \in Deliveries : job[e].pc = "run" => log[job[e].op] = Nothing BY <1>2 DEF JobsSound, Sound
  <1>6. JobsSound' BY <1>1, <1>2, <1>3, <1>4, <1>5, JobsKeep
  <1> QED BY <1>6, QuietStep

\* The device sends; an answer arrives or is lost.
LEMMA DeviceKeeps ==
  ASSUME PushInv, NEW d \in Deliveries, SendAll(d) \/ SendPart(d) \/ SendLapsed(d) \/ Answer(d) \/ Lose(d)
  PROVE  PushInv'
  <1>1. Shape(Idle) /\ Idle.pc = "idle" /\ Idle.left = {} /\ DOMAIN Idle.got = {} BY DEF Shape, Idle
  <1>2. told \in [Ops -> Final \cup {Nothing}] BY DEF PushInv, PushTypes
  <1>3. ASSUME NEW batch \in SUBSET made, NEW service, Send(d, batch, service) PROVE PushInv'
    <2> DEFINE j == [Idle EXCEPT !.pc = "pick", !.left = batch, !.service = service]
    <2>1. job' = [job EXCEPT ![d] = j] /\ UNCHANGED <<log, business, told, runs>> BY <1>3 DEF Send
    <2>2. Shape(j) BY <1>1, Zenon DEF Shape
    <2>3. j.pc = "pick" BY <1>1, Zenon DEF Shape
    <2>4. j.left = batch BY <1>1, Zenon DEF Shape
    <2>5. j.got = Idle.got BY <1>1, Zenon DEF Shape
    <2> HIDE DEF j
    <2> QED BY <1>1, <1>2, <2>1, <2>2, <2>3, <2>4, <2>5, NewTurn
  <1>4. CASE SendAll(d) \/ SendLapsed(d) BY <1>3, <1>4 DEF SendAll, SendLapsed, Pending
  <1>5. CASE SendPart(d) BY <1>3, <1>5 DEF SendPart, Pending
  <1>6. CASE Answer(d)
    <2>1. told' \in [Ops -> Final \cup {Nothing}] BY <1>2, <1>6 DEF Answer
    <2> QED BY <1>1, <1>6, <2>1, NewTurn DEF Answer
  <1>7. CASE Lose(d) BY <1>1, <1>2, <1>7, NewTurn DEF Lose
  <1> QED BY <1>4, <1>5, <1>6, <1>7

\* An answer put down without storing anything.
LEMMA PutKeeps ==
  ASSUME PushInv, NEW d \in Deliveries, NEW o \in Ops, NEW answer \in Answers, Put(d, o, answer), Justified(o, answer),
         UNCHANGED <<log, business, told, runs>>
  PROVE  PushInv'
  <1>1. UNCHANGED <<log, rows, made, told>> BY DEF business
  <1>2. JobsSound /\ PushTypes /\ Sound(job[d]) BY DEF PushInv, JobsSound
  <1>3. /\ job' = [e \in Deliveries |-> job'[e]] /\ \A e \in Deliveries \ {d} : job'[e] = job[e]
        /\ Shape(job'[d]) /\ job'[d].pc = "pick" /\ job'[d].left = job[d].left \ {o}
        /\ DOMAIN job'[d].got = DOMAIN job[d].got \cup {o}
        /\ \A p \in DOMAIN job'[d].got : job'[d].got[p] = IF p = o THEN answer ELSE job[d].got[p]
    BY <1>2, PutFields
  <1>4. Sound(job[d])'
    <2>1. \A p \in Ops : p \in DOMAIN job'[d].got => Justified(p, job'[d].got[p]) BY <1>2, <1>3 DEF Sound
    <2>2. \A p \in Ops : p \in DOMAIN job'[d].got => Justified(p, job[d].got[p])'
      BY <1>1, <2>1 DEF Justified, Barred
    <2> QED BY <1>1, <1>2, <1>3, <2>2 DEF Sound
  <1>5. \A e \in Deliveries : job[e].pc = "run" => log[job[e].op] = Nothing BY <1>2 DEF JobsSound, Sound
  <1>6. JobsSound' BY <1>1, <1>2, <1>3, <1>4, <1>5, JobsKeep
  <1>7. told' \in [Ops -> Final \cup {Nothing}] BY <1>1, <1>2 DEF PushTypes
  <1> QED BY <1>6, <1>7, QuietStep

\* Something can be picked: the first operation left waits for none that is left.
LEMMA PickedIsLeft ==
  ASSUME PushInv, NEW d \in Deliveries, job[d].left # {}
  PROVE  Picked(d) \in job[d].left
  <1> DEFINE left == job[d].left
             free == {o \in left : Deps(o) \cap left \subseteq {o}}
             places(s) == {i \in DOMAIN Queue : Queue[i] \in s}
  <1>1. left \subseteq Ops BY DEF PushInv, PushTypes, JobsSound, Sound
  <1>2. \A s \in SUBSET Ops : s # {} => \E i \in places(s) : \A k \in places(s) : i <= k
    <2> SUFFICES ASSUME NEW s \in SUBSET Ops, s # {} PROVE \E i \in places(s) : \A k \in places(s) : i <= k OBVIOUS
    <2>1. places(s) \in SUBSET Nat /\ places(s) # {} BY QueueFacts
    <2> HIDE DEF places
    <2> QED BY <2>1, LeastNatural
  <1>3. free # {}
    <2>1. PICK i \in places(left) : \A k \in places(left) : i <= k BY <1>1, <1>2
    <2>2. i \in DOMAIN Queue /\ Queue[i] \in left OBVIOUS
    <2>3. ASSUME NEW x \in Deps(Queue[i]) \cap left PROVE FALSE
      <3>1. PICK k \in 1..(i - 1) : Queue[k] = x BY <2>2, <2>3, QueueFacts
      <3>2. k \in DOMAIN Queue /\ i \in Nat BY <2>2, <3>1, QueueFacts
      <3>3. i <= k BY <2>1, <2>3, <3>1, <3>2
      <3> QED BY <3>1, <3>2, <3>3
    <2> QED BY <2>2, <2>3
  <1>4. PICK i \in places(free) : \A k \in places(free) : i <= k BY <1>1, <1>2, <1>3
  <1>5. \A i1 \in places(free) : i1 \in Nat BY QueueFacts
  <1>6. Min(places(free)) \in places(free)
    <2> DEFINE m == CHOOSE x \in places(free) : \A y \in places(free) : x =< y
    <2>1. m \in places(free) BY <1>4
    <2> QED BY <2>1 DEF Min
  <1>7. Picked(d) = Queue[Min(places(free))] BY DEF Picked, First
  <1> QED BY <1>6, <1>7

\* A batch's own answer or a stored one says whether a dependency failed.
LEMMA DependencyJustified ==
  ASSUME PushInv, NEW d \in Deliveries, NEW o \in Ops
  PROVE  /\ DependencyError(d, o) = [dep \in DOMAIN DependencyError(d, o) |-> DependencyError(d, o)[dep]]
         /\ \A dep \in DOMAIN DependencyError(d, o) : Justified(o, DependencyError(d, o)[dep])
         /\ DOMAIN DependencyError(d, o) = {} => \A dep \in Deps(o) : log[dep] = "applied"
  <1> DEFINE got == job[d].got
             Of(dep) == IF dep \in DOMAIN got THEN IF got[dep] = "retry" THEN "retry" ELSE "rejected"
                        ELSE IF log[dep] = Nothing THEN "retry" ELSE "rejected"
             Fails(dep) == IF dep \in DOMAIN got THEN got[dep] # "applied" ELSE log[dep] # "applied"
  <1>1. DependencyError(d, o) = [dep \in {x \in Deps(o) : Fails(x)} |-> Of(dep)] BY DEF DependencyError
  <1>2. Deps(o) \subseteq Ops BY OpFacts
  <1>3. PushTypes /\ DepsMet /\ JobsSound /\ Sound(job[d]) BY DEF PushInv, JobsSound
  <1>4. \A dep \in Ops : log[dep] \in {"rejected", "conflict"} \/ Barred(dep) => (dep \in Deps(o) => Barred(o))
    <2> SUFFICES ASSUME NEW dep \in Ops, dep \in Deps(o), log[dep] \in {"rejected", "conflict"} \/ Barred(dep)
                 PROVE  Barred(o)
      OBVIOUS
    <2>1. CASE log[dep] \in {"rejected", "conflict"}
      <3>1. dep \in made BY <1>3, <2>1, NothingAssumption DEF DepsMet, Final
      <3> QED BY <2>1, <3>1, AncestorsClosed DEF Barred
    <2>2. CASE Barred(dep) BY <2>2, AncestorsClosed DEF Barred
    <2> QED BY <2>1, <2>2
  <1>5. ASSUME NEW dep \in Deps(o), Fails(dep) PROVE Justified(o, Of(dep))
    <2>1. CASE Of(dep) = "retry" BY <2>1 DEF Justified
    <2>2. CASE Of(dep) # "retry"
      <3>1. Of(dep) = "rejected" BY <2>2
      <3>2. CASE dep \in DOMAIN got
        <4>1. Justified(dep, got[dep]) BY <1>2, <1>3, <3>2 DEF Sound
        <4>2. got[dep] \in {"rejected", "conflict"} => Barred(o) BY <1>2, <1>4, <4>1 DEF Justified
        <4>3. got[dep] \in Answers BY <1>2, <1>3, <3>2 DEF Sound
        <4> QED BY <1>5, <2>2, <3>1, <3>2, <4>2, <4>3 DEF Justified, Answers, Final
      <3>3. CASE dep \notin DOMAIN got
        <4>1. log[dep] \in {"rejected", "conflict"} BY <1>2, <1>3, <1>5, <2>2, <3>3 DEF PushTypes, Final
        <4> QED BY <1>2, <1>4, <3>1, <4>1 DEF Justified
      <3> QED BY <3>2, <3>3
    <2> QED BY <2>1, <2>2
  <1>6. ASSUME NEW dep \in Deps(o), ~Fails(dep) PROVE log[dep] = "applied"
    <2>1. CASE dep \in DOMAIN got
      <3>1. Justified(dep, got[dep]) BY <1>2, <1>3, <2>1 DEF Sound
      <3> QED BY <1>6, <2>1, <3>1 DEF Justified
    <2> QED BY <1>6, <2>1
  <1> HIDE DEF Of, Fails, got
  <1> QED BY <1>1, <1>5, <1>6

\* One turn up to the handler.
LEMMA PickKeeps == ASSUME PushInv, NEW d \in Deliveries, PickOp(d) PROVE PushInv'
  <1> DEFINE o == Picked(d)
             errors == DependencyError(d, o)
  <1>1. /\ job[d].pc = "pick" /\ job[d].left # {} /\ UNCHANGED <<log, business, told, faults, runs>>
        /\ \/ \E dep \in DOMAIN errors : Put(d, o, errors[dep])
           \/ DOMAIN errors = {} /\ ~Locked(o) /\ log[o] # Nothing /\ Put(d, o, log[o])
           \/ /\ DOMAIN errors = {} /\ ~Locked(o) /\ log[o] = Nothing
              /\ job' = [job EXCEPT ![d] = [job[d] EXCEPT !.pc = "run", !.op = o, !.seen = Reads(o)]]
    BY DEF PickOp
  <1>2. JobsSound /\ PushTypes /\ DepsMet /\ Sound(job[d]) BY DEF PushInv, JobsSound
  <1>3. o \in job[d].left /\ o \in made /\ o \in Ops BY <1>1, <1>2, PickedIsLeft DEF Sound, PushTypes
  <1>4. /\ \A dep \in DOMAIN errors : Justified(o, errors[dep]) /\ errors[dep] \in Answers
        /\ DOMAIN errors = {} => \A dep \in Deps(o) : log[dep] = "applied"
    <2>1. \A dep \in DOMAIN errors : errors[dep] \in Answers BY DEF DependencyError, Answers, Final
    <2> QED BY <1>3, <2>1, DependencyJustified
  <1> HIDE DEF errors, o
  <1>5. CASE \E dep \in DOMAIN errors : Put(d, o, errors[dep])
    BY <1>1, <1>3, <1>4, <1>5, PutKeeps
  <1>6. CASE log[o] # Nothing /\ Put(d, o, log[o])
    <2>1. log[o] \in Answers /\ Justified(o, log[o]) BY <1>2, <1>3, <1>6 DEF PushTypes, Answers, Final, Justified
    <2> QED BY <1>1, <1>3, <1>6, <2>1, PutKeeps
  <1>7. CASE /\ DOMAIN errors = {} /\ ~Locked(o) /\ log[o] = Nothing
             /\ job' = [job EXCEPT ![d] = [job[d] EXCEPT !.pc = "run", !.op = o, !.seen = Reads(o)]]
    <2> DEFINE j == [job[d] EXCEPT !.pc = "run", !.op = o, !.seen = Reads(o)]
    <2>1. Shape(job[d]) BY <1>2 DEF Sound
    <2>2. Shape(j) BY <2>1, Zenon DEF Shape
    <2>3. j.pc = "run" BY <2>1, Zenon DEF Shape
    <2>4. j.left = job[d].left BY <2>1, Zenon DEF Shape
    <2>5. j.got = job[d].got BY <2>1, Zenon DEF Shape
    <2>6. j.op = o BY <2>1, Zenon DEF Shape
    <2>7. j.seen = Reads(o) BY <2>1, Zenon DEF Shape
    <2>8. job' = [job EXCEPT ![d] = j] BY <1>7
    <2> HIDE DEF j
    <2>9. job'[d] = j /\ (\A e \in Deliveries \ {d} : job'[e] = job[e]) /\ job' = [e \in Deliveries |-> job'[e]]
      BY <1>2, <2>8, JobChange
    <2>10. UNCHANGED <<log, rows, shift, made, told>> BY <1>1 DEF business
    <2>11. Sound(job[d])'
      <3>1. \A p \in Ops : p \in DOMAIN job'[d].got => job'[d].got[p] \in Answers /\ Justified(p, job[d].got[p])'
        BY <1>2, <2>5, <2>9, <2>10 DEF Sound, Justified, Barred
      <3>2. /\ Op[o].type = "sale.create" /\ Reads(o) # {} => Op[o].row \in rows
            /\ Op[o].type \in {"sale.void", "expense.create"} => Reads(o) \subseteq Shifts
        BY DEF Reads, OpenShifts
      <3>3. Shape(job[d])' /\ job'[d].left \subseteq made' BY <1>2, <2>2, <2>4, <2>9, <2>10 DEF Sound
      <3> QED BY <1>3, <1>4, <1>7, <2>3, <2>6, <2>7, <2>9, <2>10, <3>1, <3>2, <3>3 DEF Sound
    <2>12. \A e \in Deliveries \ {d} : job[e].pc = "run" => job'[d].op # job[e].op
      BY <1>7, <2>6, <2>9 DEF Locked
    <2>13. \A e \in Deliveries : job[e].pc = "run" => log[job[e].op] = Nothing BY <1>2 DEF JobsSound, Sound
    <2>14. JobsSound' BY <1>2, <2>9, <2>10, <2>11, <2>12, <2>13, JobsKeep
    <2> QED BY <1>1, <1>2, <2>10, <2>14, QuietStep DEF PushTypes
  <1> QED BY <1>1, <1>5, <1>6, <1>7

\* A database error ends the attempt or the turn.
LEMMA ErrorKeeps == ASSUME PushInv, NEW d \in Deliveries, DatabaseError(d) PROVE PushInv'
  <1>1. JobsSound /\ PushTypes /\ Sound(job[d]) BY DEF PushInv, JobsSound
  <1>2. UNCHANGED <<log, business, told, runs>> /\ job[d].pc = "run" BY DEF DatabaseError
  <1>3. CASE Put(d, job[d].op, "retry")
    <2>1. job[d].op \in Ops BY <1>1, <1>2 DEF Sound, PushTypes
    <2>2. Justified(job[d].op, "retry") /\ "retry" \in Answers BY DEF Justified, Answers
    <2> QED BY <1>2, <1>3, <2>1, <2>2, PutKeeps
  <1>4. CASE job' = [job EXCEPT ![d] = [job[d] EXCEPT !.pc = "pick", !.op = Nothing, !.seen = {},
                                                      !.attempt = job[d].attempt + 1]]
    <2> DEFINE j == [job[d] EXCEPT !.pc = "pick", !.op = Nothing, !.seen = {}, !.attempt = job[d].attempt + 1]
    <2>1. Shape(job[d]) BY <1>1 DEF Sound
    <2>2. Shape(j) BY <2>1, Zenon DEF Shape
    <2>3. j.pc = "pick" BY <2>1, Zenon DEF Shape
    <2>4. j.left = job[d].left BY <2>1, Zenon DEF Shape
    <2>5. j.got = job[d].got BY <2>1, Zenon DEF Shape
    <2>6. job' = [job EXCEPT ![d] = j] BY <1>4
    <2> HIDE DEF j
    <2>7. j.left \subseteq made /\ \A o \in Ops : o \in DOMAIN j.got => j.got[o] \in Answers /\ Justified(o, j.got[o])
      BY <1>1, <2>4, <2>5 DEF Sound
    <2>8. told' \in [Ops -> Final \cup {Nothing}] BY <1>1, <1>2 DEF PushTypes
    <2> QED BY <1>2, <2>2, <2>3, <2>6, <2>7, <2>8, NewTurn
  <1> QED BY <1>3, <1>4 DEF DatabaseError

-----------------------------------------------------------------------------
(* The end of a handler.                                                     *)

\* The result of an operation is stored with its answer.
LEMMA Stored ==
  ASSUME PushInv, NEW d \in Deliveries, job[d].pc = "run", NEW answer \in Answers, Put(d, job[d].op, answer),
         log' = IF answer = "retry" THEN log ELSE [log EXCEPT ![job[d].op] = answer],
         UNCHANGED <<told, made>>, rows \subseteq rows'
  PROVE  /\ log' \in [Ops -> Final \cup {Nothing}] /\ told' \in [Ops -> Final \cup {Nothing}]
         /\ \A p \in Ops : log[p] # Nothing => log'[p] = log[p]
         /\ \A p \in Ops : p # job[d].op => log'[p] = log[p]
         /\ answer # "retry" => log'[job[d].op] = answer
         /\ DepsMet' /\ JobsSound'
  <1> DEFINE o == job[d].op
  <1>1. JobsSound /\ PushTypes /\ DepsMet /\ Sound(job[d]) BY DEF PushInv, JobsSound
  <1>2. o \in made /\ o \in Ops /\ log[o] = Nothing /\ \A dep \in Deps(o) : log[dep] = "applied"
    BY <1>1 DEF Sound, PushTypes
  <1>3. /\ job' = [e \in Deliveries |-> job'[e]] /\ \A e \in Deliveries \ {d} : job'[e] = job[e]
        /\ Shape(job'[d]) /\ job'[d].pc = "pick" /\ job'[d].left = job[d].left \ {o}
        /\ DOMAIN job'[d].got = DOMAIN job[d].got \cup {o}
        /\ \A p \in DOMAIN job'[d].got : job'[d].got[p] = IF p = o THEN answer ELSE job[d].got[p]
    BY <1>1, PutFields
  <1>4. \A e \in Deliveries \ {d} : job[e].pc = "run" =>
          job[e].op # o /\ job[e].op \in Ops /\ log[job[e].op] = Nothing
    BY <1>1 DEF JobsSound, Sound, PushTypes
  <1> HIDE DEF o
  <1>5. log' = IF answer = "retry" THEN log ELSE [log EXCEPT ![o] = answer] BY DEF o
  <1>6. /\ log' \in [Ops -> Final \cup {Nothing}]
        /\ \A p \in Ops : p # o => log'[p] = log[p]
        /\ answer # "retry" => log'[o] = answer
    BY <1>1, <1>2, <1>5 DEF PushTypes, Answers
  <1>7. \A p \in Ops : log[p] # Nothing => log'[p] = log[p] BY <1>2, <1>6
  <1>8. \A p \in Ops : log[p] = "applied" => log'[p] = "applied" BY <1>7, NothingAssumption DEF Final
  <1>9. DepsMet'
    <2> SUFFICES ASSUME NEW p \in Ops, log'[p] # Nothing
                 PROVE  p \in made' /\ \A dep \in Deps(p) : log'[dep] = "applied"
      BY DEF DepsMet
    <2>1. Deps(p) \subseteq Ops BY OpFacts
    <2>2. CASE p = o BY <1>2, <1>8, <2>1, <2>2
    <2>3. CASE p # o BY <1>1, <1>6, <1>8, <2>1, <2>3 DEF DepsMet
    <2> QED BY <2>2, <2>3
  <1>10. Sound(job[d])'
    <2>1. \A p \in Ops : p \in DOMAIN job'[d].got => job'[d].got[p] \in Answers /\ Justified(p, job[d].got[p])'
      <3> SUFFICES ASSUME NEW p \in Ops, p \in DOMAIN job'[d].got
                   PROVE  job'[d].got[p] \in Answers /\ Justified(p, job[d].got[p])'
        OBVIOUS
      <3>1. PICK a : a = job'[d].got[p] OBVIOUS
      <3>2. CASE p = o
        <4>1. a = answer BY <1>3, <3>1, <3>2
        <4>2. Justified(p, a)' BY <1>6, <3>2, <4>1 DEF Justified
        <4> QED BY <3>1, <4>1, <4>2
      <3>3. CASE p # o
        <4>1. a = job[d].got[p] /\ p \in DOMAIN job[d].got BY <1>3, <3>1, <3>3
        <4>2. a \in Answers /\ Justified(p, a) BY <1>1, <4>1 DEF Sound
        <4>3. Justified(p, a)' BY <1>1, <1>7, <4>2, JustifiedStays
        <4> QED BY <3>1, <4>2, <4>3
      <3> QED BY <3>2, <3>3
    <2>2. Shape(job[d])' /\ job'[d].left \subseteq made' /\ job'[d].pc # "run" BY <1>1, <1>3 DEF Sound
    <2> QED BY <2>1, <2>2 DEF Sound
  <1>11. \A e \in Deliveries \ {d} : job[e].pc = "run" => log'[job[e].op] = Nothing BY <1>4, <1>6
  <1>12. JobsSound' BY <1>1, <1>3, <1>7, <1>10, <1>11, JobsKeep
  <1>13. told' \in [Ops -> Final \cup {Nothing}] BY <1>1 DEF PushTypes
  <1> QED BY <1>6, <1>7, <1>9, <1>12, <1>13 DEF o

\* An operation that runs is of the device, and not decided yet.
LEMMA RunningOp ==
  ASSUME PushInv, NEW d \in Deliveries, job[d].pc = "run"
  PROVE  /\ job[d].op \in Ops /\ job[d].op \in made /\ log[job[d].op] = Nothing /\ runs[job[d].op] = 0
         /\ \A dep \in Deps(job[d].op) : log[dep] = "applied"
  <1>1. Sound(job[d]) BY DEF PushInv, JobsSound
  <1>2. job[d].op \in Ops /\ job[d].op \in made /\ log[job[d].op] = Nothing BY <1>1 DEF PushInv, PushTypes, Sound
  <1>3. runs[job[d].op] \in {0, 1} /\ runs[job[d].op] # 1
    BY <1>2, NothingAssumption DEF PushInv, PushTypes, EffectsStored, Final
  <1> QED BY <1>1, <1>2, <1>3 DEF Sound

\* An answer without an effect: "applied" only where the effect is there already.
LEMMA NoEffectKeeps ==
  ASSUME PushInv, NEW d \in Deliveries, job[d].pc = "run", NEW answer \in Answers, Finish(d, answer, FALSE),
         UNCHANGED business, answer = "applied" => Op[job[d].op].row \in rows
  PROVE  PushInv'
  <1> DEFINE o == job[d].op
  <1>1. /\ Put(d, o, answer) /\ UNCHANGED <<told, made, runs>>
        /\ log' = IF answer = "retry" THEN log ELSE [log EXCEPT ![o] = answer]
    BY DEF Finish
  <1>2. UNCHANGED <<rows, voided, shift, drawer, expected, late, made>> BY DEF business
  <1>3. /\ log' \in [Ops -> Final \cup {Nothing}] /\ told' \in [Ops -> Final \cup {Nothing}]
        /\ \A p \in Ops : log[p] # Nothing => log'[p] = log[p]
        /\ \A p \in Ops : p # o => log'[p] = log[p]
        /\ answer # "retry" => log'[o] = answer
        /\ DepsMet' /\ JobsSound'
    BY <1>1, <1>2, Stored
  <1>4. o \in Ops /\ log[o] = Nothing BY RunningOp
  <1> HIDE DEF o
  <1>5. \A p \in Ops : log[p] = "applied" => log'[p] = "applied" BY <1>3, NothingAssumption DEF Final
  <1>6. PushTypes' BY <1>1, <1>2, <1>3 DEF PushInv, PushTypes
  <1>7. EffectsStored'
    <2>1. \A p \in Ops : Done(p)' <=> Done(p) BY <1>2 DEF Done
    <2>2. ASSUME NEW p \in Ops, log'[p] = "applied" PROVE \E q \in made : runs[q] = 1 /\ Op[p].row = Op[q].row
      <3>1. CASE log[p] = "applied" BY <3>1 DEF PushInv, EffectsStored
      <3>2. CASE log[p] # "applied"
        <4>1. p = o BY <1>3, <2>2, <3>2
        <4>2. answer = "applied" BY <1>1, <1>3, <1>4, <2>2, <3>2, <4>1
        <4>3. Op[o].row \in rows BY <4>2 DEF o
        <4> QED BY <4>1, <4>3 DEF PushInv, EffectsStored
      <3> QED BY <3>1, <3>2
    <2> QED BY <1>1, <1>2, <1>5, <2>1, <2>2 DEF PushInv, EffectsStored
  <1>8. CashInv'
    <2>1. \A s \in Shifts : drawer[s] \subseteq Ops BY DEF PushInv, CashInv
    <2>2. \A p \in late : log'[p] = "applied" BY <1>5 DEF PushInv, CashInv
    <2>3. \A s \in Shifts : \A p \in drawer[s] : log'[p] = "applied" BY <1>5, <2>1 DEF PushInv, CashInv
    <2> QED BY <1>2, <2>2, <2>3 DEF PushInv, CashInv, ClosedShiftExpectsLateCash
  <1>9. CashReachesDrawer' BY <1>1, <1>2 DEF PushInv, CashReachesDrawer
  <1> QED BY <1>3, <1>6, <1>7, <1>8, <1>9 DEF PushInv

\* A refusal, or a retryable answer.
LEMMA RefuseKeeps ==
  ASSUME PushInv, NEW d \in Deliveries, job[d].pc = "run", NEW answer \in Answers \ {"applied"}, Refuse(d, answer)
  PROVE  PushInv'
  BY NoEffectKeeps DEF Refuse

\* The effect of an operation is stored with it, once.
LEMMA ApplyKeeps ==
  ASSUME PushInv, NEW d \in Deliveries, NEW o, job[d].pc = "run", o = job[d].op, Apply(d),
         rows \subseteq rows', rows' \subseteq rows \cup {Op[o].row},
         shift' \in [Shifts -> {"none", "open", "closed"}],
         Done(o)', \A p \in Ops : Done(p) => Done(p)',
         \A p \in Ops : Op[p].row = Op[o].row => ~(runs[p] = 1)
  PROVE  /\ PushTypes' /\ DepsMet' /\ EffectsStored' /\ JobsSound'
         /\ runs' = [runs EXCEPT ![o] = 1]
         /\ log'[o] = "applied" /\ \A p \in Ops : log[p] = "applied" => log'[p] = "applied"
  <1>1. o \in Ops /\ o \in made /\ log[o] = Nothing /\ runs[o] = 0 BY RunningOp
  <1>2. /\ Put(d, o, "applied") /\ UNCHANGED <<told, made>>
        /\ log' = [log EXCEPT ![o] = "applied"] /\ runs' = [runs EXCEPT ![o] = runs[o] + 1]
    BY <1>1 DEF Apply, Finish
  <1>3. runs' = [runs EXCEPT ![o] = 1] BY <1>1, <1>2
  <1>4. "applied" \in Answers /\ "applied" # "retry" BY DEF Answers, Final
  <1>5. /\ log' \in [Ops -> Final \cup {Nothing}] /\ told' \in [Ops -> Final \cup {Nothing}]
        /\ \A p \in Ops : log[p] # Nothing => log'[p] = log[p]
        /\ \A p \in Ops : p # o => log'[p] = log[p]
        /\ log'[o] = "applied"
        /\ DepsMet' /\ JobsSound'
    <2>1. /\ Put(d, job[d].op, "applied") /\ UNCHANGED <<told, made>> /\ rows \subseteq rows'
          /\ log' = IF "applied" = "retry" THEN log ELSE [log EXCEPT ![job[d].op] = "applied"]
      BY <1>2, <1>4
    <2>2. /\ log' \in [Ops -> Final \cup {Nothing}] /\ told' \in [Ops -> Final \cup {Nothing}]
          /\ \A p \in Ops : log[p] # Nothing => log'[p] = log[p]
          /\ \A p \in Ops : p # job[d].op => log'[p] = log[p]
          /\ log'[job[d].op] = "applied"
          /\ DepsMet' /\ JobsSound'
      BY <1>4, <2>1, Stored
    <2> QED BY <2>2
  <1>6. Done(o)' /\ rows' \subseteq rows \cup {Op[o].row} /\ \A p \in Ops : Op[p].row = Op[o].row => ~(runs[p] = 1)
    OBVIOUS
  <1>7. runs \in [Ops -> {0, 1}] /\ made \subseteq Ops BY DEF PushInv, PushTypes
  <1>8. \A p \in Ops : log[p] = "applied" => log'[p] = "applied" BY <1>5, NothingAssumption DEF Final
  <1>9. PushTypes' BY <1>2, <1>3, <1>5, <1>7 DEF PushInv, PushTypes
  <1>10. runs'[o] = 1 /\ \A p \in Ops : p # o => runs'[p] = runs[p] BY <1>1, <1>3, <1>7
  <1>11. EffectsStored'
    <2>1. ASSUME NEW p \in Ops, runs'[p] = 1 PROVE p \in made' /\ log'[p] = "applied" /\ Done(p)'
      <3>1. CASE p = o BY <1>1, <1>2, <1>5, <1>6, <3>1
      <3>2. CASE p # o BY <1>2, <1>8, <1>10, <2>1, <3>2 DEF PushInv, EffectsStored
      <3> QED BY <3>1, <3>2
    <2>2. ASSUME NEW p \in Ops, log'[p] = "applied" PROVE \E q \in made' : runs'[q] = 1 /\ Op[p].row = Op[q].row
      <3>1. CASE p = o BY <1>1, <1>2, <1>10, <3>1
      <3>2. CASE p # o
        <4>1. PICK q \in made : runs[q] = 1 /\ Op[p].row = Op[q].row
          BY <1>5, <2>2, <3>2 DEF PushInv, EffectsStored
        <4>2. q \in Ops /\ q # o BY <1>1, <1>7, <4>1
        <4> QED BY <1>2, <1>10, <4>1, <4>2
      <3> QED BY <3>1, <3>2
    <2>3. ASSUME NEW x \in rows' PROVE \E q \in made' : runs'[q] = 1 /\ Op[q].row = x
      <3>1. CASE x = Op[o].row BY <1>1, <1>2, <1>10, <3>1
      <3>2. CASE x \in rows
        <4>1. PICK q \in made : runs[q] = 1 /\ Op[q].row = x BY <3>2 DEF PushInv, EffectsStored
        <4>2. q \in Ops /\ q # o BY <1>1, <1>7, <4>1
        <4> QED BY <1>2, <1>10, <4>1, <4>2
      <3> QED BY <1>6, <2>3, <3>1, <3>2
    <2>4. ASSUME NEW p \in Ops, NEW q \in Ops, runs'[p] = 1, runs'[q] = 1, Op[p].row = Op[q].row PROVE p = q
      <3>1. CASE p # o /\ q # o BY <1>10, <2>4, <3>1 DEF PushInv, EffectsStored
      <3>2. CASE p = o /\ q # o BY <1>6, <1>10, <2>4, <3>2
      <3>3. CASE p # o /\ q = o BY <1>6, <1>10, <2>4, <3>3
      <3> QED BY <3>1, <3>2, <3>3
    <2> QED BY <2>1, <2>2, <2>3, <2>4 DEF EffectsStored
  <1> QED BY <1>5, <1>8, <1>9, <1>11, <1>3

-----------------------------------------------------------------------------
(* The drawers.                                                              *)

\* What has not been applied is in no drawer.
LEMMA NewCash ==
  ASSUME PushInv, NEW o \in Ops, log[o] = Nothing
  PROVE  o \notin late /\ \A s \in Shifts : o \notin drawer[s]
  BY NothingAssumption DEF PushInv, CashInv, Final

\* An operation that moves no cash.
LEMMA NoCashKeeps ==
  ASSUME PushInv, \A p \in Ops : log[p] = "applied" => log'[p] = "applied", NoCash,
         \A s \in Shifts : shift'[s] = "closed" <=> shift[s] = "closed"
  PROVE  CashInv'
  <1>1. UNCHANGED <<drawer, expected, late>> BY DEF NoCash
  <1>2. CashInv BY DEF PushInv
  <1>3. \A p \in late : log'[p] = "applied" BY <1>2 DEF CashInv
  <1>4. \A s \in Shifts : \A p \in drawer[s] : log'[p] = "applied" BY <1>2 DEF CashInv
  <1>5. ClosedShiftExpectsLateCash' BY <1>1, <1>2 DEF CashInv, ClosedShiftExpectsLateCash
  <1> QED BY <1>1, <1>2, <1>3, <1>4, <1>5 DEF CashInv

\* A drawer gets one transaction of an operation that is being applied.
LEMMA DrawerGrows ==
  ASSUME PushInv, NEW o \in Ops, log[o] = Nothing, log'[o] = "applied",
         \A p \in Ops : log[p] = "applied" => log'[p] = "applied",
         NEW s \in Shifts, drawer' = [drawer EXCEPT ![s] = drawer[s] \cup {o}]
  PROVE  /\ drawer' \in [Shifts -> SUBSET Ops] /\ drawer'[s] = drawer[s] \cup {o}
         /\ \A t \in Shifts : t # s => drawer'[t] = drawer[t]
         /\ \A t \in Shifts : drawer[t] \subseteq drawer'[t]
         /\ \A t \in Shifts : \A p \in drawer'[t] : log'[p] = "applied"
         /\ \A t, u \in Shifts : t # u => drawer'[t] \cap drawer'[u] = {}
  <1>1. drawer \in [Shifts -> SUBSET Ops] BY DEF PushInv, CashInv
  <1>2. /\ drawer' \in [Shifts -> SUBSET Ops] /\ drawer'[s] = drawer[s] \cup {o}
        /\ \A t \in Shifts : t # s => drawer'[t] = drawer[t]
    BY <1>1
  <1>3. \A t \in Shifts : o \notin drawer[t] BY NewCash
  <1>4. \A t \in Shifts : \A p \in drawer[t] : p \in Ops /\ log[p] = "applied" BY <1>1 DEF PushInv, CashInv
  <1>5. \A t, u \in Shifts : t # u => drawer[t] \cap drawer[u] = {} BY DEF PushInv, CashInv
  <1>6. \A t \in Shifts : \A p \in drawer'[t] : log'[p] = "applied" BY <1>2, <1>4
  <1>7. \A t, u \in Shifts : t # u => drawer'[t] \cap drawer'[u] = {} BY <1>2, <1>3, <1>5
  <1> QED BY <1>2, <1>6, <1>7

\* Cash to a locked shift, open or closed.
LEMMA PostKeeps ==
  ASSUME PushInv, NEW o \in Ops, log[o] = Nothing, log'[o] = "applied",
         \A p \in Ops : log[p] = "applied" => log'[p] = "applied",
         NEW s \in Shifts, Post(o, s), shift' = shift
  PROVE  CashInv' /\ o \in drawer'[s] /\ \A t \in Shifts : drawer[t] \subseteq drawer'[t]
  <1>1. drawer' = [drawer EXCEPT ![s] = drawer[s] \cup {o}] BY DEF Post
  <1>2. CashInv /\ o \notin late /\ \A t \in Shifts : o \notin drawer[t] BY NewCash DEF PushInv
  <1>3. /\ drawer' \in [Shifts -> SUBSET Ops] /\ drawer'[s] = drawer[s] \cup {o}
        /\ \A t \in Shifts : t # s => drawer'[t] = drawer[t]
        /\ \A t \in Shifts : drawer[t] \subseteq drawer'[t]
        /\ \A t \in Shifts : \A p \in drawer'[t] : log'[p] = "applied"
        /\ \A t, u \in Shifts : t # u => drawer'[t] \cap drawer'[u] = {}
    BY <1>1, DrawerGrows
  <1>4. CASE shift[s] = "closed"
    <2>1. expected' = [expected EXCEPT ![s] = drawer'[s]] /\ late' = late \ drawer'[s] BY <1>4 DEF Post
    <2>2. expected' \in [Shifts -> SUBSET Ops] /\ late' \subseteq late BY <1>2, <1>3, <2>1 DEF CashInv
    <2>3. \A p \in late' : log'[p] = "applied" BY <1>2, <2>2 DEF CashInv
    <2>4. ASSUME NEW t \in Shifts, shift'[t] # "closed" PROVE drawer'[t] \cap late' = {}
      BY <1>2, <1>3, <1>4, <2>2, <2>4 DEF CashInv
    <2>5. ASSUME NEW t \in Shifts, shift'[t] = "closed" PROVE expected'[t] = drawer'[t] \ late'
      <3>1. CASE t = s BY <1>2, <2>1, <3>1 DEF CashInv
      <3>2. CASE t # s
        <4>1. expected'[t] = expected[t] /\ drawer'[t] = drawer[t] BY <1>2, <1>3, <2>1, <3>2 DEF CashInv
        <4>2. expected[t] = drawer[t] \ late BY <1>2, <2>5 DEF CashInv, ClosedShiftExpectsLateCash
        <4>3. drawer'[t] \cap drawer'[s] = {} BY <1>3, <3>2
        <4> QED BY <2>1, <4>1, <4>2, <4>3
      <3> QED BY <3>1, <3>2
    <2>6. late' \subseteq Ops BY <1>2, <2>2 DEF CashInv
    <2> QED BY <1>3, <2>2, <2>3, <2>4, <2>5, <2>6 DEF CashInv, ClosedShiftExpectsLateCash
  <1>5. CASE shift[s] # "closed"
    <2>1. UNCHANGED <<expected, late>> BY <1>5 DEF Post
    <2>2. \A p \in late' : log'[p] = "applied" BY <1>2, <2>1 DEF CashInv
    <2>3. ASSUME NEW t \in Shifts, shift'[t] # "closed" PROVE drawer'[t] \cap late' = {}
      BY <1>2, <1>3, <2>1, <2>3 DEF CashInv
    <2>4. ASSUME NEW t \in Shifts, shift'[t] = "closed" PROVE expected'[t] = drawer'[t] \ late'
      BY <1>2, <1>3, <1>5, <2>1, <2>4 DEF CashInv, ClosedShiftExpectsLateCash
    <2> QED BY <1>2, <1>3, <2>1, <2>2, <2>3, <2>4 DEF CashInv, ClosedShiftExpectsLateCash
  <1> QED BY <1>3, <1>4, <1>5

\* Cash to a shift that was read open without a lock.
LEMMA PostUnlockedKeeps ==
  ASSUME PushInv, NEW o \in Ops, log[o] = Nothing, log'[o] = "applied",
         \A p \in Ops : log[p] = "applied" => log'[p] = "applied",
         NEW s \in Shifts, PostUnlocked(o, s), shift' = shift
  PROVE  CashInv' /\ \A t \in Shifts : drawer[t] \subseteq drawer'[t]
  <1>1. drawer' = [drawer EXCEPT ![s] = drawer[s] \cup {o}] /\ expected' = expected
        /\ late' = IF shift[s] = "closed" THEN late \cup {o} ELSE late
    BY DEF PostUnlocked
  <1>2. CashInv /\ o \notin late /\ \A t \in Shifts : o \notin drawer[t] BY NewCash DEF PushInv
  <1>3. /\ drawer' \in [Shifts -> SUBSET Ops] /\ drawer'[s] = drawer[s] \cup {o}
        /\ \A t \in Shifts : t # s => drawer'[t] = drawer[t]
        /\ \A t \in Shifts : drawer[t] \subseteq drawer'[t]
        /\ \A t \in Shifts : \A p \in drawer'[t] : log'[p] = "applied"
        /\ \A t, u \in Shifts : t # u => drawer'[t] \cap drawer'[u] = {}
    BY <1>1, DrawerGrows
  <1>4. late' \subseteq Ops /\ \A p \in late' : log'[p] = "applied" BY <1>1, <1>2 DEF CashInv
  <1>5. ASSUME NEW t \in Shifts, shift'[t] # "closed" PROVE drawer'[t] \cap late' = {}
    <2>1. drawer[t] \cap late = {} BY <1>2, <1>5 DEF CashInv
    <2>2. CASE t = s BY <1>1, <1>2, <1>3, <1>5, <2>1, <2>2
    <2>3. CASE t # s BY <1>1, <1>2, <1>3, <2>1, <2>3
    <2> QED BY <2>2, <2>3
  <1>6. ASSUME NEW t \in Shifts, shift'[t] = "closed" PROVE expected'[t] = drawer'[t] \ late'
    <2>1. expected[t] = drawer[t] \ late BY <1>2, <1>6 DEF CashInv, ClosedShiftExpectsLateCash
    <2>2. CASE t = s BY <1>1, <1>2, <1>3, <1>6, <2>1, <2>2
    <2>3. CASE t # s BY <1>1, <1>2, <1>3, <2>1, <2>3
    <2> QED BY <2>2, <2>3
  <1>7. expected' \in [Shifts -> SUBSET Ops] BY <1>1, <1>2 DEF CashInv
  <1> QED BY <1>3, <1>4, <1>5, <1>6, <1>7 DEF CashInv, ClosedShiftExpectsLateCash

\* The opening of a shift that another operation waits for has taken effect.
LEMMA ShiftThere ==
  ASSUME PushInv, NEW h \in Ops, log[h] = "applied", Op[h].type = "shift.open"
  PROVE  Op[h].row \in Shifts /\ shift[Op[h].row] # "none"
  <1>1. PICK p \in made : runs[p] = 1 /\ Op[h].row = Op[p].row BY DEF PushInv, EffectsStored
  <1>2. p \in Ops BY DEF PushInv, PushTypes
  <1>3. Op[p].type = "shift.open" BY <1>1, <1>2, SameRow
  <1>4. shift[Op[p].row] # "none" BY <1>1, <1>2, <1>3 DEF PushInv, EffectsStored, Done
  <1> QED BY <1>1, <1>4, OpFacts

\* The cash of what was applied before stays in its drawer; that of a new sale
\* or payment gets there if the opening of its shift is among its dependencies.
LEMMA CashArrives ==
  ASSUME PushInv, NEW o \in Ops, runs' = [runs EXCEPT ![o] = 1],
         \A t \in Shifts : drawer[t] \subseteq drawer'[t],
         ASSUME Op[o].type \in {"sale.create", "customer.payment"}, NEW h \in Deps(o), h \in Ops,
                Op[h].type = "shift.open", Op[h].row = Op[o].shift
         PROVE  o \in drawer'[Op[o].shift]
  PROVE  CashReachesDrawer'
  <1> SUFFICES ASSUME NEW p \in Ops, NEW h \in Ops, runs'[p] = 1, Op[p].type \in {"sale.create", "customer.payment"},
                      Op[h].type = "shift.open", Op[h].row = Op[p].shift, h \in Deps(p)
               PROVE  p \in drawer'[Op[p].shift]
    BY DEF CashReachesDrawer
  <1>1. CASE p = o BY <1>1
  <1>2. CASE p # o
    <2>1. runs[p] = 1 BY <1>2 DEF PushInv, PushTypes
    <2>2. p \in drawer[Op[p].shift] BY <2>1 DEF PushInv, CashReachesDrawer
    <2>3. Op[p].shift \in Shifts BY OpFacts
    <2> QED BY <2>2, <2>3
  <1> QED BY <1>1, <1>2

-----------------------------------------------------------------------------
(* The handlers.                                                             *)

\* Effects stay: rows and voids are not taken back, shifts are not opened again.
LEMMA DoneStays ==
  ASSUME rows \subseteq rows', voided \subseteq voided',
         \A s \in Shifts : /\ shift[s] # "none" => shift'[s] # "none"
                           /\ shift[s] = "closed" => shift'[s] = "closed"
  PROVE  \A p \in Ops : Done(p) => Done(p)'
  <1> SUFFICES ASSUME NEW p \in Ops, Done(p) PROVE Done(p)' OBVIOUS
  <1>1. CASE Op[p].type = "shift.open" BY <1>1, OpFacts DEF Done
  <1>2. CASE Op[p].type = "shift.close" BY <1>2, OpFacts DEF Done
  <1>3. CASE Op[p].type = "sale.void" BY <1>3 DEF Done
  <1>4. CASE Op[p].type \notin {"shift.open", "shift.close", "sale.void"} BY <1>4 DEF Done
  <1> QED BY <1>1, <1>2, <1>3, <1>4

\* The gate stores a refusal, or answers that the operation may come again.
LEMMA GateKeeps == ASSUME PushInv, NEW d \in Deliveries, Gate(d) PROVE PushInv'
  <1>1. "retry" \in Answers \ {"applied"} /\ "rejected" \in Answers \ {"applied"} BY DEF Answers, Final
  <1> QED BY <1>1, RefuseKeeps DEF Gate

\* A creation whose row was not there.
LEMMA InsertApplies ==
  ASSUME PushInv, NEW d \in Deliveries, NEW o, job[d].pc = "run", o = job[d].op,
         Op[o].type \in {"customer.create", "sale.create", "customer.payment", "expense.create", "return.create"},
         Apply(d), Insert(o), UNCHANGED <<voided, shift>>,
         Op[o].row \notin rows \/ Op[o].type \in {"expense.create", "return.create"}
  PROVE  /\ PushTypes' /\ DepsMet' /\ EffectsStored' /\ JobsSound' /\ o \in Ops
         /\ runs' = [runs EXCEPT ![o] = 1] /\ log[o] = Nothing
         /\ log'[o] = "applied" /\ \A p \in Ops : log[p] = "applied" => log'[p] = "applied"
         /\ \A h \in Deps(o) : log[h] = "applied"
  <1>1. rows' = rows \cup {Op[o].row} BY DEF Insert
  <1>2. o \in Ops /\ log[o] = Nothing /\ runs[o] = 0 /\ \A h \in Deps(o) : log[h] = "applied" BY RunningOp
  <1>3. Done(o)' BY <1>1 DEF Done
  <1>4. \A p \in Ops : Done(p) => Done(p)' BY <1>1, DoneStays
  <1>5. ASSUME NEW p \in Ops, Op[p].row = Op[o].row, runs[p] = 1 PROVE FALSE
    <2>1. Op[p].type = Op[o].type /\ (Op[o].type \in {"expense.create", "return.create", "sale.void"} => o = p)
      BY <1>2, <1>5, SameRow
    <2>2. Op[o].row \notin rows BY <1>2, <1>5, <2>1
    <2>3. Done(p) BY <1>5 DEF PushInv, EffectsStored
    <2> QED BY <1>5, <2>1, <2>2, <2>3 DEF Done
  <1>6. shift' \in [Shifts -> {"none", "open", "closed"}] BY DEF PushInv, PushTypes
  <1> QED BY <1>1, <1>2, <1>3, <1>4, <1>5, <1>6, ApplyKeeps

\* Cash of a creation to the drawer of a shift, or to none.
LEMMA CashOfCreation ==
  ASSUME PushInv, NEW d \in Deliveries, NEW o, job[d].pc = "run", o = job[d].op,
         Op[o].type \in {"customer.create", "sale.create", "customer.payment", "expense.create", "return.create"},
         Apply(d), Insert(o), UNCHANGED <<voided, shift>>,
         Op[o].row \notin rows \/ Op[o].type \in {"expense.create", "return.create"},
         IF Op[o].type \in {"sale.create", "customer.payment"}
           THEN IF Op[o].shift # "" /\ shift[Op[o].shift] # "none" THEN Post(o, Op[o].shift) ELSE NoCash
           ELSE NoCash \/ \E s \in Shifts : Post(o, s) \/ PostUnlocked(o, s)
  PROVE  PushInv'
  <1>1. /\ PushTypes' /\ DepsMet' /\ EffectsStored' /\ JobsSound' /\ o \in Ops
        /\ runs' = [runs EXCEPT ![o] = 1] /\ log[o] = Nothing
        /\ log'[o] = "applied" /\ \A p \in Ops : log[p] = "applied" => log'[p] = "applied"
        /\ \A h \in Deps(o) : log[h] = "applied"
    BY InsertApplies, ZenonT(60)
  <1>2. ASSUME Op[o].type \in {"sale.create", "customer.payment"}, NEW h \in Deps(o), h \in Ops,
               Op[h].type = "shift.open", Op[h].row = Op[o].shift
        PROVE  Op[o].shift # "" /\ Op[o].shift \in Shifts /\ shift[Op[o].shift] # "none"
    <2>1. log[h] = "applied" BY <1>1, <1>2
    <2> QED BY <1>2, <2>1, ShiftThere, OpFacts
  <1>3. CASE NoCash
    <2>1. CashInv' BY <1>1, <1>3, NoCashKeeps
    <2>2. \A t \in Shifts : drawer[t] \subseteq drawer'[t] BY <1>3 DEF NoCash
    <2>3. ASSUME Op[o].type \in {"sale.create", "customer.payment"}, NEW h \in Deps(o), h \in Ops,
                 Op[h].type = "shift.open", Op[h].row = Op[o].shift
          PROVE  o \in drawer'[Op[o].shift]
      <3>1. Op[o].shift # "" /\ Op[o].shift \in Shifts /\ shift[Op[o].shift] # "none" BY <1>2, <2>3
      <3>2. Post(o, Op[o].shift) BY <2>3, <3>1
      <3> QED BY <1>1, <3>1, <3>2, PostKeeps
    <2>4. CashReachesDrawer' BY <1>1, <2>2, <2>3, CashArrives
    <2> QED BY <1>1, <2>1, <2>4 DEF PushInv
  <1>4. ASSUME NEW s \in Shifts, Post(o, s), Op[o].type \in {"sale.create", "customer.payment"} => s = Op[o].shift
        PROVE  PushInv'
    <2>1. CashInv' /\ o \in drawer'[s] /\ \A t \in Shifts : drawer[t] \subseteq drawer'[t] BY <1>1, <1>4, PostKeeps
    <2>2. Op[o].type \in {"sale.create", "customer.payment"} => o \in drawer'[Op[o].shift] BY <1>4, <2>1
    <2>3. CashReachesDrawer' BY <1>1, <2>1, <2>2, CashArrives
    <2> QED BY <1>1, <2>1, <2>3 DEF PushInv
  <1>5. ASSUME NEW s \in Shifts, PostUnlocked(o, s), Op[o].type \notin {"sale.create", "customer.payment"}
        PROVE  PushInv'
    <2>1. CashInv' /\ \A t \in Shifts : drawer[t] \subseteq drawer'[t] BY <1>1, <1>5, PostUnlockedKeeps
    <2>2. CashReachesDrawer' BY <1>1, <1>5, <2>1, CashArrives
    <2> QED BY <1>1, <2>1, <2>2 DEF PushInv
  <1>6. CASE Op[o].type \in {"sale.create", "customer.payment"}
    <2>1. CASE Op[o].shift # "" /\ shift[Op[o].shift] # "none"
      <3>1. Op[o].shift \in Shifts BY <1>1, <2>1, OpFacts
      <3> QED BY <1>4, <1>6, <2>1, <3>1
    <2>2. CASE ~(Op[o].shift # "" /\ shift[Op[o].shift] # "none") BY <1>3, <1>6, <2>2
    <2> QED BY <2>1, <2>2
  <1>7. CASE Op[o].type \notin {"sale.create", "customer.payment"} BY <1>3, <1>4, <1>5, <1>7
  <1> QED BY <1>6, <1>7

\* The handlers that make a row.
LEMMA CreationsKeep ==
  ASSUME PushInv, NEW d \in Deliveries,
         \/ CustomerCreate(d) \/ SaleCreate(d) \/ CustomerPayment(d) \/ ExpenseCreate(d) \/ ReturnCreate(d)
  PROVE  PushInv'
  <1>1. PICK o : o = job[d].op OBVIOUS
  <1>2. job[d].pc = "run" BY DEF CustomerCreate, SaleCreate, CustomerPayment, ExpenseCreate, ReturnCreate, Running
  <1>3. o \in Ops BY <1>1, <1>2, RunningOp
  <1>4. /\ "retry" \in Answers \ {"applied"} /\ "conflict" \in Answers \ {"applied"}
        /\ "applied" \in Answers
    BY DEF Answers, Final
  <1>5. ASSUME NEW answer \in {"retry", "conflict"}, Refuse(d, answer) PROVE PushInv' BY <1>2, <1>4, <1>5, RefuseKeeps
  <1>6. CASE CustomerCreate(d)
    <2>1. Op[o].type = "customer.create" BY <1>1, <1>6 DEF CustomerCreate, Running
    <2>2. \/ Refuse(d, "conflict")
          \/ Op[o].row \notin rows /\ Apply(d) /\ Insert(o) /\ NoCash /\ UNCHANGED <<voided, shift>>
      BY <1>1, <1>6 DEF CustomerCreate
    <2> QED BY <1>1, <1>2, <1>5, <2>1, <2>2, CashOfCreation
  <1>7. CASE SaleCreate(d)
    <2>1. Op[o].type = "sale.create" BY <1>1, <1>7 DEF SaleCreate, Running
    <2>2. \/ job[d].seen # {} /\ Finish(d, "applied", FALSE) /\ UNCHANGED business
          \/ Refuse(d, "retry") \/ Refuse(d, "conflict")
          \/ /\ Op[o].row \notin rows /\ Apply(d) /\ Insert(o) /\ UNCHANGED <<voided, shift>>
             /\ IF Op[o].shift # "" /\ shift[Op[o].shift] # "none" THEN Post(o, Op[o].shift) ELSE NoCash
      BY <1>1, <1>7 DEF SaleCreate
    <2>3. CASE job[d].seen # {} /\ Finish(d, "applied", FALSE) /\ UNCHANGED business
      <3>1. Op[job[d].op].row \in rows BY <1>1, <1>2, <2>1, <2>3 DEF PushInv, JobsSound, Sound
      <3> QED BY <1>2, <1>4, <2>3, <3>1, NoEffectKeeps
    <2> QED BY <1>1, <1>2, <1>5, <2>1, <2>2, <2>3, CashOfCreation
  <1>8. CASE CustomerPayment(d)
    <2>1. Op[o].type = "customer.payment" BY <1>1, <1>8 DEF CustomerPayment, Running
    <2>2. \/ Refuse(d, "retry") \/ Refuse(d, "conflict")
          \/ /\ Op[o].row \notin rows /\ Apply(d) /\ Insert(o) /\ UNCHANGED <<voided, shift>>
             /\ IF Op[o].shift # "" /\ shift[Op[o].shift] # "none" THEN Post(o, Op[o].shift) ELSE NoCash
      BY <1>1, <1>8 DEF CustomerPayment
    <2> QED BY <1>1, <1>2, <1>5, <2>1, <2>2, CashOfCreation
  <1>9. CASE ExpenseCreate(d)
    <2>1. Op[o].type = "expense.create" BY <1>1, <1>9 DEF ExpenseCreate, Running
    <2>2. /\ Apply(d) /\ Insert(o) /\ UNCHANGED <<voided, shift>>
          /\ IF job[d].seen # {} THEN PostUnlocked(o, CHOOSE s \in job[d].seen : TRUE) ELSE NoCash
      BY <1>1, <1>9 DEF ExpenseCreate
    <2>3. job[d].seen \subseteq Shifts BY <1>1, <1>2, <2>1 DEF PushInv, JobsSound, Sound
    <2>4. NoCash \/ \E s \in Shifts : PostUnlocked(o, s) BY <2>2, <2>3
    <2> QED BY <1>1, <1>2, <2>1, <2>2, <2>4, CashOfCreation
  <1>10. CASE ReturnCreate(d)
    <2>1. Op[o].type = "return.create" BY <1>1, <1>10 DEF ReturnCreate, Running
    <2>2. \/ Refuse(d, "retry") \/ Refuse(d, "conflict")
          \/ /\ OpenShifts # {} /\ Apply(d) /\ Insert(o) /\ UNCHANGED <<voided, shift>>
             /\ Post(o, CHOOSE s \in OpenShifts : TRUE)
      BY <1>1, <1>10 DEF ReturnCreate
    <2>3. CASE /\ OpenShifts # {} /\ Apply(d) /\ Insert(o) /\ UNCHANGED <<voided, shift>>
               /\ Post(o, CHOOSE s \in OpenShifts : TRUE)
      <3>1. \E s \in Shifts : Post(o, s) BY <2>3 DEF OpenShifts
      <3> QED BY <1>1, <1>2, <2>1, <2>3, <3>1, CashOfCreation
    <2> QED BY <1>5, <2>2, <2>3
  <1> QED BY <1>6, <1>7, <1>8, <1>9, <1>10

\* shift.open: the opening cash is the drawer's first transaction.
LEMMA OpeningKeeps == ASSUME PushInv, NEW d \in Deliveries, ShiftOpen(d) PROVE PushInv'
  <1>1. PICK o : o = job[d].op OBVIOUS
  <1>2. job[d].pc = "run" /\ Op[o].type = "shift.open" BY <1>1 DEF ShiftOpen, Running
  <1>3. o \in Ops /\ log[o] = Nothing BY <1>1, <1>2, RunningOp
  <1>4. Op[o].row \in Shifts BY <1>2, <1>3, OpFacts
  <1>5. "conflict" \in Answers \ {"applied"} BY DEF Answers, Final
  <1>6. CASE Refuse(d, "conflict") BY <1>2, <1>5, <1>6, RefuseKeeps
  <1>7. CASE ~Refuse(d, "conflict")
    <2> DEFINE s == Op[o].row
    <2>1. /\ shift[s] = "none" /\ Apply(d) /\ UNCHANGED <<rows, voided, expected, late>>
          /\ shift' = [shift EXCEPT ![s] = "open"] /\ drawer' = [drawer EXCEPT ![s] = drawer[s] \cup {o}]
      BY <1>1, <1>7 DEF ShiftOpen
    <2>2. shift \in [Shifts -> {"none", "open", "closed"}] /\ CashInv BY DEF PushInv, PushTypes
    <2>3. /\ shift' \in [Shifts -> {"none", "open", "closed"}] /\ shift'[s] = "open"
          /\ \A t \in Shifts : t # s => shift'[t] = shift[t]
      BY <1>4, <2>1, <2>2
    <2>4. Done(o)' BY <1>2, <2>3 DEF Done
    <2>5. \A p \in Ops : Done(p) => Done(p)' BY <2>1, <2>3, DoneStays
    <2>6. ASSUME NEW p \in Ops, Op[p].row = Op[o].row, runs[p] = 1 PROVE FALSE
      <3>1. Op[p].type = "shift.open" BY <1>2, <1>3, <2>6, SameRow
      <3> QED BY <2>1, <2>6, <3>1 DEF PushInv, EffectsStored, Done
    <2>7. /\ PushTypes' /\ DepsMet' /\ EffectsStored' /\ JobsSound'
          /\ runs' = [runs EXCEPT ![o] = 1]
          /\ log'[o] = "applied" /\ \A p \in Ops : log[p] = "applied" => log'[p] = "applied"
      BY <1>1, <1>2, <2>1, <2>3, <2>4, <2>5, <2>6, ApplyKeeps
    <2> HIDE DEF s
    <2>8. s \in Shifts BY <1>4 DEF s
    <2>9. /\ drawer' \in [Shifts -> SUBSET Ops] /\ drawer'[s] = drawer[s] \cup {o}
          /\ \A t \in Shifts : t # s => drawer'[t] = drawer[t]
          /\ \A t \in Shifts : drawer[t] \subseteq drawer'[t]
          /\ \A t \in Shifts : \A p \in drawer'[t] : log'[p] = "applied"
          /\ \A t, u \in Shifts : t # u => drawer'[t] \cap drawer'[u] = {}
      BY <1>3, <2>1, <2>7, <2>8, DrawerGrows
    <2>10. CashInv'
      <3>1. o \notin late BY <1>3, NewCash
      <3>2. \A p \in late' : log'[p] = "applied" BY <2>1, <2>2, <2>7 DEF CashInv
      <3>3. ASSUME NEW t \in Shifts, shift'[t] # "closed" PROVE drawer'[t] \cap late' = {}
        BY <2>1, <2>2, <2>3, <2>9, <3>1, <3>3 DEF CashInv
      <3>4. ASSUME NEW t \in Shifts, shift'[t] = "closed" PROVE expected'[t] = drawer'[t] \ late'
        BY <2>1, <2>2, <2>3, <2>9, <3>4 DEF CashInv, ClosedShiftExpectsLateCash
      <3> QED BY <2>1, <2>2, <2>9, <3>2, <3>3, <3>4 DEF CashInv, ClosedShiftExpectsLateCash
    <2>11. CashReachesDrawer' BY <1>2, <1>3, <2>7, <2>9, CashArrives
    <2> QED BY <2>7, <2>10, <2>11 DEF PushInv
  <1> QED BY <1>6, <1>7

\* shift.close: the expected cash is what the drawer holds.
LEMMA ClosingKeeps == ASSUME PushInv, NEW d \in Deliveries, ShiftClose(d) PROVE PushInv'
  <1>1. PICK o : o = job[d].op OBVIOUS
  <1>2. job[d].pc = "run" /\ Op[o].type = "shift.close" BY <1>1 DEF ShiftClose, Running
  <1>3. o \in Ops /\ log[o] = Nothing BY <1>1, <1>2, RunningOp
  <1>4. Op[o].shift \in Shifts BY <1>2, <1>3, OpFacts
  <1>5. "conflict" \in Answers \ {"applied"} /\ "retry" \in Answers \ {"applied"} BY DEF Answers, Final
  <1>6. CASE Refuse(d, "conflict") \/ Refuse(d, "retry") BY <1>2, <1>5, <1>6, RefuseKeeps
  <1>7. CASE ~(Refuse(d, "conflict") \/ Refuse(d, "retry"))
    <2> DEFINE s == Op[o].shift
    <2>0. shift \in [Shifts -> {"none", "open", "closed"}] /\ CashInv BY DEF PushInv, PushTypes
    <2>1. /\ shift[s] = "open" /\ Apply(d) /\ UNCHANGED <<rows, voided, drawer, late>>
          /\ shift' = [shift EXCEPT ![s] = "closed"] /\ expected' = [expected EXCEPT ![s] = drawer[s]]
      <3>1. shift[s] \in {"none", "open", "closed"} BY <1>4, <2>0
      <3> QED BY <1>1, <1>7, <3>1 DEF ShiftClose
    <2>3. /\ shift' \in [Shifts -> {"none", "open", "closed"}] /\ shift'[s] = "closed"
          /\ \A t \in Shifts : t # s => shift'[t] = shift[t]
      BY <1>4, <2>0, <2>1
    <2>4. Done(o)' BY <1>2, <2>3 DEF Done
    <2>5. \A p \in Ops : Done(p) => Done(p)' BY <2>1, <2>3, DoneStays
    <2>6. ASSUME NEW p \in Ops, Op[p].row = Op[o].row, runs[p] = 1 PROVE FALSE
      <3>1. Op[p].type = "shift.close" /\ Op[p].shift = s BY <1>2, <1>3, <2>6, SameRow
      <3> QED BY <2>1, <2>6, <3>1 DEF PushInv, EffectsStored, Done
    <2>7. /\ PushTypes' /\ DepsMet' /\ EffectsStored' /\ JobsSound'
          /\ runs' = [runs EXCEPT ![o] = 1]
          /\ log'[o] = "applied" /\ \A p \in Ops : log[p] = "applied" => log'[p] = "applied"
      BY <1>1, <1>2, <2>1, <2>3, <2>4, <2>5, <2>6, ApplyKeeps
    <2> HIDE DEF s
    <2>8. s \in Shifts BY <1>4 DEF s
    <2>9. expected' \in [Shifts -> SUBSET Ops] /\ expected'[s] = drawer[s]
          /\ \A t \in Shifts : t # s => expected'[t] = expected[t]
      BY <2>0, <2>1, <2>8 DEF CashInv
    <2>10. CashInv'
      <3>1. \A p \in late : log'[p] = "applied" BY <2>0, <2>7 DEF CashInv
      <3>2. \A t \in Shifts : \A p \in drawer[t] : p \in Ops /\ log[p] = "applied" BY <2>0 DEF CashInv
      <3>3. ASSUME NEW t \in Shifts, shift'[t] # "closed" PROVE drawer'[t] \cap late' = {}
        BY <2>0, <2>1, <2>3, <3>3 DEF CashInv
      <3>4. ASSUME NEW t \in Shifts, shift'[t] = "closed" PROVE expected'[t] = drawer'[t] \ late'
        <4>1. CASE t = s
          <5>1. drawer[s] \cap late = {} BY <2>0, <2>1, <2>8 DEF CashInv
          <5> QED BY <2>1, <2>9, <4>1, <5>1
        <4>2. CASE t # s BY <2>0, <2>1, <2>3, <2>9, <3>4, <4>2 DEF CashInv, ClosedShiftExpectsLateCash
        <4> QED BY <4>1, <4>2
      <3> QED BY <2>0, <2>1, <2>7, <2>9, <3>1, <3>2, <3>3, <3>4 DEF CashInv, ClosedShiftExpectsLateCash
    <2>11. CashReachesDrawer' BY <1>2, <1>3, <2>1, <2>7, CashArrives
    <2> QED BY <2>7, <2>10, <2>11 DEF PushInv
  <1> QED BY <1>6, <1>7

\* sale.void: the cash comes out of a drawer whose shift was read open.
LEMMA VoidingKeeps == ASSUME PushInv, NEW d \in Deliveries, SaleVoid(d) PROVE PushInv'
  <1>1. PICK o : o = job[d].op OBVIOUS
  <1>2. job[d].pc = "run" /\ Op[o].type = "sale.void" BY <1>1 DEF SaleVoid, Running
  <1>3. o \in Ops /\ log[o] = Nothing BY <1>1, <1>2, RunningOp
  <1>4. job[d].seen \subseteq Shifts BY <1>1, <1>2 DEF PushInv, JobsSound, Sound
  <1>5. "conflict" \in Answers \ {"applied"} /\ "retry" \in Answers \ {"applied"} BY DEF Answers, Final
  <1>6. CASE Refuse(d, "conflict") \/ Refuse(d, "retry") BY <1>2, <1>5, <1>6, RefuseKeeps
  <1>7. CASE ~(Refuse(d, "conflict") \/ Refuse(d, "retry"))
    <2> DEFINE s == Op[SaleOf(o)].shift
    <2>1. /\ s \in job[d].seen /\ Apply(d) /\ UNCHANGED <<rows, shift>>
          /\ voided' = voided \cup {Op[o].sale} /\ PostUnlocked(o, s)
      BY <1>1, <1>7 DEF SaleVoid
    <2>2. s \in Shifts BY <1>4, <2>1
    <2> HIDE DEF s
    <2>3. Done(o)' BY <1>2, <2>1 DEF Done
    <2>4. \A p \in Ops : Done(p) => Done(p)' BY <2>1, DoneStays
    <2>5. ASSUME NEW p \in Ops, Op[p].row = Op[o].row, runs[p] = 1 PROVE FALSE
      <3>1. p = o BY <1>2, <1>3, <2>5, RowAssumption
      <3> QED BY <1>3, <2>5, <3>1, NothingAssumption DEF PushInv, EffectsStored, Final
    <2>6. shift' \in [Shifts -> {"none", "open", "closed"}] BY <2>1 DEF PushInv, PushTypes
    <2>7. /\ PushTypes' /\ DepsMet' /\ EffectsStored' /\ JobsSound'
          /\ runs' = [runs EXCEPT ![o] = 1]
          /\ log'[o] = "applied" /\ \A p \in Ops : log[p] = "applied" => log'[p] = "applied"
      BY <1>1, <1>2, <2>1, <2>3, <2>4, <2>5, <2>6, ApplyKeeps
    <2>8. CashInv' /\ \A t \in Shifts : drawer[t] \subseteq drawer'[t]
      BY <1>3, <2>1, <2>2, <2>7, PostUnlockedKeeps
    <2>9. CashReachesDrawer' BY <1>2, <1>3, <2>7, <2>8, CashArrives
    <2> QED BY <2>7, <2>8, <2>9 DEF PushInv
  <1> QED BY <1>6, <1>7

-----------------------------------------------------------------------------
(* The theorems.                                                             *)

\* Nothing has been sent, stored or told.
LEMMA PushInvInit == Init => PushInv
  <1> SUFFICES ASSUME Init PROVE PushInv OBVIOUS
  <1>1. /\ log = [o \in Ops |-> Nothing] /\ told = log /\ rows = {} /\ voided = {}
        /\ shift = [s \in Shifts |-> "none"] /\ drawer = [s \in Shifts |-> {}] /\ expected = drawer /\ late = {}
        /\ job = [d \in Deliveries |-> Idle] /\ made \in Sessions /\ runs = [o \in Ops |-> 0]
    BY DEF Init
  <1>2. made \subseteq Ops BY <1>1, SessionAssumption
  <1>3. PushTypes BY <1>1, <1>2 DEF PushTypes
  <1>4. DepsMet BY <1>1 DEF DepsMet
  <1>5. EffectsStored BY <1>1, NothingAssumption DEF EffectsStored, Final
  <1>6. JobsSound
    <2>1. Shape(Idle) /\ Idle.pc = "idle" /\ Idle.left = {} /\ DOMAIN Idle.got = {} BY DEF Shape, Idle
    <2>2. Sound(Idle) BY <2>1 DEF Sound
    <2> QED BY <1>1, <2>1, <2>2 DEF JobsSound
  <1>7. CashInv BY <1>1 DEF CashInv, ClosedShiftExpectsLateCash
  <1>8. CashReachesDrawer BY <1>1 DEF CashReachesDrawer
  <1> QED BY <1>3, <1>4, <1>5, <1>6, <1>7, <1>8 DEF PushInv

\* Every step keeps the invariant.
LEMMA PushInvInductive == PushInv /\ [Next]_vars => PushInv'
  <1> SUFFICES ASSUME PushInv, [Next]_vars PROVE PushInv' OBVIOUS
  <1>1. CASE UNCHANGED vars
    <2>1. UNCHANGED <<log, business, told, runs>> /\ job' = job /\ made' = made /\ rows' = rows
      BY <1>1 DEF vars, business
    <2>2. \A d \in Deliveries : Sound(job[d])' <=> Sound(job[d]) BY <2>1 DEF Sound, Shape, Justified, Barred
    <2>3. JobsSound' BY <2>1, <2>2 DEF PushInv, JobsSound
    <2>4. told' \in [Ops -> Final \cup {Nothing}] BY <2>1 DEF PushInv, PushTypes
    <2> QED BY <2>1, <2>3, <2>4, QuietStep
  <1>2. ASSUME NEW d \in Deliveries, SendAll(d) \/ SendPart(d) \/ SendLapsed(d) \/ Answer(d) \/ Lose(d) PROVE PushInv'
    BY <1>2, DeviceKeeps
  <1>3. ASSUME NEW d \in Deliveries, PickOp(d) PROVE PushInv' BY <1>3, PickKeeps
  <1>4. ASSUME NEW d \in Deliveries, DatabaseError(d) PROVE PushInv' BY <1>4, ErrorKeeps
  <1>5. ASSUME NEW d \in Deliveries, Gate(d) PROVE PushInv' BY <1>5, GateKeeps
  <1>6. ASSUME NEW d \in Deliveries,
               CustomerCreate(d) \/ SaleCreate(d) \/ CustomerPayment(d) \/ ExpenseCreate(d) \/ ReturnCreate(d)
        PROVE  PushInv'
    BY <1>6, CreationsKeep
  <1>7. ASSUME NEW d \in Deliveries, ShiftOpen(d) PROVE PushInv' BY <1>7, OpeningKeeps
  <1>8. ASSUME NEW d \in Deliveries, ShiftClose(d) PROVE PushInv' BY <1>8, ClosingKeeps
  <1>9. ASSUME NEW d \in Deliveries, SaleVoid(d) PROVE PushInv' BY <1>9, VoidingKeeps
  <1> QED BY <1>1, <1>2, <1>3, <1>4, <1>5, <1>6, <1>7, <1>8, <1>9 DEF Next, RunOp, Settled

\* The invariant holds always.
LEMMA PushAlways == Spec => []PushInv
  BY PushInvInit, PushInvInductive, PTL DEF Spec

\* An applied sale or payment that depends on the opening of its shift is among
\* that shift's transactions, whatever the deliveries (_dependency_error).
THEOREM CashAlwaysReachesDrawer == Spec => []CashReachesDrawer
  <1>1. PushInv => CashReachesDrawer BY DEF PushInv
  <1> QED BY <1>1, PushAlways, PTL

\* A closed shift expects the cash of all its transactions but those posted to a
\* shift read open without a lock (_refresh_closed_shift_totals).
THEOREM ClosedShiftsAlwaysExpectLateCash == Spec => []ClosedShiftExpectsLateCash
  <1>1. PushInv => ClosedShiftExpectsLateCash BY DEF PushInv, CashInv
  <1> QED BY <1>1, PushAlways, PTL

-----------------------------------------------------------------------------
(* The push implements OnceOnly.                                             *)

\* The decision, without the cases that never arise.
Verdict(o) == IF log[o] # Nothing THEN log[o] ELSE IF Barred(o) THEN "rejected" ELSE Nothing

\* Effect and stored result agree: nothing is torn.
LEMMA DecidedIsVerdict == PushInv => \A o \in Ops : Decided(o) = Verdict(o)
  <1> SUFFICES ASSUME PushInv, NEW o \in Ops PROVE Decided(o) = Verdict(o) OBVIOUS
  <1>1. PushTypes /\ EffectsStored BY DEF PushInv
  <1>2. runs[o] \in {0, 1} /\ log[o] \in Final \cup {Nothing} BY <1>1 DEF PushTypes
  <1>3. runs[o] = 1 => log[o] = "applied" BY <1>1 DEF EffectsStored
  <1>4. CASE log[o] = Nothing
    <2>1. runs[o] = 0 BY <1>2, <1>3, <1>4, NothingAssumption DEF Final
    <2>2. Decided(o) = IF \E a \in made : log[a] \in {"rejected", "conflict"} /\ a \in Ancestors(o) THEN "rejected" ELSE Nothing
      BY <1>4, <2>1, NothingAssumption, Zenon DEF Decided, Final
    <2> QED BY <1>4, <2>2 DEF Verdict, Barred
  <1>5. CASE log[o] = "applied"
    <2> DEFINE took == {p \in made : runs[p] > 0 /\ SameAs(o, p)}
    <2>1. PICK p \in made : runs[p] = 1 /\ Op[o].row = Op[p].row BY <1>1, <1>5 DEF EffectsStored
    <2>2. p \in Ops BY <1>1 DEF PushTypes
    <2>3. p \in took BY <2>1, <2>2, SameRow
    <2>4. ASSUME NEW q \in took PROVE q = p
      <3>1. q \in Ops /\ runs[q] \in {0, 1} /\ runs[q] > 0 /\ Op[q].row = Op[p].row
        BY <1>1, <2>1 DEF PushTypes, SameAs
      <3>2. runs[q] = 1 BY <3>1
      <3> QED BY <1>1, <2>1, <2>2, <3>1, <3>2 DEF EffectsStored
    <2>5. took = {p} BY <2>3, <2>4
    <2>6. Cardinality(took) = 1 BY <2>5, FS_Singleton
    <2> HIDE DEF took
    <2>7. Cardinality({q \in made : runs[q] > 0 /\ SameAs(o, q)}) = 1 BY <2>6 DEF took
    <2>8. runs[o] < 2 /\ log[o] # Nothing BY <1>2, <1>5, NothingAssumption DEF Final
    <2> QED BY <1>5, <2>7, <2>8, Zenon DEF Decided, Verdict
  <1>6. CASE log[o] \in {"rejected", "conflict"}
    <2>1. runs[o] = 0 /\ log[o] # Nothing /\ log[o] # "applied" BY <1>2, <1>3, <1>6, NothingAssumption DEF Final
    <2> QED BY <1>6, <2>1 DEF Decided, Verdict
  <1> QED BY <1>2, <1>4, <1>5, <1>6 DEF Final

\* The verdicts, as OnceOnly sees them.
Verdicts == [o \in Ops |-> Verdict(o)]

\* That, and what is known of ancestors, in the next state.
LEMMA NextVerdict ==
  PushInv' => /\ ([o \in Ops |-> Decided(o)] = Verdicts)'
              /\ (\A o \in Ops : log[o] # Nothing => \A a \in Ancestors(o) : log[a] = "applied")'
  <1>1. PushInv => DepsMet BY DEF PushInv
  <1>2. PushInv => (\A o \in Ops : log[o] # Nothing => \A a \in Ancestors(o) : log[a] = "applied")
    BY <1>1, AncestorsApplied
  <1>3. PushInv => [o \in Ops |-> Decided(o)] = Verdicts BY DecidedIsVerdict DEF Verdicts
  <1> QED BY <1>2, <1>3, PTL

\* A handler ends with Finish.
LEMMA HandlerFinishes ==
  ASSUME PushInv, NEW d \in Deliveries, RunOp(d), ~PickOp(d)
  PROVE  job[d].pc = "run" /\ \E answer \in Answers, effect \in BOOLEAN : Finish(d, answer, effect)
  <1>1. {"applied", "rejected", "conflict", "retry"} = Answers BY DEF Answers, Final
  <1>2. CASE Gate(d) BY <1>1, <1>2 DEF Gate, Refuse
  <1>3. CASE CustomerCreate(d) BY <1>1, <1>3 DEF CustomerCreate, Running, Refuse, Apply
  <1>4. CASE ShiftOpen(d) BY <1>1, <1>4 DEF ShiftOpen, Running, Refuse, Apply
  <1>5. CASE ShiftClose(d)
    <2>1. job[d].pc = "run" /\ Op[job[d].op].type = "shift.close" BY <1>5 DEF ShiftClose, Running
    <2>2. Op[job[d].op].shift \in Shifts BY <2>1, RunningOp, OpFacts
    <2>3. shift[Op[job[d].op].shift] \in {"none", "open", "closed"} BY <2>2 DEF PushInv, PushTypes
    <2> QED BY <1>1, <1>5, <2>1, <2>3 DEF ShiftClose, Refuse, Apply
  <1>6. CASE SaleCreate(d) BY <1>1, <1>6 DEF SaleCreate, Running, Refuse, Apply
  <1>7. CASE SaleVoid(d) BY <1>1, <1>7 DEF SaleVoid, Running, Refuse, Apply
  <1>8. CASE CustomerPayment(d) BY <1>1, <1>8 DEF CustomerPayment, Running, Refuse, Apply
  <1>9. CASE ExpenseCreate(d) BY <1>1, <1>9 DEF ExpenseCreate, Running, Refuse, Apply
  <1>10. CASE ReturnCreate(d) BY <1>1, <1>10 DEF ReturnCreate, Running, Refuse, Apply
  <1> QED BY <1>2, <1>3, <1>4, <1>5, <1>6, <1>7, <1>8, <1>9, <1>10 DEF RunOp

\* What is stored stays stored; only an answer tells the device anything.
LEMMA LogStays ==
  ASSUME PushInv, [Next]_vars
  PROVE  /\ made' = made /\ \A o \in Ops : log[o] # Nothing => log'[o] = log[o]
         /\ UNCHANGED told \/ \E d \in Deliveries : Answer(d)
  <1>1. CASE UNCHANGED vars \/ Settled BY <1>1 DEF vars, Settled
  <1>2. ASSUME NEW d \in Deliveries, SendAll(d) \/ SendPart(d) \/ SendLapsed(d) \/ Lose(d) \/ DatabaseError(d) \/ PickOp(d)
        PROVE  UNCHANGED <<log, made, told>>
    BY <1>2 DEF SendAll, SendPart, SendLapsed, Send, Lose, DatabaseError, PickOp, business
  <1>3. ASSUME NEW d \in Deliveries, Answer(d) PROVE UNCHANGED <<log, made>> BY <1>3 DEF Answer, business
  <1>4. ASSUME NEW d \in Deliveries, RunOp(d), ~PickOp(d)
        PROVE  /\ UNCHANGED <<made, told>> /\ \A o \in Ops : log[o] # Nothing => log'[o] = log[o]
    <2>1. PICK answer \in Answers, effect \in BOOLEAN : Finish(d, answer, effect) BY <1>4, HandlerFinishes
    <2>2. log[job[d].op] = Nothing BY <1>4, HandlerFinishes, RunningOp
    <2>3. /\ UNCHANGED <<made, told>>
          /\ log' = log \/ log' = [log EXCEPT ![job[d].op] = answer]
      BY <2>1 DEF Finish
    <2> QED BY <2>2, <2>3 DEF PushInv, PushTypes
  <1>5. CASE Next BY <1>1, <1>2, <1>3, <1>4, <1>5 DEF Next
  <1> QED BY <1>1, <1>5

\* A step of the push decides, answers, or does nothing that OnceOnly sees.
LEMMA PushStepOnceOnly == PushInv /\ PushInv' /\ [Next]_vars => [Once!Next]_Once!vars
  <1> SUFFICES ASSUME PushInv, PushInv', [Next]_vars PROVE [Once!Next]_Once!vars OBVIOUS
  <1>1. /\ made' = made /\ \A o \in Ops : log[o] # Nothing => log'[o] = log[o]
        /\ UNCHANGED told \/ \E d \in Deliveries : Answer(d)
    BY LogStays
  <1> DEFINE decided == [o \in Ops |-> Decided(o)]
  <1>2. decided = Verdicts BY DecidedIsVerdict DEF Verdicts
  <1>3. /\ decided' = Verdicts'
        /\ \A o \in Ops : log'[o] # Nothing => \A a \in Ancestors(o) : log'[a] = "applied"
    BY NextVerdict
  <1>4. /\ log \in [Ops -> Final \cup {Nothing}] /\ log' \in [Ops -> Final \cup {Nothing}]
        /\ told' \in [Ops -> Final \cup {Nothing}] /\ made \subseteq Ops
    BY DEF PushInv, PushTypes
  <1>5. ASSUME UNCHANGED told PROVE Once!Decide
    <2>1. Verdicts' \in [Ops -> Final \cup {Nothing}] BY <1>4 DEF Verdicts, Verdict, Final
    <2>2. ASSUME NEW o \in Ops, Verdicts[o] # Nothing PROVE Verdicts'[o] = Verdicts[o]
      <3>1. CASE log[o] # Nothing
        <4>1. log'[o] = log[o] BY <1>1, <3>1
        <4> QED BY <3>1, <4>1 DEF Verdicts, Verdict
      <3>2. CASE log[o] = Nothing
        <4>1. PICK a \in made : log[a] \in {"rejected", "conflict"} /\ a \in Ancestors(o)
          BY <2>2, <3>2 DEF Verdicts, Verdict, Barred
        <4>2. log'[a] = log[a] /\ log'[a] # "applied" BY <1>1, <1>4, <4>1, NothingAssumption DEF Final
        <4>3. a \in made' /\ log'[a] \in {"rejected", "conflict"} BY <1>1, <4>1, <4>2
        <4>4. log'[o] = Nothing BY <1>3, <4>1, <4>2
        <4> QED BY <3>2, <4>1, <4>3, <4>4 DEF Verdicts, Verdict, Barred
      <3> QED BY <3>1, <3>2
    <2> HIDE DEF decided
    <2>3. decided' \in [Ops -> Final \cup {Nothing}] BY <1>3, <2>1
    <2>4. \A o \in Ops : decided[o] # Nothing => decided'[o] = decided[o] BY <1>2, <1>3, <2>2
    <2> QED BY <1>5, <2>3, <2>4 DEF decided, Once!Decide
  <1>6. ASSUME NEW d \in Deliveries, Answer(d) PROVE Once!Answer
    <2>1. /\ UNCHANGED <<log, made, runs>>
          /\ told' = [o \in Ops |-> IF o \in DOMAIN job[d].got /\ job[d].got[o] \in Final THEN job[d].got[o] ELSE told[o]]
      BY <1>6 DEF Answer, business
    <2>2. ASSUME NEW o \in Ops PROVE Decided(o)' = Decided(o) BY <2>1 DEF Decided
    <2>3. ASSUME NEW o \in Ops, told'[o] # told[o] PROVE told'[o] = Decided(o)
      <3>1. PICK answer : answer = job[d].got[o] OBVIOUS
      <3>2. o \in DOMAIN job[d].got /\ answer \in Final /\ told'[o] = answer BY <2>1, <2>3, <3>1
      <3>3. Justified(o, answer) BY <3>1, <3>2 DEF PushInv, JobsSound, Sound
      <3>4. Verdict(o) = answer
        <4>1. CASE log[o] = answer BY <3>2, <4>1, NothingAssumption DEF Verdict
        <4>2. CASE log[o] # answer
          <5>1. answer = "rejected" /\ Barred(o) BY <3>2, <3>3, <4>2 DEF Justified, Final
          <5>2. PICK a \in made : log[a] \in {"rejected", "conflict"} /\ a \in Ancestors(o) BY <5>1 DEF Barred
          <5>3. log[o] = Nothing BY <1>3, <2>1, <5>2
          <5> QED BY <5>1, <5>3 DEF Verdict
        <4> QED BY <4>1, <4>2
      <3> QED BY <3>2, <3>4, DecidedIsVerdict
    <2>4. [o \in Ops |-> Decided(o)]' = [o \in Ops |-> Decided(o)] BY <2>2
    <2> QED BY <1>4, <2>3, <2>4 DEF Once!Answer
  <1> QED BY <1>1, <1>5, <1>6 DEF Once!Next

\* However deliveries are repeated, split, lost, crashed and run side by side,
\* every operation is decided once and each final answer the device gets is that
\* decision (_run_op_once, _store, process_push).
THEOREM PushImplementsOnceOnly == Spec => ImplementsOnceOnly
  <1>1. Init => Once!Init
    <2> SUFFICES ASSUME Init PROVE Once!Init OBVIOUS
    <2>1. log = [o \in Ops |-> Nothing] /\ told = log BY DEF Init
    <2>2. ASSUME NEW o \in Ops PROVE Decided(o) = Nothing
      <3>1. PushInv BY PushInvInit
      <3>2. made \subseteq Ops BY <3>1 DEF PushInv, PushTypes
      <3>3. ~Barred(o) BY <2>1, <3>2, NothingAssumption DEF Barred, Final
      <3> QED BY <2>1, <3>1, <3>3, DecidedIsVerdict DEF Verdict
    <2> QED BY <2>1, <2>2 DEF Once!Init
  <1> QED BY <1>1, PushStepOnceOnly, PushAlways, PTL DEF Spec, ImplementsOnceOnly, Once!Spec
=============================================================================
