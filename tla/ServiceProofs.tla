--------------------------- MODULE ServiceProofs ---------------------------
(* Proofs about what a guest is served with: the menu, the dining room and  *)
(* the kitchen, for any number of tables, tabs, lines, kitchen orders and   *)
(* requests at work; the money of a sale, for any lines, schemes and        *)
(* tenders; and a request that is sent again, for any number of deliveries. *)

EXTENDS Restaurant, Pricing, Idempotency, Sums

-----------------------------------------------------------------------------
(* The menu.                                                                *)

MenuInv == MenuTypeOK /\ \A g \in Groups : BoundsOK(group[g])

\* A finite set has subsets of every size up to its own.
LEMMA SubsetOfSize ==
  ASSUME NEW S, IsFiniteSet(S)
  PROVE  \A n \in Nat : n <= Cardinality(S) => \E T \in SUBSET S : Cardinality(T) = n
  <1> DEFINE P == {n \in Nat : n <= Cardinality(S) => \E T \in SUBSET S : Cardinality(T) = n}
  <1>1. 0 \in P
    BY FS_EmptySet
  <1>2. ASSUME NEW n \in Nat, n \in P PROVE n + 1 \in P
    <2> SUFFICES ASSUME n + 1 <= Cardinality(S) PROVE \E T \in SUBSET S : Cardinality(T) = n + 1
      OBVIOUS
    <2>1. Cardinality(S) \in Nat BY FS_CardinalityType
    <2>2. PICK T \in SUBSET S : Cardinality(T) = n BY <1>2, <2>1
    <2>3. T # S BY <2>1, <2>2
    <2>4. PICK x \in S : x \notin T BY <2>3
    <2>5. IsFiniteSet(T) BY FS_Subset
    <2>6. Cardinality(T \cup {x}) = n + 1 BY <2>2, <2>4, <2>5, FS_AddElement
    <2> QED BY <2>4, <2>6
  <1> HIDE DEF P
  <1>3. \A n \in Nat : n \in P BY <1>1, <1>2, InductionOnNat
  <1> QED BY <1>3 DEF P

\* The rows of the groups stay within bounds that fit each other.
LEMMA MenuStep == ASSUME MenuInv, [MenuNext]_menuVars PROVE MenuInv'
  <1> USE MenuAssumption DEF MenuInv, MenuTypeOK, BoundsOK, GroupRow
  <1>1. CASE UNCHANGED menuVars BY <1>1 DEF menuVars
  <1>2. ASSUME NEW g \in Groups, NEW r \in GroupRow, CreateModifierGroup(g, r) \/ UpdateModifierGroup(g, r) PROVE MenuInv'
    BY <1>2 DEF CreateModifierGroup, UpdateModifierGroup
  <1>3. ASSUME NEW g \in Groups, DeleteModifierGroup(g) PROVE MenuInv'
    <2>1. group' \in [Groups -> GroupRow] /\ \A h \in Groups : BoundsOK(group'[h]) BY <1>3 DEF DeleteModifierGroup
    <2>2. modifier' \in [Modifiers -> ModifierStates] BY <1>3 DEF DeleteModifierGroup, ModifierStates
    <2> QED BY <1>3, <2>1, <2>2 DEF DeleteModifierGroup
  <1>4. ASSUME NEW m \in Modifiers, CreateModifier(m) \/ UpdateModifier(m) \/ DeleteModifier(m) PROVE MenuInv'
    BY <1>4 DEF CreateModifier, UpdateModifier, DeleteModifier, ModifierStates
  <1>5. ASSUME NEW gs \in SUBSET Groups, ReplaceProductModifierGroups(gs) PROVE MenuInv'
    BY <1>5 DEF ReplaceProductModifierGroups
  <1> QED BY <1>1, <1>2, <1>3, <1>4, <1>5 DEF MenuNext

\* From bounds that fit each other a selection for the whole dish can be made,
\* group by group.
LEMMA MenuSells == ASSUME MenuInv PROVE DishOrderable
  <1> SUFFICES ASSUME \A g \in LinkedGroups : Satisfiable(g), Detached = {}
               PROVE  \E selected \in SUBSET Modifiers : MeetsRules(selected)
    BY DEF DishOrderable, ValidateLineModifiers
  <1> USE MenuAssumption DEF MenuInv
  <1>1. \A g \in LinkedGroups : g \in Groups /\ group[g] \in GroupRow /\ EffectiveMinSelections(g) \in Nat
    BY DEF LinkedGroups, MenuTypeOK, EffectiveMinSelections, GroupRow
  <1> DEFINE Enough(g, T) == T \in SUBSET ActiveOf(g) /\ Cardinality(T) = EffectiveMinSelections(g)
             C == [g \in LinkedGroups |-> CHOOSE T \in SUBSET Modifiers : Enough(g, T)]
  <1>2. \A g \in LinkedGroups : C[g] \in SUBSET Modifiers /\ Enough(g, C[g])
    <2> SUFFICES ASSUME NEW g \in LinkedGroups PROVE \E T \in SUBSET Modifiers : Enough(g, T)
      OBVIOUS
    <2>1. ActiveOf(g) \in SUBSET Modifiers /\ IsFiniteSet(ActiveOf(g)) BY FS_Subset DEF ActiveOf
    <2>2. Cardinality(ActiveOf(g)) >= EffectiveMinSelections(g) BY DEF Satisfiable
    <2>3. Cardinality(ActiveOf(g)) \in Nat BY <2>1, FS_CardinalityType
    <2>4. PICK T \in SUBSET ActiveOf(g) : Cardinality(T) = EffectiveMinSelections(g)
      BY <1>1, <2>1, <2>2, <2>3, SubsetOfSize
    <2> QED BY <2>1, <2>4
  <1> HIDE DEF C
  <1> DEFINE selected == UNION {C[g] : g \in LinkedGroups}
  <1>3. selected \in SUBSET Modifiers BY <1>2
  <1>4. selected \subseteq UNION {ActiveOf(g) : g \in LinkedGroups} BY <1>2
  <1>5. ASSUME NEW g \in LinkedGroups PROVE CountAllowed(g, Cardinality(Chosen(g, selected)))
    <2>1. \A h \in LinkedGroups : \A m \in C[h] : GroupOf[m] = h BY <1>2 DEF ActiveOf
    <2>2. Chosen(g, selected) = C[g] BY <2>1 DEF Chosen
    <2>3. Cardinality(Chosen(g, selected)) = EffectiveMinSelections(g) BY <1>2, <2>2
    <2>4. BoundsOK(group[g]) /\ Satisfiable(g) BY <1>1
    <2>5. group[g].max # 0 => EffectiveMinSelections(g) <= group[g].max
      BY <1>1, <2>4 DEF BoundsOK, EffectiveMinSelections, GroupRow
    <2> QED BY <1>1, <2>3, <2>4, <2>5 DEF CountAllowed, Satisfiable
  <1> HIDE DEF selected
  <1> QED BY <1>3, <1>4, <1>5 DEF MeetsRules

\* At the start there is no group.
LEMMA MenuStart == ASSUME MenuInit PROVE MenuInv
  BY MenuAssumption DEF MenuInit, MenuInv, MenuTypeOK, BoundsOK, NoGroup, GroupRow, ModifierStates

\* After any sequence of edits of the menu, a dish whose groups can each be met
\* can be ordered (update_modifier_group, validate_line_modifiers).
THEOREM DishAlwaysOrderable == MenuSpec => []DishOrderable
  BY MenuStart, MenuStep, MenuSells, PTL DEF MenuSpec

-----------------------------------------------------------------------------
(* The hall and the kitchen. What a request has read stays true until it    *)
(* commits only as far as its locks reach: JobOK says how far that is, and  *)
(* Clash which two requests cannot be at work at once.                      *)

Live(k, l) == kot[k].line[l] \notin {"none", "cancelled"}
Dead(status) == status \in {"none", "cancelled"}

HoldsTab(j) == j.pc \in {"fire", "bill", "complete", "cancel", "free"}
Opens(j) == j.pc \in {"open", "count"}

Clash(i, j) ==
  \/ HoldsTab(i) /\ HoldsTab(j) /\ i.tab = j.tab
  \/ Opens(i) /\ Opens(j) /\ i.tab = j.tab
  \/ i.pc = "header" /\ j.pc = "header" /\ i.kot = j.kot
  \/ i.pc = "line" /\ j.pc = "line" /\ i.kot = j.kot /\ i.set = j.set

OpenJob(j) ==
  Opens(j) => /\ j.tab \in Tabs /\ tab[j.tab].status = "none"
              /\ j.table \in Tables /\ table[j.table] # "none" /\ j.seen \in TableStatuses
              /\ j.pc = "count" => j.counted = {}
HandJob(j) == j.pc = "hand" => j.table \in Tables /\ table[j.table] # "none" /\ j.to \in TableStatuses
TabJob(j) ==
  /\ HoldsTab(j) => j.tab \in Tabs
  /\ j.pc \in {"fire", "bill", "complete"} => tab[j.tab].status = "held"
  /\ j.pc \in {"bill", "complete"} => j.seen \in TableStatuses
  /\ j.pc \in {"cancel", "free"} => tab[j.tab].status \in {"held", "cancelled"} /\ j.seen \in TableStatuses \cup {"none"}
  /\ j.pc \in {"bill", "complete", "cancel", "free"} => j.table = tab[j.tab].table
  /\ j.pc = "free" \/ (j.pc = "cancel" /\ j.seen # "none") => j.counted = {}
  /\ j.pc \in {"cancel", "free"} => \A k \in j.set : k \in Kots /\ kot[k].tab = j.tab
FireJob(j) ==
  j.pc = "fire" => j.set \subseteq Lines /\ j.set # {} /\ \A l \in j.set : lineOf[l] = j.tab /\ \A k \in Kots : ~Live(k, l)
HeaderJob(j) ==
  j.pc = "header" => /\ j.kot \in Kots /\ kot[j.kot].tab \in Tabs
                     /\ j.lines = kot[j.kot].line /\ j.seen = kot[j.kot].status /\ j.to \in KotTransitions[j.seen] \cup {j.seen}
LineJob(j) ==
  j.pc = "line" => /\ j.kot \in Kots /\ kot[j.kot].tab \in Tabs /\ j.to \in KotStatuses /\ j.seen \in KotStatuses
                   /\ j.lines \in [Lines -> KotStatuses \cup {"none"}]
                   /\ \E l \in Lines : j.set = {l} /\ j.lines[l] = kot[j.kot].line[l] /\ (Dead(j.lines[l]) => Dead(j.to))
                   /\ \A l \in Lines : Dead(j.lines[l]) => Dead(kot[j.kot].line[l])
JobOK(j) == OpenJob(j) /\ HandJob(j) /\ TabJob(j) /\ FireJob(j) /\ HeaderJob(j) /\ LineJob(j)

Jobs == \A w \in Workers : JobOK(job[w]) /\ \A v \in Workers \ {w} : ~Clash(job[v], job[w])

\* A tab keeps the table it was opened at, which was there.
TabsKnown == \A s \in Tabs : tab[s].status # "none" => tab[s].table \in Tables /\ table[tab[s].table] # "none"
KotsKnown ==
  \A k \in Kots : /\ kot[k] # NoKot => kot[k].tab \in Tabs
                  /\ \A l \in Lines : Live(k, l) => kot[k].tab \in Tabs /\ lineOf[l] = kot[k].tab

\* The lines of a cancelled order are cancelled, unless its tab was.
CancelledKots ==
  \A k \in Kots : kot[k].status = "cancelled" /\ kot[k].tab \in Tabs /\ tab[kot[k].tab].status # "cancelled" => \A l \in Lines : ~Live(k, l)

LiveOnce == \A l \in Lines : \A k, m \in Kots : Live(k, l) /\ Live(m, l) => k = m
Seated ==
  \A t \in Tables \ touched :
    /\ \A s, r \in HeldAt(t) : s = r
    /\ HeldAt(t) # {} => table[t] \in {"occupied", "billing"}
HeaderIs(k) ==
  LET active == {l \in Lines : Live(k, l)} IN
  IF kot[k].status = "cancelled" THEN active = {}
  ELSE /\ \A l \in active : Priority[kot[k].line[l]] >= Priority[kot[k].status]
       /\ \E l \in active : kot[k].line[l] = kot[k].status
Headers == \A k \in Kots \ strayed : kot[k].tab \in Tabs /\ tab[kot[k].tab].status # "cancelled" => HeaderIs(k)

HallType ==
  /\ table \in [Tables -> TableStatuses \cup {"none", "deleted"}]
  /\ tab \in [Tabs -> TabRow]
  /\ lineOf \in [Lines -> Tabs \cup {None}]
  /\ kot \in [Kots -> KotRow]
  /\ job \in [Workers -> Job]
  /\ touched \subseteq Tables
  /\ strayed \subseteq Kots

Rooms == TabsKnown /\ Seated
Kitchen == KotsKnown /\ CancelledKots /\ LiveOnce /\ Headers
HallInv == HallType /\ Jobs /\ Rooms /\ Kitchen

-----------------------------------------------------------------------------
(* What the records of a request are.                                       *)

\* An idle request has read nothing, and keeps nobody out.
LEMMA IdleJob == Idle \in Job /\ Idle.pc = "idle" /\ JobOK(Idle) /\ \A j : ~Clash(j, Idle) /\ ~Clash(Idle, j)
  <1>1. Idle \in Job BY DEF Idle, Job, JobSteps
  <1>2. Idle.pc = "idle" BY DEF Idle
  <1>3. JobOK(Idle)
    BY <1>2 DEF JobOK, OpenJob, HandJob, TabJob, FireJob, HeaderJob, LineJob, HoldsTab, Opens
  <1> QED BY <1>1, <1>2, <1>3 DEF Clash, HoldsTab, Opens

\* A request that goes on reading disturbs nobody.
LEMMA ReadingStep ==
  ASSUME HallInv, NEW w \in Workers, NEW j \in Job, Do(w, j), JobOK(j),
         \A v \in Workers \ {w} : ~Clash(job[v], j) /\ ~Clash(j, job[v]),
         UNCHANGED <<table, tab, lineOf, kot, touched, strayed>>
  PROVE  HallInv'
  <1>1. job' \in [Workers -> Job] /\ job'[w] = j /\ \A v \in Workers \ {w} : job'[v] = job[v]
    BY DEF Do, HallInv, HallType
  <1>2. HallType' BY <1>1 DEF HallInv, HallType
  <1>3. \A v \in Workers : JobOK(job'[v])
    BY <1>1 DEF HallInv, Jobs
  <1>4. \A v \in Workers : JobOK(job[v])' <=> JobOK(job'[v])
    BY DEF JobOK, OpenJob, HandJob, TabJob, FireJob, HeaderJob, LineJob, Live
  <1>5. \A v, u \in Workers : v # u => ~Clash(job'[u], job'[v])
    BY <1>1 DEF HallInv, Jobs
  <1>6. Jobs'
    BY <1>3, <1>4, <1>5 DEF Jobs, Clash
  <1>7. Rooms' BY DEF HallInv, Rooms, TabsKnown, Seated, HeldAt
  <1>8. Kitchen' BY DEF HallInv, Kitchen, KotsKnown, CancelledKots, LiveOnce, Headers, HeaderIs, Live
  <1> QED BY <1>2, <1>6, <1>7, <1>8 DEF HallInv

-----------------------------------------------------------------------------
(* The readings.                                                            *)

\* What the locks that TabAnswers, KotLocked and LineLocked look for exclude.
LEMMA LocksExclude ==
  ASSUME NEW w \in Workers, NEW j
  PROVE  /\ HoldsTab(j) /\ ~TabLocked(j.tab) => \A v \in Workers : ~Clash(job[v], j) /\ ~Clash(j, job[v])
         /\ j.pc = "header" /\ ~KotLocked(j.kot) => \A v \in Workers : ~Clash(job[v], j) /\ ~Clash(j, job[v])
         /\ \A l : j.pc = "line" /\ j.set = {l} /\ ~LineLocked(j.kot, l) => \A v \in Workers : ~Clash(job[v], j) /\ ~Clash(j, job[v])
  BY DEF Clash, HoldsTab, Opens, TabLocked, KotLocked, LineLocked

\* update_dining_table_status has read a table that is there.
LEMMA HandRead ==
  ASSUME HallInv, NEW w \in Workers, NEW t \in Tables, NEW to \in TableStatuses, NEW force \in BOOLEAN, ReadTableByHand(w, t, to, force)
  PROVE  HallInv'
  <1> DEFINE j == [Idle EXCEPT !.pc = "hand", !.table = t, !.seen = table[t], !.to = to]
  <1>1. Do(w, j) /\ Here(t) /\ UNCHANGED <<table, tab, lineOf, kot, touched, strayed>> BY DEF ReadTableByHand
  <1>2. j \in Job /\ j.pc = "hand" /\ j.table = t /\ j.to = to BY <1>1, IdleJob DEF Here, Job, JobSteps, Idle, TableStatuses
  <1> HIDE DEF j
  <1>3. JobOK(j)
    BY <1>1, <1>2 DEF Here, TableStatuses, JobOK, OpenJob, HandJob, TabJob, FireJob, HeaderJob, LineJob, HoldsTab, Opens
  <1>4. \A v \in Workers \ {w} : ~Clash(job[v], j) /\ ~Clash(j, job[v]) BY <1>2 DEF Clash, HoldsTab, Opens
  <1> QED BY <1>1, <1>2, <1>3, <1>4, ReadingStep

\* open_tab has read the table.
LEMMA OpenReadStep ==
  ASSUME HallInv, NEW w \in Workers, NEW s \in Tabs, NEW t \in Tables, OpenRead(w, s, t)
  PROVE  HallInv'
  <1> DEFINE j == [Idle EXCEPT !.pc = "open", !.tab = s, !.table = t, !.seen = table[t]]
  <1>1. Do(w, j) /\ Here(t) /\ tab[s].status = "none" /\ UNCHANGED <<table, tab, lineOf, kot, touched, strayed>> BY DEF OpenRead
  <1>2. j \in Job /\ j.pc = "open" /\ j.table = t /\ j.tab = s /\ j.seen = table[t] BY <1>1, IdleJob DEF Here, Job, JobSteps, Idle, TableStatuses
  <1> HIDE DEF j
  <1>3. JobOK(j)
    BY <1>1, <1>2 DEF Here, TableStatuses, JobOK, OpenJob, HandJob, TabJob, FireJob, HeaderJob, LineJob, HoldsTab, Opens
  <1>4. \A v \in Workers \ {w} : ~Clash(job[v], j) /\ ~Clash(j, job[v]) BY <1>2 DEF OpenRead, Clash, HoldsTab, Opens
  <1> QED BY <1>1, <1>2, <1>3, <1>4, ReadingStep

\* A request that ends without writing.
LEMMA GivingUp ==
  ASSUME HallInv, NEW w \in Workers, Done(w), UNCHANGED <<table, tab, lineOf, kot, touched, strayed>>
  PROVE  HallInv'
  <1>1. Do(w, Idle) BY DEF Done
  <1> QED BY <1>1, IdleJob, ReadingStep, Zenon

\* open_tab has counted no tab on the table.
LEMMA OpenCountStep == ASSUME HallInv, NEW w \in Workers, OpenCount(w) PROVE HallInv'
  <1> DEFINE i == job[w]
             j == [i EXCEPT !.pc = "count", !.counted = HeldAt(i.table)]
  <1>0. i \in Job /\ i.pc = "open" /\ JobOK(i) /\ (\A v \in Workers \ {w} : ~Clash(job[v], i) /\ ~Clash(i, job[v]))
    BY DEF HallInv, HallType, Jobs, OpenCount
  <1>1. UNCHANGED <<table, tab, lineOf, kot, touched, strayed>> BY DEF OpenCount
  <1>2. CASE Done(w) BY <1>1, <1>2, GivingUp
  <1>3. CASE Do(w, j) /\ NoActiveTab(i.table)
    <2>1. HeldAt(i.table) = {} BY <1>3 DEF NoActiveTab
    <2>2. j \in Job BY <1>0, <2>1 DEF Job, JobSteps
    <2>3. j.pc = "count" /\ j.table = i.table /\ j.tab = i.tab /\ j.seen = i.seen /\ j.counted = {} BY <1>0, <2>1 DEF Job
    <2> HIDE DEF j, i
    <2>4. JobOK(j)
      BY <1>0, <2>3 DEF JobOK, OpenJob, HandJob, TabJob, FireJob, HeaderJob, LineJob, HoldsTab, Opens
    <2>5. \A v \in Workers \ {w} : ~Clash(job[v], j) /\ ~Clash(j, job[v])
      BY <1>0, <2>3 DEF Clash, HoldsTab, Opens
    <2> QED BY <1>1, <1>3, <2>2, <2>4, <2>5, ReadingStep
  <1> QED BY <1>2, <1>3, Zenon DEF OpenCount

\* fire_tab_to_kitchen has read lines that no order has live.
LEMMA FireReadStep ==
  ASSUME HallInv, NEW w \in Workers, NEW s \in Tabs, NEW requested \in SUBSET Lines, FireRead(w, s, requested)
  PROVE  HallInv'
  <1> DEFINE unfired == (LinesOf(s) \ FiredSaleLines(s)) \cap requested
             j == [Idle EXCEPT !.pc = "fire", !.tab = s, !.set = unfired]
  <1>1. Do(w, j) /\ unfired # {} /\ ~TabLocked(s) /\ tab[s].status = "held" /\ UNCHANGED <<table, tab, lineOf, kot, touched, strayed>>
    BY DEF FireRead, FireAnswers, TabAnswers, Mutable
  <1>2. unfired \subseteq Lines /\ \A l \in unfired : lineOf[l] = s BY DEF LinesOf
  <1>3. ASSUME NEW l \in unfired, NEW k \in Kots, Live(k, l) PROVE FALSE
    <2>1. kot[k].tab = s BY <1>2, <1>3 DEF HallInv, Kitchen, KotsKnown
    <2>2. kot[k].status = "cancelled" BY <1>2, <1>3, <2>1 DEF FiredSaleLines, Live
    <2> QED BY <1>1, <1>2, <1>3, <2>1, <2>2 DEF HallInv, Kitchen, CancelledKots
  <1> HIDE DEF unfired
  <1>4. j \in Job /\ j.pc = "fire" /\ j.tab = s /\ j.set = unfired BY <1>1, <1>2, IdleJob DEF Job, JobSteps, Idle
  <1> HIDE DEF j
  <1>5. JobOK(j)
    BY <1>1, <1>2, <1>3, <1>4 DEF JobOK, OpenJob, HandJob, TabJob, FireJob, HeaderJob, LineJob, HoldsTab, Opens
  <1>6. \A v \in Workers \ {w} : ~Clash(job[v], j) /\ ~Clash(j, job[v]) BY <1>1, <1>4, LocksExclude DEF HoldsTab
  <1> QED BY <1>1, <1>4, <1>5, <1>6, ReadingStep

\* request_tab_bill and complete_tab have read the tab and its table.
LEMMA BillReadStep ==
  ASSUME HallInv, NEW w \in Workers, NEW s \in Tabs, BillRead(w, s) \/ CompleteRead(w, s)
  PROVE  HallInv'
  <1> DEFINE t == tab[s].table
             jb == [Idle EXCEPT !.pc = "bill", !.tab = s, !.table = t, !.seen = table[t]]
             jc == [Idle EXCEPT !.pc = "complete", !.tab = s, !.table = t, !.seen = table[t]]
  <1>1. /\ Here(t) /\ ~TabLocked(s) /\ tab[s].status = "held" /\ UNCHANGED <<table, tab, lineOf, kot, touched, strayed>>
        /\ Do(w, jb) \/ Do(w, jc)
    BY DEF BillRead, CompleteRead, TabAnswers, Mutable
  <1>2. t \in Tables /\ table[t] \in TableStatuses BY <1>1 DEF HallInv, Rooms, TabsKnown, Here
  <1>3. /\ jb \in Job /\ jb.pc = "bill" /\ jb.tab = s /\ jb.table = tab[s].table /\ jb.seen = table[t]
        /\ jc \in Job /\ jc.pc = "complete" /\ jc.tab = s /\ jc.table = tab[s].table /\ jc.seen = table[t]
    BY <1>2, IdleJob DEF Job, JobSteps, Idle
  <1> PICK j \in {jb, jc} : Do(w, j) BY <1>1
  <1>4. j \in Job /\ j.pc \in {"bill", "complete"} /\ j.tab = s /\ j.table = tab[s].table /\ j.seen = table[t] BY <1>3
  <1> HIDE DEF jb, jc
  <1>5. JobOK(j)
    BY <1>1, <1>2, <1>4 DEF JobOK, OpenJob, HandJob, TabJob, FireJob, HeaderJob, LineJob, HoldsTab, Opens
  <1>6. \A v \in Workers \ {w} : ~Clash(job[v], j) /\ ~Clash(j, job[v]) BY <1>1, <1>4, LocksExclude DEF HoldsTab
  <1> QED BY <1>1, <1>4, <1>5, <1>6, ReadingStep

\* cancel_sale has read the tab, its kitchen orders and the other tabs.
LEMMA CancelReadStep == ASSUME HallInv, NEW w \in Workers, NEW s \in Tabs, CancelRead(w, s) PROVE HallInv'
  <1> DEFINE p == IF MaybeRelease(s) THEN "free" ELSE "cancel"
             others == HeldAt(tab[s].table) \ {s}
             kots == {k \in Kots : kot[k].tab = s /\ kot[k].status # "cancelled"}
             j == [Idle EXCEPT !.pc = p, !.tab = s, !.table = tab[s].table, !.counted = others, !.set = kots]
  <1>1. Do(w, j) /\ ~TabLocked(s) /\ tab[s].status \in {"held", "cancelled"} /\ UNCHANGED <<table, tab, lineOf, kot, touched, strayed>>
    BY DEF CancelRead, TabAnswers
  <1>2. p \in {"free", "cancel"} /\ (p = "free" => others = {}) BY DEF MaybeRelease
  <1>3. others \subseteq Tabs /\ kots \subseteq Kots /\ \A k \in kots : kot[k].tab = s BY DEF HeldAt
  <1>4. tab[s].table \in Tables BY <1>1 DEF HallInv, Rooms, TabsKnown
  <1> HIDE DEF p, others, kots
  <1>5. j \in Job /\ j.pc = p /\ j.tab = s /\ j.table = tab[s].table /\ j.seen = "none" /\ j.counted = others /\ j.set = kots
    BY <1>2, <1>3, <1>4, IdleJob DEF Job, JobSteps, Idle
  <1> HIDE DEF j
  <1>6. JobOK(j)
    BY <1>1, <1>2, <1>3, <1>5 DEF JobOK, OpenJob, HandJob, TabJob, FireJob, HeaderJob, LineJob, HoldsTab, Opens
  <1>7. \A v \in Workers \ {w} : ~Clash(job[v], j) /\ ~Clash(j, job[v]) BY <1>1, <1>2, <1>5, LocksExclude DEF HoldsTab
  <1> QED BY <1>1, <1>5, <1>6, <1>7, ReadingStep

\* maybe_release_dining_table has read the table.
LEMMA CancelTableStep == ASSUME HallInv, NEW w \in Workers, CancelTable(w) PROVE HallInv'
  <1> DEFINE i == job[w]
             j == [i EXCEPT !.pc = "cancel", !.seen = table[i.table]]
  <1>0. i \in Job /\ i.pc = "free" /\ JobOK(i) /\ (\A v \in Workers \ {w} : ~Clash(job[v], i) /\ ~Clash(i, job[v]))
    BY DEF HallInv, HallType, Jobs, CancelTable
  <1>1. UNCHANGED <<table, tab, lineOf, kot, touched, strayed>> BY DEF CancelTable
  <1>2. CASE Done(w) BY <1>1, <1>2, GivingUp
  <1>3. CASE Do(w, j) /\ Here(i.table)
    <2>1. table[i.table] \in TableStatuses BY <1>3 DEF Here
    <2>2. j \in Job BY <1>0, <2>1 DEF Job, JobSteps
    <2>3. j.pc = "cancel" /\ j.table = i.table /\ j.tab = i.tab /\ j.seen = table[i.table] /\ j.counted = i.counted /\ j.set = i.set BY <1>0 DEF Job
    <2> HIDE DEF j, i
    <2>4. JobOK(j)
      BY <1>0, <2>1, <2>3 DEF JobOK, OpenJob, HandJob, TabJob, FireJob, HeaderJob, LineJob, HoldsTab, Opens
    <2>5. \A v \in Workers \ {w} : ~Clash(job[v], j) /\ ~Clash(j, job[v])
      BY <1>0, <2>3 DEF Clash, HoldsTab, Opens
    <2> QED BY <1>1, <1>3, <2>2, <2>4, <2>5, ReadingStep
  <1> QED BY <1>2, <1>3, Zenon DEF CancelTable

\* update_kot_order_status has locked the order, and read its lines.
LEMMA HeaderReadStep ==
  ASSUME HallInv, NEW w \in Workers, NEW k \in Kots, NEW to \in KotStatuses, HeaderRead(w, k, to)
  PROVE  HallInv'
  <1> DEFINE j == [Idle EXCEPT !.pc = "header", !.kot = k, !.to = to, !.seen = kot[k].status, !.lines = kot[k].line]
  <1>1. Do(w, j) /\ ~KotLocked(k) /\ kot[k] # NoKot /\ to \in KotTransitions[kot[k].status] \cup {kot[k].status} /\ UNCHANGED <<table, tab, lineOf, kot, touched, strayed>>
    BY DEF HeaderRead, ValidKotTransition
  <1>2. kot[k].tab \in Tabs /\ kot[k] \in KotRow BY <1>1 DEF HallInv, HallType, Kitchen, KotsKnown
  <1>3. j \in Job /\ j.pc = "header" /\ j.kot = k /\ j.to = to /\ j.seen = kot[k].status /\ j.lines = kot[k].line
    BY <1>2, IdleJob DEF Job, JobSteps, Idle, KotRow
  <1> HIDE DEF j
  <1>4. JobOK(j)
    BY <1>1, <1>2, <1>3 DEF JobOK, OpenJob, HandJob, TabJob, FireJob, HeaderJob, LineJob, HoldsTab, Opens
  <1>5. \A v \in Workers \ {w} : ~Clash(job[v], j) /\ ~Clash(j, job[v]) BY <1>1, <1>3, LocksExclude
  <1> QED BY <1>1, <1>3, <1>4, <1>5, ReadingStep

\* update_kot_order_line_status has locked a line; one that is done with stays so.
LEMMA LineReadStep ==
  ASSUME HallInv, NEW w \in Workers, NEW k \in Kots, NEW l \in Lines, NEW to \in KotStatuses, LineRead(w, k, l, to)
  PROVE  HallInv'
  <1> DEFINE j == [Idle EXCEPT !.pc = "line", !.kot = k, !.set = {l}, !.to = to, !.seen = kot[k].status, !.lines = kot[k].line]
  <1>1. /\ Do(w, j) /\ ~LineLocked(k, l) /\ kot[k].line[l] # "none" /\ to \in KotTransitions[kot[k].line[l]] \cup {kot[k].line[l]}
        /\ UNCHANGED <<table, tab, lineOf, kot, touched, strayed>>
    BY DEF LineRead, ValidKotTransition
  <1>2. kot[k] \in KotRow /\ kot[k].line[l] \in KotStatuses BY <1>1 DEF HallInv, HallType, KotRow
  <1>3. Dead(kot[k].line[l]) => Dead(to)
    <2>1. KotTransitions["cancelled"] = {} BY DEF KotTransitions
    <2> QED BY <1>1, <2>1 DEF Dead
  <1>4. kot[k].tab \in Tabs
    <2>1. kot[k] # NoKot BY <1>1 DEF NoKot
    <2> QED BY <2>1 DEF HallInv, Kitchen, KotsKnown
  <1>5. j \in Job /\ j.pc = "line" /\ j.kot = k /\ j.to = to /\ j.seen = kot[k].status /\ j.lines = kot[k].line /\ j.set = {l}
    BY <1>2, IdleJob DEF Job, JobSteps, Idle, KotRow
  <1> HIDE DEF j
  <1>6. JobOK(j)
    BY <1>1, <1>2, <1>3, <1>4, <1>5 DEF JobOK, OpenJob, HandJob, TabJob, FireJob, HeaderJob, LineJob, HoldsTab, Opens, KotRow
  <1>7. \A v \in Workers \ {w} : ~Clash(job[v], j) /\ ~Clash(j, job[v]) BY <1>1, <1>5, LocksExclude
  <1> QED BY <1>1, <1>5, <1>6, <1>7, ReadingStep

-----------------------------------------------------------------------------
(* The commits.                                                             *)

\* The request that commits is done; the others must find what they have read.
LEMMA JobsAfter ==
  ASSUME HallInv, NEW w \in Workers, Done(w), \A v \in Workers \ {w} : JobOK(job[v])'
  PROVE  Jobs' /\ job' \in [Workers -> Job]
  <1>1. job' \in [Workers -> Job] /\ job'[w] = Idle /\ \A v \in Workers \ {w} : job'[v] = job[v]
    BY IdleJob DEF Done, Do, HallInv, HallType
  <1>2. JobOK(job[w])'
    BY <1>1, IdleJob DEF JobOK, OpenJob, HandJob, TabJob, FireJob, HeaderJob, LineJob, HoldsTab, Opens
  <1>3. \A v, u \in Workers : v # u => ~Clash(job'[u], job'[v])
    BY <1>1, IdleJob DEF HallInv, Jobs
  <1> QED BY <1>1, <1>2, <1>3 DEF Jobs, Clash

\* The other requests, and what is known of them.
LEMMA OthersOK ==
  ASSUME HallInv, NEW w \in Workers, Done(w), NEW v \in Workers \ {w}
  PROVE  job'[v] = job[v] /\ job[v] \in Job /\ JobOK(job[v]) /\ ~Clash(job[v], job[w]) /\ ~Clash(job[w], job[v])
  BY DEF Done, Do, HallInv, HallType, Jobs

\* The kitchen is as it was when only tables and tabs change.
LEMMA KitchenQuiet ==
  ASSUME HallInv, UNCHANGED <<kot, lineOf, strayed>>,
         \A s \in Tabs : tab[s].status = "cancelled" => tab'[s].status = "cancelled"
  PROVE  Kitchen'
  BY DEF HallInv, Kitchen, KotsKnown, CancelledKots, LiveOnce, Headers, HeaderIs, Live

\* transition_table_status: a table that is not marked was written from a
\* reading that was true.
LEMMA WriteTableFacts ==
  ASSUME HallType, NEW t \in Tables, NEW seen, NEW to \in TableStatuses, NEW outdated \in BOOLEAN, WriteTable(t, seen, to, outdated)
  PROVE  /\ table' \in [Tables -> TableStatuses \cup {"none", "deleted"}] /\ touched' \subseteq Tables /\ touched \subseteq touched'
         /\ \A x \in Tables : table[x] # "none" => table'[x] # "none"
         /\ \A x \in Tables \ {t} : table'[x] = table[x]
         /\ t \notin touched' => table[t] = seen /\ ~outdated
         /\ t \notin touched' /\ seen \in TableStatuses => table'[t] = to
  <1> DEFINE new == IF seen = to \/ table[t] = "deleted" THEN table[t] ELSE to
  <1>1. /\ new \in TableStatuses \cup {"none", "deleted"} /\ (table[t] # "none" => new # "none")
        /\ (seen = table[t] /\ seen \in TableStatuses => new = to)
    BY DEF HallType, TableStatuses
  <1>2. table' = [table EXCEPT ![t] = new] BY DEF WriteTable
  <1> HIDE DEF new
  <1>3. table' \in [Tables -> TableStatuses \cup {"none", "deleted"}] /\ table'[t] = new /\ \A x \in Tables \ {t} : table'[x] = table[x]
    BY <1>1, <1>2 DEF HallType
  <1>4. touched' \subseteq Tables /\ touched \subseteq touched' BY DEF WriteTable, HallType
  <1>5. t \notin touched' => table[t] = seen /\ ~outdated BY DEF WriteTable
  <1> QED BY <1>1, <1>3, <1>4, <1>5

\* A change of the tables only is one that no request minds.
LEMMA TablesOnly ==
  ASSUME HallInv, NEW v \in Workers, job'[v] = job[v], UNCHANGED <<tab, lineOf, kot>>,
         \A x \in Tables : table[x] # "none" => table'[x] # "none"
  PROVE  JobOK(job[v])'
  BY DEF HallInv, Jobs, JobOK, OpenJob, HandJob, TabJob, FireJob, HeaderJob, LineJob, HoldsTab, Opens, Live

\* create_dining_table and delete_dining_table.
LEMMA EditTablesStep == ASSUME HallInv, NEW t \in Tables, CreateDiningTable(t) \/ DeleteDiningTable(t) PROVE HallInv'
  <1>1. /\ UNCHANGED <<tab, lineOf, kot, job, strayed>> /\ touched \subseteq touched' /\ touched' \subseteq Tables
        /\ table' \in [Tables -> TableStatuses \cup {"none", "deleted"}]
        /\ \A x \in Tables : table[x] # "none" => table'[x] # "none"
        /\ \A x \in Tables \ touched' : table'[x] = table[x] \/ table[x] = "none"
    BY DEF CreateDiningTable, DeleteDiningTable, HallInv, HallType, TableStatuses, Here
  <1>2. HallType' BY <1>1 DEF HallInv, HallType
  <1>3. \A v \in Workers : JobOK(job[v])' BY <1>1, TablesOnly
  <1>4. Jobs' BY <1>1, <1>3 DEF HallInv, Jobs, Clash
  <1>5. Kitchen' BY <1>1, KitchenQuiet
  <1>6. TabsKnown' BY <1>1 DEF HallInv, Rooms, TabsKnown
  <1>7. Seated'
    <2> SUFFICES ASSUME NEW t2 \in Tables \ touched' 
                 PROVE (\A s, r \in HeldAt(t2) : s = r) /\ (HeldAt(t2) # {} => table'[t2] \in {"occupied", "billing"})
      BY <1>1 DEF Seated, HeldAt
    <2>1. t2 \in Tables \ touched BY <1>1
    <2>2. HeldAt(t2) # {} => table[t2] # "none" BY DEF HeldAt, HallInv, Rooms, TabsKnown
    <2> QED BY <1>1, <2>1, <2>2 DEF HallInv, Rooms, Seated
  <1> QED BY <1>2, <1>4, <1>5, <1>6, <1>7 DEF HallInv, Rooms

\* update_dining_table_status and request_tab_bill write the table only.
LEMMA TableCommit == ASSUME HallInv, NEW w \in Workers, UpdateDiningTableStatus(w) \/ RequestTabBill(w) PROVE HallInv'
  <1> DEFINE j == job[w]
  <1>0. j \in Job /\ JobOK(j) /\ Done(w) /\ UNCHANGED <<tab, lineOf, kot, strayed>> /\ j.pc \in {"hand", "bill"}
    BY DEF HallInv, HallType, Jobs, UpdateDiningTableStatus, RequestTabBill
  <1>1. j.table \in Tables
    BY <1>0 DEF JobOK, HandJob, TabJob, HoldsTab, HallInv, Rooms, TabsKnown
  <1>2. PICK to \in TableStatuses, outdated \in BOOLEAN :
           /\ WriteTable(j.table, j.seen, to, outdated)
           /\ \/ outdated = (HeldAt(j.table) # {})
              \/ j.seen \in TableStatuses /\ to = "billing"
    <2>1. CASE UpdateDiningTableStatus(w)
      <3>1. j.to \in TableStatuses BY <1>0, <2>1 DEF UpdateDiningTableStatus, JobOK, HandJob
      <3>2. WriteTable(j.table, j.seen, j.to, HeldAt(j.table) # {}) BY <2>1 DEF UpdateDiningTableStatus
      <3> WITNESS j.to \in TableStatuses, (HeldAt(j.table) # {}) \in BOOLEAN
      <3> QED BY <3>1, <3>2
    <2>2. CASE RequestTabBill(w)
      <3>1. j.seen \in TableStatuses BY <1>0, <2>2 DEF RequestTabBill, JobOK, TabJob
      <3>2. WriteTable(j.table, j.seen, "billing", FALSE) BY <2>2 DEF RequestTabBill
      <3>3. "billing" \in TableStatuses BY DEF TableStatuses
      <3> WITNESS "billing" \in TableStatuses, FALSE \in BOOLEAN
      <3> QED BY <3>1, <3>2
    <2> QED BY <2>1, <2>2
  <1> HIDE DEF j
  <1>3. /\ table' \in [Tables -> TableStatuses \cup {"none", "deleted"}] /\ touched' \subseteq Tables /\ touched \subseteq touched'
        /\ \A x \in Tables : table[x] # "none" => table'[x] # "none"
        /\ \A x \in Tables \ {j.table} : table'[x] = table[x]
        /\ j.table \notin touched' => table[j.table] = j.seen /\ ~outdated
        /\ j.table \notin touched' /\ j.seen \in TableStatuses => table'[j.table] = to
    <2>1. HallType BY DEF HallInv
    <2> QED BY <1>1, <1>2, <2>1, WriteTableFacts, ZenonT(60) DEF WriteTable
  <1>4. \A v \in Workers \ {w} : JobOK(job[v])' BY <1>0, <1>3, OthersOK, TablesOnly
  <1>5. Jobs' /\ job' \in [Workers -> Job] BY <1>0, <1>4, JobsAfter
  <1>6. HallType' BY <1>0, <1>3, <1>5 DEF HallInv, HallType
  <1>7. Kitchen' BY <1>0, KitchenQuiet
  <1>8. TabsKnown' BY <1>0, <1>3 DEF HallInv, Rooms, TabsKnown
  <1>9. Seated'
    <2> SUFFICES ASSUME NEW t2 \in Tables \ touched' 
                 PROVE (\A s, r \in HeldAt(t2) : s = r) /\ (HeldAt(t2) # {} => table'[t2] \in {"occupied", "billing"})
      BY <1>0, <1>3 DEF Seated, HeldAt
    <2>1. t2 \in Tables \ touched BY <1>3
    <2>2. CASE t2 = j.table BY <1>2, <1>3, <2>1, <2>2 DEF HallInv, Rooms, Seated
    <2>3. CASE t2 # j.table BY <1>3, <2>1, <2>3 DEF HallInv, Rooms, Seated
    <2> QED BY <2>2, <2>3
  <1> QED BY <1>5, <1>6, <1>7, <1>8, <1>9 DEF HallInv, Rooms

\* add_lines_to_tab: a new line is in no kitchen order.
LEMMA AddLinesStep ==
  ASSUME HallInv, NEW s \in Tabs, NEW l \in Lines, NEW selected \in SUBSET Modifiers, AddLinesToTab(s, l, selected)
  PROVE  HallInv'
  <1> USE RestaurantAssumption
  <1>1. lineOf[l] = None /\ lineOf' = [lineOf EXCEPT ![l] = s] /\ UNCHANGED <<table, tab, kot, job, touched, strayed>>
    BY DEF AddLinesToTab
  <1>2. \A x \in Lines : lineOf[x] # None => lineOf'[x] = lineOf[x] BY <1>1 DEF HallInv, HallType
  <1>3. HallType' BY <1>1 DEF HallInv, HallType
  <1>4. \A v \in Workers : JobOK(job[v])'
    <2> SUFFICES ASSUME NEW v \in Workers PROVE JobOK(job[v])' OBVIOUS
    <2>1. JobOK(job[v]) BY DEF HallInv, Jobs
    <2>2. FireJob(job[v])'
      BY <1>1, <1>2, <2>1, None \notin Tabs DEF JobOK, FireJob, TabJob, HoldsTab, Live
    <2> QED BY <1>1, <2>1, <2>2 DEF JobOK, OpenJob, HandJob, TabJob, HeaderJob, LineJob, HoldsTab, Opens
  <1>5. Jobs' BY <1>1, <1>4 DEF HallInv, Jobs, Clash
  <1>6. Rooms' BY <1>1 DEF HallInv, Rooms, TabsKnown, Seated, HeldAt
  <1>7. KotsKnown' BY <1>1, <1>2, None \notin Tabs DEF HallInv, Kitchen, KotsKnown, Live
  <1>8. (CancelledKots /\ LiveOnce /\ Headers)' BY <1>1 DEF HallInv, Kitchen, CancelledKots, LiveOnce, Headers, HeaderIs, Live
  <1> QED BY <1>3, <1>5, <1>6, <1>7, <1>8 DEF HallInv, Kitchen

\* A tab changes hands under its lock: the other requests do not have it.
LEMMA TabsOnly ==
  ASSUME HallInv, NEW v \in Workers, NEW s \in Tabs, job'[v] = job[v], UNCHANGED <<lineOf, kot>>,
         \A x \in Tables : table[x] # "none" => table'[x] # "none",
         \A x \in Tabs \ {s} : tab'[x] = tab[x],
         ~(HoldsTab(job[v]) /\ job[v].tab = s), ~(Opens(job[v]) /\ job[v].tab = s)
  PROVE  JobOK(job[v])'
  <1>0. JobOK(job[v]) BY DEF HallInv, Jobs
  <1>1. OpenJob(job[v])' BY <1>0 DEF JobOK, OpenJob, Opens
  <1>2. HandJob(job[v])' BY <1>0 DEF JobOK, HandJob
  <1>3. TabJob(job[v])'
    <2>1. CASE HoldsTab(job[v])
      <3>1. job[v].tab \in Tabs \ {s} BY <1>0, <2>1 DEF JobOK, TabJob
      <3>2. tab'[job[v].tab] = tab[job[v].tab] BY <3>1
      <3> QED BY <1>0, <2>1, <3>1, <3>2 DEF JobOK, TabJob, HoldsTab
    <2>2. CASE ~HoldsTab(job[v]) BY <2>2 DEF TabJob, HoldsTab
    <2> QED BY <2>1, <2>2
  <1>4. FireJob(job[v])' BY <1>0 DEF JobOK, FireJob, Live
  <1>5. (HeaderJob(job[v]) /\ LineJob(job[v]))' BY <1>0 DEF JobOK, HeaderJob, LineJob
  <1> QED BY <1>1, <1>2, <1>3, <1>4, <1>5 DEF JobOK

\* open_tab: the new tab is alone at a table that was free, or the table is marked.
LEMMA OpenTabStep == ASSUME HallInv, NEW w \in Workers, OpenTab(w) PROVE HallInv'
  <1> DEFINE j == job[w]
             s == j.tab
             t == j.table
  <1>0. /\ j \in Job /\ JobOK(j) /\ Done(w) /\ UNCHANGED <<lineOf, kot, strayed>> /\ j.pc = "count"
        /\ tab' = [tab EXCEPT ![s] = [status |-> "held", table |-> t]]
        /\ WriteTable(t, j.seen, "occupied", HeldAt(t) # j.counted)
    BY DEF HallInv, HallType, Jobs, OpenTab
  <1>1. s \in Tabs /\ t \in Tables /\ table[t] # "none" /\ j.seen \in TableStatuses /\ j.counted = {} /\ tab[s].status = "none"
    BY <1>0 DEF JobOK, OpenJob, Opens
  <1>2. \A v \in Workers \ {w} : ~(Opens(job[v]) /\ job[v].tab = s) /\ ~(HoldsTab(job[v]) /\ job[v].tab = s)
    <2> SUFFICES ASSUME NEW v \in Workers \ {w}, job[v].tab = s, Opens(job[v]) \/ HoldsTab(job[v]) PROVE FALSE OBVIOUS
    <2>1. ~Opens(job[v]) BY <1>0, OthersOK DEF Clash, Opens
    <2>2. JobOK(job[v]) BY <1>0, OthersOK
    <2> QED BY <1>1, <2>1, <2>2 DEF JobOK, TabJob, HoldsTab
  <1>3. /\ table' \in [Tables -> TableStatuses \cup {"none", "deleted"}] /\ touched' \subseteq Tables /\ touched \subseteq touched'
        /\ \A x \in Tables : table[x] # "none" => table'[x] # "none"
        /\ \A x \in Tables \ {t} : table'[x] = table[x]
        /\ t \notin touched' => HeldAt(t) = {}
        /\ t \notin touched' => table'[t] = "occupied"
    <2>1. HallType /\ "occupied" \in TableStatuses /\ (HeldAt(t) # {}) \in BOOLEAN BY DEF HallInv, TableStatuses
    <2> HIDE DEF j, s, t
    <2> QED BY <1>0, <1>1, <2>1, WriteTableFacts DEF WriteTable
  <1>4. tab' \in [Tabs -> TabRow] /\ tab'[s].status = "held" /\ tab'[s].table = t /\ \A x \in Tabs \ {s} : tab'[x] = tab[x]
    BY <1>0, <1>1 DEF HallInv, HallType, TabRow
  <1>5. \A v \in Workers \ {w} : JobOK(job[v])' 
    <2> HIDE DEF j, s, t
    <2> QED BY <1>0, <1>1, <1>2, <1>3, <1>4, OthersOK, TabsOnly
  <1>6. Jobs' /\ job' \in [Workers -> Job] BY <1>0, <1>5, JobsAfter
  <1> HIDE DEF j, s, t
  <1>7. HallType' BY <1>0, <1>3, <1>4, <1>6 DEF HallInv, HallType
  <1>8. Kitchen' BY <1>0, <1>1, <1>4, KitchenQuiet
  <1>9. TabsKnown' BY <1>1, <1>3, <1>4 DEF HallInv, Rooms, TabsKnown
  <1>10. Seated'
    <2> SUFFICES ASSUME NEW t2 \in Tables \ touched' 
                 PROVE (\A x, r \in HeldAt(t2)' : x = r) /\ (HeldAt(t2)' # {} => table'[t2] \in {"occupied", "billing"})
      BY <1>3 DEF Seated, HeldAt
    <2>1. t2 \in Tables \ touched BY <1>3
    <2>2. CASE t2 = t
      <3>1. HeldAt(t) = {} /\ table'[t] = "occupied" BY <1>3, <2>2
      <3>2. HeldAt(t2)' \subseteq {s} BY <1>4, <3>1, <2>2 DEF HeldAt
      <3> QED BY <3>1, <3>2, <2>2
    <2>3. CASE t2 # t
      <3>1. HeldAt(t2)' = HeldAt(t2) BY <1>1, <1>4, <2>3 DEF HeldAt
      <3> QED BY <1>3, <2>1, <2>3, <3>1 DEF HallInv, Rooms, Seated
    <2> QED BY <2>2, <2>3
  <1> QED BY <1>6, <1>7, <1>8, <1>9, <1>10 DEF HallInv, Rooms

\* complete_tab: the tab that leaves the table was the only one there.
LEMMA CompleteTabStep == ASSUME HallInv, NEW w \in Workers, CompleteTab(w) PROVE HallInv'
  <1> DEFINE j == job[w]
             s == j.tab
             t == j.table
             to == IF j.seen \in {"billing", "occupied"} THEN "cleaning" ELSE j.seen
  <1>0. /\ j \in Job /\ JobOK(j) /\ Done(w) /\ UNCHANGED <<lineOf, kot, strayed>> /\ j.pc = "complete"
        /\ tab' = [tab EXCEPT ![s].status = "completed"]
        /\ WriteTable(t, j.seen, to, FALSE)
    BY DEF HallInv, HallType, Jobs, CompleteTab
  <1>1. s \in Tabs /\ j.seen \in TableStatuses /\ tab[s].status = "held" /\ t = tab[s].table
    BY <1>0 DEF JobOK, TabJob, HoldsTab
  <1>1a. t \in Tables /\ to \in TableStatuses BY <1>1 DEF HallInv, Rooms, TabsKnown, TableStatuses
  <1>2. \A v \in Workers \ {w} : ~(Opens(job[v]) /\ job[v].tab = s) /\ ~(HoldsTab(job[v]) /\ job[v].tab = s)
    <2> SUFFICES ASSUME NEW v \in Workers \ {w}, job[v].tab = s, Opens(job[v]) \/ HoldsTab(job[v]) PROVE FALSE OBVIOUS
    <2>1. ~HoldsTab(job[v]) BY <1>0, OthersOK DEF Clash, HoldsTab
    <2>2. JobOK(job[v]) BY <1>0, OthersOK
    <2> QED BY <1>1, <2>1, <2>2 DEF JobOK, OpenJob
  <1>3. /\ table' \in [Tables -> TableStatuses \cup {"none", "deleted"}] /\ touched' \subseteq Tables /\ touched \subseteq touched'
        /\ \A x \in Tables : table[x] # "none" => table'[x] # "none"
        /\ \A x \in Tables \ {t} : table'[x] = table[x]
    <2>1. HallType /\ FALSE \in BOOLEAN BY DEF HallInv
    <2> HIDE DEF j, s, t, to
    <2> QED BY <1>0, <1>1a, <2>1, WriteTableFacts DEF WriteTable
  <1>4. tab' \in [Tabs -> TabRow] /\ tab'[s].status = "completed" /\ tab'[s].table = t /\ \A x \in Tabs \ {s} : tab'[x] = tab[x]
    BY <1>0, <1>1 DEF HallInv, HallType, TabRow
  <1> HIDE DEF j, s, t, to
  <1>5. \A v \in Workers \ {w} : JobOK(job[v])' 
    BY <1>0, <1>1, <1>2, <1>3, <1>4, OthersOK, TabsOnly
  <1>6. Jobs' /\ job' \in [Workers -> Job] BY <1>0, <1>5, JobsAfter
  <1>7. HallType' BY <1>0, <1>3, <1>4, <1>6 DEF HallInv, HallType
  <1>8. Kitchen' BY <1>0, <1>1, <1>4, KitchenQuiet
  <1>9. TabsKnown' BY <1>1, <1>1a, <1>3, <1>4 DEF HallInv, Rooms, TabsKnown
  <1>10. Seated'
    <2> SUFFICES ASSUME NEW t2 \in Tables \ touched' 
                 PROVE (\A x, r \in HeldAt(t2)' : x = r) /\ (HeldAt(t2)' # {} => table'[t2] \in {"occupied", "billing"})
      BY <1>3 DEF Seated, HeldAt
    <2>1. t2 \in Tables \ touched BY <1>3
    <2>2. CASE t2 = t
      <3>1. s \in HeldAt(t2) BY <1>1, <2>2 DEF HeldAt
      <3>2. HeldAt(t2) = {s} BY <2>1, <3>1 DEF HallInv, Rooms, Seated
      <3>3. HeldAt(t2)' = {} BY <1>4, <3>2 DEF HeldAt
      <3> QED BY <3>3
    <2>3. CASE t2 # t
      <3>1. HeldAt(t2)' = HeldAt(t2) BY <1>1, <1>4, <2>3 DEF HeldAt
      <3> QED BY <1>3, <2>1, <2>3, <3>1 DEF HallInv, Rooms, Seated
    <2> QED BY <2>2, <2>3
  <1> QED BY <1>6, <1>7, <1>8, <1>9, <1>10 DEF HallInv, Rooms

\* cancel_sale: the tab goes, and the headers of its kitchen orders with it.
LEMMA CancelTabStep == ASSUME HallInv, NEW w \in Workers, CancelTab(w) PROVE HallInv'
  <1> DEFINE j == job[w]
             s == j.tab
             t == j.table
  <1>0. /\ j \in Job /\ JobOK(j) /\ Done(w) /\ UNCHANGED <<lineOf, strayed>> /\ j.pc = "cancel" /\ \A k \in j.set : ~KotLocked(k)
        /\ tab' = [tab EXCEPT ![s].status = "cancelled"]
        /\ kot' = [k \in Kots |-> IF k \in j.set THEN [kot[k] EXCEPT !.status = "cancelled"] ELSE kot[k]]
        /\ IF j.seen = "none" THEN UNCHANGED <<table, touched>>
           ELSE WriteTable(t, j.seen, "available", HeldAt(t) \ {s} # j.counted)
    BY DEF HallInv, HallType, Jobs, CancelTab
  <1>1. /\ s \in Tabs /\ j.seen \in TableStatuses \cup {"none"} /\ tab[s].status \in {"held", "cancelled"} /\ t = tab[s].table
        /\ j.seen # "none" => j.counted = {}
        /\ \A k \in j.set : k \in Kots /\ kot[k].tab = s
    BY <1>0 DEF JobOK, TabJob, HoldsTab
  <1>1a. t \in Tables BY <1>1 DEF HallInv, Rooms, TabsKnown
  <1>2. \A v \in Workers \ {w} : ~(Opens(job[v]) /\ job[v].tab = s) /\ ~(HoldsTab(job[v]) /\ job[v].tab = s)
    <2> SUFFICES ASSUME NEW v \in Workers \ {w}, job[v].tab = s, Opens(job[v]) \/ HoldsTab(job[v]) PROVE FALSE OBVIOUS
    <2>1. ~HoldsTab(job[v]) BY <1>0, OthersOK DEF Clash, HoldsTab
    <2>2. JobOK(job[v]) BY <1>0, OthersOK
    <2> QED BY <1>1, <2>1, <2>2 DEF JobOK, OpenJob
  <1> HIDE DEF j, s, t
  <1>3. /\ table' \in [Tables -> TableStatuses \cup {"none", "deleted"}] /\ touched' \subseteq Tables /\ touched \subseteq touched'
        /\ \A x \in Tables : table[x] # "none" => table'[x] # "none"
        /\ \A x \in Tables \ {t} : table'[x] = table[x]
        /\ t \notin touched' => table'[t] = table[t] \/ HeldAt(t) \ {s} = {}
    <2>1. CASE j.seen = "none" BY <1>0, <2>1 DEF HallInv, HallType
    <2>2. CASE j.seen # "none"
      <3>1. HallType /\ "available" \in TableStatuses /\ (HeldAt(t) \ {s} # {}) \in BOOLEAN BY DEF HallInv, TableStatuses
      <3>2. WriteTable(t, j.seen, "available", HeldAt(t) \ {s} # {}) BY <1>0, <1>1, <2>2 DEF WriteTable
      <3> QED BY <1>1a, <3>1, <3>2, WriteTableFacts DEF WriteTable
    <2> QED BY <2>1, <2>2
  <1>4. tab' \in [Tabs -> TabRow] /\ tab'[s].status = "cancelled" /\ tab'[s].table = t /\ \A x \in Tabs \ {s} : tab'[x] = tab[x]
    BY <1>0, <1>1 DEF HallInv, HallType, TabRow
  <1>5. /\ kot' \in [Kots -> KotRow]
        /\ \A k \in Kots : kot'[k].tab = kot[k].tab /\ kot'[k].line = kot[k].line
        /\ \A k \in Kots \ j.set : kot'[k] = kot[k]
    <2>1. \A k \in Kots : kot[k] \in KotRow /\ kot'[k] = IF k \in j.set THEN [kot[k] EXCEPT !.status = "cancelled"] ELSE kot[k]
      BY <1>0 DEF HallInv, HallType
    <2>2. \A k \in Kots : [kot[k] EXCEPT !.status = "cancelled"] \in KotRow
      BY <2>1 DEF KotRow, KotStatuses
    <2>3. \A k \in Kots : kot'[k] \in KotRow
      BY <2>1, <2>2
    <2>4. \A k \in Kots : kot'[k].tab = kot[k].tab /\ kot'[k].line = kot[k].line
      BY <2>1 DEF KotRow
    <2> QED
      BY <1>0, <2>1, <2>3, <2>4
  <1>6. ASSUME NEW v \in Workers \ {w} PROVE JobOK(job[v])' 
    <2>0. job'[v] = job[v] /\ JobOK(job[v]) BY <1>0, OthersOK
    <2>1. OpenJob(job[v])' BY <1>2, <1>3, <1>4, <2>0 DEF JobOK, OpenJob, Opens
    <2>2. HandJob(job[v])' BY <1>3, <2>0 DEF JobOK, HandJob
    <2>3. TabJob(job[v])'
      <3>1. CASE HoldsTab(job[v])
        <4>1. job[v].tab \in Tabs \ {s} BY <1>2, <2>0, <3>1 DEF JobOK, TabJob
        <4>2. tab'[job[v].tab] = tab[job[v].tab] BY <1>4, <4>1
        <4> QED BY <1>5, <2>0, <3>1, <4>1, <4>2 DEF JobOK, TabJob, HoldsTab
      <3>2. CASE ~HoldsTab(job[v]) BY <2>0, <3>2 DEF TabJob, HoldsTab
      <3> QED BY <3>1, <3>2
    <2>4. FireJob(job[v])' BY <1>0, <1>5, <2>0 DEF JobOK, FireJob, Live
    <2>5. HeaderJob(job[v])' BY <1>0, <1>5, <2>0 DEF JobOK, HeaderJob, KotLocked
    <2>6. LineJob(job[v])' BY <1>5, <2>0 DEF JobOK, LineJob
    <2> QED BY <2>1, <2>2, <2>3, <2>4, <2>5, <2>6 DEF JobOK
  <1>7. Jobs' /\ job' \in [Workers -> Job] BY <1>0, <1>6, JobsAfter
  <1>8. HallType' BY <1>0, <1>3, <1>4, <1>5, <1>7 DEF HallInv, HallType
  <1>9. KotsKnown' BY <1>0, <1>1, <1>5 DEF HallInv, Kitchen, KotsKnown, Live
  <1>10. CancelledKots' /\ Headers'
    <2>1. \A k \in Kots : kot[k].tab \in Tabs /\ tab'[kot[k].tab].status # "cancelled" => k \notin j.set /\ tab'[kot[k].tab] = tab[kot[k].tab]
      BY <1>1, <1>4
    <2>2. CancelledKots' BY <1>5, <2>1 DEF HallInv, Kitchen, CancelledKots, Live
    <2>3. Headers' BY <1>0, <1>5, <2>1 DEF HallInv, Kitchen, Headers, HeaderIs, Live
    <2> QED BY <2>2, <2>3
  <1>11. LiveOnce' BY <1>5 DEF HallInv, Kitchen, LiveOnce, Live
  <1>12. TabsKnown' BY <1>1, <1>1a, <1>3, <1>4 DEF HallInv, Rooms, TabsKnown
  <1>13. Seated'
    <2> SUFFICES ASSUME NEW t2 \in Tables \ touched' 
                 PROVE (\A x, r \in HeldAt(t2)' : x = r) /\ (HeldAt(t2)' # {} => table'[t2] \in {"occupied", "billing"})
      BY <1>3 DEF Seated, HeldAt
    <2>1. t2 \in Tables \ touched BY <1>3
    <2>2. HeldAt(t2)' = HeldAt(t2) \ {s} BY <1>4 DEF HeldAt
    <2>3. CASE t2 = t BY <1>3, <2>1, <2>2, <2>3 DEF HallInv, Rooms, Seated
    <2>4. CASE t2 # t BY <1>3, <2>1, <2>2, <2>4 DEF HallInv, Rooms, Seated
    <2> QED BY <2>3, <2>4
  <1> QED BY <1>7, <1>8, <1>9, <1>10, <1>11, <1>12, <1>13 DEF HallInv, Rooms, Kitchen

\* fire_tab_to_kitchen: the lines of the new order are live nowhere else.
LEMMA FireStep == ASSUME HallInv, NEW w \in Workers, FireTabToKitchen(w) PROVE HallInv'
  <1> USE RestaurantAssumption
  <1> DEFINE j == job[w]
             s == j.tab
             new == [tab |-> s, status |-> "pending", line |-> [l \in Lines |-> IF l \in j.set THEN "pending" ELSE "none"]]
  <1>0. j \in Job /\ JobOK(j) /\ Done(w) /\ UNCHANGED <<table, tab, lineOf, touched, strayed>> /\ j.pc = "fire"
    BY DEF HallInv, HallType, Jobs, FireTabToKitchen
  <1>1. PICK k \in Kots : kot[k] = NoKot /\ kot' = [kot EXCEPT ![k] = new] BY DEF FireTabToKitchen
  <1>2. /\ s \in Tabs /\ tab[s].status = "held" /\ j.set \subseteq Lines /\ j.set # {}
        /\ \A l \in j.set : lineOf[l] = s /\ \A m \in Kots : ~Live(m, l)
    BY <1>0 DEF JobOK, TabJob, FireJob, HoldsTab
  <1>3. /\ new \in KotRow /\ new.tab = s /\ new.status = "pending"
        /\ \A l \in Lines : new.line[l] = IF l \in j.set THEN "pending" ELSE "none"
    BY <1>2 DEF KotRow, KotStatuses
  <1> HIDE DEF j, s, new
  <1>4. kot' \in [Kots -> KotRow] /\ kot'[k] = new /\ \A m \in Kots \ {k} : kot'[m] = kot[m]
    BY <1>1, <1>3 DEF HallInv, HallType
  <1>5. kot[k].tab = None /\ None \notin Tabs /\ \A l \in Lines : ~Live(k, l) /\ kot[k].line[l] = "none" BY <1>1 DEF NoKot, Live
  <1>6. \A m \in Kots, l \in Lines : Live(m, l)' <=> (Live(m, l) \/ (m = k /\ l \in j.set))
    BY <1>3, <1>4, <1>5 DEF Live
  <1>7. ASSUME NEW v \in Workers \ {w} PROVE JobOK(job[v])'
    <2>0. job'[v] = job[v] /\ JobOK(job[v]) /\ ~Clash(job[v], j) BY <1>0, OthersOK DEF j
    <2>1. (OpenJob(job[v]) /\ HandJob(job[v]))' BY <1>0, <2>0 DEF JobOK, OpenJob, HandJob
    <2>2. TabJob(job[v])'
      <3>1. \A m \in job[v].set : job[v].pc \in {"cancel", "free"} => m # k /\ m \in Kots
        BY <1>5, <2>0 DEF JobOK, TabJob, HoldsTab
      <3> QED BY <1>0, <1>4, <2>0, <3>1 DEF JobOK, TabJob, HoldsTab
    <2>3. FireJob(job[v])'
      <3> SUFFICES ASSUME job[v].pc = "fire" PROVE FireJob(job[v])' BY <2>0 DEF FireJob
      <3>1. job[v].tab # s BY <1>0, <2>0 DEF Clash, HoldsTab, s
      <3>2. \A l \in job[v].set : l \in Lines /\ l \notin j.set BY <1>2, <2>0, <3>1 DEF JobOK, FireJob
      <3> QED BY <1>0, <1>6, <2>0, <3>2 DEF JobOK, FireJob
    <2>4. (HeaderJob(job[v]) /\ LineJob(job[v]))'
      <3>1. job[v].pc \in {"header", "line"} => job[v].kot # k BY <1>5, <2>0 DEF JobOK, HeaderJob, LineJob
      <3> QED BY <1>4, <2>0, <3>1 DEF JobOK, HeaderJob, LineJob
    <2> QED BY <2>1, <2>2, <2>3, <2>4 DEF JobOK
  <1>8. Jobs' /\ job' \in [Workers -> Job] BY <1>0, <1>7, JobsAfter
  <1>9. HallType' BY <1>0, <1>4, <1>8 DEF HallInv, HallType
  <1>10. Rooms' BY <1>0 DEF HallInv, Rooms, TabsKnown, Seated, HeldAt
  <1>11. KotsKnown'
    <2>1. \A m \in Kots : kot'[m] # NoKot => kot'[m].tab \in Tabs
      BY <1>2, <1>3, <1>4 DEF HallInv, Kitchen, KotsKnown
    <2>2. \A m \in Kots, l \in Lines : Live(m, l)' => kot'[m].tab \in Tabs /\ lineOf[l] = kot'[m].tab
      BY <1>2, <1>3, <1>4, <1>5, <1>6 DEF HallInv, Kitchen, KotsKnown
    <2> QED BY <1>0, <2>1, <2>2 DEF KotsKnown
  <1>12. CancelledKots'
    BY <1>0, <1>3, <1>4, <1>6 DEF HallInv, Kitchen, CancelledKots
  <1>13. LiveOnce' BY <1>2, <1>6 DEF HallInv, Kitchen, LiveOnce
  <1>14. Headers'
    <2>1. HeaderIs(k)'
      <3>1. PICK l \in j.set : l \in Lines BY <1>2
      <3>2. \A x \in Lines : Live(k, x)' => kot'[k].line[x] = "pending" BY <1>3, <1>4 DEF Live
      <3>3. Live(k, l)' /\ kot'[k].line[l] = "pending" BY <1>3, <1>4, <3>1 DEF Live
      <3>4. kot'[k].status = "pending" /\ Priority["pending"] = 0 BY <1>3, <1>4 DEF Priority
      <3> QED BY <3>1, <3>2, <3>3, <3>4 DEF HeaderIs
    <2>2. \A m \in Kots \ {k} : HeaderIs(m)' <=> HeaderIs(m) BY <1>4 DEF HeaderIs, Live
    <2> QED BY <1>0, <1>4, <2>1, <2>2 DEF HallInv, Kitchen, Headers
  <1> QED BY <1>8, <1>9, <1>10, <1>11, <1>12, <1>13, <1>14 DEF HallInv, Kitchen

-----------------------------------------------------------------------------
(* Kitchen orders: what both updates of an order have in common.            *)

\* The update of order k by request w: lines only go from live to live or to
\* cancelled, and what other requests have locked stays.
KotUpdate(w, k) ==
  /\ k \in Kots /\ kot[k].tab \in Tabs
  /\ kot' \in [Kots -> KotRow] /\ kot'[k].tab = kot[k].tab
  /\ \A m \in Kots \ {k} : kot'[m] = kot[m]
  /\ \A l \in Lines : Live(k, l)' => Live(k, l)
  /\ \A v \in Workers \ {w} : job[v].kot = k => /\ job[v].pc # "header"
                                                /\ job[v].pc = "line" => \A l \in job[v].set : kot'[k].line[l] = kot[k].line[l]
  /\ kot'[k].status = "cancelled" => \/ kot[k].status = "cancelled"
                                     \/ \A l \in Lines : ~Live(k, l)'
  /\ strayed \subseteq strayed' /\ strayed' \subseteq Kots
  /\ k \notin strayed' /\ tab[kot[k].tab].status # "cancelled" => HeaderIs(k)'
  /\ Done(w) /\ UNCHANGED <<table, tab, lineOf, touched>>

\* Such an update keeps the invariant.
LEMMA KotUpdateStep == ASSUME HallInv, NEW w \in Workers, NEW k, KotUpdate(w, k) PROVE HallInv'
  <1> USE DEF KotUpdate
  <1>1. \A m \in Kots : kot'[m].tab = kot[m].tab OBVIOUS
  <1>2. \A m \in Kots, l \in Lines : Live(m, l)' => Live(m, l) BY DEF Live
  <1>3. ASSUME NEW v \in Workers \ {w} PROVE JobOK(job[v])'
    <2>0. job'[v] = job[v] /\ JobOK(job[v]) BY OthersOK
    <2>1. (OpenJob(job[v]) /\ HandJob(job[v]))' BY <2>0 DEF JobOK, OpenJob, HandJob
    <2>2. TabJob(job[v])' BY <1>1, <2>0 DEF JobOK, TabJob, HoldsTab
    <2>3. FireJob(job[v])' BY <1>2, <2>0 DEF JobOK, FireJob
    <2>4. HeaderJob(job[v])' BY <2>0 DEF JobOK, HeaderJob
    <2>5. LineJob(job[v])'
      <3> SUFFICES ASSUME job[v].pc = "line" PROVE LineJob(job[v])' BY <2>0 DEF LineJob
      <3>1. LineJob(job[v]) /\ job[v].kot \in Kots BY <2>0 DEF JobOK, LineJob
      <3>2. CASE job[v].kot # k BY <2>0, <3>1, <3>2 DEF LineJob
      <3>3. CASE job[v].kot = k
        <4>1. PICK l \in Lines : /\ job[v].set = {l} /\ job[v].lines[l] = kot[k].line[l]
                                 /\ Dead(job[v].lines[l]) => Dead(job[v].to)
          BY <3>1, <3>3 DEF LineJob
        <4>2. kot'[k].line[l] = kot[k].line[l] BY <3>3, <4>1
        <4>3. \A x \in Lines : Dead(kot[k].line[x]) => Dead(kot'[k].line[x]) BY <1>2 DEF Live, Dead
        <4> QED BY <1>1, <2>0, <3>1, <3>3, <4>1, <4>2, <4>3 DEF LineJob
      <3> QED BY <3>2, <3>3
    <2> QED BY <2>1, <2>2, <2>3, <2>4, <2>5 DEF JobOK
  <1>4. Jobs' /\ job' \in [Workers -> Job] BY <1>3, JobsAfter
  <1>5. HallType' BY <1>4 DEF HallInv, HallType
  <1>6. Rooms' BY DEF HallInv, Rooms, TabsKnown, Seated, HeldAt
  <1>7. KotsKnown' BY <1>1, <1>2 DEF HallInv, Kitchen, KotsKnown
  <1>8. CancelledKots'
    <2> SUFFICES ASSUME NEW m \in Kots, kot'[m].status = "cancelled", kot[m].tab \in Tabs, tab[kot[m].tab].status # "cancelled", NEW l \in Lines
                 PROVE  ~Live(m, l)'
      BY <1>1 DEF CancelledKots
    <2>1. CASE kot[m].status = "cancelled" BY <1>2, <2>1 DEF HallInv, Kitchen, CancelledKots
    <2>2. CASE kot[m].status # "cancelled" BY <2>2
    <2> QED BY <2>1, <2>2
  <1>9. LiveOnce' BY <1>2 DEF HallInv, Kitchen, LiveOnce
  <1>10. Headers'
    <2>1. \A m \in Kots \ {k} : HeaderIs(m)' <=> HeaderIs(m) BY DEF HeaderIs, Live
    <2> QED BY <1>1, <2>1 DEF HallInv, Kitchen, Headers
  <1> QED BY <1>4, <1>5, <1>6, <1>7, <1>8, <1>9, <1>10 DEF HallInv, Kitchen

\* The order of the four stages of cooking.
LEMMA Stages ==
  /\ Priority["pending"] = 0 /\ Priority["preparing"] = 1 /\ Priority["ready"] = 2 /\ Priority["served"] = 3
  /\ KotTransitions["pending"] = {"preparing", "cancelled"} /\ KotTransitions["preparing"] = {"ready", "cancelled"}
  /\ KotTransitions["ready"] = {"served", "cancelled"} /\ KotTransitions["served"] = {} /\ KotTransitions["cancelled"] = {}
  BY DEF Priority, KotTransitions

\* PromoteLine: a dead line stays, a live one is cancelled or not behind.
LEMMA Promotion ==
  ASSUME NEW line \in KotStatuses \cup {"none"}, NEW to \in KotStatuses
  PROVE  /\ PromoteLine(line, to) \in KotStatuses \cup {"none"}
         /\ Dead(line) => PromoteLine(line, to) = line
         /\ ~Dead(line) /\ to = "cancelled" => PromoteLine(line, to) = "cancelled"
         /\ ~Dead(line) /\ to # "cancelled" => PromoteLine(line, to) = IF Priority[line] < Priority[to] THEN to ELSE line
  BY Stages DEF PromoteLine, Dead, KotStatuses

\* derive_kot_header_status: the slowest of the live lines.
LEMMA Derivation ==
  ASSUME NEW lines \in [Lines -> KotStatuses \cup {"none"}]
  PROVE  LET h == DeriveKotHeaderStatus(lines)
             active == {l \in Lines : ~Dead(lines[l])} IN
         /\ h \in KotStatuses
         /\ h = "cancelled" <=> active = {}
         /\ h # "cancelled" => /\ \A l \in active : Priority[lines[l]] >= Priority[h]
                               /\ \E l \in active : lines[l] = h
  <1> DEFINE h == DeriveKotHeaderStatus(lines)
             active == {l \in Lines : ~Dead(lines[l])}
             values == {lines[l] : l \in Lines} \ {"none", "cancelled"}
             First(x) == \A y \in values : Priority[x] <= Priority[y]
  <1>1. values \subseteq {"pending", "preparing", "ready", "served"} BY DEF KotStatuses
  <1>2. \A x \in values : \E l \in active : lines[l] = x BY DEF Dead
  <1>3. \A l \in active : lines[l] \in values BY DEF Dead
  <1>4. CASE values = {}
    <2>1. h = "cancelled" BY <1>4 DEF DeriveKotHeaderStatus
    <2> QED BY <1>3, <1>4, <2>1 DEF KotStatuses
  <1>5. CASE values # {}
    <2> HIDE DEF values, active
    <2>1. \E x \in values : First(x)
      <3>1. CASE "pending" \in values BY <1>1, <3>1, Stages
      <3>2. CASE "pending" \notin values /\ "preparing" \in values BY <1>1, <3>2, Stages
      <3>3. CASE "pending" \notin values /\ "preparing" \notin values /\ "ready" \in values BY <1>1, <3>3, Stages
      <3>4. CASE "pending" \notin values /\ "preparing" \notin values /\ "ready" \notin values
        <4>1. values = {"served"} BY <1>1, <1>5, <3>4
        <4> QED BY <4>1, Stages
      <3> QED BY <3>1, <3>2, <3>3, <3>4
    <2>2. h = CHOOSE x \in values : First(x) BY <1>5 DEF DeriveKotHeaderStatus, values
    <2> HIDE DEF First, h
    <2>3. h \in values /\ First(h) BY <2>1, <2>2
    <2>4. h \in KotStatuses /\ h # "cancelled" BY <1>1, <2>3 DEF KotStatuses
    <2>5. \A l \in active : Priority[lines[l]] >= Priority[h] BY <1>1, <1>3, <2>3, Stages DEF First
    <2>6. \E l \in active : lines[l] = h BY <1>2, <2>3
    <2> QED BY <2>4, <2>5, <2>6 DEF h, active
  <1> QED BY <1>4, <1>5

\* update_kot_order_status: every line that is not ahead goes along, so that
\* the slowest of them is where the order is said to be.
LEMMA HeaderCommit == ASSUME HallInv, NEW w \in Workers, UpdateKotOrderStatus(w) PROVE HallInv'
  <1> PICK k : k = job[w].kot OBVIOUS
  <1> DEFINE j == job[w]
             to == j.to
             old == kot[k].line
             new == [l \in Lines |-> IF l \in Rewritten(j) THEN PromoteLine(j.lines[l], j.to) ELSE old[l]]
  <1>0. /\ j \in Job /\ JobOK(j) /\ Done(w) /\ UNCHANGED <<table, tab, lineOf, touched>> /\ j.pc = "header"
        /\ \A l \in Rewritten(j) : ~LineLocked(k, l)
        /\ kot' = [kot EXCEPT ![k].status = to, ![k].line = new]
        /\ strayed' = IF old # j.lines THEN strayed \cup {k} ELSE strayed
    BY DEF HallInv, HallType, Jobs, UpdateKotOrderStatus
  <1>1. /\ k \in Kots /\ kot[k].tab \in Tabs /\ j.lines = old /\ j.seen = kot[k].status
        /\ to \in KotTransitions[kot[k].status] \cup {kot[k].status}
    BY <1>0 DEF JobOK, HeaderJob
  <1>2. kot[k] \in KotRow /\ kot[k].status \in KotStatuses /\ old \in [Lines -> KotStatuses \cup {"none"}] BY <1>1 DEF HallInv, HallType, KotRow
  <1>3. /\ to \in KotStatuses
        /\ to # "cancelled" => /\ kot[k].status # "cancelled"
                               /\ to = kot[k].status \/ Priority[to] = Priority[kot[k].status] + 1
    BY <1>1, <1>2, Stages DEF KotStatuses
  <1>4. new = [l \in Lines |-> PromoteLine(old[l], to)]
    BY <1>1 DEF Rewritten
  <1>5. strayed' = strayed BY <1>0, <1>1
  <1>6. \A v \in Workers \ {w} : job[v].kot = k => job[v].pc # "header"
    BY <1>0, OthersOK DEF Clash
  <1>7. \A v \in Workers \ {w} : job[v].kot = k /\ job[v].pc = "line" => \A l \in job[v].set : l \in Lines /\ new[l] = old[l]
    <2> SUFFICES ASSUME NEW v \in Workers \ {w}, job[v].kot = k, job[v].pc = "line", NEW l \in job[v].set PROVE l \in Lines /\ new[l] = old[l] OBVIOUS
    <2>1. JobOK(job[v]) BY <1>0, OthersOK
    <2>2. job[v].set = {l} /\ l \in Lines BY <2>1 DEF JobOK, LineJob
    <2>3. LineLocked(k, l) BY <2>2 DEF LineLocked
    <2> QED BY <1>0, <2>2, <2>3
  <1> HIDE DEF new, old, to, j
  <1>8. \A l \in Lines : new[l] = PromoteLine(old[l], to) /\ old[l] \in KotStatuses \cup {"none"} BY <1>2, <1>4
  <1>9. new \in [Lines -> KotStatuses \cup {"none"}] BY <1>3, <1>4, <1>8, Promotion
  <1>10. kot' \in [Kots -> KotRow] /\ kot'[k].tab = kot[k].tab /\ kot'[k].status = to /\ kot'[k].line = new /\ \A m \in Kots \ {k} : kot'[m] = kot[m]
    BY <1>0, <1>1, <1>3, <1>9 DEF HallInv, HallType, KotRow
  <1>11. \A l \in Lines : Live(k, l) <=> ~Dead(old[l]) BY DEF Live, Dead, old
  <1>12. \A l \in Lines : Live(k, l)' <=> ~Dead(new[l]) BY <1>10 DEF Live, Dead
  <1>13. \A l \in Lines : /\ Dead(old[l]) => Dead(new[l])
                          /\ to = "cancelled" => Dead(new[l])
                          /\ ~Dead(old[l]) /\ to # "cancelled" => new[l] = IF Priority[old[l]] < Priority[to] THEN to ELSE old[l]
    BY <1>3, <1>8, Promotion DEF Dead
  <1>14. tab[kot[k].tab].status # "cancelled" /\ k \notin strayed => HeaderIs(k)'
    <2> SUFFICES ASSUME tab[kot[k].tab].status # "cancelled", k \notin strayed PROVE HeaderIs(k)' OBVIOUS
    <2>1. CASE to = "cancelled" BY <1>10, <1>12, <1>13, <2>1 DEF HeaderIs
    <2>2. CASE to # "cancelled"
      <3>1. HeaderIs(k) BY <1>1 DEF HallInv, Kitchen, Headers
      <3>2. PICK l \in Lines : ~Dead(old[l]) /\ old[l] = kot[k].status BY <1>3, <1>11, <2>2, <3>1 DEF HeaderIs, old
      <3>3. to = old[l] \/ Priority[old[l]] < Priority[to] BY <1>2, <1>3, <2>2, <3>2, Stages DEF KotStatuses
      <3>4. new[l] = to /\ ~Dead(new[l]) BY <1>3, <1>13, <2>2, <3>2, <3>3 DEF Dead, KotStatuses
      <3>5. \A x \in Lines : ~Dead(new[x]) => Priority[new[x]] >= Priority[to]
        <4> SUFFICES ASSUME NEW x \in Lines, ~Dead(new[x]) PROVE Priority[new[x]] >= Priority[to] OBVIOUS
        <4>1. ~Dead(old[x]) /\ new[x] = IF Priority[old[x]] < Priority[to] THEN to ELSE old[x] BY <1>13, <2>2
        <4>2. Priority[old[x]] \in Nat /\ Priority[to] \in Nat BY <1>3, <1>8, <2>2, <4>1, Stages DEF Dead, KotStatuses
        <4> QED BY <4>1, <4>2
      <3> QED BY <1>10, <1>12, <2>2, <3>4, <3>5 DEF HeaderIs
    <2> QED BY <2>1, <2>2
  <1>15. KotUpdate(w, k)
    <2>1. \A l \in Lines : Live(k, l)' => Live(k, l) BY <1>11, <1>12, <1>13
    <2>2. \A v \in Workers \ {w} : job[v].kot = k => /\ job[v].pc # "header"
                                                     /\ job[v].pc = "line" => \A l \in job[v].set : kot'[k].line[l] = kot[k].line[l]
      BY <1>6, <1>7, <1>10 DEF old
    <2>3. kot'[k].status = "cancelled" => \A l \in Lines : ~Live(k, l)' BY <1>10, <1>12, <1>13
    <2>4. strayed \subseteq strayed' /\ strayed' \subseteq Kots BY <1>5 DEF HallInv, HallType
    <2> QED BY <1>0, <1>1, <1>5, <1>10, <1>14, <2>1, <2>2, <2>3, <2>4 DEF KotUpdate
  <1> QED BY <1>15, KotUpdateStep DEF KotUpdate

\* update_kot_order_line_status: with a reading that is still true, the order
\* shows the slowest of its lines.
LEMMA LineCommit == ASSUME HallInv, NEW w \in Workers, UpdateKotOrderLineStatus(w) PROVE HallInv'
  <1> PICK k : k = job[w].kot OBVIOUS
  <1> DEFINE j == job[w]
             old == kot[k].line
             after == [l \in Lines |-> IF l \in j.set THEN j.to ELSE j.lines[l]]
             new == [l \in Lines |-> IF l \in j.set THEN j.to ELSE old[l]]
             derived == DeriveKotHeaderStatus(after)
             status == IF derived = j.seen THEN kot[k].status ELSE derived
  <1>0. /\ j \in Job /\ JobOK(j) /\ Done(w) /\ UNCHANGED <<table, tab, lineOf, touched>> /\ j.pc = "line" /\ ~KotLocked(k)
        /\ kot' = [kot EXCEPT ![k].line = new, ![k].status = status]
        /\ strayed' = IF old # j.lines \/ kot[k].status # j.seen THEN strayed \cup {k} ELSE strayed
    BY DEF HallInv, HallType, Jobs, UpdateKotOrderLineStatus
  <1>1. /\ k \in Kots /\ kot[k].tab \in Tabs /\ j.to \in KotStatuses /\ j.seen \in KotStatuses
        /\ j.lines \in [Lines -> KotStatuses \cup {"none"}]
        /\ \A l \in Lines : Dead(j.lines[l]) => Dead(old[l])
    BY <1>0 DEF JobOK, LineJob
  <1>1a. PICK x \in Lines : j.set = {x} /\ j.lines[x] = old[x] /\ (Dead(old[x]) => Dead(j.to))
    BY <1>0 DEF JobOK, LineJob
  <1>2. kot[k] \in KotRow /\ kot[k].status \in KotStatuses /\ old \in [Lines -> KotStatuses \cup {"none"}] BY <1>1 DEF HallInv, HallType, KotRow
  <1>3. after \in [Lines -> KotStatuses \cup {"none"}] /\ new \in [Lines -> KotStatuses \cup {"none"}] BY <1>1, <1>2
  <1>4. \A l \in Lines : (Dead(old[l]) => Dead(new[l])) /\ (Dead(after[l]) => Dead(new[l]))
    BY <1>1, <1>1a
  <1>5. old = j.lines => after = new OBVIOUS
  <1>6. \A v \in Workers \ {w} : job[v].kot = k => job[v].pc # "header" BY <1>0 DEF KotLocked
  <1>7. \A v \in Workers \ {w} : job[v].kot = k /\ job[v].pc = "line" => \A l \in job[v].set : new[l] = old[l]
    <2> SUFFICES ASSUME NEW v \in Workers \ {w}, job[v].kot = k, job[v].pc = "line", NEW l \in job[v].set PROVE new[l] = old[l] OBVIOUS
    <2>1. JobOK(job[v]) /\ ~Clash(job[v], j) BY <1>0, OthersOK
    <2>2. job[v].set = {l} /\ l \in Lines BY <2>1 DEF JobOK, LineJob
    <2>3. l # x BY <1>0, <1>1a, <2>1, <2>2 DEF Clash
    <2> QED BY <1>1a, <2>2, <2>3
  <1>8. /\ derived \in KotStatuses
        /\ derived = "cancelled" <=> \A l \in Lines : Dead(after[l])
        /\ derived # "cancelled" => /\ \A l \in Lines : ~Dead(after[l]) => Priority[after[l]] >= Priority[derived]
                                    /\ \E l \in Lines : ~Dead(after[l]) /\ after[l] = derived
    <2> HIDE DEF after
    <2> QED BY <1>3, Derivation
  <1>9. status \in KotStatuses /\ (status = "cancelled" => kot[k].status = "cancelled" \/ derived = "cancelled")
        /\ (kot[k].status = j.seen => status = derived)
    BY <1>2, <1>8
  <1> HIDE DEF new, old, j, after, derived, status
  <1>10. /\ kot' \in [Kots -> KotRow] /\ kot'[k].tab = kot[k].tab /\ kot'[k].status = status /\ kot'[k].line = new
         /\ \A m \in Kots \ {k} : kot'[m] = kot[m]
    BY <1>0, <1>1, <1>3, <1>9 DEF HallInv, HallType, KotRow
  <1>11. \A l \in Lines : Live(k, l) <=> ~Dead(old[l]) BY DEF Live, Dead, old
  <1>12. \A l \in Lines : Live(k, l)' <=> ~Dead(new[l]) BY <1>10 DEF Live, Dead
  <1>13. k \notin strayed' => HeaderIs(k)'
    <2> SUFFICES ASSUME k \notin strayed' PROVE HeaderIs(k)' OBVIOUS
    <2>1. old = j.lines /\ status = derived /\ after = new BY <1>0, <1>5, <1>9
    <2> QED BY <1>8, <1>10, <1>12, <2>1 DEF HeaderIs
  <1>14. KotUpdate(w, k)
    <2>1. \A l \in Lines : Live(k, l)' => Live(k, l) BY <1>4, <1>11, <1>12
    <2>2. \A v \in Workers \ {w} : job[v].kot = k => /\ job[v].pc # "header"
                                                     /\ job[v].pc = "line" => \A l \in job[v].set : kot'[k].line[l] = kot[k].line[l]
      BY <1>6, <1>7, <1>10 DEF old
    <2>3. kot'[k].status = "cancelled" => kot[k].status = "cancelled" \/ \A l \in Lines : ~Live(k, l)' 
      BY <1>4, <1>8, <1>9, <1>10, <1>12
    <2>4. strayed \subseteq strayed' /\ strayed' \subseteq Kots BY <1>0, <1>1 DEF HallInv, HallType
    <2> QED BY <1>0, <1>1, <1>10, <1>13, <2>1, <2>2, <2>3, <2>4 DEF KotUpdate
  <1> QED BY <1>14, KotUpdateStep DEF KotUpdate

-----------------------------------------------------------------------------
\* Every step of the hall keeps its invariant.
LEMMA HallStep == ASSUME HallInv, HallNext PROVE HallInv'
  <1>1. CASE EditTables BY <1>1, EditTablesStep DEF EditTables
  <1>2. CASE AddLines BY <1>2, AddLinesStep DEF AddLines
  <1>3. ASSUME NEW w \in Workers, TableWork(w) PROVE HallInv' BY <1>3, HandRead, TableCommit DEF TableWork
  <1>4. ASSUME NEW w \in Workers, TabWork(w) PROVE HallInv'
    BY <1>4, OpenReadStep, BillReadStep, CancelReadStep, OpenCountStep, OpenTabStep,
       TableCommit, CompleteTabStep, CancelTableStep, CancelTabStep, Zenon
       DEF TabWork
  <1>5. ASSUME NEW w \in Workers, KitchenWork(w) PROVE HallInv'
    <2>1. CASE DeadlockVictim(w) BY <2>1, GivingUp DEF DeadlockVictim
    <2> QED BY <1>5, <2>1, FireReadStep, HeaderReadStep, LineReadStep, FireStep, HeaderCommit, LineCommit, Zenon DEF KitchenWork
  <1> QED BY <1>1, <1>2, <1>3, <1>4, <1>5 DEF HallNext

\* An empty hall.
LEMMA HallStart == ASSUME RestaurantInit PROVE HallInv
  <1> USE RestaurantAssumption DEF RestaurantInit
  <1>1. \A w \in Workers : job[w] = Idle OBVIOUS
  <1>2. NoKot \in KotRow /\ NoKot.tab = None /\ \A l \in Lines : NoKot.line[l] = "none" BY DEF NoKot, KotRow, KotStatuses
  <1>3. HallType BY <1>2, IdleJob DEF HallType, TabRow
  <1>4. Jobs BY <1>1, IdleJob, Zenon DEF Jobs
  <1>5. Rooms BY DEF Rooms, TabsKnown, Seated, HeldAt
  <1>6. Kitchen BY <1>2 DEF Kitchen, KotsKnown, CancelledKots, LiveOnce, Headers, Live
  <1> QED BY <1>3, <1>4, <1>5, <1>6 DEF HallInv

\* The invariant of the restaurant, hall and menu together.
LEMMA RestaurantAlways == RestaurantSpec => [](HallInv /\ MenuInv)
  <1>1. RestaurantInit => HallInv /\ MenuInv BY HallStart, MenuStart DEF RestaurantInit
  <1>2. HallInv /\ MenuInv /\ [RestaurantNext]_<<menuVars, hallVars>> => (HallInv /\ MenuInv)'
    <2> SUFFICES ASSUME HallInv, MenuInv, [RestaurantNext]_<<menuVars, hallVars>> PROVE HallInv' /\ MenuInv' OBVIOUS
    <2>1. ASSUME UNCHANGED hallVars PROVE HallInv'
      <3>0. UNCHANGED <<table, tab, lineOf, kot, job, touched, strayed>> BY <2>1 DEF hallVars
      <3>1. HallType' BY <3>0 DEF HallInv, HallType
      <3>2. \A v \in Workers : JobOK(job[v])' BY <3>0, TablesOnly
      <3>3. Jobs' BY <3>0, <3>2 DEF HallInv, Jobs, Clash
      <3>4. Rooms' BY <3>0 DEF HallInv, Rooms, TabsKnown, Seated, HeldAt
      <3>5. Kitchen' BY <3>0, KitchenQuiet
      <3> QED BY <3>1, <3>3, <3>4, <3>5 DEF HallInv
    <2>2. HallInv' BY <2>1, HallStep DEF RestaurantNext
    <2>3. MenuInv' BY MenuStep DEF RestaurantNext
    <2> QED BY <2>2, <2>3
  <1> QED BY <1>1, <1>2, PTL DEF RestaurantSpec

\* A set with at most one member has at most one.
LEMMA AtMostOne == \A S : (\A x, y \in S : x = y) => (S # {} => Cardinality(S) = 1) /\ Cardinality(S) <= 1
  <1> SUFFICES ASSUME NEW S, \A x, y \in S : x = y PROVE (S # {} => Cardinality(S) = 1) /\ Cardinality(S) <= 1 OBVIOUS
  <1>1. CASE S = {} BY <1>1, FS_EmptySet
  <1>2. CASE S # {}
    <2>1. PICK x \in S : TRUE BY <1>2
    <2>2. S = {x} BY <2>1
    <2>3. Cardinality({x}) = 1 BY FS_Singleton, Zenon
    <2> QED BY <2>2, <2>3
  <1> QED BY <1>1, <1>2

\* A table has at most one open tab, and shows it, however requests interleave;
\* the marked tables are excepted (open_tab, cancel_sale, transition_table_status).
THEOREM AlwaysSeatedAlone == RestaurantSpec => []SeatedAlone
  <1>1. HallInv => SeatedAlone BY AtMostOne DEF HallInv, Rooms, Seated, SeatedAlone
  <1> QED BY <1>1, RestaurantAlways, PTL

\* No line is cooked twice (fire_tab_to_kitchen, update_kot_order_line_status).
THEOREM AlwaysCookedOnce == RestaurantSpec => []CookedOnce
  <1>1. HallInv => CookedOnce
    <2> SUFFICES ASSUME HallInv, NEW l \in Lines
                 PROVE  Cardinality({k \in Kots : kot[k].line[l] \notin {"none", "cancelled"}}) <= 1 BY DEF CookedOnce
    <2> DEFINE S == {k \in Kots : kot[k].line[l] \notin {"none", "cancelled"}}
    <2>1. \A x, y \in S : x = y BY DEF HallInv, Kitchen, LiveOnce, Live
    <2> HIDE DEF S
    <2>2. Cardinality(S) <= 1 BY <2>1, AtMostOne
    <2> QED BY <2>2 DEF S
  <1> QED BY <1>1, RestaurantAlways, PTL

\* The kitchen display shows the slowest line of an order, as long as no two
\* requests crossed on it (derive_kot_header_status, update_kot_order_status).
THEOREM HeaderAlwaysFollowsLines == RestaurantSpec => []HeaderFollowsLines
  <1>1. HallInv => HeaderFollowsLines BY DEF HallInv, Kitchen, Headers, HeaderIs, HeaderFollowsLines, KotsKnown, Live
  <1> QED BY <1>1, RestaurantAlways, PTL

-----------------------------------------------------------------------------
(* The lines of a sale and the payments that settle it.                     *)

\* What rounding to a cent, either way, does to tenths of a cent and to
\* hundredths: the half-even way gives no more than the half-up way.
LEMMA Halves ==
  /\ \A n \in Nat : /\ RoundHalfUp(n, 10) \in Nat /\ RoundHalfEven(n, 10) \in Nat
                    /\ RoundHalfEven(n, 10) <= RoundHalfUp(n, 10)
  /\ \A n \in Int : RoundHalfUp(n, 100) \in Int
  /\ \A n \in Nat, s \in Nat : RoundHalfUp(n, 100) \in Nat /\ (n <= 100 * s => RoundHalfUp(n, 100) <= s)
  <1>1. \A n \in Nat : RoundHalfUp(n, 10) \in Nat /\ RoundHalfEven(n, 10) \in Nat /\ RoundHalfEven(n, 10) <= RoundHalfUp(n, 10)
    BY DEF RoundHalfUp, RoundHalfEven
  <1>2. \A n \in Int : RoundHalfUp(n, 100) \in Int
    BY DEF RoundHalfUp
  <1>3. \A n \in Nat, s \in Nat : RoundHalfUp(n, 100) \in Nat /\ (n <= 100 * s => RoundHalfUp(n, 100) <= s)
    BY DEF RoundHalfUp
  <1> QED
    BY <1>1, <1>2, <1>3

\* A rounded share is a whole number.
LEMMA RoundedQuotient == \A n \in Nat, d \in Nat \ {0} : RoundHalfEven(n, d) \in Int
  <1> SUFFICES ASSUME NEW n \in Nat, NEW d \in Nat \ {0} PROVE RoundHalfEven(n, d) \in Int
    OBVIOUS
  <1>1. n \div d \in Int
    OBVIOUS
  <1> QED
    BY <1>1 DEF RoundHalfEven

\* What the arithmetic of percentages rests on.
LEMMA ProductsOfNaturals == \A a, b \in Nat : a * b \in Nat /\ (b <= 100 => a * b <= 100 * a)
  OBVIOUS

\* A total of whole numbers is one.
LEMMA TotalType ==
  ASSUME NEW S, IsFiniteSet(S), NEW f, DOMAIN f = S, NEW V, V = Int \/ V = Nat, \A i \in S : f[i] \in V
  PROVE  Total(f) \in V
  BY SumType DEF Total

\* calculate_line_total: whole cents that add up, and a discount within the
\* line wherever the percentage is at most 100 and the amount within the line.
LEMMA CalculatedLine ==
  ASSUME NEW line \in SaleLineInput, NEW discount, discount.pct \in Nat, discount.amount \in Int
  PROVE  LET r == CalculateLineTotal(line, discount) IN
         /\ r.subtotal \in Nat /\ r.discount \in Nat /\ r.tax \in Int /\ r.total = r.subtotal - r.discount + r.tax
         /\ discount.pct <= 100 /\ discount.amount <= LineSubtotal(line) => r.discount <= r.subtotal
  <1> DEFINE subtotal == RoundHalfUp(line.exact, 10)
             part == RoundHalfUp(subtotal * discount.pct, 100)
             effective == Most(discount.amount, part)
             tax == RoundHalfUp((subtotal - effective) * line.tax, 100)
  <1>0. line.exact \in Nat /\ line.tax \in Nat
    BY PricingAssumption DEF SaleLineInput
  <1>1. subtotal \in Nat /\ LineSubtotal(line) \in Nat /\ LineSubtotal(line) <= subtotal
    BY <1>0, Halves DEF LineSubtotal
  <1> HIDE DEF subtotal
  <1>2. part \in Nat /\ (discount.pct <= 100 => part <= subtotal)
    <2> DEFINE n == subtotal * discount.pct
    <2>1. n \in Nat /\ (discount.pct <= 100 => n <= 100 * subtotal)
      BY <1>1, ProductsOfNaturals
    <2> HIDE DEF n
    <2> QED
      BY <1>1, <2>1, Halves DEF n
  <1> HIDE DEF part
  <1>3. effective \in Nat /\ (discount.amount <= subtotal /\ part <= subtotal => effective <= subtotal)
    BY <1>1, <1>2 DEF Most
  <1> HIDE DEF effective
  <1>4. tax \in Int
    <2>1. (subtotal - effective) * line.tax \in Int
      BY <1>0, <1>1, <1>3
    <2> QED
      BY <2>1, Halves
  <1> HIDE DEF tax
  <1>5. CalculateLineTotal(line, discount) = [subtotal |-> subtotal, discount |-> effective, tax |-> tax, total |-> subtotal - effective + tax]
    BY DEF CalculateLineTotal, subtotal, part, effective, tax
  <1> QED
    BY <1>1, <1>2, <1>3, <1>4, <1>5

\* The share of a fixed amount is within its line: also the last one, which
\* takes what the others leave.
LEMMA ShareFits ==
  ASSUME NEW k \in Nat, NEW lines \in [1 .. k -> SaleLineInput], NEW scheme \in DiscountScheme, SchemeApplies(lines, scheme),
         scheme.type = "fixed_amount", NEW i \in EligibleLines(lines, scheme)
  PROVE  Share(lines, scheme, i) \in Int /\ Share(lines, scheme, i) <= LineSubtotal(lines[i])
  <1> DEFINE eligible == EligibleLines(lines, scheme)
             subtotal == EligibleSubtotal(lines, scheme)
             total == Least(scheme.value, subtotal)
             Part(j) == RoundHalfEven(total * LineSubtotal(lines[j]), subtotal)
             others == Total([j \in eligible \ {i} |-> Part(j)])
             part == IF i = Max(eligible) THEN total - others ELSE Part(i)
  <1>1. \A j \in 1 .. k : lines[j] \in SaleLineInput /\ LineSubtotal(lines[j]) \in Nat
    BY Halves, PricingAssumption DEF LineSubtotal, SaleLineInput
  <1>2. eligible \in SUBSET (1 .. k) /\ IsFiniteSet(eligible)
    <2>1. eligible \in SUBSET (1 .. k)
      BY DEF EligibleLines
    <2>2. IsFiniteSet(1 .. k)
      BY FS_Interval
    <2> HIDE DEF eligible
    <2> QED
      BY <2>1, <2>2, FS_Subset
  <1> HIDE DEF eligible
  <1>3. subtotal \in Nat
    <2> DEFINE f == [j \in eligible |-> LineSubtotal(lines[j])]
    <2>1. DOMAIN f = eligible /\ \A j \in eligible : f[j] \in Nat
      BY <1>1, <1>2
    <2>2. Total(f) \in Nat
      <3> HIDE DEF f
      <3> QED
        BY <1>2, <2>1, TotalType
    <2> QED
      BY <2>2 DEF EligibleSubtotal, eligible
  <1>4. Cardinality(eligible) > 1 => subtotal > 0
    BY DEF SchemeApplies, eligible
  <1> HIDE DEF subtotal
  <1>5. total \in Nat
    BY <1>3 DEF Least, DiscountScheme
  <1> HIDE DEF total
  <1>6. subtotal > 0 => \A j \in eligible : Part(j) \in Int
    <2> SUFFICES ASSUME subtotal > 0, NEW j \in eligible PROVE Part(j) \in Int
      OBVIOUS
    <2>1. total * LineSubtotal(lines[j]) \in Nat
      BY <1>1, <1>2, <1>5, ProductsOfNaturals
    <2> QED
      BY <1>3, <2>1, RoundedQuotient
  <1>7. CASE eligible = {i}
    <2>1. Max(eligible) = i
      BY <1>2, <1>7 DEF Max
    <2>2. others = 0
      <3>1. eligible \ {i} = {}
        BY <1>7
      <3> QED
        BY <3>1, SumEmpty DEF Total
    <2>3. part \in Int
      BY <1>5, <2>1, <2>2
    <2> QED
      BY <1>1, <1>2, <2>3 DEF Share, Least, eligible, subtotal, total
  <1>8. CASE eligible # {i}
    <2>1. subtotal > 0
      <3>1. PICK j \in eligible : j # i
        BY <1>8 DEF eligible
      <3>2. {i, j} \subseteq eligible /\ Cardinality({i, j}) = 2
        <4>1. IsFiniteSet({i}) /\ Cardinality({i}) = 1
          BY FS_Singleton
        <4>2. Cardinality({i} \cup {j}) = 1 + 1
          BY <3>1, <4>1, FS_AddElement
        <4>3. {i} \cup {j} = {i, j}
          OBVIOUS
        <4>4. i \in eligible
          BY DEF eligible
        <4>5. {i, j} \subseteq eligible
          BY <3>1, <4>4
        <4>6. Cardinality({i, j}) = 2
          <5>1. Cardinality({i, j}) = 1 + 1
            BY <4>2, <4>3, Zenon
          <5> QED
            BY <5>1
        <4> QED
          BY <4>5, <4>6
      <3>3. Cardinality({i, j}) <= Cardinality(eligible) /\ Cardinality(eligible) \in Nat
        BY <1>2, <3>2, FS_Subset, FS_CardinalityType
      <3> QED
        BY <1>4, <3>2, <3>3
    <2>2. others \in Int
      <3> DEFINE f == [j \in eligible \ {i} |-> Part(j)]
      <3>1. \A j \in eligible \ {i} : f[j] \in Int
        BY <1>6, <2>1
      <3>2. IsFiniteSet(eligible \ {i}) /\ DOMAIN f = eligible \ {i}
        BY <1>2, FS_Subset
      <3> HIDE DEF f
      <3>3. Total(f) \in Int
        BY <3>1, <3>2, TotalType
      <3> QED
        BY <3>3 DEF f
    <2>3. part \in Int
      <3>1. i \in eligible
        BY DEF eligible
      <3> QED
        BY <1>5, <1>6, <2>1, <2>2, <3>1
    <2> QED
      BY <1>1, <1>2, <2>3 DEF Share, Least, eligible, subtotal, total
  <1> QED
    BY <1>7, <1>8

\* What a discount typed in may be.
LEMMA TypedIn ==
  \A d \in [pct : 0 .. 100, amount : Nat], s \in Nat :
    d.pct \in Nat /\ d.amount \in Int /\ (d = NoDiscount => d.pct <= 100 /\ d.amount <= s)
  <1> SUFFICES ASSUME NEW d \in [pct : 0 .. 100, amount : Nat], NEW s \in Nat
               PROVE  d.pct \in Nat /\ d.amount \in Int /\ (d = NoDiscount => d.pct <= 100 /\ d.amount <= s)
    OBVIOUS
  <1>1. d.pct \in 0 .. 100 /\ d.amount \in Nat
    OBVIOUS
  <1>2. d = NoDiscount => d.amount = 0
    BY DEF NoDiscount
  <1>3. \A x \in 0 .. 100 : x \in Nat /\ x <= 100
    OBVIOUS
  <1>4. \A x \in Nat : x \in Int /\ 0 <= s
    OBVIOUS
  <1> QED
    BY <1>1, <1>2, <1>3, <1>4

\* merge_line_discount_inputs: a scheme gives a line no more than the line is worth.
LEMMA LineDiscount ==
  ASSUME NEW k \in Nat, NEW lines \in [1 .. k -> SaleLineInput], NEW scheme \in DiscountScheme, SchemeApplies(lines, scheme),
         NEW i \in 1 .. k
  PROVE  LET d == MergeLineDiscount(lines, scheme, i) IN
         /\ d.pct \in Nat /\ d.amount \in Int
         /\ lines[i].manual = NoDiscount /\ (scheme.type = "percentage" => scheme.value <= 100) =>
              d.pct <= 100 /\ d.amount <= LineSubtotal(lines[i])
  <1>1. lines[i] \in SaleLineInput /\ lines[i].manual \in [pct : 0 .. 100, amount : Nat] /\ LineSubtotal(lines[i]) \in Nat
    BY Halves, PricingAssumption DEF LineSubtotal, SaleLineInput
  <1>2. CASE i \notin EligibleLines(lines, scheme)
    <2>1. MergeLineDiscount(lines, scheme, i) = lines[i].manual
      BY <1>2 DEF MergeLineDiscount
    <2>2. PICK d \in [pct : 0 .. 100, amount : Nat] : lines[i].manual = d
      BY <1>1
    <2>3. d.pct \in Nat /\ d.amount \in Int /\ (d = NoDiscount => d.pct <= 100 /\ d.amount <= LineSubtotal(lines[i]))
      BY <1>1, TypedIn
    <2> QED
      BY <2>1, <2>2, <2>3
  <1>3. CASE i \in EligibleLines(lines, scheme) /\ scheme.type = "percentage"
    BY <1>1, <1>3 DEF MergeLineDiscount, DiscountScheme
  <1>4. CASE i \in EligibleLines(lines, scheme) /\ scheme.type # "percentage"
    <2>1. scheme.type = "fixed_amount"
      BY <1>4 DEF EligibleLines, DiscountScheme
    <2>2. Share(lines, scheme, i) \in Int /\ Share(lines, scheme, i) <= LineSubtotal(lines[i])
      BY <1>4, <2>1, ShareFits
    <2> QED
      BY <1>1, <1>4, <2>2 DEF MergeLineDiscount, FixedShare
  <1> QED
    BY <1>2, <1>3, <1>4

\* The fields of a bill.
BillFields == {"stage", "lines", "scheme", "priced", "due", "payments", "applied", "change"}
\* The inductive invariant of Pricing.
BillInv ==
  /\ DOMAIN bill = BillFields /\ bill = [x \in BillFields |-> bill[x]]
  /\ bill.stage = "priced" => bill.due \in Int
  /\ SchemeFitsLines /\ TenderAccounted

\* Of the priced lines every amount is a whole number of cents.
PricedLine(r) == r.subtotal \in Nat /\ r.discount \in Nat /\ r.tax \in Int /\ r.total = r.subtotal - r.discount + r.tax

\* The totals of the lines add up to the total of the sale.
LEMMA LinesAddUp ==
  ASSUME NEW k \in Nat, NEW priced, DOMAIN priced = 1 .. k, \A i \in 1 .. k : PricedLine(priced[i])
  PROVE  TotalOf(priced) \in Int /\ Total([i \in DOMAIN priced |-> priced[i].total]) = TotalOf(priced)
  <1> DEFINE S == 1 .. k
             sub == [i \in S |-> priced[i].subtotal]
             dis == [i \in S |-> priced[i].discount]
             tax == [i \in S |-> priced[i].tax]
             tot == [i \in S |-> priced[i].total]
             net == [i \in S |-> priced[i].subtotal - priced[i].discount]
  <1>1. IsFiniteSet(S)
    BY FS_Interval
  <1>2. /\ DOMAIN sub = S /\ DOMAIN dis = S /\ DOMAIN tax = S /\ DOMAIN tot = S
        /\ \A i \in S : /\ sub[i] \in Int /\ dis[i] \in Int /\ tax[i] \in Int /\ net[i] \in Int
                        /\ sub[i] = net[i] + dis[i] /\ tot[i] = net[i] + tax[i]
    BY DEF PricedLine
  <1>3. TotalOf(priced) = Total(sub) - Total(dis) + Total(tax)
    BY DEF TotalOf
  <1> HIDE DEF S, sub, dis, tax, tot, net
  <1>4. SumFunctionOnSet(sub, S) = SumFunctionOnSet(net, S) + SumFunctionOnSet(dis, S)
    BY <1>1, <1>2, SumPlus
  <1>5. SumFunctionOnSet(tot, S) = SumFunctionOnSet(net, S) + SumFunctionOnSet(tax, S)
    BY <1>1, <1>2, SumPlus
  <1>6. SumFunctionOnSet(net, S) \in Int /\ SumFunctionOnSet(dis, S) \in Int /\ SumFunctionOnSet(tax, S) \in Int
    BY <1>1, <1>2, SumType
  <1>7. Total(tot) = TotalOf(priced) /\ TotalOf(priced) \in Int
    BY <1>2, <1>3, <1>4, <1>5, <1>6 DEF Total
  <1> QED
    BY <1>7 DEF tot, S

\* compute_sale_pricing.
LEMMA PricingFits ==
  ASSUME BillInv, NEW k \in 1 .. MaxLines, NEW lines \in [1 .. k -> SaleLineInput], NEW scheme \in DiscountScheme,
         ComputeSalePricing(lines, scheme)
  PROVE  BillInv'
  <1> DEFINE priced == [i \in DOMAIN lines |-> CalculateLineTotal(lines[i], MergeLineDiscount(lines, scheme, i))]
  <1>1. k \in Nat /\ DOMAIN lines = 1 .. k /\ DOMAIN priced = 1 .. k
    BY PricingAssumption
  <1>2. CASE SchemeApplies(lines, scheme)
    <2>1. ASSUME NEW i \in 1 .. k
          PROVE  /\ PricedLine(priced[i])
                 /\ lines[i].manual = NoDiscount /\ (scheme.type = "percentage" => scheme.value <= 100) =>
                      priced[i].discount <= priced[i].subtotal
      <3> DEFINE d == MergeLineDiscount(lines, scheme, i)
      <3>1. /\ d.pct \in Nat /\ d.amount \in Int
            /\ lines[i].manual = NoDiscount /\ (scheme.type = "percentage" => scheme.value <= 100) =>
                 d.pct <= 100 /\ d.amount <= LineSubtotal(lines[i])
        BY <1>1, <1>2, LineDiscount
      <3>2. lines[i] \in SaleLineInput /\ priced[i] = CalculateLineTotal(lines[i], d)
        BY <1>1
      <3> HIDE DEF d, priced
      <3> QED
        BY <3>1, <3>2, CalculatedLine DEF PricedLine
    <2>2. TotalOf(priced) \in Int /\ Total([i \in DOMAIN priced |-> priced[i].total]) = TotalOf(priced)
      <3> HIDE DEF priced
      <3> QED
        BY <1>1, <2>1, LinesAddUp
    <2>3. bill' = [bill EXCEPT !.stage = "priced", !.lines = lines, !.scheme = scheme, !.priced = priced, !.due = TotalOf(priced)]
      BY <1>2 DEF ComputeSalePricing
    <2> HIDE DEF priced
    <2>4. /\ DOMAIN bill' = BillFields /\ bill' = [x \in BillFields |-> bill'[x]]
          /\ bill'.stage = "priced" /\ bill'.lines = lines /\ bill'.scheme = scheme /\ bill'.priced = priced
          /\ bill'.due = TotalOf(priced)
      BY <2>3 DEF BillInv, BillFields
    <2>5. SchemeFitsLines'
      <3>1. (scheme.type = "percentage" => scheme.value <= 100) =>
              \A i \in DOMAIN lines : lines[i].manual = NoDiscount => priced[i].discount \in 0 .. priced[i].subtotal
        BY <1>1, <2>1 DEF PricedLine
      <3> QED
        BY <2>2, <2>4, <3>1 DEF SchemeFitsLines
    <2>6. TenderAccounted'
      BY <2>4 DEF TenderAccounted
    <2> QED
      BY <2>2, <2>4, <2>5, <2>6 DEF BillInv
  <1>3. CASE ~SchemeApplies(lines, scheme)
    <2>1. bill' = [bill EXCEPT !.stage = "refused"]
      BY <1>3 DEF ComputeSalePricing
    <2>2. DOMAIN bill' = BillFields /\ bill' = [x \in BillFields |-> bill'[x]] /\ bill'.stage = "refused"
      BY <2>1 DEF BillInv, BillFields
    <2> QED
      BY <2>2 DEF BillInv, SchemeFitsLines, TenderAccounted
  <1> QED
    BY <1>2, <1>3

\* What is handed over with each row of payments.
Given(payments) == [i \in DOMAIN payments |-> payments[i].amount]
\* And what is kept of it.
KeptOf(due, payments) == [i \in DOMAIN payments |-> Taken(due, payments, i)]

\* What some of the rows hand over is a sum of naturals.
LEMMA TenderedSums ==
  ASSUME NEW n \in Nat, NEW payments \in [1 .. n -> Payment], NEW due \in Int
  PROVE  /\ IsFiniteSet(1 .. n) /\ DOMAIN payments = 1 .. n /\ CashRows(payments) \subseteq 1 .. n
         /\ \A i \in 1 .. n : Given(payments)[i] = payments[i].amount /\ payments[i].amount \in Nat \ {0}
         /\ \A rows \in SUBSET (1 .. n) :
              /\ IsFiniteSet(rows)
              /\ Tendered(payments, rows) = SumFunctionOnSet(Given(payments), rows)
              /\ Tendered(payments, rows) \in Nat
         /\ CashDue(due, payments) \in Int
  <1> DEFINE f == Given(payments)
  <1>1. IsFiniteSet(1 .. n) /\ DOMAIN payments = 1 .. n /\ CashRows(payments) \subseteq 1 .. n
    BY FS_Interval DEF CashRows
  <1>2. \A i \in 1 .. n : f[i] = payments[i].amount /\ payments[i].amount \in Nat \ {0}
    BY <1>1, PricingAssumption DEF Given, Payment
  <1>3. ASSUME NEW rows \in SUBSET (1 .. n)
        PROVE  /\ IsFiniteSet(rows) /\ Tendered(payments, rows) = SumFunctionOnSet(f, rows)
               /\ Tendered(payments, rows) \in Nat
    <2> DEFINE g == [i \in rows |-> payments[i].amount]
    <2>1. IsFiniteSet(rows)
      BY <1>1, FS_Subset
    <2>2. DOMAIN g = rows /\ \A i \in rows : g[i] = f[i] /\ g[i] \in Nat
      BY <1>2
    <2>3. Tendered(payments, rows) = Total(g)
      BY DEF Tendered
    <2> HIDE DEF g, f
    <2>4. SumFunctionOnSet(g, rows) = SumFunctionOnSet(f, rows)
      <3>1. \A i \in rows : g[i] = f[i]
        BY <2>2
      <3> QED
        BY <2>1, <3>1, SumSame
    <2>5. SumFunctionOnSet(g, rows) \in Nat
      BY <2>1, <2>2, SumType
    <2> QED
      BY <2>1, <2>2, <2>3, <2>4, <2>5 DEF Total
  <1>4. CashDue(due, payments) \in Int
    <2>1. DOMAIN payments \ CashRows(payments) \in SUBSET (1 .. n)
      BY <1>1
    <2> QED
      BY <1>3, <2>1 DEF CashDue
  <1> QED
    BY <1>1, <1>2, <1>3, <1>4

\* Cash is used up in the order of its rows: together they keep what is due
\* in cash, or all of it.
LEMMA CashUsedInOrder ==
  ASSUME NEW n \in Nat, NEW payments \in [1 .. n -> Payment], NEW due \in Int, CashDue(due, payments) >= 0
  PROVE  /\ \A i \in 1 .. n : KeptOf(due, payments)[i] = Taken(due, payments, i) /\ Taken(due, payments, i) \in Nat
         /\ SumFunctionOnSet(KeptOf(due, payments), CashRows(payments))
              = Least(Tendered(payments, CashRows(payments)), CashDue(due, payments))
  <1> DEFINE f == Given(payments)
             g == KeptOf(due, payments)
             C == CashRows(payments)
             D == CashDue(due, payments)
             A(k) == {j \in C : j < k}
             F(S) == Tendered(payments, S)
             G(S) == SumFunctionOnSet(g, S)
             Q == {k \in Nat : k <= n => G(A(k + 1)) = Least(F(A(k + 1)), D)}
  <1>1. /\ IsFiniteSet(1 .. n) /\ DOMAIN payments = 1 .. n /\ C \subseteq 1 .. n /\ D \in Int
        /\ \A i \in 1 .. n : f[i] = payments[i].amount /\ payments[i].amount \in Nat \ {0}
        /\ \A S \in SUBSET (1 .. n) : IsFiniteSet(S) /\ F(S) = SumFunctionOnSet(f, S) /\ F(S) \in Nat
    BY TenderedSums
  <1>2. \A k : A(k) \in SUBSET (1 .. n)
    BY <1>1
  <1>3. \A i \in C : Taken(due, payments, i) = Most(0, Least(payments[i].amount, D - F(A(i))))
    BY DEF Taken, CashRows
  <1>4. \A i \in 1 .. n : i \notin C => Taken(due, payments, i) = payments[i].amount
    BY <1>1 DEF Taken, CashRows
  <1>5. \A i \in 1 .. n : g[i] = Taken(due, payments, i) /\ Taken(due, payments, i) \in Nat
    <2> SUFFICES ASSUME NEW i \in 1 .. n PROVE g[i] = Taken(due, payments, i) /\ Taken(due, payments, i) \in Nat
      OBVIOUS
    <2>1. g[i] = Taken(due, payments, i)
      BY <1>1 DEF KeptOf
    <2>2. F(A(i)) \in Nat
      BY <1>1, <1>2
    <2>3. CASE i \in C
      <3> HIDE DEF F, A, D
      <3> QED
        BY <1>1, <1>3, <2>1, <2>2, <2>3 DEF Most, Least
    <2>4. CASE i \notin C
      BY <1>1, <1>4, <2>1, <2>4
    <2> QED
      BY <2>3, <2>4
  <1>c. D \in Int /\ D >= 0 /\ \A j \in C : j \in 1 .. n
    BY <1>1
  <1>s. \A S \in SUBSET (1 .. n) : IsFiniteSet(S) /\ F(S) = SumFunctionOnSet(f, S) /\ F(S) \in Nat
    BY <1>1
  <1>v. \A i \in 1 .. n : f[i] = payments[i].amount /\ f[i] \in Nat /\ g[i] \in Nat
    BY <1>1, <1>5
  <1>w. \A i \in C : g[i] = Most(0, Least(f[i], D - F(A(i))))
    BY <1>3, <1>5, <1>c, <1>v
  <1> HIDE DEF f, g, C, D
  <1>6. 0 \in Q
    <2>0. \A j \in C : ~(j < 0 + 1)
      BY <1>c
    <2>1. A(0 + 1) = {}
      BY <2>0
    <2>2. F({}) = 0
      <3>1. {} \in SUBSET (1 .. n)
        OBVIOUS
      <3> QED
        BY <1>1, <3>1, SumEmpty
    <2>3. G({}) = 0
      BY SumEmpty
    <2>4. G(A(0 + 1)) = 0 /\ F(A(0 + 1)) = 0
      BY <2>1, <2>2, <2>3
    <2> HIDE DEF A, F, G
    <2> QED
      BY <1>c, <2>4 DEF Least
  <1>7. ASSUME NEW k \in Nat, k \in Q PROVE k + 1 \in Q
    <2> SUFFICES ASSUME k + 1 <= n PROVE G(A(k + 2)) = Least(F(A(k + 2)), D)
      BY <1>7
    <2>1. G(A(k + 1)) = Least(F(A(k + 1)), D)
      BY <1>7
    <2>2. CASE k + 1 \notin C
      <3>1. A(k + 2) = A(k + 1)
        <4>1. \A j \in C : j < k + 2 <=> j < k + 1
          BY <1>c, <2>2
        <4> QED
          BY <4>1
      <3> HIDE DEF A, F, G
      <3> QED
        BY <2>1, <3>1
    <2>3. CASE k + 1 \in C
      <3>1. A(k + 2) = A(k + 1) \cup {k + 1} /\ k + 1 \in (1 .. n) \ A(k + 1)
        <4>1. \A j \in C : j < k + 2 <=> j < k + 1 \/ j = k + 1
          BY <1>c
        <4>2. ~(k + 1 < k + 1) /\ k + 1 \in 1 .. n /\ k + 1 < k + 2
          OBVIOUS
        <4> QED
          BY <2>3, <4>1, <4>2
      <3>2. \A i \in 1 .. n : f[i] \in Int /\ g[i] \in Int
        BY <1>v
      <3>a. A(k + 1) \in SUBSET (1 .. n) /\ A(k + 2) \in SUBSET (1 .. n) /\ IsFiniteSet(1 .. n)
        BY <1>1, <1>2
      <3>6. g[k + 1] = Most(0, Least(f[k + 1], D - F(A(k + 1)))) /\ f[k + 1] \in Nat
        BY <1>v, <1>w, <1>c, <2>3
      <3> HIDE DEF A
      <3> DEFINE T == A(k + 1)
                 b == k + 1
      <3>b. \A i \in 1 .. n : f[i] \in Int
        BY <1>v
      <3>d. \A i \in 1 .. n : g[i] \in Int
        BY <1>v
      <3>e. T \in SUBSET (1 .. n) /\ b \in (1 .. n) \ T /\ IsFiniteSet(1 .. n)
        BY <3>1, <3>a
      <3> HIDE DEF T, b
      <3>3. SumFunctionOnSet(f, T \cup {b}) = f[b] + SumFunctionOnSet(f, T)
        BY <3>b, <3>e, SumAdd
      <3>4. SumFunctionOnSet(g, T \cup {b}) = g[b] + SumFunctionOnSet(g, T)
        BY <3>d, <3>e, SumAdd
      <3>f. A(k + 2) = T \cup {b} /\ g[b] = Most(0, Least(f[b], D - F(T))) /\ f[b] \in Nat /\ G(T) = Least(F(T), D)
        BY <2>1, <3>1, <3>6 DEF T, b
      <3>5. F(A(k + 2)) = f[b] + F(T) /\ F(T) \in Nat
        BY <1>s, <3>3, <3>a, <3>e, <3>f
      <3>7. G(A(k + 2)) = g[b] + G(T)
        BY <3>4, <3>f
      <3> HIDE DEF F, G
      <3> QED
        BY <1>c, <3>5, <3>7, <3>f DEF Least, Most
    <2> QED
      BY <2>2, <2>3
  <1>8. n \in Q
    <2> HIDE DEF Q
    <2> QED
      BY <1>6, <1>7, InductionOnNat
  <1>9. A(n + 1) = C
    <2>1. \A j \in C : j < n + 1
      BY <1>c
    <2> QED
      BY <2>1
  <1>10. G(C) = Least(F(C), D)
    <2> HIDE DEF A, F, G
    <2> QED
      BY <1>8, <1>9
  <1> QED
    BY <1>5, <1>10 DEF C, D, g

\* The last of some rows is one of them.
LEMMA GreatestRow ==
  ASSUME NEW n \in Nat, NEW S \in SUBSET (1 .. n), S # {}
  PROVE  Max(S) \in S
  <1> DEFINE T == {n - i : i \in S}
  <1>1. T \in SUBSET Nat /\ T # {}
    <2>1. \A i \in S : i \in 1 .. n /\ n - i \in Nat
      OBVIOUS
    <2>2. PICK i \in S : TRUE
      OBVIOUS
    <2>3. n - i \in T
      BY <2>2
    <2> QED
      BY <2>1, <2>3
  <1>2. PICK t \in T : \A u \in T : t <= u
    <2> HIDE DEF T
    <2> QED
      BY <1>1, LeastNatural
  <1>3. PICK m \in S : t = n - m
    OBVIOUS
  <1>4. \A i \in S : m >= i
    <2> TAKE i \in S
    <2>1. n - i \in T
      OBVIOUS
    <2> QED
      BY <1>2, <1>3, <2>1
  <1> QED
    BY <1>3, <1>4 DEF Max

\* The rows that settlement keeps account for the rows it was given.
LEMMA SettledAccounts ==
  ASSUME NEW n \in Nat \ {0}, NEW payments \in [1 .. n -> Payment], NEW due \in Int, Acceptable(due, payments)
  PROVE  LET rows == AppliedPayments(due, payments)
             kept == Total([i \in DOMAIN rows |-> rows[i].amount])
             change == IF CashRows(payments) = {} THEN 0
                       ELSE Most(0, Tendered(payments, CashRows(payments)) - CashDue(due, payments)) IN
         /\ Total([i \in DOMAIN rows |-> rows[i].tendered]) = Tendered(payments, DOMAIN payments)
         /\ Total([i \in DOMAIN rows |-> rows[i].change]) = change
         /\ \A i \in DOMAIN rows : rows[i].tendered = rows[i].amount + rows[i].change /\ (rows[i].change > 0 => rows[i].cash)
         /\ kept <= due /\ (change > 0 => kept = due)
  <1> DEFINE P == 1 .. n
             C == CashRows(payments)
             N == P \ C
             D == CashDue(due, payments)
             f == Given(payments)
             g == KeptOf(due, payments)
             K == AppliedRows(due, payments)
             x == [i \in P |-> FoldedChange(due, payments, i)]
             rows == AppliedPayments(due, payments)
             change == IF C = {} THEN 0 ELSE Most(0, Tendered(payments, C) - D)
             F(S) == SumFunctionOnSet(f, S)
             G(S) == SumFunctionOnSet(g, S)
  <1>1. /\ IsFiniteSet(P) /\ DOMAIN payments = P /\ D \in Int
        /\ C \subseteq P
    BY TenderedSums
  <1>2. \A i \in P : f[i] = payments[i].amount /\ f[i] \in Nat \ {0}
    BY TenderedSums
  <1>3. \A S \in SUBSET P : IsFiniteSet(S) /\ Tendered(payments, S) = F(S) /\ F(S) \in Nat
    BY TenderedSums
  <1>4. payments # <<>>
    BY <1>1
  <1>5. D >= 0 /\ (C # {} => D > 0)
    BY <1>4 DEF Acceptable
  <1>6. \A i \in P : g[i] = Taken(due, payments, i) /\ g[i] \in Nat
    BY <1>5, CashUsedInOrder
  <1>7. G(C) = Least(F(C), D)
    <2>1. C \in SUBSET P
      BY <1>1
    <2> QED
      BY <1>3, <1>5, <2>1, CashUsedInOrder
  <1>8. \A i \in N : g[i] = f[i]
    BY <1>1, <1>2, <1>6 DEF Taken, CashRows
  <1>9. D = due - F(N)
    <2>1. N \in SUBSET P /\ DOMAIN payments \ C = N
      BY <1>1
    <2> QED
      BY <1>3, <2>1 DEF CashDue
  <1>10. K \in SUBSET P /\ \A i \in P : i \in K <=> g[i] > 0
    BY <1>1, <1>6 DEF AppliedRows
  <1>11. \A i \in C : payments[i].cash
    BY DEF CashRows
  <1>12. C # {} => K \cap C # {}
    <2> SUFFICES ASSUME C # {} PROVE K \cap C # {}
      OBVIOUS
    <2>1. C \in SUBSET Nat
      BY <1>1
    <2>2. PICK i \in C : \A j \in C : i <= j
      <3> HIDE DEF C
      <3> QED
        BY <2>1, LeastNatural
    <2>3. {j \in C : j < i} = {}
      <3>1. \A j \in C : j \in Nat /\ ~(j < i)
        BY <2>1, <2>2
      <3> QED
        BY <3>1
    <2>4. Tendered(payments, {j \in C : j < i}) = 0
      <3>1. {} \in SUBSET P
        OBVIOUS
      <3> QED
        BY <1>3, <2>3, <3>1, SumEmpty
    <2>5. Taken(due, payments, i) = Most(0, Least(payments[i].amount, D - 0))
      BY <1>11, <2>4 DEF Taken
    <2>6. i \in P
      BY <1>1
    <2>7. g[i] > 0
      <3> HIDE DEF D, f, g, P
      <3> QED
        BY <1>1, <1>2, <1>5, <1>6, <2>5, <2>6 DEF Most, Least
    <2> QED
      BY <1>10, <2>6, <2>7
  <1>13. \A S \in SUBSET P : G(S) \in Nat
    <2> SUFFICES ASSUME NEW S \in SUBSET P PROVE G(S) \in Nat
      OBVIOUS
    <2>1. IsFiniteSet(S) /\ \A i \in S : g[i] \in Nat
      BY <1>3, <1>6
    <2> HIDE DEF g
    <2> QED
      BY <2>1, SumType
  <1>14. G(K) = G(P)
    <2>1. \A i \in P \ K : g[i] = 0
      BY <1>6, <1>10
    <2>2. \A i \in P : g[i] \in Int
      BY <1>6
    <2> HIDE DEF g, P, K
    <2> QED
      BY <1>1, <1>10, <2>1, <2>2, SumOfSupport
  <1>15. G(P) = F(N) + G(C) /\ F(P) = F(N) + F(C)
    <2>1. N \cup C = P /\ N \cap C = {} /\ IsFiniteSet(N) /\ IsFiniteSet(C) /\ N \in SUBSET P
      BY <1>1, <1>3
    <2>2. \A i \in N \cup C : g[i] \in Int
      BY <1>6, <2>1
    <2>3. \A i \in N \cup C : f[i] \in Int
      BY <1>2, <2>1
    <2> HIDE DEF f, g, P, N, C
    <2>4. G(N) = F(N)
      BY <1>8, <2>1, SumSame
    <2>5. G(N \cup C) = G(N) + G(C)
      BY <2>1, <2>2, SumDisjoint
    <2>6. F(N \cup C) = F(N) + F(C)
      BY <2>1, <2>3, SumDisjoint
    <2> QED
      BY <2>1, <2>4, <2>5, <2>6
  <1>16. F(P) = F(K) + F(P \ K)
    <2>1. K \cup (P \ K) = P /\ K \cap (P \ K) = {} /\ IsFiniteSet(K) /\ IsFiniteSet(P \ K)
      BY <1>3, <1>10
    <2>2. \A i \in K \cup (P \ K) : f[i] \in Int
      BY <1>2, <2>1
    <2> HIDE DEF f, P, K
    <2> QED
      BY <2>1, <2>2, SumDisjoint
  \* The change of the rows that were not kept is carried by the last cash row.
  <1>17. SumFunctionOnSet(x, K) = F(P \ K) /\ \A i \in K : x[i] \in Nat /\ (x[i] > 0 => payments[i].cash)
    <2>1. CASE K \cap C = {}
      <3>1. \A i \in K : x[i] = 0
        BY <1>10, <2>1 DEF FoldedChange
      <3>2. P \ K = {}
        <4>1. C = {}
          BY <1>12, <2>1
        <4>2. \A i \in P : g[i] > 0
          BY <1>2, <1>8, <4>1
        <4> QED
          BY <1>10, <4>2
      <3>3. F(P \ K) = 0
        BY <3>2, SumEmpty
      <3>4. IsFiniteSet(K)
        BY <1>3, <1>10
      <3> HIDE DEF x, K
      <3>5. SumFunctionOnSet(x, K) = 0
        BY <3>1, <3>4, SumZero
      <3> QED
        BY <3>1, <3>3, <3>5
    <2>2. CASE K \cap C # {}
      <3> DEFINE m == Max(K \cap C)
      <3>1. m \in K \cap C
        <4>1. K \cap C \in SUBSET (1 .. n)
          BY <1>10
        <4> HIDE DEF K, C
        <4> QED
          BY <2>2, <4>1, GreatestRow
      <3>2. \A i \in K : x[i] = IF i = m THEN Tendered(payments, DOMAIN payments \ K) ELSE 0
        BY <1>10, <2>2 DEF FoldedChange
      <3>3. Tendered(payments, DOMAIN payments \ K) = F(P \ K) /\ F(P \ K) \in Nat
        <4>1. DOMAIN payments \ K = P \ K /\ P \ K \in SUBSET P
          BY <1>1
        <4> QED
          BY <1>3, <4>1
      <3> HIDE DEF m
      <3>4. x[m] = F(P \ K) /\ \A i \in K \ {m} : x[i] = 0
        BY <3>1, <3>2, <3>3
      <3>5. \A i \in K : x[i] \in Nat /\ (x[i] > 0 => i = m)
        BY <3>2, <3>3
      <3>6. IsFiniteSet(K) /\ m \in K /\ payments[m].cash
        BY <1>3, <1>10, <1>11, <3>1
      <3> HIDE DEF x, K
      <3>7. SumFunctionOnSet(x, K) = SumFunctionOnSet(x, {m})
        <4>1. {m} \in SUBSET K /\ \A i \in K : x[i] \in Int
          BY <3>5, <3>6
        <4> QED
          BY <3>4, <3>6, <4>1, SumOfSupport
      <3>8. SumFunctionOnSet(x, {m}) = x[m]
        <4>1. \A i \in K : x[i] \in Int
          BY <3>5
        <4>2. {} \in SUBSET K /\ m \in K \ {} /\ {} \cup {m} = {m}
          BY <3>6
        <4>3. SumFunctionOnSet(x, {} \cup {m}) = x[m] + SumFunctionOnSet(x, {})
          BY <3>6, <4>1, <4>2, SumAdd, ZenonT(60)
        <4> QED
          BY <3>5, <3>6, <4>2, <4>3, SumEmpty
      <3> QED
        BY <3>4, <3>5, <3>6, <3>7, <3>8
    <2> QED
      BY <2>1, <2>2
  <1> DEFINE ten == [i \in K |-> f[i] + x[i]]
             amt == [i \in K |-> g[i]]
             chg == [i \in K |-> f[i] - g[i] + x[i]]
  <1>18. DOMAIN rows = K
    BY DEF AppliedPayments
  <1>19. \A i \in K : /\ rows[i].cash = payments[i].cash /\ rows[i].amount = g[i]
                      /\ rows[i].tendered = f[i] + x[i] /\ rows[i].change = f[i] - g[i] + x[i]
    <2> SUFFICES ASSUME NEW i \in K
                 PROVE  /\ rows[i].cash = payments[i].cash /\ rows[i].amount = g[i]
                        /\ rows[i].tendered = f[i] + x[i] /\ rows[i].change = f[i] - g[i] + x[i]
      OBVIOUS
    <2>1. i \in P
      BY <1>10
    <2>2. f[i] = payments[i].amount /\ g[i] = Taken(due, payments, i) /\ x[i] = FoldedChange(due, payments, i)
      BY <1>2, <1>6, <2>1
    <2>3. rows[i] = [cash |-> payments[i].cash, amount |-> Taken(due, payments, i),
                     tendered |-> payments[i].amount + FoldedChange(due, payments, i),
                     change |-> payments[i].amount - Taken(due, payments, i) + FoldedChange(due, payments, i)]
      BY DEF AppliedPayments
    <2> HIDE DEF rows, f, g, x
    <2> QED
      BY <2>2, <2>3
  <1>20. \A i \in K : f[i] \in Nat /\ g[i] \in Nat /\ x[i] \in Nat
    BY <1>2, <1>6, <1>10, <1>17
  <1>21. IsFiniteSet(K)
    BY <1>3, <1>10
  <1>22. /\ Total([i \in DOMAIN rows |-> rows[i].tendered]) = Total(ten)
         /\ Total([i \in DOMAIN rows |-> rows[i].amount]) = Total(amt)
         /\ Total([i \in DOMAIN rows |-> rows[i].change]) = Total(chg)
    <2>1. [i \in DOMAIN rows |-> rows[i].tendered] = ten
      BY <1>18, <1>19
    <2>2. [i \in DOMAIN rows |-> rows[i].amount] = amt
      BY <1>18, <1>19
    <2>3. [i \in DOMAIN rows |-> rows[i].change] = chg
      BY <1>18, <1>19
    <2> QED
      BY <2>1, <2>2, <2>3
  <1>23. Total(ten) = F(K) + F(P \ K)
    <2>1. \A i \in K : f[i] \in Int /\ x[i] \in Int /\ ten[i] = f[i] + x[i]
      BY <1>20
    <2>2. DOMAIN ten = K
      OBVIOUS
    <2> HIDE DEF ten, f, x, K
    <2>3. SumFunctionOnSet(ten, K) = SumFunctionOnSet(f, K) + SumFunctionOnSet(x, K)
      BY <1>21, <2>1, SumPlus
    <2> QED
      BY <1>17, <2>2, <2>3 DEF Total
  <1>24. Total(amt) = G(K)
    <2>1. \A i \in K : amt[i] = g[i]
      OBVIOUS
    <2>2. DOMAIN amt = K
      OBVIOUS
    <2> HIDE DEF amt, g, K
    <2> QED
      BY <1>21, <2>1, <2>2, SumSame DEF Total
  <1>25. Total(ten) = Total(chg) + G(K)
    <2>1. \A i \in K : chg[i] \in Int /\ g[i] \in Int /\ ten[i] = chg[i] + g[i]
      <3>1. \A i \in K : chg[i] = f[i] - g[i] + x[i] /\ ten[i] = f[i] + x[i]
        OBVIOUS
      <3> HIDE DEF ten, chg, f, g, x, K
      <3> QED
        BY <1>20, <3>1
    <2>2. DOMAIN ten = K /\ DOMAIN chg = K
      OBVIOUS
    <2> HIDE DEF ten, chg, g, K
    <2> QED
      BY <1>21, <2>1, <2>2, SumPlus DEF Total
  <1>26. Total(chg) \in Int
    <2>1. \A i \in K : chg[i] \in Int
      <3>1. \A i \in K : chg[i] = f[i] - g[i] + x[i]
        OBVIOUS
      <3> HIDE DEF chg, f, g, x, K
      <3> QED
        BY <1>20, <3>1
    <2>2. DOMAIN chg = K
      OBVIOUS
    <2> HIDE DEF chg, K
    <2> QED
      BY <1>21, <2>1, <2>2, TotalType
  <1>27. /\ F(P) \in Nat /\ F(N) \in Nat /\ F(C) \in Nat /\ G(K) \in Nat /\ G(C) \in Nat
         /\ Tendered(payments, P) = F(P) /\ Tendered(payments, C) = F(C)
    <2>1. P \in SUBSET P /\ N \in SUBSET P /\ C \in SUBSET P
      BY <1>1
    <2> QED
      BY <1>3, <1>10, <1>13, <2>1
  <1>28. C = {} => F(C) = 0
    BY SumEmpty
  <1>29. \A i \in K : payments[i].cash \/ (g[i] = f[i] /\ x[i] = 0)
    <2> SUFFICES ASSUME NEW i \in K, ~payments[i].cash PROVE g[i] = f[i] /\ x[i] = 0
      OBVIOUS
    <2>1. i \in N
      BY <1>10 DEF CashRows
    <2>2. g[i] = f[i]
      BY <1>8, <2>1
    <2>3. x[i] \in Nat /\ ~(x[i] > 0)
      BY <1>17
    <2>4. x[i] = 0
      <3> HIDE DEF x
      <3> QED
        BY <2>3
    <2> QED
      BY <2>2, <2>4
  <1>30. \A i \in K : rows[i].tendered = rows[i].amount + rows[i].change /\ (rows[i].change > 0 => rows[i].cash)
    <2> HIDE DEF rows, f, g, x, K
    <2> SUFFICES ASSUME NEW i \in K
                 PROVE  rows[i].tendered = rows[i].amount + rows[i].change /\ (rows[i].change > 0 => rows[i].cash)
      OBVIOUS
    <2>1. rows[i].tendered = rows[i].amount + rows[i].change
      BY <1>19, <1>20
    <2>2. CASE payments[i].cash
      BY <1>19, <2>1, <2>2
    <2>3. CASE g[i] = f[i] /\ x[i] = 0
      <3>1. rows[i].change = f[i] - g[i] + x[i] /\ f[i] \in Nat
        BY <1>19, <1>20
      <3>2. rows[i].change = 0
        BY <2>3, <3>1
      <3> QED
        BY <2>1, <3>2
    <2> QED
      BY <1>29, <2>2, <2>3
  <1>31. Total(ten) = Tendered(payments, DOMAIN payments)
    BY <1>1, <1>16, <1>23, <1>27
  <1>32. Total(chg) = change /\ Total(amt) <= due /\ (change > 0 => Total(amt) = due)
    <2>1. Total(ten) = F(P)
      BY <1>16, <1>23
    <2>2. change = IF C = {} THEN 0 ELSE Most(0, F(C) - D)
      BY <1>27
    <2>3. D \in Int /\ D >= 0 /\ (C # {} => D > 0) /\ D = due - F(N)
      BY <1>1, <1>5, <1>9
    <2>4. Total(amt) = F(N) + G(C) /\ F(P) = F(N) + F(C) /\ Total(chg) + Total(amt) = F(P)
      BY <1>14, <1>15, <1>24, <1>25, <2>1
    <2>5. F(N) \in Nat /\ F(C) \in Nat /\ G(C) = Least(F(C), D) /\ Total(chg) \in Int
      BY <1>7, <1>26, <1>27
    <2> HIDE DEF change, ten, chg, amt, F, G, D, N, C, P, K
    <2>6. CASE F(C) < D
      <3>1. Total(amt) = F(N) + F(C) /\ Total(chg) = 0 /\ change = 0
        BY <2>2, <2>3, <2>4, <2>5, <2>6 DEF Least, Most
      <3> QED
        BY <2>3, <2>5, <2>6, <3>1
    <2>7. CASE ~(F(C) < D)
      <3>0. G(C) = D
        BY <2>5, <2>7 DEF Least
      <3>a. \A a, c, d, e, u \in Int : d = u - a /\ c + (a + d) = a + e => a + d = u /\ c = e - d
        OBVIOUS
      <3>b. Total(amt) = F(N) + D /\ Total(chg) + (F(N) + D) = F(N) + F(C)
        BY <2>4, <3>0
      <3>1. Total(amt) = due /\ Total(chg) = F(C) - D
        <4>1. F(N) \in Int /\ Total(chg) \in Int /\ D \in Int /\ F(C) \in Int /\ due \in Int
          BY <2>3, <2>5
        <4>2. D = due - F(N)
          BY <2>3
        <4> HIDE DEF Total
        <4>3. F(N) + D = due /\ Total(chg) = F(C) - D
          BY <3>a, <3>b, <4>1, <4>2
        <4> QED
          BY <3>b, <4>3
      <3>2. change = F(C) - D
        BY <1>28, <2>2, <2>3, <2>5, <2>7 DEF Most
      <3> QED
        BY <3>1, <3>2
    <2> QED
      BY <2>6, <2>7
  <1> HIDE DEF ten, chg, amt, change, rows, K
  <1> QED
    BY <1>18, <1>22, <1>30, <1>31, <1>32 DEF change, rows

\* Settling keeps the invariant of the bill.
LEMMA SettlingAccounts ==
  ASSUME BillInv, NEW n \in 0 .. MaxPayments, NEW payments \in [1 .. n -> Payment], SettlePayments(payments)
  PROVE  BillInv'
  <1> DEFINE rows == AppliedPayments(bill.due, payments)
             change == IF CashRows(payments) = {} THEN 0
                       ELSE Most(0, Tendered(payments, CashRows(payments)) - CashDue(bill.due, payments))
  <1>1. n \in Nat /\ bill.due \in Int
    BY PricingAssumption DEF BillInv, SettlePayments
  <1>2. CASE ~Acceptable(bill.due, payments)
    <2>1. bill' = [bill EXCEPT !.stage = "refused"]
      BY <1>2 DEF SettlePayments
    <2>2. DOMAIN bill' = BillFields /\ bill' = [x \in BillFields |-> bill'[x]] /\ bill'.stage = "refused"
      BY <2>1 DEF BillInv, BillFields
    <2> QED
      BY <2>2 DEF BillInv, SchemeFitsLines, TenderAccounted
  <1>3. CASE Acceptable(bill.due, payments)
    <2>1. bill' = [bill EXCEPT !.stage = "settled", !.payments = payments, !.applied = rows, !.change = change]
      BY <1>3 DEF SettlePayments
    <2> HIDE DEF rows, change
    <2>2. /\ DOMAIN bill' = BillFields /\ bill' = [x \in BillFields |-> bill'[x]]
          /\ bill'.stage = "settled" /\ bill'.payments = payments /\ bill'.applied = rows /\ bill'.change = change
          /\ bill'.due = bill.due
      BY <2>1 DEF BillInv, BillFields
    <2>3. /\ Total([i \in DOMAIN rows |-> rows[i].tendered]) = Tendered(payments, DOMAIN payments)
          /\ Total([i \in DOMAIN rows |-> rows[i].change]) = change
          /\ \A i \in DOMAIN rows : rows[i].tendered = rows[i].amount + rows[i].change /\ (rows[i].change > 0 => rows[i].cash)
          /\ rows # <<>> => /\ Total([i \in DOMAIN rows |-> rows[i].amount]) <= bill.due
                            /\ change > 0 => Total([i \in DOMAIN rows |-> rows[i].amount]) = bill.due
      <3>1. CASE n # 0
        <4>1. n \in Nat \ {0}
          BY <1>1, <3>1
        <4> QED
          BY <1>1, <1>3, <4>1, SettledAccounts DEF rows, change
      <3>2. CASE n = 0
        <4>1. payments = <<>> /\ DOMAIN payments = {}
          BY <3>2
        <4>2. AppliedRows(bill.due, payments) = {} /\ CashRows(payments) = {}
          BY <4>1 DEF AppliedRows, CashRows
        <4>3. rows = <<>> /\ DOMAIN rows = {}
          BY <4>2 DEF rows, AppliedPayments
        <4>4. change = 0
          BY <4>2 DEF change
        <4>5. Tendered(payments, DOMAIN payments) = 0
          BY <4>1, SumEmpty DEF Tendered, Total
        <4>6. Total([i \in DOMAIN rows |-> rows[i].tendered]) = 0 /\ Total([i \in DOMAIN rows |-> rows[i].change]) = 0
          BY <4>3, SumEmpty DEF Total
        <4> QED
          BY <4>3, <4>4, <4>5, <4>6
      <3> QED
        BY <3>1, <3>2
    <2>4. TenderAccounted'
      BY <2>2, <2>3 DEF TenderAccounted
    <2>5. SchemeFitsLines'
      BY <2>2 DEF SchemeFitsLines
    <2> QED
      BY <2>2, <2>4, <2>5 DEF BillInv
  <1> QED
    BY <1>2, <1>3

\* The invariant of the bill holds at all times.
THEOREM BillAlwaysInOrder == PricingSpec => []BillInv
  <1>1. PricingInit => BillInv
    BY DEF PricingInit, NoBill, BillInv, BillFields, SchemeFitsLines, TenderAccounted
  <1>2. BillInv /\ [PricingNext(DiscountScheme)]_bill => BillInv'
    <2> SUFFICES ASSUME BillInv, [PricingNext(DiscountScheme)]_bill PROVE BillInv'
      OBVIOUS
    <2>1. CASE \E k \in 1 .. MaxLines : \E lines \in [1 .. k -> SaleLineInput], scheme \in DiscountScheme :
                 ComputeSalePricing(lines, scheme)
      BY <2>1, PricingFits
    <2>2. CASE \E payments \in UpTo(MaxPayments, Payment) : SettlePayments(payments)
      <3>1. PICK payments \in UpTo(MaxPayments, Payment) : SettlePayments(payments)
        BY <2>2
      <3>2. PICK k \in 0 .. MaxPayments : payments \in [1 .. k -> Payment]
        BY DEF UpTo
      <3> QED
        BY <3>1, <3>2, SettlingAccounts
    <2>3. CASE UNCHANGED bill
      BY <2>3 DEF BillInv, SchemeFitsLines, TenderAccounted
    <2> QED
      BY <2>1, <2>2, <2>3 DEF PricingNext
  <1> QED
    BY <1>1, <1>2, PTL DEF PricingSpec

\* Every priced line is discounted by no more than it is worth, and the lines
\* add up to the total, for all amounts, rates and schemes (pricing_engine,
\* discount_engine).
THEOREM SchemeAlwaysFitsLines == PricingSpec => []SchemeFitsLines
  <1>1. BillInv => SchemeFitsLines
    BY DEF BillInv
  <1> QED
    BY <1>1, BillAlwaysInOrder, PTL

\* Settlement neither loses nor invents a cent, for any tender
\* (settle_payments).
THEOREM TenderAlwaysAccounted == PricingSpec => []TenderAccounted
  <1>1. BillInv => TenderAccounted
    BY DEF BillInv
  <1> QED
    BY <1>1, BillAlwaysInOrder, PTL

-----------------------------------------------------------------------------
(* run_idempotent: every repeated effect has a cause of its own, and a      *)
(* replayed response answers the request that gets it.                      *)

\* The requests whose handler may still commit.
Handlers == {r \in Requests : pc[r] = "run"}
\* The effects there are.
Committed == SumFunctionOnSet(effects, Bodies)

\* The key remembers nothing: no row, or a claim nobody works on any more.
Forgotten == row = NoRow \/ (row.answer = NoBody /\ ~Alive(row.by))

\* The row was written by a request, for what it asks.
RowKnown == row = NoRow \/ (row.by \in Requests /\ row.body = BodyOf[row.by])
\* An expired row is nobody's at work.
ExpiredIsIdle == row.age = "expired" => \A r \in Requests : ~Alive(r)

\* The effects there are and the ones that may still come are paid for by
\* lapses, but for one; and for all of them while the key remembers nothing.
Paid == /\ Committed + Cardinality(Handlers) <= 1 + lapses
        /\ Forgotten => Committed + Cardinality(Handlers) <= lapses

\* The inductive invariant of the effects.
RepeatInv == TypeOK /\ RowKnown /\ ExpiredIsIdle /\ Paid

-----------------------------------------------------------------------------
\* Only finitely many bodies, and every body is one of them.
LEMMA BodiesFinite == IsFiniteSet(Bodies) /\ NoBody \notin Bodies /\ \A r \in Requests : BodyOf[r] \in Bodies
  <1> DEFINE f == [r \in Requests |-> BodyOf[r]]
  <1>1. f \in Surjection(Requests, Bodies)
    BY DEF Surjection, Bodies
  <1>2. IsFiniteSet(Bodies)
    BY <1>1, RequestsAssumption, FS_Surjection
  <1> QED BY <1>2, BodyAssumption, Zenon DEF Bodies

\* No response is stored and no claim held where there is no row.
LEMMA NoRowIsEmpty == NoRow.answer = NoBody /\ NoRow.by = NoOne /\ NoRow.age = "fresh" /\ NoRow.body = NoBody
  BY DEF NoRow

\* The row a request inserts is its claim.
LEMMA RowIsClaim ==
  \A r \in Requests : Row(r) # NoRow /\ Row(r).by = r /\ Row(r).answer = NoBody /\ Row(r).body = BodyOf[r] /\ Row(r).age = "fresh"
  BY RequestsAssumption DEF Row, NoRow

\* What a handler adds and what leaves the set of running handlers.
LEMMA HandlersCount ==
  ASSUME TypeOK
  PROVE  /\ IsFiniteSet(Handlers) /\ Cardinality(Handlers) \in Nat
         /\ \A r \in Handlers : /\ IsFiniteSet(Handlers \ {r}) /\ Cardinality(Handlers \ {r}) = Cardinality(Handlers) - 1
                             /\ Cardinality(Handlers \ {r}) \in Nat
         /\ \A r \in Requests \ Handlers : Cardinality(Handlers \cup {r}) = Cardinality(Handlers) + 1
  <1>1. IsFiniteSet(Handlers)
    BY RequestsAssumption, FS_Subset DEF Handlers
  <1> QED BY <1>1, FS_AddElement, FS_RemoveElement, FS_CardinalityType

\* Effects are counted.
LEMMA SomethingDone == ASSUME TypeOK PROVE Committed \in Nat
  BY BodiesFinite, SumType DEF TypeOK, Committed


-----------------------------------------------------------------------------
\* How many handlers may still commit, and whether the key has forgotten,
\* depends on pc, row and effects only.
LEMMA PaidWhereNobodyRuns ==
  ASSUME TypeOK, Paid, NEW r \in Requests, ~Alive(r), NEW p \in Steps \ {"run", "reread", "store"},
         Goto(r, p), UNCHANGED <<row, effects, lapses>>
  PROVE  Paid'
  <1>1. Handlers' = Handlers /\ \A q \in Requests : Alive(q)' = Alive(q)
    BY DEF TypeOK, Handlers, Alive, Goto
  <1>2. Committed' = Committed /\ (Alive(row.by))' = Alive(row.by)
    BY DEF Committed, Alive, TypeOK, Goto
  <1>3. Forgotten' = Forgotten
    BY <1>2, Zenon DEF Forgotten
  <1> QED BY <1>1, <1>2, <1>3, Zenon DEF Paid

\* The type of every variable is kept by every step.
LEMMA TypeStep == ASSUME TypeOK, [Next]_vars PROVE TypeOK'
  <1> USE BodiesFinite DEF TypeOK, Steps, Replies
  <1>u. CASE UNCHANGED vars BY <1>u DEF vars
  <1>r. ASSUME NEW r \in Requests, RunIdempotent(r) \/ HandlerFails(r) \/ StoreFails(r) \/ Crash(r) PROVE TypeOK'
    <2>t. Row(r) \in [body : Bodies \cup {NoBody}, answer : Bodies \cup {NoBody},
              age : {"fresh", "stale", "expired"}, by : Requests \cup {NoOne}] 
      BY DEF Row
    <2>n. NoRow \in [body : Bodies \cup {NoBody}, answer : Bodies \cup {NoBody},
              age : {"fresh", "stale", "expired"}, by : Requests \cup {NoOne}] 
      BY DEF NoRow
    <2>1. CASE ClaimInsert(r)
      <3>1. lapses' \in Nat BY <2>1 DEF ClaimInsert
      <3>2. row' = Row(r) \/ row' = row BY <2>1 DEF ClaimInsert
      <3>3. pc' \in [Requests -> Steps] BY <2>1 DEF ClaimInsert, Goto
      <3> QED BY <2>1, <2>t, <3>1, <3>2, <3>3 DEF ClaimInsert
    <2>2. CASE LookGone(r) /\ UNCHANGED Ghosts BY <2>2 DEF LookGone, Goto, Ghosts
    <2>3. CASE LookDifferent(r) /\ UNCHANGED Ghosts BY <2>3 DEF LookDifferent, End, Goto, Ghosts
    <2>4. CASE Replay(r) /\ UNCHANGED Ghosts BY <2>4 DEF Replay, End, Goto, Ghosts
    <2>5. CASE LookStale(r) /\ UNCHANGED Ghosts BY <2>5 DEF LookStale, Goto, Ghosts
    <2>6. CASE Wait(r) /\ UNCHANGED Ghosts BY <2>6, MaxWaitsAssumption DEF Wait, Goto, Ghosts
    <2>7. CASE GiveUp(r) /\ UNCHANGED Ghosts BY <2>7 DEF GiveUp, End, Goto, Ghosts
    <2>8. CASE ReleaseStale(r) BY <2>8, <2>n DEF ReleaseStale, Delete, Goto, Alive
    <2>9. CASE HandlerCommit(r) BY <2>9 DEF HandlerCommit, Goto
    <2>10. CASE HandlerReturns(r) BY <2>10 DEF HandlerReturns, Goto
    <2>11. CASE Store(r) BY <2>11 DEF Store, End, Goto
    <2>12. CASE HandlerFails(r) BY <2>12, <2>n DEF HandlerFails, Release, End, Goto, Alive
    <2>13. CASE StoreFails(r) BY <2>13, <2>n DEF StoreFails, Release, End, Goto, Alive
    <2>14. CASE Crash(r) BY <2>14 DEF Crash, Goto
    <2> QED BY <1>r, <2>1, <2>2, <2>3, <2>4, <2>5, <2>6, <2>7, <2>8, <2>9, <2>10, <2>11, <2>12, <2>13, <2>14, Zenon
          DEF RunIdempotent, Look
  <1>a. CASE Age BY <1>a DEF Age
  <1> QED BY <1>u, <1>r, <1>a DEF Next, Finished


-----------------------------------------------------------------------------
\* Whatever deletes, replaces or ages the row keeps it a request's claim with
\* that request's body, and it expires only when nobody works any more.
LEMMA RowStep ==
  ASSUME RepeatInv, [Next]_vars
  PROVE  RowKnown' /\ ExpiredIsIdle'
  <1> USE RowIsClaim, NoRowIsEmpty, BodiesFinite DEF RepeatInv, RowKnown, ExpiredIsIdle, Alive, TypeOK
  <1>u. CASE UNCHANGED vars BY <1>u DEF vars
  <1>r. ASSUME NEW r \in Requests, RunIdempotent(r) \/ HandlerFails(r) \/ StoreFails(r) \/ Crash(r) PROVE RowKnown' /\ ExpiredIsIdle'
    <2>1. CASE ClaimInsert(r) BY <2>1 DEF ClaimInsert, Goto
    <2>2. CASE Look(r)
      <3>1. row' = row BY <2>2 DEF Look, LookGone, LookDifferent, Replay, LookStale, Wait, GiveUp
      <3>2. \A q \in Requests : pc'[q] \in {"run", "reread", "store"} => pc[q] \in {"run", "reread", "store"}
        BY <2>2 DEF Look, LookGone, LookDifferent, Replay, LookStale, Wait, GiveUp, End, Goto, InFlight
      <3> QED BY <3>1, <3>2
    <2>3. CASE ReleaseStale(r) BY <2>3 DEF ReleaseStale, Delete, Goto
    <2>4. CASE HandlerCommit(r) BY <2>4 DEF HandlerCommit, Goto
    <2>5. CASE HandlerReturns(r) BY <2>5 DEF HandlerReturns, Goto
    <2>6. CASE Store(r) BY <2>6 DEF Store, End, Goto
    <2>7. CASE HandlerFails(r) BY <2>7 DEF HandlerFails, Release, End, Goto
    <2>8. CASE StoreFails(r) BY <2>8 DEF StoreFails, Release, End, Goto
    <2>9. CASE Crash(r) BY <2>9 DEF Crash, Goto
    <2> QED BY <1>r, <2>1, <2>2, <2>3, <2>4, <2>5, <2>6, <2>7, <2>8, <2>9, Zenon DEF RunIdempotent
  <1>a. CASE Age BY <1>a DEF Age
  <1> QED BY <1>u, <1>r, <1>a DEF Next, Finished

\* A claim is taken by a request only when all effects so far are paid for.
LEMMA ClaimPaid == ASSUME RepeatInv, NEW r \in Requests, ClaimInsert(r) PROVE Paid'
  <1> USE RowIsClaim, NoRowIsEmpty, HandlersCount, SomethingDone DEF RepeatInv
  <1>d. Committed' = Committed BY DEF Committed, ClaimInsert
  <1>1. CASE row.age # "expired" /\ row # NoRow
    <2>1. row' = row /\ Goto(r, "look") /\ lapses' = lapses /\ effects' = effects
      BY <1>1 DEF ClaimInsert, TypeOK
    <2>2. ~Alive(r) BY DEF ClaimInsert, Alive
    <2> QED BY <2>1, <2>2, PaidWhereNobodyRuns DEF Steps
  <1>2. CASE row.age = "expired" \/ row = NoRow
    <2>1. row' = Row(r) /\ Goto(r, "run")
      BY <1>2 DEF ClaimInsert
    <2>2. r \in Requests \ Handlers /\ Handlers' = Handlers \cup {r}
      BY <2>1 DEF ClaimInsert, Handlers, Goto, TypeOK
    <2>3. ~Forgotten'
      BY <2>1 DEF Forgotten, Alive, Goto, TypeOK
    <2>4. Cardinality(Handlers') = Cardinality(Handlers) + 1
      BY <2>2
    <2>5. Committed + Cardinality(Handlers) <= lapses' /\ lapses' \in Nat
      <3>1. CASE row.answer = NoBody
        <4>1. Forgotten BY <1>2, <3>1 DEF Forgotten, ExpiredIsIdle, Alive
        <4>2. lapses' = lapses BY <3>1 DEF ClaimInsert, TypeOK
        <4> QED BY <4>1, <4>2 DEF Paid, TypeOK
      <3>2. CASE row.answer # NoBody
        <4>1. lapses' = lapses + 1 BY <3>2, <1>2 DEF ClaimInsert
        <4> QED BY <4>1 DEF Paid, TypeOK
      <3> QED BY <3>1, <3>2
    <2> QED BY <1>d, <2>3, <2>4, <2>5 DEF Paid, TypeOK
  <1> QED BY <1>1, <1>2

\* A waiting request changes nothing that is paid for.
LEMMA LookPaid == ASSUME RepeatInv, NEW r \in Requests, Look(r) PROVE Paid'
  <1>1. ~Alive(r) /\ UNCHANGED <<row, effects, lapses>>
    BY DEF Look, LookGone, LookDifferent, Replay, LookStale, Wait, GiveUp, InFlight, Ghosts, Alive
  <1>2. PICK p \in {"insert", "done", "clear"} : Goto(r, p)
    BY DEF Look, LookGone, LookDifferent, Replay, LookStale, Wait, GiveUp, End
  <1> QED BY <1>1, <1>2, PaidWhereNobodyRuns DEF RepeatInv, Steps

\* Deleting a stale claim costs a lapse when its owner still works.
LEMMA StalePaid == ASSUME RepeatInv, NEW r \in Requests, ReleaseStale(r) PROVE Paid'
  <1> USE NoRowIsEmpty, HandlersCount, SomethingDone DEF RepeatInv
  <1>1. Committed' = Committed /\ Handlers' = Handlers
    BY DEF ReleaseStale, Committed, Handlers, Goto, TypeOK
  <1> DEFINE cond == row # NoRow /\ row.answer = NoBody /\ row.age # "fresh"
  <1>2. CASE ~cond
    <2>1. row' = row /\ lapses' = lapses BY <1>2 DEF ReleaseStale, Delete, TypeOK
    <2>2. Alive(row.by)' => Alive(row.by) BY <2>1 DEF Alive, ReleaseStale, Goto, TypeOK
    <2>3. Alive(row.by) => Alive(row.by)' BY <2>1 DEF Alive, ReleaseStale, Goto, TypeOK
    <2>4. Forgotten' => Forgotten BY <2>1, <2>2, <2>3, Zenon DEF Forgotten
    <2> QED BY <1>1, <2>1, <2>4, Zenon DEF Paid
  <1>3. CASE cond /\ Alive(row.by)
    <2>1. lapses' = lapses + 1 BY <1>3 DEF ReleaseStale, Delete
    <2> QED BY <1>1, <2>1 DEF Paid, TypeOK
  <1>4. CASE cond /\ ~Alive(row.by)
    <2>1. lapses' = lapses BY <1>4 DEF ReleaseStale, Delete, TypeOK
    <2>2. Forgotten BY <1>4 DEF Forgotten
    <2> QED BY <1>1, <2>1, <2>2 DEF Paid, TypeOK
  <1> QED BY <1>2, <1>3, <1>4

\* A handler that commits turns an effect to come into one that is there.
LEMMA CommitPaid == ASSUME RepeatInv, NEW r \in Requests, HandlerCommit(r) PROVE Paid'
  <1> USE HandlersCount, SomethingDone, BodiesFinite DEF RepeatInv
  <1>1. Committed' = Committed + 1
    <2>1. BodyOf[r] \in Bodies /\ effects \in [Bodies -> Nat] BY DEF TypeOK
    <2>2. /\ \A b \in Bodies : effects[b] \in Int /\ effects'[b] \in Int
          /\ \A b \in Bodies \ {BodyOf[r]} : effects'[b] = effects[b]
          /\ effects'[BodyOf[r]] = effects[BodyOf[r]] + 1
      BY <2>1 DEF HandlerCommit
    <2>3. SumFunctionOnSet(effects', Bodies) = SumFunctionOnSet(effects, Bodies) - effects[BodyOf[r]] + effects'[BodyOf[r]]
      BY <2>1, <2>2, SumUpdate
    <2> QED BY <2>1, <2>2, <2>3 DEF Committed
  <1>2. r \in Handlers /\ Handlers' = Handlers \ {r}
    BY DEF HandlerCommit, Goto, Handlers, TypeOK
  <1>3. row' = row /\ lapses' = lapses /\ (Alive(row.by)' <=> Alive(row.by))
    BY DEF HandlerCommit, Goto, Alive, TypeOK
  <1>4. Forgotten' <=> Forgotten BY <1>3, Zenon DEF Forgotten
  <1> QED BY <1>1, <1>2, <1>3, <1>4, SMTT(30) DEF Paid, TypeOK

\* A request that gives up its claim, or dies, before the commit leaves the
\* effect it would have had; after it, a lapse is counted.
LEMMA LeavingPaid ==
  ASSUME RepeatInv, NEW r \in Requests, NEW p \in {"done", "dead"}, Alive(r), Goto(r, p), effects' = effects, lapses' \in Nat,
         \/ pc[r] = "run" /\ lapses' >= lapses
         \/ pc[r] # "run" /\ lapses' >= lapses + 1
  PROVE  Committed + Cardinality(Handlers') <= lapses' /\ Committed' = Committed /\ Cardinality(Handlers') \in Nat
  <1> USE HandlersCount, SomethingDone DEF RepeatInv
  <1>1. Committed' = Committed BY DEF Committed
  <1>2. CASE pc[r] = "run"
    <2>1. r \in Handlers /\ Handlers' = Handlers \ {r} BY <1>2 DEF Handlers, Goto, TypeOK
    <2>2. Cardinality(Handlers') = Cardinality(Handlers) - 1 /\ Cardinality(Handlers') \in Nat BY <2>1
    <2>3. Committed + Cardinality(Handlers) <= 1 + lapses /\ lapses \in Nat BY DEF Paid, TypeOK
    <2> QED BY <1>1, <1>2, <2>2, <2>3
  <1>3. CASE pc[r] # "run"
    <2>1. Handlers' = Handlers BY <1>3 DEF Handlers, Goto, TypeOK
    <2> QED BY <1>1, <1>3, <2>1 DEF Paid, TypeOK
  <1> QED BY <1>2, <1>3

\* Every step keeps what is paid for.
LEMMA PaidStep == ASSUME RepeatInv, [Next]_vars PROVE Paid'
  <1> USE DEF RepeatInv
  <1>u. CASE UNCHANGED vars BY <1>u DEF vars, Paid, Committed, Handlers, Forgotten, Alive
  <1>r. ASSUME NEW r \in Requests, RunIdempotent(r) \/ HandlerFails(r) \/ StoreFails(r) \/ Crash(r) PROVE Paid'
    <2>1. CASE HandlerReturns(r)
      <3>1. Committed' = Committed /\ Handlers' = Handlers /\ lapses' = lapses BY <2>1 DEF HandlerReturns, Committed, Handlers, Goto, TypeOK
      <3>2. row' = row /\ (Alive(row.by)' <=> Alive(row.by)) BY <2>1 DEF HandlerReturns, Goto, Alive, TypeOK
      <3>3. Forgotten' <=> Forgotten BY <3>2, Zenon DEF Forgotten
      <3> QED BY <3>1, <3>3, Zenon DEF Paid
    <2>2. CASE Store(r)
      <3>1. Committed' = Committed /\ Handlers' = Handlers /\ lapses' = lapses BY <2>2 DEF Store, End, Committed, Handlers, Goto, TypeOK
      <3>2. Forgotten' => Forgotten
        <4>1. row # NoRow => row'.answer # NoBody /\ row' # NoRow BY <2>2, BodiesFinite, NoRowIsEmpty DEF Store, TypeOK
        <4> QED BY <4>1 DEF Forgotten
      <3> QED BY <3>1, <3>2, Zenon DEF Paid
    <2>3. CASE HandlerFails(r)
      <3>1. Alive(r) /\ Goto(r, "done") /\ effects' = effects BY <2>3 DEF HandlerFails, Alive, End
      <3>2. lapses' \in Nat /\ lapses' >= lapses /\ (pc[r] # "run" => lapses' >= lapses + 1)
        BY <2>3 DEF HandlerFails, Release, TypeOK
      <3>3. Committed + Cardinality(Handlers') <= lapses' /\ Committed' = Committed /\ Cardinality(Handlers') \in Nat
        BY <3>1, <3>2, LeavingPaid
      <3> QED BY <3>2, <3>3, SomethingDone DEF Paid
    <2>4. CASE StoreFails(r)
      <3>1. Alive(r) /\ Goto(r, "done") /\ effects' = effects /\ pc[r] # "run" BY <2>4 DEF StoreFails, Alive, End
      <3>2. lapses' \in Nat /\ lapses' >= lapses + 1
        BY <2>4 DEF StoreFails, Release, TypeOK
      <3>3. Committed + Cardinality(Handlers') <= lapses' /\ Committed' = Committed /\ Cardinality(Handlers') \in Nat
        BY <3>1, <3>2, LeavingPaid
      <3> QED BY <3>2, <3>3, SomethingDone DEF Paid
    <2>5. CASE Crash(r)
      <3>1. Alive(r) /\ Goto(r, "dead") /\ effects' = effects BY <2>5 DEF Crash
      <3>2. lapses' \in Nat /\ lapses' >= lapses /\ (pc[r] # "run" => lapses' >= lapses + 1)
        BY <2>5 DEF Crash, TypeOK, Alive
      <3>3. Committed + Cardinality(Handlers') <= lapses' /\ Committed' = Committed /\ Cardinality(Handlers') \in Nat
        BY <3>1, <3>2, LeavingPaid
      <3> QED BY <3>2, <3>3, SomethingDone DEF Paid
    <2> QED BY <1>r, <2>1, <2>2, <2>3, <2>4, <2>5, ClaimPaid, LookPaid, StalePaid, CommitPaid, Zenon DEF RunIdempotent
  <1>a. CASE Age
    <2>1. Committed' = Committed /\ Handlers' = Handlers /\ lapses' = lapses BY <1>a DEF Age, Committed, Handlers
    <2>2. row'.answer = row.answer /\ row'.by = row.by BY <1>a DEF Age, TypeOK
    <2>3. row # NoRow BY <1>a DEF Age
    <2>4. Alive(row.by)' <=> Alive(row.by) BY <1>a, <2>2 DEF Age, Alive
    <2>5. Forgotten' => Forgotten
      BY <2>2, <2>3, <2>4, NoRowIsEmpty, RequestsAssumption DEF Forgotten, RowKnown, Alive
    <2> QED BY <2>1, <2>5, Zenon DEF Paid
  <1> QED BY <1>u, <1>r, <1>a DEF Next, Finished

\* At the start nothing has run and nothing is promised.
LEMMA RepeatInit == ASSUME Init PROVE RepeatInv
  <1> USE BodiesFinite, NoRowIsEmpty DEF Init
  <1>1. TypeOK
    <2>1. Silent \in Replies BY DEF Silent, Replies
    <2> QED BY <2>1, MaxWaitsAssumption DEF TypeOK, Steps, NoRow
  <1>2. Committed = 0 BY SumZero DEF Committed
  <1>3. Handlers = {} BY DEF Handlers
  <1>4. Cardinality(Handlers) = 0 BY <1>3, FS_EmptySet
  <1> QED BY <1>1, <1>2, <1>4 DEF RepeatInv, RowKnown, ExpiredIsIdle, Paid

\* However many times a key is sent, and whatever dies, expires or is slow in
\* between, each effect beyond the first is matched by a lapse of its own.
THEOREM RepeatsAlwaysExplained == Spec => []RepeatsExplained
  <1>1. RepeatInv /\ [Next]_vars => RepeatInv'
    BY TypeStep, RowStep, PaidStep DEF RepeatInv
  <1>2. RepeatInv => RepeatsExplained
    <2> SUFFICES ASSUME RepeatInv PROVE RepeatsExplained OBVIOUS
    <2> QED BY HandlersCount, SomethingDone DEF RepeatInv, Paid, RepeatsExplained, Committed, TypeOK
  <1> QED BY <1>1, <1>2, RepeatInit, PTL DEF Spec

-----------------------------------------------------------------------------
(* While no claim was taken away from a working request, the one request    *)
(* that works is the one that holds the row, so what it stores answers the  *)
(* body the row was claimed with.                                           *)

\* Until a claim is released under its owner, only the owner of the row works.
OnlyOwnerWorks == overtaken = {} => \A r \in Requests : Alive(r) => row # NoRow /\ row.by = r /\ row.answer = NoBody
\* Who stores a response has committed.
CommittedFirst == \A r \in Requests : pc[r] \in {"reread", "store"} => effects[BodyOf[r]] >= 1
\* The response in the row answers the body in the row.
OwnAnswer == overtaken = {} /\ row.answer # NoBody => row.answer = row.body /\ effects[row.body] >= 1
\* The inductive invariant of the responses.
AnswerInv == RepeatInv /\ OnlyOwnerWorks /\ CommittedFirst /\ OwnAnswer /\ AnswersOwnRequest

\* The steps of one request keep the answers right.
LEMMA AnswerRequestStep ==
  ASSUME AnswerInv, NEW r \in Requests, RunIdempotent(r) \/ HandlerFails(r) \/ StoreFails(r) \/ Crash(r)
  PROVE  OnlyOwnerWorks' /\ CommittedFirst' /\ OwnAnswer' /\ AnswersOwnRequest'
  <1> USE RowIsClaim, NoRowIsEmpty, BodiesFinite
      DEF AnswerInv, RepeatInv, RowKnown, ExpiredIsIdle, OnlyOwnerWorks, CommittedFirst, OwnAnswer, AnswersOwnRequest, Alive, TypeOK
  <1>1. CASE ClaimInsert(r) BY <1>1 DEF ClaimInsert, Goto
  <1>2. CASE LookGone(r) /\ UNCHANGED Ghosts BY <1>2 DEF LookGone, Goto, Ghosts
  <1>3. CASE LookDifferent(r) /\ UNCHANGED Ghosts BY <1>3 DEF LookDifferent, End, Goto, Ghosts
  <1>4. CASE Replay(r) /\ UNCHANGED Ghosts BY <1>4 DEF Replay, End, Goto, Ghosts, SameBody
  <1>5. CASE LookStale(r) /\ UNCHANGED Ghosts BY <1>5 DEF LookStale, Goto, Ghosts, InFlight
  <1>6. CASE Wait(r) /\ UNCHANGED Ghosts BY <1>6 DEF Wait, Goto, Ghosts, InFlight
  <1>7. CASE GiveUp(r) /\ UNCHANGED Ghosts BY <1>7 DEF GiveUp, End, Goto, Ghosts, InFlight
  <1>8. CASE ReleaseStale(r)
    <2>1. overtaken \subseteq overtaken' /\ pc' = [pc EXCEPT ![r] = "insert"] /\ UNCHANGED <<waited, reply, effects>>
      BY <1>8 DEF ReleaseStale, Delete, Goto
    <2>2. overtaken' = {} => (row' = row \/ (row' = NoRow /\ ~Alive(row.by)))
      BY <1>8 DEF ReleaseStale, Delete
    <2>3. overtaken' = {} => overtaken = {}
      BY <2>1
    <2>4. OnlyOwnerWorks' BY <2>1, <2>2, <2>3
    <2>5. OwnAnswer' BY <2>1, <2>2, <2>3
    <2>6. CommittedFirst' BY <2>1
    <2>7. AnswersOwnRequest' BY <2>1, <2>3
    <2> QED BY <2>4, <2>5, <2>6, <2>7
  <1>9. CASE HandlerCommit(r) BY <1>9 DEF HandlerCommit, Goto
  <1>10. CASE HandlerReturns(r) BY <1>10 DEF HandlerReturns, Goto
  <1>11. CASE Store(r) BY <1>11 DEF Store, End, Goto
  <1>12. CASE HandlerFails(r) BY <1>12 DEF HandlerFails, Release, End, Goto
  <1>13. CASE StoreFails(r) BY <1>13 DEF StoreFails, Release, End, Goto
  <1>14. CASE Crash(r) BY <1>14 DEF Crash, Goto
  <1> QED BY <1>1, <1>2, <1>3, <1>4, <1>5, <1>6, <1>7, <1>8, <1>9, <1>10, <1>11, <1>12, <1>13, <1>14, Zenon
          DEF RunIdempotent, Look

\* As long as no claim was taken away from a working request, every replayed
\* response answers the request that gets it, and its effect is there.
THEOREM AnswersAlwaysOwn == Spec => []AnswersOwnRequest
  <1>1. Init => AnswerInv
    <2> SUFFICES ASSUME Init PROVE AnswerInv OBVIOUS
    <2> QED BY RepeatInit, NoRowIsEmpty DEF Init, AnswerInv, OnlyOwnerWorks, CommittedFirst, OwnAnswer, AnswersOwnRequest, Alive, Silent
  <1>2. AnswerInv /\ [Next]_vars => AnswerInv'
    <2> SUFFICES ASSUME AnswerInv, [Next]_vars PROVE AnswerInv' OBVIOUS
    <2>1. RepeatInv' BY TypeStep, RowStep, PaidStep DEF RepeatInv, AnswerInv
    <2>2. OnlyOwnerWorks' /\ CommittedFirst' /\ OwnAnswer' /\ AnswersOwnRequest'
      <3> USE DEF AnswerInv, OnlyOwnerWorks, CommittedFirst, OwnAnswer, AnswersOwnRequest, Alive
      <3>1. CASE UNCHANGED vars BY <3>1 DEF vars
      <3>2. CASE Age BY <3>2, NoRowIsEmpty, RequestsAssumption DEF Age, RepeatInv, RowKnown, TypeOK
      <3> QED BY <3>1, <3>2, AnswerRequestStep DEF Next, Finished
    <2> QED BY <2>1, <2>2 DEF AnswerInv
  <1>3. AnswerInv => AnswersOwnRequest BY DEF AnswerInv
  <1> QED BY <1>1, <1>2, <1>3, PTL DEF Spec
=============================================================================
