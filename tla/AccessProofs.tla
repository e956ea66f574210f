---------------------------- MODULE AccessProofs ----------------------------
(* Proofs about Staff, Platform and Sessions, for every number of users,    *)
(* roles, processes, requests, tokens and days.                             *)
EXTENDS Sessions, Staff, Platform, FiniteSetTheorems, WellFoundedInduction, TLAPS

-----------------------------------------------------------------------------
(* Staff. *)

\* A check that is under way names a user or a role of its kind.
ChecksNameRows ==
  \A t \in Threads :
    /\ task[t].pc \in {"assign", "delete"} => task[t].who \in Users
    /\ task[t].pc = "drop" => task[t].who \in Roles

\* OwnersLeft still holds of the owners that the request has counted.
CountsSuffice ==
  \A t \in Threads :
    LET j == task[t] IN
      j.who \in j.owners /\ (j.pc = "delete" \/ (j.pc = "assign" /\ Owner \notin j.roles))
        => Cardinality(j.owners) > 1

\* An entry that was right when it was put has been wrong for no longer than
\* it has been there: what it has left and the age of the change fit into
\* its lifetime.
EntriesAge ==
  \A p \in Processes :
    cache[p].left > 0 /\ cache[p].keys # KeysOf(Caller) /\ ~cache[p].late => since + cache[p].left <= Ttl

StaffInv == StaffTypeOK /\ ChecksNameRows /\ CountsSuffice /\ EntriesAge /\ OwnerRemains

\* The first state satisfies the invariant: the founder owns the business.
LEMMA StaffInitInv == StaffInit => StaffInv
  <1> SUFFICES ASSUME StaffInit PROVE StaffInv
    OBVIOUS
  <1> USE StaffAssumption DEF StaffInit
  <1>1. StaffTypeOK
    <2>1. people \in [Users -> Person] /\ role \in [Roles -> RoleRow]
      BY Zenon DEF Person, RoleRow
    <2>2. cache \in [Processes -> Entry] /\ task \in [Threads -> Tasks]
      BY DEF Entry, NoEntry, Tasks, Free
    <2>3. commits = 0 /\ since = Ttl + 1 /\ countCrossed = FALSE
      BY Zenon
    <2> HIDE DEF StaffInit
    <2>4. commits \in 0..MaxCommits /\ since \in 0..(Ttl + 1)
      BY <2>3
    <2> QED
      BY <2>1, <2>2, <2>3, <2>4, Zenon DEF StaffTypeOK
  <1>2. ChecksNameRows /\ CountsSuffice
    BY DEF ChecksNameRows, CountsSuffice, Free
  <1>3. EntriesAge
    BY DEF EntriesAge, NoEntry
  <1>4. Founder \in Owners
    BY DEF Owners, IsOwner
  <1> QED
    BY <1>1, <1>2, <1>3, <1>4 DEF StaffInv, OwnerRemains

\* A commit keeps the types and ends its request.
LEMMA StaffCommitTypes ==
  ASSUME StaffInv, NEW t \in Threads, NEW ps \in [Users -> Person], NEW rs \in [Roles -> RoleRow],
         Commit(t, ps, rs), UNCHANGED cache, countCrossed' \in BOOLEAN
  PROVE  StaffTypeOK' /\ ChecksNameRows' /\ CountsSuffice' /\ EntriesAge'
  <1> USE StaffAssumption DEF StaffInv, Commit, Step, Set
  <1>1. StaffTypeOK'
    BY DEF StaffTypeOK, Tasks, Free, Note
  <1>2. ChecksNameRows' /\ CountsSuffice'
    BY DEF ChecksNameRows, CountsSuffice, Free, StaffTypeOK
  <1>3. KeysOf(Caller)' = ComputeKeys(ps, rs, Caller)
    BY DEF KeysOf
  <1>4. EntriesAge'
    <2> SUFFICES ASSUME NEW p \in Processes, cache[p].left > 0, cache[p].keys # KeysOf(Caller)', ~cache[p].late
                 PROVE  since' + cache[p].left <= Ttl
      BY DEF EntriesAge
    <2>1. cache[p].left \in 0..Ttl /\ since \in Nat
      BY DEF StaffTypeOK, Entry
    <2>2. CASE ComputeKeys(ps, rs, Caller) # KeysOf(Caller)
      BY <2>1, <2>2 DEF Note
    <2>3. CASE ComputeKeys(ps, rs, Caller) = KeysOf(Caller)
      BY <2>1, <2>3, <1>3 DEF Note, EntriesAge
    <2> QED
      BY <2>2, <2>3
  <1> QED
    BY <1>1, <1>2, <1>4

\* The two ways of losing an owner. If the owners are those that the request
\* counted, one of them is left.
LEMMA OwnerLeft ==
  ASSUME StaffInv, NEW t \in Threads, task[t].who \in Users,
         NEW lost \in SUBSET Users, lost \subseteq {task[t].who},
         lost # {} /\ task[t].who \in task[t].owners => Cardinality(task[t].owners) > 1,
         Owners \ lost \subseteq Owners', countCrossed' = Crossed(t)
  PROVE  OwnerRemains'
  <1>1. CASE Crossed(t)
    BY <1>1 DEF OwnerRemains
  <1>2. CASE ~Crossed(t)
    <2>1. Owners = task[t].owners /\ Owners # {}
      BY <1>2 DEF Crossed, StaffInv, OwnerRemains
    <2>2. Owners # {task[t].who} \/ lost = {}
      <3> SUFFICES ASSUME Owners = {task[t].who}, lost # {} PROVE FALSE
        OBVIOUS
      <3>1. Cardinality({task[t].who}) = 1
        BY FS_Singleton
      <3>2. Cardinality({task[t].who}) > 1
        BY <2>1
      <3> QED
        BY <3>1, <3>2
    <2> QED
      BY <2>1, <2>2 DEF OwnerRemains
  <1> QED
    BY <1>1, <1>2

\* Every step of the staff administration keeps the invariant: a count that
\* found two owners is only overtaken by a removal that marks it crossed, and
\* an entry of a cache loses a day of its life for each day of the change.
LEMMA StaffNextInv == StaffInv /\ [StaffNext]_staffVars => StaffInv'
  <1> SUFFICES ASSUME StaffInv, [StaffNext]_staffVars PROVE StaffInv'
    OBVIOUS
  <1> USE StaffAssumption
  <1>0. StaffTypeOK
    BY DEF StaffInv
  <1>1. ASSUME NEW t \in Threads, Request(t) PROVE StaffInv'
    <2>1. cache' = cache
      BY <1>0, <1>1 DEF Request, Get, StaffTypeOK
    <2>2. KeysOf(Caller) \subseteq Keys
      BY <1>0 DEF KeysOf, ComputeKeys, StaffTypeOK, Person, RoleRow
    <2> DEFINE j == [Free EXCEPT !.pc = "put", !.keys = KeysOf(Caller)]
    <2>3. j \in Tasks /\ j.pc = "put"
      BY <2>2 DEF Free, Tasks
    <2>4. UNCHANGED task \/ task' = [task EXCEPT ![t] = j]
      BY <1>1 DEF Request, Set
    <2> HIDE DEF j
    <2>6. StaffTypeOK'
      BY <1>0, <1>1, <2>1, <2>3, <2>4 DEF Request, StaffTypeOK
    <2>7. ChecksNameRows' /\ CountsSuffice'
      BY <1>0, <2>3, <2>4 DEF StaffTypeOK, StaffInv, ChecksNameRows, CountsSuffice
    <2>5. EntriesAge' /\ OwnerRemains'
      BY <1>1, <2>1 DEF Request, StaffInv, EntriesAge, OwnerRemains, KeysOf, Owners, IsOwner
    <2> QED
      BY <2>5, <2>6, <2>7 DEF StaffInv
  <1>2. ASSUME NEW t \in Threads, Put(t) PROVE StaffInv'
    <2> DEFINE new == [left |-> Ttl, keys |-> task[t].keys, late |-> task[t].keys # KeysOf(Caller)]
    <2>1. cache' = [cache EXCEPT ![ProcessOf[t]] = new]
      BY <1>2 DEF Put
    <2>2. new \in Entry
      BY <1>0 DEF StaffTypeOK, Entry, Tasks
    <2>3. StaffTypeOK'
      BY <1>0, <1>2, <2>1, <2>2 DEF Put, Step, Set, Free, StaffTypeOK, Tasks
    <2>4. ChecksNameRows' /\ CountsSuffice'
      BY <1>0, <1>2 DEF Put, Step, Set, Free, StaffTypeOK, StaffInv, ChecksNameRows, CountsSuffice
    <2>5. OwnerRemains' /\ KeysOf(Caller)' = KeysOf(Caller) /\ since' = since
      BY <1>2 DEF Put, StaffInv, OwnerRemains, KeysOf, Owners, IsOwner
    <2>6. EntriesAge'
      BY <1>0, <2>1, <2>5 DEF StaffInv, EntriesAge, StaffTypeOK
    <2> QED
      BY <2>3, <2>4, <2>5, <2>6 DEF StaffInv
  <1>3. ASSUME NEW t \in Threads, InvalidateAll(t) PROVE StaffInv'
    <2>1. StaffTypeOK'
      BY <1>0, <1>3 DEF InvalidateAll, Step, Set, Free, StaffTypeOK, Tasks, NoEntry, Entry
    <2>2. ChecksNameRows' /\ CountsSuffice'
      BY <1>0, <1>3 DEF InvalidateAll, Step, Set, Free, StaffTypeOK, StaffInv, ChecksNameRows, CountsSuffice
    <2>3. OwnerRemains' /\ EntriesAge'
      BY <1>0, <1>3 DEF InvalidateAll, NoEntry, StaffTypeOK, StaffInv, OwnerRemains, EntriesAge, KeysOf, Owners, IsOwner
    <2> QED
      BY <2>1, <2>2, <2>3 DEF StaffInv
  <1>4. CASE Tick
    <2>1. StaffTypeOK'
      BY <1>0, <1>4 DEF Tick, StaffTypeOK, NoEntry, Entry
    <2>2. ChecksNameRows' /\ CountsSuffice' /\ OwnerRemains'
      BY <1>4 DEF Tick, StaffInv, ChecksNameRows, CountsSuffice, OwnerRemains, Owners, IsOwner
    <2>3. KeysOf(Caller)' = KeysOf(Caller)
      BY <1>4 DEF Tick, KeysOf
    <2>4. EntriesAge'
      BY <1>0, <1>4, <2>3 DEF Tick, NoEntry, StaffTypeOK, Entry, StaffInv, EntriesAge
    <2> QED
      BY <2>1, <2>2, <2>4 DEF StaffInv
  <1>5. ASSUME NEW t \in Threads, NEW j \in Tasks, task' = [task EXCEPT ![t] = j],
               UNCHANGED <<people, role, cache, commits, since, countCrossed>>,
               j.pc \in {"assign", "delete"} => j.who \in Users, j.pc = "drop" => j.who \in Roles,
               j.who \in j.owners /\ (j.pc = "delete" \/ (j.pc = "assign" /\ Owner \notin j.roles))
                 => Cardinality(j.owners) > 1
        PROVE  StaffInv'
    <2>1. StaffTypeOK'
      BY <1>0, <1>5 DEF StaffTypeOK
    <2>2. ChecksNameRows' /\ CountsSuffice'
      BY <1>0, <1>5 DEF StaffTypeOK, StaffInv, ChecksNameRows, CountsSuffice
    <2>3. OwnerRemains' /\ EntriesAge'
      BY <1>5 DEF StaffInv, OwnerRemains, EntriesAge, KeysOf, Owners, IsOwner
    <2> QED
      BY <2>1, <2>2, <2>3 DEF StaffInv
  <1>6. ASSUME NEW t \in Threads, NEW u \in Users, NEW rs \in SUBSET Roles, CheckRoles(t, u, rs) PROVE StaffInv'
    <2> DEFINE j == [Free EXCEPT !.pc = "assign", !.who = u, !.roles = rs, !.owners = Owners]
    <2>1. j \in Tasks /\ j.pc = "assign" /\ j.who = u /\ j.roles = rs /\ j.owners = Owners
      BY DEF Free, Tasks, Owners
    <2>2. u \in Owners /\ Owner \notin rs => Cardinality(Owners) > 1
      BY <1>6 DEF CheckRoles, OwnersLeft, Owners
    <2>3. task' = [task EXCEPT ![t] = j] /\ UNCHANGED <<people, role, cache, commits, since, countCrossed>>
      BY <1>6 DEF CheckRoles, Set
    <2> HIDE DEF j
    <2> QED
      BY <2>1, <2>2, <2>3, <1>5
  <1>7. ASSUME NEW t \in Threads, NEW u \in Users, NEW by \in Users, CheckDelete(t, u, by) PROVE StaffInv'
    <2> DEFINE j == [Free EXCEPT !.pc = "delete", !.who = u, !.owners = Owners]
    <2>1. j \in Tasks /\ j.pc = "delete" /\ j.who = u /\ j.owners = Owners
      BY DEF Free, Tasks, Owners
    <2>2. u \in Owners => Cardinality(Owners) > 1
      BY <1>7 DEF CheckDelete, OwnersLeft, Owners
    <2>3. task' = [task EXCEPT ![t] = j] /\ UNCHANGED <<people, role, cache, commits, since, countCrossed>>
      BY <1>7 DEF CheckDelete, Set
    <2> HIDE DEF j
    <2> QED
      BY <2>1, <2>2, <2>3, <1>5
  <1>8. ASSUME NEW t \in Threads, NEW r \in Roles, CheckDeleteRole(t, r) PROVE StaffInv'
    <2> DEFINE j == [Free EXCEPT !.pc = "drop", !.who = r]
    <2>1. j \in Tasks /\ j.pc = "drop" /\ j.who = r /\ j.owners = {}
      BY DEF Free, Tasks
    <2>3. task' = [task EXCEPT ![t] = j] /\ UNCHANGED <<people, role, cache, commits, since, countCrossed>>
      BY <1>8 DEF CheckDeleteRole, Set
    <2> HIDE DEF j
    <2> QED
      BY <2>1, <2>3, <1>5
  <1>9. ASSUME NEW t \in Threads, NEW u \in Users, NEW rs \in SUBSET Roles, CreateTenantUser(t, u, rs) PROVE StaffInv'
    <2> DEFINE ps == [people EXCEPT ![u] = [here |-> TRUE, roles |-> {r \in rs : role[r].here}]]
    <2>1. ps \in [Users -> Person] /\ role \in [Roles -> RoleRow]
      BY <1>0 DEF StaffTypeOK, Person
    <2>2. Commit(t, ps, role) /\ UNCHANGED <<cache, countCrossed>>
      BY <1>9 DEF CreateTenantUser
    <2>3. Owners \subseteq Owners'
      BY <1>0, <1>9, <2>2 DEF Commit, CreateTenantUser, Owners, IsOwner, StaffTypeOK
    <2>4. OwnerRemains'
      BY <2>2, <2>3 DEF StaffInv, OwnerRemains
    <2>5. countCrossed' \in BOOLEAN
      BY <1>0, <2>2 DEF StaffTypeOK
    <2> HIDE DEF ps
    <2> QED
      BY <2>1, <2>2, <2>4, <2>5, StaffCommitTypes DEF StaffInv
  <1>10. ASSUME NEW t \in Threads, ReplaceUserRoles(t) PROVE StaffInv'
    <2> DEFINE u == task[t].who
               ps == [people EXCEPT ![u].roles = task[t].roles]
               lost == IF Owner \in task[t].roles THEN {} ELSE {u}
    <2>1. u \in Users /\ task[t].pc = "assign" /\ task[t] \in Tasks
      BY <1>0, <1>10 DEF ReplaceUserRoles, StaffInv, ChecksNameRows, StaffTypeOK
    <2>2. ps \in [Users -> Person] /\ role \in [Roles -> RoleRow]
      BY <1>0, <2>1 DEF StaffTypeOK, Person, Tasks
    <2>3. Commit(t, ps, role) /\ UNCHANGED cache /\ countCrossed' = Crossed(t)
      BY <1>10 DEF ReplaceUserRoles
    <2>4. Owners \ lost \subseteq Owners'
      BY <1>0, <2>1, <2>3 DEF Commit, Owners, IsOwner, StaffTypeOK, Person
    <2>5. lost # {} /\ u \in task[t].owners => Cardinality(task[t].owners) > 1
      BY <2>1 DEF StaffInv, CountsSuffice
    <2>6. OwnerRemains'
      BY <2>1, <2>3, <2>4, <2>5, OwnerLeft
    <2>7. countCrossed' \in BOOLEAN
      BY <1>0, <2>3 DEF StaffTypeOK, Crossed
    <2> HIDE DEF ps
    <2> QED
      BY <2>2, <2>3, <2>6, <2>7, StaffCommitTypes DEF StaffInv
  <1>11. ASSUME NEW t \in Threads, SoftDeleteTenantUser(t) PROVE StaffInv'
    <2> DEFINE u == task[t].who
               ps == [people EXCEPT ![u].here = FALSE]
               lost == {u}
    <2>1. u \in Users /\ task[t].pc = "delete" /\ task[t] \in Tasks
      BY <1>0, <1>11 DEF SoftDeleteTenantUser, StaffInv, ChecksNameRows, StaffTypeOK
    <2>2. ps \in [Users -> Person] /\ role \in [Roles -> RoleRow]
      BY <1>0, <2>1, ZenonT(60) DEF StaffTypeOK, Person, Tasks
    <2>3. Commit(t, ps, role) /\ UNCHANGED cache /\ countCrossed' = Crossed(t)
      BY <1>11 DEF SoftDeleteTenantUser
    <2>4. Owners \ lost \subseteq Owners'
      BY <1>0, <2>1, <2>3 DEF Commit, Owners, IsOwner, StaffTypeOK, Person
    <2>5. u \in task[t].owners => Cardinality(task[t].owners) > 1
      BY <2>1 DEF StaffInv, CountsSuffice
    <2>6. OwnerRemains'
      BY <2>1, <2>3, <2>4, <2>5, OwnerLeft
    <2>7. countCrossed' \in BOOLEAN
      BY <1>0, <2>3 DEF StaffTypeOK, Crossed
    <2> HIDE DEF ps
    <2> QED
      BY <2>2, <2>3, <2>6, <2>7, StaffCommitTypes DEF StaffInv
  <1>12. ASSUME NEW t \in Threads, NEW rs \in [Roles -> RoleRow], Commit(t, people, rs), UNCHANGED <<cache, countCrossed>>
         PROVE  StaffInv'
    <2>1. people \in [Users -> Person] /\ countCrossed' \in BOOLEAN
      BY <1>0, <1>12 DEF StaffTypeOK
    <2>2. OwnerRemains'
      BY <1>12 DEF Commit, StaffInv, OwnerRemains, Owners, IsOwner
    <2> QED
      BY <1>12, <2>1, <2>2, StaffCommitTypes DEF StaffInv
  <1>13. ASSUME NEW t \in Threads, NEW r \in Roles, NEW ks \in SUBSET Keys, CreateRole(t, r, ks) PROVE StaffInv'
    <2>1. [role EXCEPT ![r] = [here |-> TRUE, keys |-> ks]] \in [Roles -> RoleRow]
      BY <1>0 DEF StaffTypeOK, RoleRow
    <2> QED
      BY <1>13, <1>12, <2>1 DEF CreateRole
  <1>14. ASSUME NEW t \in Threads, NEW r \in Roles, NEW ks \in SUBSET Keys, ReplaceRolePermissions(t, r, ks) PROVE StaffInv'
    <2>1. [role EXCEPT ![r].keys = ks] \in [Roles -> RoleRow]
      BY <1>0 DEF StaffTypeOK, RoleRow
    <2> QED
      BY <1>14, <1>12, <2>1 DEF ReplaceRolePermissions
  <1>15. ASSUME NEW t \in Threads, DeleteRole(t) PROVE StaffInv'
    <2>1. [role EXCEPT ![task[t].who].here = FALSE] \in [Roles -> RoleRow]
      BY <1>0 DEF StaffTypeOK, RoleRow
    <2> QED
      BY <1>15, <1>12, <2>1 DEF DeleteRole
  <1>16. CASE UNCHANGED staffVars
    <2>1. StaffTypeOK' /\ ChecksNameRows' /\ CountsSuffice'
      BY <1>16, <1>0 DEF staffVars, StaffInv, StaffTypeOK, ChecksNameRows, CountsSuffice
    <2>2. EntriesAge' /\ OwnerRemains'
      BY <1>16 DEF staffVars, StaffInv, EntriesAge, KeysOf, OwnerRemains, Owners, IsOwner
    <2> QED
      BY <2>1, <2>2 DEF StaffInv
  <1> QED
    BY <1>1, <1>2, <1>3, <1>4, <1>6, <1>7, <1>8, <1>9, <1>10, <1>11, <1>13, <1>14, <1>15, <1>16
       DEF StaffNext, Manage

\* Users, roles, caches and requests always have their types.
THEOREM StaffAlways == StaffSpec => []StaffInv
  BY StaffInitInv, StaffNextInv, PTL DEF StaffSpec

\* For every number of processes and requests and every lifetime of the cache:
\* an old key is granted for at most the lifetime after the change.
THEOREM OldKeysAlwaysExpire == StaffSpec => []OldKeysExpire
  <1>1. StaffInv => OldKeysExpire
    BY StaffAssumption DEF StaffInv, StaffTypeOK, Entry, EntriesAge, OldKeysExpire
  <1> QED
    BY <1>1, StaffAlways, PTL

\* For every number of users and requests: the business keeps an owner, unless
\* two removals counted the same owners.
THEOREM AnOwnerAlwaysRemains == StaffSpec => []OwnerRemains
  <1>1. StaffInv => OwnerRemains
    BY DEF StaffInv
  <1> QED
    BY <1>1, StaffAlways, PTL

-----------------------------------------------------------------------------
(* Platform. *)

\* The grounds of a lease: what it runs to is past, or within the trial, or
\* within the paid period and its grace.
LeaseGrounded ==
  lease.stands =>
    /\ business.active
    /\ \/ lease.until <= today
       \/ business.status = "trial" /\ (business.trial = NoDate \/ lease.until <= business.trial)
       \/ business.status = "active" /\ (business.paid = NoDate \/ lease.until <= business.paid + GraceDays)

\* No payment bought days past the end of the paid period.
PaymentsCovered == shortened \/ \A i \in DOMAIN payments : payments[i].end <= business.paid

\* The codes accepted for the current secret are at or below last_totp_step,
\* and a secret that is not in use yet has none.
CodesRecorded ==
  codeCrossed \/
    /\ \A i \in 0..1, n \in Steps : codes[<<i, n>>] <= 1
    /\ \A n \in Steps : codes[<<admin.secret, n>>] > 0 => n <= admin.last
    /\ \A i \in 0..1, n \in Steps : i > admin.secret => codes[<<i, n>>] = 0

PlatformInv == PlatformTypeOK /\ LeaseGrounded /\ PaymentsCovered /\ PeriodsDisjoint /\ CodesRecorded

\* The constants are naturals.
LEMMA PlatformNaturals ==
  /\ TrialDays \in Nat /\ GraceDays \in Nat /\ LeaseDays \in Nat
  /\ MaxDay \in Nat /\ MaxPayments \in Nat /\ MaxPatches \in Nat
  BY PlatformAssumption

\* The items of a sequence over a set are in that set.
LEMMA ItemsOfSequences ==
  \A S : \A q \in Seq(S) : DOMAIN q = 1..Len(q) /\ \A i \in DOMAIN q : q[i] \in S
  OBVIOUS

\* The larger of two numbers, as PeriodStart and the extensions take it.
LEMMA MaxOfTwo ==
  \A a, b \in Int : Max({a, b}) \in {a, b} /\ Max({a, b}) >= a /\ Max({a, b}) >= b
  <1> SUFFICES ASSUME NEW a \in Int, NEW b \in Int PROVE Max({a, b}) \in {a, b} /\ Max({a, b}) >= a /\ Max({a, b}) >= b
    OBVIOUS
  <1>1. \E x \in {a, b} : \A y \in {a, b} : x >= y
    BY a >= b \/ b >= a
  <1> QED
    BY <1>1 DEF Max, Min

\* The largest of three numbers.
LEMMA MaxOfThree ==
  \A a, b, c \in Int : Max({a, b, c}) \in {a, b, c} /\ Max({a, b, c}) >= a /\ Max({a, b, c}) >= b
  <1> SUFFICES ASSUME NEW a \in Int, NEW b \in Int, NEW c \in Int PROVE Max({a, b, c}) \in {a, b, c} /\ Max({a, b, c}) >= a /\ Max({a, b, c}) >= b
    OBVIOUS
  <1>1. \E x \in {a, b, c} : \A y \in {a, b, c} : x >= y
    OBVIOUS
  <1> QED
    BY <1>1 DEF Max, Min

\* The smaller of two numbers, as add_months and compute_valid_until take it.
LEMMA MinOfTwo ==
  \A a, b \in Int : Min({a, b}) \in {a, b} /\ Min({a, b}) <= a /\ Min({a, b}) <= b
  <1> SUFFICES ASSUME NEW a \in Int, NEW b \in Int PROVE Min({a, b}) \in {a, b} /\ Min({a, b}) <= a /\ Min({a, b}) <= b
    OBVIOUS
  <1>1. \E x \in {a, b} : \A y \in {a, b} : x <= y
    BY a >= b \/ b >= a
  <1> QED
    BY <1>1 DEF Max, Min

\* add_months never goes back: the same day of a later month, or that month's
\* last day, comes after the day it started from.
LEMMA MonthsAdvance ==
  ASSUME NEW d \in Nat, NEW k \in Nat, k > 0, InCalendar(d, k)
  PROVE  AddMonths(d, k) \in Nat /\ AddMonths(d, k) > d
  <1> DEFINE L == Len(MonthStarts)
             m == MonthOf(d)
             x == MonthStarts[m + k]
             y == MonthStarts[m + k + 1]
  <1>0. L \in Nat /\ DOMAIN MonthStarts = 1..L /\ \A i \in 1..L : MonthStarts[i] \in Nat
    BY PlatformAssumption, SMTT(30)
  <1>a. \A i, j \in 1..L : i < j => MonthStarts[i] < MonthStarts[j]
    BY <1>0, PlatformAssumption
  <1>1. PICK n \in 1..(L - k - 1) : MonthStarts[n] <= d /\ d < MonthStarts[n + 1]
    BY DEF InCalendar
  <1>2. m \in 1..(L - 1) /\ MonthStarts[m] <= d /\ d < MonthStarts[m + 1]
    <2>1. n \in 1..(L - 1)
      BY <1>0, <1>1
    <2>2. \E i \in 1..(L - 1) : MonthStarts[i] <= d /\ d < MonthStarts[i + 1]
      BY <1>1, <2>1
    <2> QED
      BY <2>2 DEF MonthOf
  <1> HIDE DEF m
  <1>3. m = n
    <2>1. ~(m < n)
      <3> SUFFICES ASSUME m < n PROVE FALSE
        OBVIOUS
      <3>1. m + 1 = n \/ MonthStarts[m + 1] < MonthStarts[n]
        BY <1>0, <1>a, <1>1, <1>2
      <3> QED
        BY <1>0, <1>1, <1>2, <3>1
    <2>2. ~(n < m)
      <3> SUFFICES ASSUME n < m PROVE FALSE
        OBVIOUS
      <3>1. n + 1 = m \/ MonthStarts[n + 1] < MonthStarts[m]
        BY <1>0, <1>a, <1>1, <1>2
      <3> QED
        BY <1>0, <1>1, <1>2, <3>1
    <2> QED
      BY <1>1, <1>2, <2>1, <2>2
  <1>4. m + k \in 1..L /\ m + k + 1 \in 1..L /\ m + 1 \in 1..L /\ x < y /\ MonthStarts[m + 1] <= x
    <2>1. m + k \in 1..L /\ m + k + 1 \in 1..L /\ m + 1 \in 1..L
      BY <1>0, <1>1, <1>3
    <2>2. x < y
      BY <1>0, <1>2, <2>1, <1>a, m + k < m + k + 1
    <2>3. m + 1 = m + k \/ MonthStarts[m + 1] < x
      BY <1>0, <1>a, <1>2, <2>1
    <2> QED
      BY <1>0, <2>1, <2>2, <2>3
  <1> HIDE DEF x, y
  <1>5. d - MonthStarts[m] \in Nat /\ y - x - 1 \in Nat
    BY <1>0, <1>2, <1>4, SMTT(30) DEF x, y
  <1>6. Min({d - MonthStarts[m], y - x - 1}) \in Nat
    <2>1. \A p, q \in Nat : Min({p, q}) \in Nat
      BY MinOfTwo
    <2> QED
      BY <1>5, <2>1
  <1>7. AddMonths(d, k) = x + Min({d - MonthStarts[m], y - x - 1})
    BY DEF AddMonths, m, x, y
  <1> QED
    BY <1>0, <1>2, <1>4, <1>6, <1>7, SMTT(30) DEF x

\* The business starts its trial with neither payments nor leases.
LEMMA PlatformInitInv == PlatformInit => PlatformInv
  <1> SUFFICES ASSUME PlatformInit PROVE PlatformInv
    OBVIOUS
  <1> USE PlatformNaturals DEF PlatformInit
  <1>1. PlatformTypeOK
    <2>1. business \in Business /\ payments \in Seq([start : Days, end : Days])
      BY DEF Business, Days
    <2>2. lease \in [until : Days, stands : BOOLEAN] /\ admin \in [secret : 0..1, last : Steps, tv : 0..1]
      BY DEF Days, Steps
    <2>3. signIn \in [SignIns -> [pc : {"out", "checked", "in"}, secret : 0..1, step : Steps]]
      BY DEF Outside, Steps
    <2>4. codes \in [(0..1) \X Steps -> Nat]
      OBVIOUS
    <2>5. today \in 0..MaxDay /\ patches \in 0..MaxPatches
      OBVIOUS
    <2>6. shortened \in BOOLEAN /\ codeCrossed \in BOOLEAN
      BY Zenon
    <2> HIDE DEF PlatformInit
    <2> QED
      BY <2>1, <2>2, <2>3, <2>4, <2>5, <2>6 DEF PlatformTypeOK
  <1>2. LeaseGrounded /\ PaymentsCovered /\ PeriodsDisjoint
    BY DEF LeaseGrounded, PaymentsCovered, PeriodsDisjoint
  <1>3. CodesRecorded
    BY DEF CodesRecorded
  <1> QED
    BY <1>1, <1>2, <1>3 DEF PlatformInv

\* How far compute_valid_until lets a lease run.
LEMMA LeaseRuns ==
  ASSUME NEW b \in Business, NEW n \in Nat
  PROVE  /\ ValidUntil(b, n) \in Nat
         /\ \/ ValidUntil(b, n) <= n
            \/ b.status = "trial" /\ (b.trial = NoDate \/ ValidUntil(b, n) <= b.trial)
            \/ b.status = "active" /\ (b.paid = NoDate \/ ValidUntil(b, n) <= b.paid + GraceDays)
  <1> USE PlatformNaturals
  <1>0. b.trial \in Int /\ b.paid \in Int /\ b.trial >= -1 /\ b.paid >= -1
        /\ b.status \in {"trial", "active", "suspended", "cancelled"} /\ n + LeaseDays \in Nat
    BY DEF Business, Days, NoDate
  <1> DEFINE state == ComputeState(b, n)
             cap == IF state = "trial" THEN b.trial ELSE IF b.paid = NoDate THEN NoDate ELSE b.paid + GraceDays
  <1>v. ValidUntil(b, n) = IF state \in {"expired", "suspended", "cancelled"} THEN n
                           ELSE IF cap = NoDate THEN n + LeaseDays
                           ELSE Min({n + LeaseDays, cap})
    BY DEF ValidUntil
  <1>m. \A p, q \in Nat : Min({p, q}) \in Nat /\ Min({p, q}) <= p /\ Min({p, q}) <= q
    BY MinOfTwo
  <1>1. CASE b.status \in {"suspended", "cancelled"}
    <2>1. state \in {"suspended", "cancelled"}
      BY <1>1 DEF ComputeState
    <2> QED
      BY <1>v, <2>1
  <1>2. CASE b.status = "trial"
    <2>1. CASE b.trial # NoDate /\ n > b.trial
      <3>1. state = "expired"
        BY <1>2, <2>1 DEF ComputeState
      <3> QED
        BY <1>v, <3>1
    <2>2. CASE ~(b.trial # NoDate /\ n > b.trial)
      <3>1. state = "trial"
        BY <1>2, <2>2 DEF ComputeState
      <3>2. b.trial = NoDate \/ b.trial \in Nat
        BY DEF Business, Days
      <3>3. CASE b.trial = NoDate
        BY <1>0, <1>2, <1>v, <3>1, <3>3
      <3>4. CASE b.trial # NoDate
        BY <1>0, <1>2, <1>v, <1>m, <3>1, <3>2, <3>4
      <3> QED
        BY <3>3, <3>4
    <2> QED
      BY <2>1, <2>2
  <1>3. CASE b.status = "active"
    <2>1. CASE b.paid = NoDate
      <3>1. state = "active"
        BY <1>3, <2>1 DEF ComputeState
      <3> QED
        BY <1>0, <1>3, <1>v, <2>1, <3>1
    <2>2. CASE b.paid # NoDate /\ n <= b.paid + GraceDays
      <3>1. b.paid + GraceDays # NoDate /\ b.paid + GraceDays \in Nat
        BY <1>0, <2>2 DEF NoDate
      <3>2. state \in {"active", "grace"}
        BY <1>3, <2>2 DEF ComputeState
      <3>3. ValidUntil(b, n) = Min({n + LeaseDays, b.paid + GraceDays})
        BY <1>v, <2>2, <3>1, <3>2
      <3> QED
        BY <1>0, <1>3, <1>m, <3>1, <3>3
    <2>3. CASE b.paid # NoDate /\ ~(n <= b.paid + GraceDays)
      <3>1. ~(n <= b.paid)
        BY <1>0, <2>3
      <3>2. state = "expired"
        BY <1>3, <2>3, <3>1 DEF ComputeState
      <3> QED
        BY <1>v, <3>2
    <2> QED
      BY <2>1, <2>2, <2>3
  <1> QED
    BY <1>0, <1>1, <1>2, <1>3

\* A change of the business ends the grounds of the lease and leaves the
\* admins alone: what is left to show is its dates.
LEMMA ChangeKeeps ==
  ASSUME PlatformInv, NEW b \in Business, Change(b),
         patches' \in 0..MaxPatches, payments' \in Seq([start : Days, end : Days]), shortened' \in BOOLEAN,
         PaymentsCovered', PeriodsDisjoint'
  PROVE  PlatformInv'
  <1>1. PlatformTypeOK'
    BY DEF PlatformInv, PlatformTypeOK, Change, adminVars
  <1>2. LeaseGrounded'
    BY DEF PlatformInv, PlatformTypeOK, Change, LeaseGrounded
  <1>3. CodesRecorded'
    BY DEF PlatformInv, Change, adminVars, CodesRecorded
  <1> QED
    BY <1>1, <1>2, <1>3 DEF PlatformInv

\* An end that is not earlier keeps the payments covered.
LEMMA LaterEndCovers ==
  ASSUME PlatformInv, NEW b \in Business, Change(b), UNCHANGED payments, shortened' \in BOOLEAN,
         patches' \in 0..MaxPatches, shortened => shortened', shortened' \/ b.paid >= business.paid
  PROVE  PlatformInv'
  <1>1. payments \in Seq([start : Nat, end : Nat]) /\ b.paid \in Int /\ business.paid \in Int /\ business' = b
    BY DEF PlatformInv, PlatformTypeOK, Business, Days, NoDate, Change
  <1>2. \A i \in DOMAIN payments : payments[i].end \in Int
    <2>1. \A i \in DOMAIN payments : payments[i] \in [start : Nat, end : Nat]
      BY <1>1, ItemsOfSequences
    <2> QED
      BY <2>1
  <1>3. PaymentsCovered'
    BY <1>1, <1>2 DEF PlatformInv, PaymentsCovered
  <1>4. PeriodsDisjoint'
    BY DEF PlatformInv, PeriodsDisjoint
  <1>5. payments' \in Seq([start : Days, end : Days])
    BY <1>1 DEF Days
  <1> QED
    BY <1>3, <1>4, <1>5, ChangeKeeps

\* Every step of the vendor's side keeps the invariant: a lease is cut to the
\* dates it was issued on, a period starts no earlier than the last one ends,
\* and a code is accepted above the step that was last recorded.
LEMMA PlatformNextInv == PlatformInv /\ [PlatformNext]_platformVars => PlatformInv'
  <1> SUFFICES ASSUME PlatformInv, [PlatformNext]_platformVars PROVE PlatformInv'
    OBVIOUS
  <1> USE PlatformNaturals
  <1>0. PlatformTypeOK
    BY DEF PlatformInv
  <1>t. today \in Nat /\ business.paid \in Int /\ business.trial \in Int /\ business.paid >= -1 /\ business.trial >= -1
    BY <1>0 DEF PlatformTypeOK, Business, Days, NoDate
  <1>1. CASE IssueLease
    <2> DEFINE until == ValidUntil(business, today)
    <2>1. /\ until \in Nat
          /\ \/ until <= today
             \/ business.status = "trial" /\ (business.trial = NoDate \/ until <= business.trial)
             \/ business.status = "active" /\ (business.paid = NoDate \/ until <= business.paid + GraceDays)
      BY <1>0, <1>t, LeaseRuns DEF PlatformTypeOK
    <2>2. lease' = [until |-> until, stands |-> TRUE] /\ business.active
          /\ UNCHANGED <<business, today, patches, payments, shortened, adminVars>>
      BY <1>1 DEF IssueLease
    <2> HIDE DEF until
    <2>3. PlatformTypeOK'
      <3>1. lease' \in [until : Days, stands : BOOLEAN]
        BY <2>1, <2>2 DEF Days
      <3> QED
        BY <1>0, <2>2, <3>1 DEF PlatformTypeOK, adminVars
    <2>4. LeaseGrounded'
      BY <2>1, <2>2 DEF LeaseGrounded
    <2>5. PaymentsCovered' /\ PeriodsDisjoint' /\ CodesRecorded'
      BY <2>2 DEF PlatformInv, PaymentsCovered, PeriodsDisjoint, CodesRecorded, adminVars
    <2> QED
      BY <2>3, <2>4, <2>5 DEF PlatformInv
  <1>2. CASE NextDay
    <2>1. PlatformTypeOK'
      BY <1>0, <1>2 DEF NextDay, PlatformTypeOK, adminVars
    <2>2. LeaseGrounded'
      <3>1. lease.until \in Int
        BY <1>0 DEF PlatformTypeOK, Days
      <3> QED
        BY <1>t, <1>2, <3>1 DEF NextDay, LeaseGrounded, PlatformInv
    <2>3. PaymentsCovered' /\ PeriodsDisjoint' /\ CodesRecorded'
      BY <1>2 DEF NextDay, PlatformInv, PaymentsCovered, PeriodsDisjoint, CodesRecorded, adminVars
    <2> QED
      BY <2>1, <2>2, <2>3 DEF PlatformInv
  <1>3. ASSUME NEW status \in {"trial", "active", "suspended", "cancelled"}, NEW end \in Dates \cup {NoDate},
               NEW days \in 0..1, PatchSubscription(status, end, days)
        PROVE  PlatformInv'
    <2> DEFINE b1 == [business EXCEPT !.status = status]
               b2 == IF end = NoDate THEN b1 ELSE WithEnd(b1, end)
               b3 == IF days = 0 THEN b2 ELSE Extended(b2, days)
    <2>1. b1 \in Business /\ b1.paid = business.paid
      BY <1>0 DEF PlatformTypeOK, Business
    <2>2. b2 \in Business /\ (end = NoDate => b2.paid = business.paid) /\ (end # NoDate => b2.paid = end)
      <3>1. CASE end = NoDate
        BY <2>1, <3>1
      <3>2. CASE end # NoDate
        <4>1. end \in Days
          BY <3>2, PlatformAssumption DEF Days
        <4>2. b2 = WithEnd(b1, end)
          BY <3>2
        <4> HIDE DEF b1, b2
        <4> QED
          BY <2>1, <3>2, <4>1, <4>2 DEF WithEnd, Business
      <3> QED
        BY <3>1, <3>2
    <2> HIDE DEF b1, b2
    <2>3. b3 \in Business /\ b3.paid >= b2.paid
      <3>0. b2.paid \in Int /\ b2.trial \in Int /\ b2.paid >= -1
        BY <2>2 DEF Business, Days, NoDate
      <3>1. CASE days = 0
        BY <2>2, <3>0, <3>1
      <3>2. CASE days # 0
        <4> DEFINE mp == Max({today, b2.paid})
                   mt == Max({today, b2.trial})
        <4>1. mp \in Nat /\ mp >= b2.paid /\ mt \in Nat
          <5>1. mp \in {today, b2.paid} /\ mp >= today /\ mp >= b2.paid /\ mt \in {today, b2.trial} /\ mt >= today
            <6>1. today \in Int /\ b2.paid \in Int /\ b2.trial \in Int
              BY <1>t, <3>0
            <6>2. mp \in {today, b2.paid} /\ mp >= today /\ mp >= b2.paid
              BY <6>1, MaxOfTwo
            <6>3. mt \in {today, b2.trial} /\ mt >= today
              BY <6>1, MaxOfTwo, Zenon
            <6> QED
              BY <6>2, <6>3
          <5> HIDE DEF mp, mt
          <5> QED
            BY <1>t, <3>0, <5>1
        <4>2. b3 = IF b2.status = "trial" THEN [b2 EXCEPT !.trial = mt + days] ELSE [b2 EXCEPT !.paid = mp + days]
          BY <3>2 DEF Extended
        <4> HIDE DEF mp, mt, b3
        <4> QED
          BY <2>2, <3>0, <4>1, <4>2 DEF Business, Days
      <3> QED
        BY <3>1, <3>2
    <2>4. Change(b3) /\ shortened' = (shortened \/ (end # NoDate /\ end < business.paid)) /\ Patched /\ UNCHANGED payments
      BY <1>3 DEF PatchSubscription, b1, b2
    <2> HIDE DEF b3
    <2>5. patches' \in 0..MaxPatches /\ shortened' \in BOOLEAN
      BY <1>0, <2>4 DEF Patched, PlatformTypeOK
    <2>6. shortened' \/ b3.paid >= business.paid
      <3>1. b3.paid \in Int /\ b2.paid \in Int
        BY <2>2, <2>3 DEF Business, Days, NoDate
      <3> QED
        <4>1. CASE end # NoDate /\ end < business.paid
          BY <2>4, <4>1, Zenon
        <4>2. CASE ~(end # NoDate /\ end < business.paid)
          <5>1. end = NoDate \/ end \in Int
            BY PlatformAssumption
          <5> QED
            BY <1>t, <2>2, <2>3, <3>1, <4>2, <5>1
        <4> QED
          BY <4>1, <4>2
    <2> QED
      BY <2>3, <2>4, <2>5, <2>6, LaterEndCovers
  <1>4. ASSUME NEW months \in 1..2, RecordPayment(months) PROVE PlatformInv'
    <2> DEFINE start == PeriodStart(business)
               end == AddMonths(start, months)
               b == [business EXCEPT !.paid = end, !.status = "active"]
    <2>1. /\ InCalendar(start, months) /\ Change(b)
          /\ payments' = Append(payments, [start |-> start, end |-> end])
          /\ UNCHANGED <<patches, shortened>>
      BY <1>4 DEF RecordPayment
    <2>2. start \in Nat /\ start >= business.paid
      <3>1. CASE business.status = "trial"
        <4>1. start = Max({today, business.paid, business.trial})
          <5>1. {today, business.paid} \cup {business.trial} = {today, business.paid, business.trial}
            OBVIOUS
          <5> QED
            BY <3>1, <5>1 DEF PeriodStart
        <4> QED
          <5>0. today \in Int /\ business.paid \in Int /\ business.trial \in Int
            BY <1>t
          <5>1. /\ start \in {today, business.paid, business.trial}
                /\ start >= today /\ start >= business.paid
            <6> DEFINE x == business.paid
                       y == business.trial
            <6> HIDE DEF x, y
            <6>1. Max({today, x, y}) \in {today, x, y} /\ Max({today, x, y}) >= today /\ Max({today, x, y}) >= x
              BY <5>0, MaxOfThree DEF x, y
            <6> QED
              BY <4>1, <6>1 DEF x, y
          <5> HIDE DEF start
          <5> QED
            BY <1>t, <5>1
      <3>2. CASE business.status # "trial"
        <4>1. start = Max({today, business.paid})
          <5>1. {today, business.paid} \cup {} = {today, business.paid}
            OBVIOUS
          <5> QED
            BY <3>2, <5>1 DEF PeriodStart
        <4> QED
          <5>0. today \in Int /\ business.paid \in Int
            BY <1>t
          <5>1. start \in {today, business.paid} /\ start >= today /\ start >= business.paid
            BY <4>1, <5>0, MaxOfTwo, Zenon
          <5> HIDE DEF start
          <5> QED
            BY <1>t, <5>1
      <3> QED
        BY <3>1, <3>2
    <2>3. end \in Nat /\ end > start
      BY <2>1, <2>2, MonthsAdvance
    <2> HIDE DEF start, end
    <2>4. b \in Business /\ b.paid = end
      BY <1>0, <2>3 DEF PlatformTypeOK, Business, Days
    <2>5. payments \in Seq([start : Nat, end : Nat]) /\ payments' \in Seq([start : Nat, end : Nat])
      BY <1>0, <2>1, <2>2, <2>3 DEF PlatformTypeOK, Days
    <2> DEFINE L == Len(payments)
    <2>6. /\ L \in Nat /\ DOMAIN payments = 1..L /\ DOMAIN payments' = 1..(L + 1)
          /\ \A i \in 1..L : payments'[i] = payments[i] /\ payments[i].end \in Nat
          /\ payments'[L + 1] = [start |-> start, end |-> end]
      <3>1. \A i \in 1..Len(payments) : payments[i] \in [start : Nat, end : Nat]
        BY <2>5, ItemsOfSequences
      <3> QED
        BY <2>1, <2>5, <3>1, SMTT(30)
    <2>7. business'.paid = end /\ shortened' = shortened
      BY <2>1, <2>4 DEF Change
    <2> HIDE DEF b, L
    <2>8. ~shortened => \A i \in 1..L : payments[i].end <= business.paid
      BY <2>6 DEF PlatformInv, PaymentsCovered
    <2>9. PaymentsCovered'
      <3> SUFFICES ASSUME ~shortened, NEW i \in 1..(L + 1) PROVE payments'[i].end <= end
        BY <2>6, <2>7 DEF PaymentsCovered
      <3>1. CASE i \in 1..L
        BY <1>t, <2>2, <2>3, <2>6, <2>8, <3>1
      <3>2. CASE i = L + 1
        BY <2>3, <2>6, <3>2
      <3> QED
        BY <2>6, <3>1, <3>2
    <2>10. PeriodsDisjoint'
      <3> SUFFICES ASSUME ~shortened, NEW i \in 1..(L + 1), NEW j \in 1..(L + 1), i < j
                   PROVE  payments'[j].start >= payments'[i].end
        BY <2>6, <2>7 DEF PeriodsDisjoint
      <3>1. i \in 1..L
        BY <2>6
      <3>2. CASE j \in 1..L
        BY <2>6, <3>1, <3>2 DEF PlatformInv, PeriodsDisjoint
      <3>3. CASE j = L + 1
        BY <1>t, <2>2, <2>6, <2>8, <3>1, <3>3
      <3> QED
        BY <2>6, <3>2, <3>3
    <2>11. patches' \in 0..MaxPatches /\ shortened' \in BOOLEAN
      BY <1>0, <2>1 DEF PlatformTypeOK
    <2> QED
      BY <2>1, <2>4, <2>5, <2>9, <2>10, <2>11, ChangeKeeps DEF Days
  <1>5. ASSUME NEW suspend \in BOOLEAN, SetSuspended(suspend) PROVE PlatformInv'
    <2> DEFINE st == IF suspend THEN "suspended" ELSE IF business.paid # NoDate THEN "active" ELSE "trial"
               b == [business EXCEPT !.status = st]
    <2>1. Change(b) /\ Patched /\ UNCHANGED <<payments, shortened>>
      BY <1>5 DEF SetSuspended
    <2>s. st \in {"suspended", "active", "trial"}
      OBVIOUS
    <2> HIDE DEF st
    <2>2. b \in Business /\ b.paid = business.paid
      BY <1>0, <2>s DEF PlatformTypeOK, Business
    <2> HIDE DEF b
    <2>p. b.paid >= business.paid
      BY <1>t, <2>2
    <2>3. patches' \in 0..MaxPatches /\ shortened' \in BOOLEAN /\ (shortened => shortened')
      BY <1>0, <2>1 DEF Patched, PlatformTypeOK
    <2> QED
      BY <2>1, <2>2, <2>p, <2>3, LaterEndCovers
  <1>6. CASE SwitchOff
    <2> DEFINE b == [business EXCEPT !.active = FALSE]
    <2>1. Change(b) /\ UNCHANGED <<patches, payments, shortened>>
      BY <1>6 DEF SwitchOff
    <2>2. b \in Business /\ b.paid = business.paid
      BY <1>0 DEF PlatformTypeOK, Business
    <2> HIDE DEF b
    <2>p. b.paid >= business.paid
      BY <1>t, <2>2
    <2>3. patches' \in 0..MaxPatches /\ shortened' \in BOOLEAN /\ (shortened => shortened')
      BY <1>0, <2>1 DEF PlatformTypeOK
    <2> QED
      BY <2>1, <2>2, <2>p, <2>3, LaterEndCovers
  <1>7. ASSUME NEW s \in SignIns, AcceptCode(s) PROVE PlatformInv'
    <2> DEFINE j == signIn[s]
    <2>0. j \in [pc : {"out", "checked", "in"}, secret : 0..1, step : Steps]
      BY <1>0 DEF PlatformTypeOK
    <2>1. UNCHANGED <<business, today, patches, payments, shortened, lease>>
      BY <1>7 DEF AcceptCode
    <2>2. PlatformTypeOK'
      <3>1. signIn' \in [SignIns -> [pc : {"out", "checked", "in"}, secret : 0..1, step : Steps]]
        <4>1. Outside \in [pc : {"out", "checked", "in"}, secret : 0..1, step : Steps]
          BY DEF Outside, Steps
        <4>2. [j EXCEPT !.pc = "in"] \in [pc : {"out", "checked", "in"}, secret : 0..1, step : Steps]
          BY <2>0
        <4>3. signIn' = [signIn EXCEPT ![s] = [j EXCEPT !.pc = "in"]] \/ signIn' = [signIn EXCEPT ![s] = Outside]
          BY <1>7 DEF AcceptCode
        <4> QED
          BY <1>0, <4>1, <4>2, <4>3 DEF PlatformTypeOK
      <3>2. admin' \in [secret : 0..1, last : Steps, tv : 0..1]
        BY <1>0, <1>7, <2>0 DEF AcceptCode, PlatformTypeOK
      <3>3. codes' \in [(0..1) \X Steps -> Nat]
        <4> DEFINE c == <<j.secret, j.step>>
                   D == (0..1) \X Steps
        <4>1. codes' = [codes EXCEPT ![c] = @ + 1] \/ codes' = codes
          BY <1>7 DEF AcceptCode
        <4>2. c \in D /\ codes \in [D -> Nat]
          BY <1>0, <2>0 DEF PlatformTypeOK
        <4> HIDE DEF c, D
        <4>3. codes' \in [D -> Nat]
          BY <4>1, <4>2
        <4> QED
          BY <4>3 DEF D
      <3>4. codeCrossed' \in BOOLEAN
        BY <1>0, <1>7, <2>0 DEF AcceptCode, PlatformTypeOK
      <3> QED
        BY <1>0, <2>1, <3>1, <3>2, <3>3, <3>4 DEF PlatformTypeOK
    <2>3. CodesRecorded'
      <3>1. CASE NewerStep(j.step)
        <4>1. /\ admin' = [admin EXCEPT !.last = j.step]
              /\ codes' = [codes EXCEPT ![<<j.secret, j.step>>] = @ + 1]
              /\ codeCrossed' = (codeCrossed \/ j.secret # admin.secret)
          BY <1>7, <3>1 DEF AcceptCode
        <4> SUFFICES ASSUME ~codeCrossed, j.secret = admin.secret PROVE CodesRecorded'
          BY <4>1 DEF CodesRecorded
        <4>2. admin.secret \in 0..1 /\ admin'.secret = admin.secret /\ admin'.last = j.step /\ admin.last < j.step
              /\ j.step \in Steps /\ admin.last \in Steps
          BY <1>0, <2>0, <3>1, <4>1 DEF PlatformTypeOK, NewerStep
        <4>3. \A i \in 0..1, n \in Steps :
                /\ codes[<<i, n>>] \in Nat
                /\ codes'[<<i, n>>] = IF i = j.secret /\ n = j.step THEN codes[<<i, n>>] + 1 ELSE codes[<<i, n>>]
          BY <1>0, <2>0, <4>1 DEF PlatformTypeOK
        <4>4. /\ \A i \in 0..1, n \in Steps : codes[<<i, n>>] <= 1
              /\ \A n \in Steps : codes[<<admin.secret, n>>] > 0 => n <= admin.last
              /\ \A i \in 0..1, n \in Steps : i > admin.secret => codes[<<i, n>>] = 0
          BY DEF PlatformInv, CodesRecorded
        <4>5. codes[<<j.secret, j.step>>] = 0
          BY <4>2, <4>3, <4>4 DEF Steps
        <4>6. \A i \in 0..1, n \in Steps : codes'[<<i, n>>] <= 1
          BY <4>3, <4>4, <4>5
        <4>7. \A n \in Steps : codes'[<<admin.secret, n>>] > 0 => n <= j.step
          BY <4>2, <4>3, <4>4 DEF Steps
        <4>8. \A i \in 0..1, n \in Steps : i > admin.secret => codes'[<<i, n>>] = 0
          BY <4>2, <4>3, <4>4
        <4> QED
          BY <4>2, <4>6, <4>7, <4>8 DEF CodesRecorded
      <3>2. CASE ~NewerStep(j.step)
        BY <1>7, <3>2 DEF AcceptCode, PlatformInv, CodesRecorded
      <3> QED
        BY <3>1, <3>2
    <2>4. LeaseGrounded' /\ PaymentsCovered' /\ PeriodsDisjoint'
      BY <2>1 DEF PlatformInv, LeaseGrounded, PaymentsCovered, PeriodsDisjoint
    <2> QED
      BY <2>2, <2>3, <2>4 DEF PlatformInv
  <1>8. ASSUME NEW s \in SignIns, NEW j \in [pc : {"out", "checked", "in"}, secret : 0..1, step : Steps],
               signIn' = [signIn EXCEPT ![s] = j],
               UNCHANGED <<business, today, patches, payments, shortened, lease, admin, codes, codeCrossed>>
        PROVE  PlatformInv'
    <2>1. PlatformTypeOK'
      BY <1>0, <1>8 DEF PlatformTypeOK
    <2> QED
      BY <1>8, <2>1 DEF PlatformInv, LeaseGrounded, PaymentsCovered, PeriodsDisjoint, CodesRecorded
  <1>9. ASSUME NEW s \in SignIns, SignOut(s) PROVE PlatformInv'
    <2>1. Outside \in [pc : {"out", "checked", "in"}, secret : 0..1, step : Steps]
      BY DEF Outside, Steps
    <2> QED
      BY <1>8, <1>9, <2>1 DEF SignOut
  <1>10. ASSUME NEW s \in SignIns, NEW step \in Steps, CheckCode(s, step) PROVE PlatformInv'
    <2>1. [pc |-> "checked", secret |-> admin.secret, step |-> step]
            \in [pc : {"out", "checked", "in"}, secret : 0..1, step : Steps]
      BY <1>0 DEF PlatformTypeOK
    <2> QED
      BY <1>8, <1>10, <2>1 DEF CheckCode
  <1>11. CASE ResetAdmin2fa
    <2>1. PlatformTypeOK'
      BY <1>0, <1>11 DEF ResetAdmin2fa, PlatformTypeOK, Steps
    <2>2. CodesRecorded'
      BY <1>0, <1>11 DEF ResetAdmin2fa, PlatformInv, PlatformTypeOK, CodesRecorded
    <2> QED
      BY <1>11, <2>1, <2>2 DEF ResetAdmin2fa, PlatformInv, LeaseGrounded, PaymentsCovered, PeriodsDisjoint
  <1>12. CASE UNCHANGED platformVars
    <2>1. PlatformTypeOK'
      BY <1>0, <1>12 DEF PlatformTypeOK, platformVars
    <2> QED
      BY <1>12, <2>1 DEF platformVars, PlatformInv, LeaseGrounded, PaymentsCovered, PeriodsDisjoint, CodesRecorded
  <1> QED
    BY <1>1, <1>2, <1>3, <1>4, <1>5, <1>6, <1>7, <1>9, <1>10, <1>11, <1>12
       DEF PlatformNext, Subscribe, Administer

\* The invariant of the vendor's side holds in every reachable state.
THEOREM PlatformAlways == PlatformSpec => []PlatformInv
  BY PlatformInitInv, PlatformNextInv, PTL DEF PlatformSpec

\* For every calendar, trial, grace and lease length: a lease whose grounds
\* nobody has changed never outlasts the access that the dashboard shows.
THEOREM LeaseAlwaysWithinAccess == PlatformSpec => []LeaseWithinAccess
  <1>1. PlatformInv => LeaseWithinAccess
    <2> SUFFICES ASSUME PlatformInv, today < lease.until, lease.stands
                 PROVE  StatusCase(business, today) \in {"trial", "active", "grace"}
      BY DEF LeaseWithinAccess
    <2>1. today \in Int /\ lease.until \in Int /\ business.trial \in Int /\ business.paid \in Int
      BY PlatformNaturals DEF PlatformInv, PlatformTypeOK, Business, Days, NoDate
    <2> QED
      BY <2>1, PlatformNaturals DEF PlatformInv, LeaseGrounded, StatusCase
  <1> QED
    BY <1>1, PlatformAlways, PTL

\* For every calendar and any number of payments: the periods they bought do
\* not overlap unless an admin set the end back.
THEOREM PeriodsAlwaysDisjoint == PlatformSpec => []PeriodsDisjoint
  <1>1. PlatformInv => PeriodsDisjoint
    BY DEF PlatformInv
  <1> QED
    BY <1>1, PlatformAlways, PTL

\* For any number of concurrent sign-ins: a code is accepted once, unless a
\* sign-in spans a reset of the secret.
THEOREM CodeAlwaysWorksOnce == PlatformSpec => []CodeWorksOnce
  <1>1. PlatformInv => CodeWorksOnce
    <2> SUFFICES ASSUME PlatformInv, ~codeCrossed, NEW c \in DOMAIN codes PROVE codes[c] <= 1
      BY DEF CodeWorksOnce
    <2>1. PICK i \in 0..1, n \in Steps : c = <<i, n>>
      BY DEF PlatformInv, PlatformTypeOK
    <2> QED
      BY <2>1 DEF PlatformInv, CodesRecorded
  <1> QED
    BY <1>1, PlatformAlways, PTL

-----------------------------------------------------------------------------
(* Sessions. *)

\* A replay that has found the successor: it is the next token of the
\* family, and no credentials were changed since, unless that is known.
FoundNext(j) ==
  /\ j.next \in Issued /\ j.tok < j.next /\ Family(j.next) = Family(j.tok) /\ Rotated(j.tok, j.next)
  /\ Family(j.tok) \notin barred \ crossed

\* A request in progress names tokens that were issued; a change of
\* credentials holds a version that it may raise; and what a revocation will
\* miss, because it was issued after the statement began, is known as crossed.
GoodJob(j) ==
  /\ j.seen \subseteq Issued
  /\ j.pc \in {"consume", "successor", "user", "reject"} => j.tok \in Issued
  /\ j.pc = "user" => FoundNext(j)
  /\ j.pc = "close" => j.kind \notin {"logout", "reuse"} /\ j.row.tv < MaxChanges
  /\ j.pc = "revoking" =>
       /\ IF j.kind \in {"logout", "reuse"} THEN j.tok \in Issued ELSE j.row.tv < MaxChanges
       /\ \A t \in Issued :
            Live(t) /\ (j.kind \in {"logout", "reuse"} => Family(t) = Family(j.tok))
              => t \in j.seen \/ Family(t) \in crossed

JobsGood == \A w \in Workers : GoodJob(job[w])

\* Sessions and the tokens behind them are among those that were issued.
NamesIssued ==
  /\ \A t \in Issued : Family(t) <= t
  /\ ended \subseteq Issued /\ barred \subseteq Issued /\ crossed \subseteq Issued
  /\ \A a \in minted : a.family \in Issued /\ \E i \in Issued : Family(i) = a.family

\* Only the last token of a family is live, and one whose grace still runs
\* is followed by none that has expired.
Chains ==
  /\ \A t \in Issued : tokens[t].revoked = "gone" => tokens[t].expired
  /\ \A t, o \in Issued :
       t < o /\ Family(t) = Family(o) => ~Live(t) /\ (tokens[t].revoked = "recent" => ~tokens[o].expired)

\* What was handed out for a token is the next token of its family.
HandedNext ==
  \A t \in 1..MaxTokens : \A s \in handed[t] :
    /\ t \in Issued /\ s \in Issued /\ t < s /\ Family(t) = Family(s)
    /\ \A o \in Issued : t < o /\ o < s => Family(o) # Family(t)

\* An access token of a session that no request crossed is not ahead of the user.
VersionsBehind ==
  /\ barred \subseteq ended
  /\ \A a \in minted : a.family \notin crossed => a.tv <= user.tv

SessionsInv ==
  /\ SessionsTypeOK /\ JobsGood /\ NamesIssued /\ Chains /\ HandedNext /\ VersionsBehind
  /\ ClosedSessionsStayClosed /\ LockStands

\* The tokens are counted from one, and each is a row.
LEMMA TokenRows ==
  ASSUME SessionsTypeOK
  PROVE  /\ Len(tokens) \in Nat /\ DOMAIN tokens = Issued /\ Issued = 1..Len(tokens)
         /\ \A t \in Issued : t \in Nat /\ tokens[t] \in RefreshToken /\ t \in 1..MaxTokens
  <1>1. tokens \in Seq(RefreshToken) /\ Len(tokens) <= MaxTokens
    BY DEF SessionsTypeOK
  <1>2. Len(tokens) \in Nat /\ DOMAIN tokens = 1..Len(tokens) /\ \A t \in DOMAIN tokens : tokens[t] \in RefreshToken
    BY <1>1, ItemsOfSequences
  <1> QED
    BY <1>1, <1>2, SessionBounds DEF Issued

\* A worker with nothing to do claims nothing.
LEMMA IdleIsGood == Idle \in Jobs /\ GoodJob(Idle)
  <1>1. Idle.row \in UserRow
    BY SessionBounds DEF Idle, UserRow
  <1>2. Idle \in Jobs
    BY <1>1, SessionBounds DEF Idle, Jobs, Kinds
  <1> QED
    BY <1>2 DEF Idle, GoodJob

\* The user's first session.
LEMMA SessionsInitInv == SessionsInit => SessionsInv
  <1> SUFFICES ASSUME SessionsInit PROVE SessionsInv
    OBVIOUS
  <1>1. Token(1) \in RefreshToken
    <2>1. 1 \in 1..MaxTokens
      BY SessionBounds
    <2> QED
      BY <2>1, Zenon DEF Token, RefreshToken
  <1>2. /\ tokens = <<Token(1)>> /\ tokens \in Seq(RefreshToken) /\ Len(tokens) = 1 /\ Issued = 1..1
        /\ tokens[1] = [family |-> 1, revoked |-> "no", expired |-> FALSE]
    BY <1>1 DEF SessionsInit, Issued, Token
  <1>3. job \in [Workers -> Jobs] /\ JobsGood
    BY IdleIsGood DEF SessionsInit, JobsGood
  <1>4. user \in UserRow /\ user.tv = 0
    BY SessionBounds DEF SessionsInit, Idle, UserRow
  <1>5. minted \subseteq [family : 1..MaxTokens, tv : 0..MaxChanges] /\ \A a \in minted : a.family = 1 /\ a.tv = 0
    BY SessionBounds DEF SessionsInit
  <1>6. open \in BOOLEAN /\ lockRuns \in BOOLEAN /\ lockCrossed \in BOOLEAN /\ LockStands
    BY Zenon DEF SessionsInit, LockStands
  <1>7. /\ handed = [t \in 1..MaxTokens |-> {}]
        /\ ended = {} /\ barred = {} /\ crossed = {}
    BY DEF SessionsInit
  <1>8. SessionsTypeOK
    BY <1>2, <1>3, <1>4, <1>5, <1>6, <1>7, SessionBounds DEF SessionsTypeOK
  <1>9. NamesIssued /\ Chains /\ HandedNext /\ VersionsBehind
    BY <1>2, <1>4, <1>5, <1>7 DEF NamesIssued, Chains, HandedNext, VersionsBehind, Family, Live
  <1>10. ClosedSessionsStayClosed
    BY <1>7 DEF ClosedSessionsStayClosed
  <1> QED
    BY <1>3, <1>6, <1>8, <1>9, <1>10 DEF SessionsInv

\* A step that leaves tokens and sessions alone: only what each worker now
\* claims and the lock are left to show.
LEMMA QuietStep ==
  ASSUME SessionsInv, UNCHANGED <<tokens, handed, minted, Past>>,
         user' \in UserRow, user'.tv = user.tv, open' \in BOOLEAN,
         lockRuns' \in BOOLEAN, lockCrossed' \in BOOLEAN, LockStands',
         job' \in [Workers -> Jobs], \A w \in Workers : GoodJob(job'[w])
  PROVE  SessionsInv'
  <1>0. UNCHANGED <<ended, barred, crossed>>
    BY DEF Past
  <1>1. SessionsTypeOK'
    BY <1>0 DEF SessionsInv, SessionsTypeOK
  <1>2. JobsGood'
    BY <1>0 DEF JobsGood, GoodJob, FoundNext, Rotated, Issued, Live, Family
  <1>3. NamesIssued' /\ Chains' /\ HandedNext'
    BY <1>0 DEF SessionsInv, NamesIssued, Chains, HandedNext, Issued, Live, Family
  <1>4. VersionsBehind' /\ ClosedSessionsStayClosed'
    BY <1>0 DEF SessionsInv, VersionsBehind, ClosedSessionsStayClosed, Issued, Live, Family
  <1> QED
    BY <1>1, <1>2, <1>3, <1>4 DEF SessionsInv

\* A worker takes up a job and nothing else changes.
LEMMA JobStep ==
  ASSUME SessionsInv, NEW w \in Workers, NEW j \in Jobs, GoodJob(j), Do(w, j),
         UNCHANGED <<user, open, tokens, handed, minted, Past, Locks>>
  PROVE  SessionsInv'
  <1>1. user' \in UserRow /\ user'.tv = user.tv /\ open' \in BOOLEAN /\ lockRuns' \in BOOLEAN /\ lockCrossed' \in BOOLEAN
    BY DEF SessionsInv, SessionsTypeOK, Locks
  <1>2. LockStands'
    BY DEF SessionsInv, LockStands, Locks
  <1>3. job' \in [Workers -> Jobs] /\ \A v \in Workers : GoodJob(job'[v])
    BY DEF SessionsInv, SessionsTypeOK, JobsGood, Do
  <1> QED
    BY <1>1, <1>2, <1>3, QuietStep

\* A set of naturals that is not empty has a least member: this is where
\* get_family_successor finds its row.
LEMMA LeastNatural ==
  \A S \in SUBSET Nat : S # {} => \E x \in S : \A y \in S : x <= y
  <1> SUFFICES ASSUME NEW S \in SUBSET Nat, S # {} PROVE \E x \in S : \A y \in S : x <= y
    OBVIOUS
  <1> DEFINE R == OpToRel(<, Nat)
  <1>1. IsWellFoundedOn(R, Nat)
    BY NatLessThanWellFounded
  <1>2. PICK x \in S : \A y \in Nat : <<y, x>> \in R => ~(y \in S)
    BY <1>1, WFMin
  <1>3. \A y \in S : ~(y < x)
    BY <1>2 DEF OpToRel
  <1> QED
    BY <1>3

\* What revoking does to each row.
LEMMA RevokeRows ==
  ASSUME SessionsTypeOK, NEW S
  PROVE  /\ Revoke(S) \in Seq(RefreshToken) /\ Len(Revoke(S)) = Len(tokens)
         /\ \A t \in Issued :
              /\ Revoke(S)[t].family = tokens[t].family /\ Revoke(S)[t].expired = tokens[t].expired
              /\ Revoke(S)[t].revoked = IF t \in S /\ Live(t) THEN "recent" ELSE tokens[t].revoked
  <1> DEFINE q == Revoke(S)
             n == Len(tokens)
  <1>1. n \in Nat /\ Issued = 1..n /\ \A t \in Issued : tokens[t] \in RefreshToken
    BY TokenRows
  <1>2. q = [t \in Issued |-> IF t \in S /\ Live(t) THEN [tokens[t] EXCEPT !.revoked = "recent"] ELSE tokens[t]]
    BY DEF Revoke
  <1>3. \A t \in Issued :
          /\ q[t] \in RefreshToken
          /\ q[t].family = tokens[t].family /\ q[t].expired = tokens[t].expired
          /\ q[t].revoked = IF t \in S /\ Live(t) THEN "recent" ELSE tokens[t].revoked
    BY <1>1, <1>2 DEF RefreshToken
  <1> HIDE DEF q, n
  <1>4. q \in [1..n -> RefreshToken]
    BY <1>1, <1>2, <1>3
  <1>5. q \in Seq(RefreshToken) /\ Len(q) = n
    BY <1>1, <1>4
  <1> QED
    BY <1>3, <1>5 DEF q, n

\* What purging does to each row.
LEMMA PurgedRows ==
  ASSUME SessionsTypeOK, NEW S
  PROVE  /\ Purged(S) \in Seq(RefreshToken) /\ Len(Purged(S)) = Len(tokens)
         /\ \A t \in Issued :
              /\ Purged(S)[t].family = tokens[t].family /\ Purged(S)[t].expired = tokens[t].expired
              /\ Purged(S)[t].revoked = IF t \in S THEN "gone" ELSE tokens[t].revoked
  <1> DEFINE q == Purged(S)
             n == Len(tokens)
  <1>1. n \in Nat /\ Issued = 1..n /\ \A t \in Issued : tokens[t] \in RefreshToken
    BY TokenRows
  <1>2. q = [t \in Issued |-> IF t \in S THEN [tokens[t] EXCEPT !.revoked = "gone"] ELSE tokens[t]]
    BY DEF Purged
  <1>3. \A t \in Issued :
          /\ q[t] \in RefreshToken
          /\ q[t].family = tokens[t].family /\ q[t].expired = tokens[t].expired
          /\ q[t].revoked = IF t \in S THEN "gone" ELSE tokens[t].revoked
    BY <1>1, <1>2 DEF RefreshToken
  <1> HIDE DEF q, n
  <1>4. q \in [1..n -> RefreshToken]
    BY <1>1, <1>2, <1>3
  <1>5. q \in Seq(RefreshToken) /\ Len(q) = n
    BY <1>1, <1>4
  <1> QED
    BY <1>3, <1>5 DEF q, n

\* A commit that revokes tokens keeps what is said of tokens, names and
\* workers: fewer tokens are live, and only the last of a family was.
LEMMA RevokeStep ==
  ASSUME SessionsInv, NEW S, tokens' = Revoke(S), UNCHANGED <<handed, minted>>, NEW w \in Workers, Done(w),
         ended' \subseteq Issued, barred' \subseteq Issued, crossed \subseteq crossed', crossed' \subseteq Issued,
         \A v \in Workers : job[v].pc = "user" => Family(job[v].tok) \notin barred' \ crossed'
  PROVE  /\ tokens' \in Seq(RefreshToken) /\ Len(tokens') <= MaxTokens /\ job' \in [Workers -> Jobs]
         /\ Issued' = Issued
         /\ \A t \in Issued : (Family(t))' = Family(t) /\ ((Live(t))' => Live(t) /\ t \notin S)
         /\ JobsGood' /\ NamesIssued' /\ Chains' /\ HandedNext'
  <1>1. /\ Len(tokens') = Len(tokens) /\ tokens' \in Seq(RefreshToken)
        /\ \A t \in Issued :
             /\ tokens'[t].family = tokens[t].family /\ tokens'[t].expired = tokens[t].expired
             /\ tokens'[t].revoked = IF t \in S /\ Live(t) THEN "recent" ELSE tokens[t].revoked
    BY RevokeRows DEF SessionsInv
  <1>2. Issued' = Issued
    BY <1>1 DEF Issued
  <1>3. \A t \in Issued : (Family(t))' = Family(t) /\ ((Live(t))' => Live(t) /\ t \notin S)
    BY <1>1 DEF Family, Live
  <1>4. job' \in [Workers -> Jobs] /\ \A v \in Workers : job'[v] = job[v] \/ job'[v] = Idle
    BY IdleIsGood DEF SessionsInv, SessionsTypeOK, Done, Do
  <1>5. JobsGood'
    <2> SUFFICES ASSUME NEW v \in Workers PROVE (GoodJob(job[v]))'
      BY DEF JobsGood
    <2>1. CASE job'[v] = Idle
      BY <2>1 DEF GoodJob, Idle
    <2>2. CASE job'[v] = job[v]
      <3>1. GoodJob(job[v])
        BY DEF SessionsInv, JobsGood
      <3>2. job[v].pc = "revoking" /\ job[v].kind \in {"logout", "reuse"} => tokens'[job[v].tok].family = tokens[job[v].tok].family
        BY <1>1, <3>1 DEF GoodJob
      <3>3. job[v].pc = "user" => (FoundNext(job[v]))'
        BY <1>1, <1>2, <2>2, <3>1 DEF GoodJob, FoundNext, Rotated, Family
      <3> QED
        BY <1>2, <1>3, <2>2, <3>1, <3>2, <3>3 DEF GoodJob, Family, Live
    <2> QED
      BY <1>4, <2>1, <2>2
  <1>6. NamesIssued'
    BY <1>2, <1>3 DEF SessionsInv, NamesIssued, Family
  <1>7. Chains'
    BY <1>1, <1>2 DEF SessionsInv, Chains, Family, Live
  <1>8. HandedNext'
    BY <1>1, <1>2 DEF SessionsInv, HandedNext, Family
  <1>9. Len(tokens') <= MaxTokens
    BY <1>1 DEF SessionsInv, SessionsTypeOK
  <1> QED
    BY <1>1, <1>2, <1>3, <1>4, <1>5, <1>6, <1>7, <1>8, <1>9

\* The successor that the lookup finds live is the next token of the family,
\* and its session was not closed.
LEMMA FoundSuccessor ==
  ASSUME SessionsInv, NEW t \in Issued, NEW s, s = Successor(t), s # 0, Live(s), Rotated(t, s)
  PROVE  /\ s \in Issued /\ t < s /\ Family(s) = Family(t)
         /\ Family(t) \notin barred \ crossed
  <1>1. Later(t) # {} /\ s = CHOOSE i \in Later(t) : \A o \in Later(t) : i <= o
    BY DEF Successor
  <1>2. Later(t) \subseteq Nat
    BY TokenRows DEF SessionsInv, Later
  <1>3. \E i \in Later(t) : \A o \in Later(t) : i <= o
    BY <1>1, <1>2, LeastNatural
  <1>4. s \in Later(t)
    BY <1>1, <1>3
  <1>5. s \in Issued /\ t < s /\ Family(s) = Family(t)
    BY <1>4, TokenRows DEF SessionsInv, Later
  <1>6. Family(s) \notin ended \ crossed
    BY <1>5 DEF SessionsInv, ClosedSessionsStayClosed
  <1> QED
    BY <1>5, <1>6 DEF SessionsInv, VersionsBehind

\* The lookup of the successor.
LEMMA LookUpKeeps ==
  ASSUME SessionsInv, NEW w \in Workers, LookUpSuccessor(w)
  PROVE  SessionsInv'
  <1>0. /\ job \in [Workers -> Jobs] /\ GoodJob(job[w]) /\ job[w].pc = "successor"
        /\ UNCHANGED <<user, open, tokens, handed, minted, Past, Locks>>
    BY DEF LookUpSuccessor, SessionsInv, SessionsTypeOK, JobsGood
  <1>1. PICK t : t = job[w].tok
    OBVIOUS
  <1>2. t \in Issued
    BY <1>0, <1>1 DEF GoodJob
  <1>3. PICK s : s = Successor(t)
    OBVIOUS
  <1>4. CASE s # 0 /\ Live(s) /\ ~tokens[s].expired /\ Rotated(t, s)
    <2> DEFINE j == [job[w] EXCEPT !.pc = "user", !.next = s]
    <2>1. Do(w, j)
      BY <1>1, <1>3, <1>4 DEF LookUpSuccessor
    <2>2. /\ s \in Issued /\ t < s /\ Family(s) = Family(t)
          /\ Family(t) \notin barred \ crossed
      BY <1>2, <1>3, <1>4, FoundSuccessor
    <2>3. s \in 0..MaxTokens
      BY <2>2, TokenRows, SessionBounds DEF SessionsInv
    <2>4. j \in Jobs /\ j.pc = "user" /\ j.tok = t /\ j.next = s /\ j.seen = job[w].seen
      BY <1>0, <1>1, <2>3 DEF Jobs
    <2> HIDE DEF j
    <2>5. GoodJob(j)
      BY <1>0, <1>2, <1>4, <2>2, <2>4 DEF GoodJob, FoundNext
    <2> QED
      BY <1>0, <2>1, <2>4, <2>5, JobStep
  <1>5. CASE ~(s # 0 /\ Live(s) /\ ~tokens[s].expired /\ Rotated(t, s))
    <2> DEFINE j == [job[w] EXCEPT !.pc = "reject"]
    <2>1. Do(w, j)
      BY <1>1, <1>3, <1>5 DEF LookUpSuccessor
    <2>2. j \in Jobs /\ j.pc = "reject" /\ j.tok = t /\ j.seen = job[w].seen
      BY <1>0, <1>1 DEF Jobs
    <2> HIDE DEF j
    <2>3. GoodJob(j)
      BY <1>0, <1>2, <2>2 DEF GoodJob
    <2> QED
      BY <1>0, <2>1, <2>2, <2>3, JobStep
  <1> QED
    BY <1>4, <1>5

\* A replayed rotation hands back the next token of the family. Its access
\* token carries the version of now: the session is not one that a change has
\* closed, unless the change came after the lookup and counts as crossed.
LEMMA ReplayKeeps ==
  ASSUME SessionsInv, NEW w \in Workers, ReplayRecentRotation(w)
  PROVE  SessionsInv'
  <1> DEFINE t == job[w].tok
             s == job[w].next
  <1>0. /\ UNCHANGED <<user, open, tokens, Past, Locks>>
        /\ handed' = [handed EXCEPT ![t] = @ \cup {s}]
        /\ minted' = minted \cup {[family |-> Family(t), tv |-> user.tv]}
        /\ Do(w, Idle)
        /\ job[w].pc = "user"
    BY DEF ReplayRecentRotation, Done
  <1>1. UNCHANGED <<ended, barred, crossed, lockRuns, lockCrossed>>
    BY <1>0 DEF Past, Locks
  <1>2. SessionsTypeOK /\ Len(tokens) \in Nat /\ Issued = 1..Len(tokens)
        /\ \A i \in Issued : i \in Nat /\ tokens[i] \in RefreshToken /\ i \in 1..MaxTokens
    BY TokenRows DEF SessionsInv
  <1>3. /\ t \in Issued /\ s \in Issued /\ t < s /\ Family(s) = Family(t)
        /\ \A o \in Issued : t < o /\ o < s => Family(o) # Family(t)
        /\ Family(t) \notin barred \ crossed
    BY <1>0 DEF SessionsInv, JobsGood, GoodJob, FoundNext, Rotated
  <1> HIDE DEF s, t
  <1>5. handed' \in [1..MaxTokens -> SUBSET (1..MaxTokens)]
    BY <1>0, <1>2, <1>3 DEF SessionsTypeOK
  <1>6. [family |-> Family(t), tv |-> user.tv] \in [family : 1..MaxTokens, tv : 0..MaxChanges]
    BY <1>2, <1>3 DEF SessionsTypeOK, UserRow, Family, RefreshToken
  <1>7. job' \in [Workers -> Jobs] /\ \A v \in Workers : GoodJob(job'[v])
    BY <1>0, IdleIsGood DEF SessionsInv, SessionsTypeOK, JobsGood, Do
  <1>8. SessionsTypeOK'
    BY <1>0, <1>1, <1>2, <1>5, <1>6, <1>7 DEF SessionsTypeOK
  <1>9. JobsGood'
    BY <1>0, <1>1, <1>7 DEF JobsGood, GoodJob, FoundNext, Rotated, Issued, Live, Family
  <1>10. Family(t) \in Issued
    <2>1. Family(t) \in Nat /\ Family(t) >= 1 /\ Family(t) <= t /\ t \in Nat
      BY <1>2, <1>3 DEF SessionsInv, NamesIssued, Family, RefreshToken
    <2> QED
      BY <1>2, <1>3, <2>1
  <1>11. NamesIssued' /\ Chains'
    <2>1. \A a \in minted' : a.family \in Issued /\ \E i \in Issued : Family(i) = a.family
      BY <1>0, <1>3, <1>10 DEF SessionsInv, NamesIssued
    <2> QED
      BY <1>0, <1>1, <2>1 DEF SessionsInv, NamesIssued, Chains, Issued, Family, Live
  <1>12. HandedNext'
    <2> SUFFICES ASSUME NEW i \in 1..MaxTokens, NEW r \in handed'[i]
                 PROVE  /\ i \in Issued /\ r \in Issued /\ i < r /\ Family(i) = Family(r)
                        /\ \A o \in Issued : i < o /\ o < r => Family(o) # Family(i)
      BY <1>0 DEF HandedNext, Issued, Family
    <2>1. CASE r \in handed[i]
      BY <2>1 DEF SessionsInv, HandedNext
    <2>2. CASE i = t /\ r = s
      BY <1>3, <2>2
    <2> QED
      BY <1>0, <1>2, <2>1, <2>2 DEF SessionsTypeOK
  <1>14. user.tv \in Int /\ user' = user
    BY <1>0, <1>2 DEF SessionsTypeOK, UserRow
  <1>15. VersionsBehind'
    BY <1>0, <1>1, <1>14 DEF SessionsInv, VersionsBehind
  <1>16. ClosedSessionsStayClosed'
    BY <1>0, <1>1, <1>3 DEF SessionsInv, VersionsBehind, ClosedSessionsStayClosed, Issued, Live, Family
  <1>17. LockStands'
    BY <1>0, <1>1 DEF SessionsInv, LockStands
  <1> QED
    BY <1>8, <1>9, <1>11, <1>12, <1>15, <1>16, <1>17 DEF SessionsInv

\* The rotation of a live token: it was the last of its family, and a
\* revocation that has already looked at it marks the family as crossed.
LEMMA RotateKeeps ==
  ASSUME SessionsInv, NEW w \in Workers, Rotate(w)
  PROVE  SessionsInv'
  <1> DEFINE t == job[w].tok
             n == Len(tokens) + 1
             f == Family(t)
  <1>0. /\ UNCHANGED <<user, open, ended, barred, lockRuns, lockCrossed>>
        /\ tokens' = Append(Revoke({t}), Token(f))
        /\ handed' = [handed EXCEPT ![t] = @ \cup {n}]
        /\ minted' = minted \cup {[family |-> f, tv |-> user.tv]}
        /\ crossed' = crossed \cup Racing(f)
        /\ Do(w, Idle)
        /\ job[w].pc = "consume" /\ Live(t) /\ Len(tokens) < MaxTokens
    BY DEF Rotate, Done, Locks
  <1>1. SessionsTypeOK /\ Len(tokens) \in Nat /\ Issued = 1..Len(tokens) /\ MaxTokens \in Nat
        /\ \A i \in Issued : i \in Nat /\ tokens[i] \in RefreshToken /\ i \in 1..MaxTokens
    BY TokenRows, SessionBounds DEF SessionsInv
  <1>2. t \in Issued
    BY <1>0 DEF SessionsInv, JobsGood, GoodJob
  <1>3. f \in Nat /\ 1 <= f /\ f <= t /\ f \in Issued /\ t \in Nat /\ n \in Nat /\ t < n
    BY <1>1, <1>2 DEF SessionsInv, NamesIssued, Family, RefreshToken
  <1> DEFINE q == Revoke({t})
  <1>4. /\ q \in Seq(RefreshToken) /\ Len(q) = Len(tokens)
        /\ \A i \in Issued :
             /\ q[i].family = tokens[i].family /\ q[i].expired = tokens[i].expired
             /\ q[i].revoked = IF i \in {t} /\ Live(i) THEN "recent" ELSE tokens[i].revoked
    BY <1>1, RevokeRows
  <1>5. Token(f) \in RefreshToken
    <2>1. f \in 1..MaxTokens
      BY <1>1, <1>3
    <2> QED
      BY <2>1, Zenon DEF Token, RefreshToken
  <1> HIDE DEF q, t, f
  <1>6. /\ tokens' \in Seq(RefreshToken) /\ Len(tokens') = n /\ Issued' = Issued \cup {n} /\ n \notin Issued
        /\ tokens'[n] = [family |-> f, revoked |-> "no", expired |-> FALSE]
        /\ \A i \in Issued : tokens'[i] = q[i]
    <2> DEFINE r == Token(f)
    <2>1. tokens' = Append(q, r) /\ r \in RefreshToken /\ r = [family |-> f, revoked |-> "no", expired |-> FALSE]
      BY <1>0, <1>5 DEF q, Token
    <2> HIDE DEF r
    <2>2. /\ tokens' \in Seq(RefreshToken) /\ Len(tokens') = Len(q) + 1 /\ tokens'[Len(q) + 1] = r
          /\ \A i \in 1..Len(q) : tokens'[i] = q[i]
      BY <1>4, <2>1
    <2>3. Issued' = 1..(Len(tokens) + 1)
      BY <1>4, <2>2 DEF Issued
    <2> QED
      BY <1>1, <1>4, <2>1, <2>2, <2>3
  <1>7. /\ \A i \in Issued :
             /\ i < n /\ tokens'[i].family = Family(i) /\ tokens'[i].expired = tokens[i].expired
             /\ i # t => tokens'[i].revoked = tokens[i].revoked
             /\ i = t => tokens'[i].revoked = "recent"
    <2>1. \A i \in Issued : q[i].revoked = IF i = t THEN "recent" ELSE tokens[i].revoked
      BY <1>0, <1>4
    <2>2. \A i \in Issued : i < n
      BY <1>1
    <2> HIDE DEF n
    <2> QED
      BY <1>4, <1>6, <2>1, <2>2 DEF Family
  <1>8. \A i \in Issued : i # t /\ Family(i) = f => i < t /\ ~Live(i)
    BY <1>0, <1>1, <1>2, <1>3 DEF SessionsInv, Chains, f
  <1>9. SessionsTypeOK'
    <2>1. handed' \in [1..MaxTokens -> SUBSET (1..MaxTokens)]
      <3>1. t \in 1..MaxTokens /\ n \in 1..MaxTokens
        BY <1>0, <1>1, <1>2
      <3> HIDE DEF n
      <3> QED
        BY <1>0, <1>1, <3>1 DEF SessionsTypeOK
    <2>2. minted' \subseteq [family : 1..MaxTokens, tv : 0..MaxChanges]
      BY <1>0, <1>1, <1>3 DEF SessionsTypeOK, UserRow, f
    <2>3. job' \in [Workers -> Jobs]
      BY <1>0, <1>1, IdleIsGood DEF SessionsTypeOK, Do
    <2>4. crossed' \subseteq 1..MaxTokens
      BY <1>0, <1>1, <1>3 DEF SessionsTypeOK, Racing, f
    <2> QED
      BY <1>0, <1>1, <1>6, <2>1, <2>2, <2>3, <2>4 DEF SessionsTypeOK
  <1>10. JobsGood'
    <2> SUFFICES ASSUME NEW v \in Workers PROVE (GoodJob(job[v]))'
      BY DEF JobsGood
    <2>1. CASE job'[v] = Idle
      BY <2>1 DEF GoodJob, Idle
    <2>2. CASE job'[v] = job[v]
      <3> DEFINE j == job[v]
      <3>1. GoodJob(j)
        BY DEF SessionsInv, JobsGood
      <3>2. j.seen \subseteq Issued' /\ (j.tok \in Issued => j.tok \in Issued')
        BY <1>6, <3>1 DEF GoodJob
      <3>3. ASSUME j.pc = "revoking", NEW i \in Issued', tokens'[i].revoked = "no",
                   j.kind \in {"logout", "reuse"} => tokens'[i].family = tokens'[j.tok].family
            PROVE  i \in j.seen \/ tokens'[i].family \in crossed'
        <4>1. CASE i \in Issued
          BY <1>0, <1>7, <3>1, <3>3, <4>1 DEF GoodJob, Live, Family
        <4>2. CASE i = n
          <5>1. tokens'[i].family = f
            BY <1>6, <4>2
          <5>2. j.kind \in {"logout", "reuse"} => Family(t) = Family(j.tok)
            BY <1>7, <3>1, <3>3, <5>1 DEF GoodJob, f
          <5>3. t \in j.seen \/ f \in crossed
            BY <1>0, <1>2, <3>1, <3>3, <5>2 DEF GoodJob, f, t
          <5>4. t \in j.seen => f \in Racing(f)
            BY <3>3 DEF Racing, f
          <5> QED
            BY <1>0, <5>1, <5>3, <5>4 DEF f
        <4> QED
          BY <1>6, <3>3, <4>1, <4>2
      <3>4. j.pc = "user" => (FoundNext(job[v]))'
        <4> SUFFICES ASSUME j.pc = "user" PROVE (FoundNext(job[v]))'
          OBVIOUS
        <4>1. /\ j.tok \in Issued /\ j.next \in Issued /\ j.tok < j.next /\ Family(j.next) = Family(j.tok)
              /\ \A o \in Issued : j.tok < o /\ o < j.next => Family(o) # Family(j.tok)
              /\ Family(j.tok) \notin barred \ crossed
          BY <3>1 DEF GoodJob, FoundNext, Rotated
        <4>2. \A o \in Issued' : o < j.next => o \in Issued
          BY <1>1, <1>3, <1>6, <4>1
        <4>3. Family(j.tok) \notin barred' \ crossed'
          BY <1>0, <4>1
        <4>4. \A o \in Issued : tokens'[o].family = Family(o)
          BY <1>7
        <4>5. job'[v].tok = j.tok /\ job'[v].next = j.next
          BY <2>2
        <4> HIDE DEF j
        <4> QED
          BY <1>6, <4>1, <4>2, <4>3, <4>4, <4>5 DEF FoundNext, Rotated, Family
      <3> QED
        BY <2>2, <3>1, <3>2, <3>3, <3>4 DEF GoodJob, Live, Family
    <2> QED
      BY <1>0, <1>1, <2>1, <2>2 DEF SessionsTypeOK, Do
  <1>11. NamesIssued'
    <2>1. crossed' \subseteq Issued
      BY <1>0, <1>3 DEF SessionsInv, NamesIssued, Racing, f
    <2> QED
      <3>1. \A i \in Issued' : tokens'[i].family <= i
        <4>1. tokens'[n].family <= n
          BY <1>3, <1>6
        <4>2. \A i \in Issued : tokens'[i].family <= i
          BY <1>7 DEF SessionsInv, NamesIssued
        <4> QED
          BY <1>6, <4>1, <4>2
      <3>2. \A a \in minted' : a.family \in Issued' /\ \E i \in Issued' : tokens'[i].family = a.family
        <4>1. \A a \in minted : a.family \in Issued' /\ \E i \in Issued' : tokens'[i].family = a.family
          BY <1>6, <1>7 DEF SessionsInv, NamesIssued
        <4>2. f \in Issued' /\ t \in Issued' /\ tokens'[t].family = f
          BY <1>2, <1>3, <1>6, <1>7 DEF f
        <4>3. ASSUME NEW a \in minted', a \notin minted PROVE a.family = f
          BY <1>0, <4>3
        <4> QED
          BY <4>1, <4>2, <4>3
      <3> QED
        BY <1>0, <1>6, <2>1, <3>1, <3>2 DEF SessionsInv, NamesIssued, Family
  <1>12. Chains'
    <2>1. \A i \in Issued' : tokens'[i].revoked = "gone" => tokens'[i].expired
      BY <1>6, <1>7 DEF SessionsInv, Chains
    <2>2. ASSUME NEW i \in Issued', NEW o \in Issued', i < o, tokens'[i].family = tokens'[o].family
          PROVE  tokens'[i].revoked # "no" /\ (tokens'[i].revoked = "recent" => ~tokens'[o].expired)
      <3>1. i \in Issued
        BY <1>1, <1>3, <1>6, <1>7, <2>2
      <3>2. CASE o \in Issued
        BY <1>1, <1>2, <1>7, <1>8, <2>2, <3>1, <3>2 DEF SessionsInv, Chains, Live, Family, f
      <3>3. CASE o = n
        BY <1>6, <1>7, <1>8, <2>2, <3>1, <3>3 DEF Live, Family, f
      <3> QED
        BY <1>6, <2>2, <3>2, <3>3
    <2> QED
      BY <2>1, <2>2 DEF Chains, Live, Family
  <1>13. handed[t] = {}
    <2> SUFFICES ASSUME NEW r \in handed[t] PROVE FALSE
      OBVIOUS
    <2> QED
      BY <1>0, <1>1, <1>2 DEF SessionsInv, HandedNext, Chains, t
  <1>14. HandedNext'
    <2> SUFFICES ASSUME NEW i \in 1..MaxTokens, NEW r \in handed'[i]
                 PROVE  /\ i \in Issued' /\ r \in Issued' /\ i < r /\ tokens'[i].family = tokens'[r].family
                        /\ \A o \in Issued' : i < o /\ o < r => tokens'[o].family # tokens'[i].family
      BY DEF HandedNext, Family
    <2>1. CASE r \in handed[i]
      <3>1. /\ i \in Issued /\ r \in Issued /\ i < r /\ Family(i) = Family(r)
            /\ \A o \in Issued : i < o /\ o < r => Family(o) # Family(i)
        BY <2>1 DEF SessionsInv, HandedNext
      <3>2. \A o \in Issued' : o < r => o \in Issued
        BY <1>1, <1>3, <1>6, <3>1
      <3> QED
        BY <1>6, <1>7, <3>1, <3>2
    <2>2. CASE i = t /\ r = n
      BY <1>1, <1>2, <1>3, <1>6, <1>7, <1>8, <2>2 DEF f
    <2> QED
      BY <1>0, <1>1, <2>1, <2>2 DEF SessionsTypeOK, t
  <1>15. f \notin ended \ crossed
    BY <1>0, <1>2 DEF SessionsInv, ClosedSessionsStayClosed, f, t
  <1>16. user.tv \in Int /\ user' = user /\ crossed \subseteq crossed'
    BY <1>0, <1>1 DEF SessionsTypeOK, UserRow
  <1>17. VersionsBehind'
    BY <1>0, <1>16 DEF SessionsInv, VersionsBehind
  <1>18. ClosedSessionsStayClosed'
    <2>1. ASSUME NEW i \in Issued', tokens'[i].revoked = "no" PROVE tokens'[i].family \notin ended \ crossed'
      BY <1>6, <1>7, <1>15, <1>16, <2>1 DEF SessionsInv, ClosedSessionsStayClosed, Live, Family
    <2>2. \A a \in minted' : a.tv = user.tv => a.family \notin barred \ crossed'
      BY <1>0, <1>15, <1>16 DEF SessionsInv, VersionsBehind, ClosedSessionsStayClosed, f
    <2> QED
      BY <1>0, <2>1, <2>2 DEF ClosedSessionsStayClosed, Live, Family
  <1>19. LockStands'
    BY <1>0 DEF SessionsInv, LockStands
  <1> QED
    BY <1>9, <1>10, <1>11, <1>12, <1>14, <1>17, <1>18, <1>19 DEF SessionsInv

\* A sign-in starts a family of its own; if the credentials were changed
\* since it read the user, its session counts as crossed.
LEMMA LoginKeeps ==
  ASSUME SessionsInv, NEW w \in Workers, LoginSucceeds(w)
  PROVE  SessionsInv'
  <1> DEFINE read == job[w].row
             n == Len(tokens) + 1
             late == IF read.tv # user.tv THEN {n} ELSE {}
  <1>0. /\ UNCHANGED <<open, handed, lockRuns>>
        /\ user' = [user EXCEPT !.attempts = IF read.attempts # 0 THEN 0 ELSE @,
                                !.lock = IF read.lock # "none" THEN "none" ELSE @]
        /\ lockCrossed' = (lockCrossed \/ (read.lock # "none" /\ user.lock = "set"))
        /\ minted' = minted \cup {[family |-> n, tv |-> read.tv]}
        /\ ended' = ended \cup late /\ barred' = barred \cup late /\ crossed' = crossed \cup late
        /\ Do(w, Idle) /\ RowFree
        /\ Len(tokens) < MaxTokens
    BY DEF LoginSucceeds, Done
  <1>1. SessionsTypeOK /\ Len(tokens) \in Nat /\ Issued = 1..Len(tokens) /\ MaxTokens \in Nat
        /\ (\A i \in Issued : i \in Nat /\ tokens[i] \in RefreshToken /\ i \in 1..MaxTokens) /\ n \in Nat /\ n \in 1..MaxTokens
    BY <1>0, TokenRows, SessionBounds DEF SessionsInv
  <1>2. PICK S \in SUBSET {t \in Issued : tokens[t].expired} : tokens' = Append(Purged(S), Token(n))
    BY DEF LoginSucceeds
  <1>3. late \subseteq {n} /\ (read.tv # user.tv <=> n \in late)
    OBVIOUS
  <1> DEFINE q == Purged(S)
  <1>4. /\ q \in Seq(RefreshToken) /\ Len(q) = Len(tokens)
        /\ \A i \in Issued :
             /\ q[i].family = tokens[i].family /\ q[i].expired = tokens[i].expired
             /\ q[i].revoked = IF i \in S THEN "gone" ELSE tokens[i].revoked
    BY <1>1, PurgedRows
  <1>5. Token(n) \in RefreshToken
    BY <1>1, Zenon DEF Token, RefreshToken
  <1> HIDE DEF q, late, read
  <1>6. /\ tokens' \in Seq(RefreshToken) /\ Len(tokens') = n /\ Issued' = Issued \cup {n} /\ n \notin Issued
        /\ tokens'[n] = [family |-> n, revoked |-> "no", expired |-> FALSE]
        /\ \A i \in Issued : tokens'[i] = q[i]
    <2> DEFINE r == Token(n)
    <2>1. tokens' = Append(q, r) /\ r \in RefreshToken /\ r = [family |-> n, revoked |-> "no", expired |-> FALSE]
      BY <1>2, <1>5 DEF q, Token
    <2> HIDE DEF r
    <2>2. /\ tokens' \in Seq(RefreshToken) /\ Len(tokens') = Len(q) + 1 /\ tokens'[Len(q) + 1] = r
          /\ \A i \in 1..Len(q) : tokens'[i] = q[i]
      BY <1>4, <2>1
    <2>3. Issued' = 1..(Len(tokens) + 1)
      BY <1>4, <2>2 DEF Issued
    <2> QED
      BY <1>1, <1>4, <2>1, <2>2, <2>3
  <1>7. \A i \in Issued :
          /\ i < n /\ tokens'[i].family = Family(i) /\ tokens'[i].expired = tokens[i].expired
          /\ tokens'[i].revoked = tokens[i].revoked \/ (tokens'[i].revoked = "gone" /\ tokens[i].expired)
          /\ Family(i) < n
    BY <1>1, <1>2, <1>4, <1>6, SMTT(30) DEF Family, SessionsInv, NamesIssued, RefreshToken
  <1>8. read \in UserRow /\ user' \in UserRow /\ user'.tv = user.tv /\ user.tv \in Int /\ read.tv \in Int
    <2>1. read \in UserRow
      BY <1>1 DEF SessionsTypeOK, Jobs, read
    <2>2. user \in UserRow
      BY <1>1 DEF SessionsTypeOK
    <2> DEFINE a == IF read.attempts # 0 THEN 0 ELSE user.attempts
               l == IF read.lock # "none" THEN "none" ELSE user.lock
    <2>3. user' = [user EXCEPT !.attempts = a, !.lock = l]
      BY <1>0, <2>2 DEF UserRow
    <2>4. a \in Nat /\ l \in {"none", "set", "lapsed"}
      BY <2>2 DEF UserRow
    <2> HIDE DEF a, l
    <2> QED
      <3>1. user' \in UserRow /\ user'.tv = user.tv
        BY <2>2, <2>3, <2>4 DEF UserRow
      <3>2. user.tv \in Int /\ read.tv \in Int
        BY <2>1, <2>2, SessionBounds DEF UserRow
      <3> QED
        BY <2>1, <3>1, <3>2
  <1>9. SessionsTypeOK'
    <2>1. minted' \subseteq [family : 1..MaxTokens, tv : 0..MaxChanges]
      BY <1>0, <1>1, <1>8 DEF SessionsTypeOK, UserRow
    <2>2. job' \in [Workers -> Jobs]
      BY <1>0, <1>1, IdleIsGood DEF SessionsTypeOK, Do
    <2>3. lockCrossed' \in BOOLEAN /\ lockRuns' \in BOOLEAN /\ open' \in BOOLEAN
      BY <1>0, <1>1 DEF SessionsTypeOK
    <2>4. handed' \in [1..MaxTokens -> SUBSET (1..MaxTokens)]
      BY <1>0, <1>1 DEF SessionsTypeOK
    <2>5. (ended \cup barred \cup crossed)' \subseteq 1..MaxTokens
      BY <1>0, <1>1, <1>3 DEF SessionsTypeOK
    <2> QED
      BY <1>1, <1>6, <1>8, <2>1, <2>2, <2>3, <2>4, <2>5 DEF SessionsTypeOK
  <1>10. JobsGood'
    <2> SUFFICES ASSUME NEW v \in Workers PROVE (GoodJob(job[v]))'
      BY DEF JobsGood
    <2>1. CASE job'[v] = Idle
      BY <2>1 DEF GoodJob, Idle
    <2>2. CASE job'[v] = job[v]
      <3> DEFINE j == job[v]
      <3>1. GoodJob(j)
        BY DEF SessionsInv, JobsGood
      <3>2. j.seen \subseteq Issued' /\ (j.tok \in Issued => j.tok \in Issued')
        BY <1>6, <3>1 DEF GoodJob
      <3>3. ASSUME j.pc = "revoking", NEW i \in Issued', tokens'[i].revoked = "no",
                   j.kind \in {"logout", "reuse"} => tokens'[i].family = tokens'[j.tok].family
            PROVE  i \in j.seen \/ tokens'[i].family \in crossed'
        <4>0. j.kind \in {"logout", "reuse"} /\ j.tok \in Issued
          BY <1>0, <3>1, <3>3 DEF RowFree, GoodJob
        <4>1. i \in Issued
          BY <1>6, <1>7, <1>1, <3>3, <4>0 DEF SessionsInv, NamesIssued, Family, RefreshToken
        <4>2. tokens[i].revoked = "no" /\ tokens[i].family = tokens[j.tok].family /\ tokens'[i].family = tokens[i].family
          BY <1>7, <3>3, <4>0, <4>1 DEF Family
        <4> QED
          BY <1>0, <3>1, <3>3, <4>0, <4>1, <4>2 DEF GoodJob, Live, Family
      <3>4. j.pc = "user" => (FoundNext(job[v]))'
        <4> SUFFICES ASSUME j.pc = "user" PROVE (FoundNext(job[v]))'
          OBVIOUS
        <4>1. /\ j.tok \in Issued /\ j.next \in Issued /\ j.tok < j.next /\ Family(j.next) = Family(j.tok)
              /\ \A o \in Issued : j.tok < o /\ o < j.next => Family(o) # Family(j.tok)
              /\ Family(j.tok) \notin barred \ crossed
          BY <3>1 DEF GoodJob, FoundNext, Rotated
        <4>2. \A o \in Issued' : o < j.next => o \in Issued
          BY <1>1, <1>6, <4>1
        <4>3. Family(j.tok) \notin barred' \ crossed'
          BY <1>0, <4>1
        <4> QED
          BY <1>6, <1>7, <2>2, <4>1, <4>2, <4>3 DEF FoundNext, Rotated, Family
      <3> QED
        BY <2>2, <3>1, <3>2, <3>3, <3>4 DEF GoodJob, Live, Family
    <2> QED
      BY <1>0, <1>1, <2>1, <2>2 DEF SessionsTypeOK, Do
  <1>11. NamesIssued'
    <2>1. \A i \in Issued' : tokens'[i].family <= i
      BY <1>1, <1>6, <1>7 DEF SessionsInv, NamesIssued
    <2>2. \A a \in minted' : a.family \in Issued' /\ \E i \in Issued' : tokens'[i].family = a.family
      BY <1>0, <1>6, <1>7 DEF SessionsInv, NamesIssued
    <2> QED
      BY <1>0, <1>3, <1>6, <2>1, <2>2 DEF SessionsInv, NamesIssued, Family
  <1>12. Chains'
    <2>1. \A i \in Issued' : tokens'[i].revoked = "gone" => tokens'[i].expired
      BY <1>6, <1>7 DEF SessionsInv, Chains
    <2>2. ASSUME NEW i \in Issued', NEW o \in Issued', i < o, tokens'[i].family = tokens'[o].family
          PROVE  tokens'[i].revoked # "no" /\ (tokens'[i].revoked = "recent" => ~tokens'[o].expired)
      <3>1. i \in Issued
        BY <1>1, <1>6, <1>7, <2>2
      <3>2. CASE o \in Issued
        <4>1. Family(i) = Family(o)
          BY <1>7, <2>2, <3>1, <3>2
        <4> QED
          BY <1>7, <2>2, <3>1, <3>2, <4>1 DEF SessionsInv, Chains, Live
      <3>3. CASE o = n
        <4>1. tokens'[o].family = n /\ tokens'[i].family = Family(i) /\ Family(i) < n
          BY <1>6, <1>7, <3>1, <3>3
        <4>2. Family(i) \in Nat
          BY <1>1, <3>1 DEF Family, RefreshToken
        <4> QED
          BY <1>1, <2>2, <4>1, <4>2
      <3> QED
        BY <1>6, <2>2, <3>2, <3>3
    <2> QED
      BY <2>1, <2>2 DEF Chains, Live, Family
  <1>13. HandedNext'
    <2> SUFFICES ASSUME NEW i \in 1..MaxTokens, NEW r \in handed[i]
                 PROVE  /\ i \in Issued' /\ r \in Issued' /\ i < r /\ tokens'[i].family = tokens'[r].family
                        /\ \A o \in Issued' : i < o /\ o < r => tokens'[o].family # tokens'[i].family
      BY <1>0 DEF HandedNext, Family
    <2>1. /\ i \in Issued /\ r \in Issued /\ i < r /\ Family(i) = Family(r)
          /\ \A o \in Issued : i < o /\ o < r => Family(o) # Family(i)
      BY DEF SessionsInv, HandedNext
    <2>2. \A o \in Issued' : o < r => o \in Issued
      BY <1>1, <1>6, <2>1
    <2>3. i \in Issued' /\ r \in Issued' /\ tokens'[i].family = Family(i) /\ tokens'[r].family = Family(r)
      BY <1>6, <1>7, <2>1
    <2>4. \A o \in Issued : tokens'[o].family = Family(o)
      BY <1>7
    <2> QED
      BY <2>1, <2>2, <2>3, <2>4
  <1>14. n \notin ended /\ n \notin barred /\ n \notin crossed /\ \A a \in minted : a.family # n
    BY <1>6 DEF SessionsInv, NamesIssued
  <1>15. VersionsBehind'
    <2>1. \A a \in minted' : a.family \notin crossed' => a.tv <= user.tv
      BY <1>0, <1>3, <1>8 DEF SessionsInv, VersionsBehind
    <2> QED
      BY <1>0, <1>8, <2>1 DEF SessionsInv, VersionsBehind
  <1>16. ClosedSessionsStayClosed'
    <2>1. ASSUME NEW i \in Issued', tokens'[i].revoked = "no" PROVE tokens'[i].family \notin ended' \ crossed'
      <3>1. CASE i \in Issued
        BY <1>0, <1>7, <2>1, <3>1 DEF SessionsInv, ClosedSessionsStayClosed, Live, Family
      <3>2. CASE i = n
        BY <1>0, <1>6, <1>14, <3>2
      <3> QED
        BY <1>6, <3>1, <3>2
    <2>2. \A a \in minted' : a.tv = user.tv => a.family \notin barred' \ crossed'
      BY <1>0, <1>14 DEF SessionsInv, ClosedSessionsStayClosed
    <2> QED
      BY <1>8, <2>1, <2>2 DEF ClosedSessionsStayClosed, Live, Family
  <1>17. LockStands'
    BY <1>0, <1>1 DEF SessionsInv, LockStands, SessionsTypeOK, UserRow
  <1> QED
    BY <1>9, <1>10, <1>11, <1>12, <1>13, <1>15, <1>16, <1>17 DEF SessionsInv

\* The end of sessions: a refused rotation, a logout, a detected reuse and a
\* change of credentials. What its statement did not see was crossed; after a
\* change, the user's version is past every version that was issued, or all
\* sessions count as crossed.
LEMMA ClosingKeeps ==
  ASSUME SessionsInv, NEW w \in Workers, RefuseRotation(w) \/ RevokeCommits(w) \/ ChangeCommits(w)
  PROVE  SessionsInv'
  <1> DEFINE t == job[w].tok
  <1>0. SessionsTypeOK /\ Len(tokens) \in Nat /\ Issued = 1..Len(tokens)
        /\ (\A i \in Issued : i \in Nat /\ tokens[i] \in RefreshToken /\ i \in 1..MaxTokens) /\ GoodJob(job[w])
    BY TokenRows DEF SessionsInv, JobsGood
  <1>f. \A i \in Issued : Family(i) \in Issued
    <2>1. \A i \in Issued : Family(i) \in Nat /\ 1 <= Family(i) /\ Family(i) <= i
      BY <1>0 DEF SessionsInv, NamesIssued, Family, RefreshToken
    <2> QED
      BY <1>0, <2>1
  <1>s. ended \subseteq Issued /\ barred \subseteq Issued /\ crossed \subseteq Issued
    BY DEF SessionsInv, NamesIssued
  <1>1. ASSUME NEW S, NEW f \in Issued, tokens' = Revoke(S), UNCHANGED <<user, open, handed, minted, barred, crossed, Locks>>,
               Done(w), ended' = ended \cup {f}, \A i \in Issued : Live(i) /\ Family(i) = f => i \in S \/ f \in crossed
        PROVE  SessionsInv'
    <2>1. /\ tokens' \in Seq(RefreshToken) /\ Len(tokens') <= MaxTokens /\ job' \in [Workers -> Jobs]
          /\ Issued' = Issued
          /\ \A i \in Issued : (Family(i))' = Family(i) /\ ((Live(i))' => Live(i) /\ i \notin S)
          /\ JobsGood' /\ NamesIssued' /\ Chains' /\ HandedNext'
      <3>1. \A v \in Workers : job[v].pc = "user" => Family(job[v].tok) \notin barred' \ crossed'
        BY <1>1 DEF SessionsInv, JobsGood, GoodJob, FoundNext
      <3>2. ended' \subseteq Issued /\ barred' \subseteq Issued /\ crossed \subseteq crossed' /\ crossed' \subseteq Issued
        BY <1>1, <1>s
      <3> QED
        BY <1>1, <3>1, <3>2, RevokeStep
    <2>2. SessionsTypeOK'
      BY <1>0, <1>1, <2>1 DEF SessionsTypeOK, Locks
    <2>3. VersionsBehind'
      BY <1>1 DEF SessionsInv, VersionsBehind
    <2>4. ClosedSessionsStayClosed'
      <3>1. \A i \in Issued : (Live(i))' => (Family(i))' \notin ended' \ crossed
        BY <1>1, <2>1 DEF SessionsInv, ClosedSessionsStayClosed
      <3> QED
        BY <1>1, <2>1, <3>1 DEF SessionsInv, ClosedSessionsStayClosed
    <2>5. LockStands'
      BY <1>1 DEF SessionsInv, LockStands, Locks
    <2> QED
      BY <2>1, <2>2, <2>3, <2>4, <2>5 DEF SessionsInv
  <1>2. CASE RefuseRotation(w)
    <2>1. t \in Issued
      BY <1>0, <1>2 DEF RefuseRotation, GoodJob
    <2>2. \A i \in Issued : Live(i) /\ Family(i) = Family(t) => i \in FamilyOf(t)
      BY DEF FamilyOf
    <2>3. tokens' = Revoke(FamilyOf(t)) /\ ended' = ended \cup {Family(t)} /\ Done(w)
          /\ UNCHANGED <<user, open, handed, minted, barred, crossed, Locks>>
      BY <1>2 DEF RefuseRotation
    <2> QED
      BY <1>1, <1>f, <2>1, <2>2, <2>3
  <1>3. CASE RevokeCommits(w)
    <2>1. t \in Issued
      BY <1>0, <1>3 DEF RevokeCommits, GoodJob
    <2>2. \A i \in Issued : Live(i) /\ Family(i) = Family(t) => i \in job[w].seen \/ Family(t) \in crossed
      BY <1>0, <1>3 DEF RevokeCommits, GoodJob
    <2>3. tokens' = Revoke(job[w].seen) /\ ended' = ended \cup {Family(t)} /\ Done(w)
          /\ UNCHANGED <<user, open, handed, minted, barred, crossed, Locks>>
      BY <1>3 DEF RevokeCommits
    <2> QED
      BY <1>1, <1>f, <2>1, <2>2, <2>3
  <1>4. CASE ChangeCommits(w)
    <2> DEFINE S == job[w].seen
               kind == job[w].kind
               read == job[w].row
    <2>0. /\ job[w].pc = "revoking" /\ kind \notin {"logout", "reuse"}
          /\ user' = Changed(kind, read) /\ tokens' = Revoke(S)
          /\ ended' = ended \cup Families /\ barred' = barred \cup Families
          /\ crossed' = crossed \cup (IF user'.tv > user.tv THEN Replaying ELSE Families)
          /\ lockRuns' = (lockRuns /\ kind # "reset") /\ lockCrossed' = (lockCrossed /\ kind # "reset")
          /\ Done(w) /\ UNCHANGED <<open, handed, minted>>
      BY <1>4 DEF ChangeCommits
    <2>1. Families \subseteq Issued /\ \A i \in Issued : Family(i) \in Families
      BY <1>f DEF Families
    <2>r. Replaying \subseteq Families /\ \A v \in Workers : job[v].pc = "user" => Family(job[v].tok) \in Replaying
      BY <2>1 DEF SessionsInv, JobsGood, GoodJob, Replaying
    <2>2. crossed \subseteq crossed' /\ crossed' \subseteq Issued /\ ended' \subseteq Issued /\ barred' \subseteq Issued
      BY <1>s, <2>0, <2>1, <2>r
    <2>3. /\ tokens' \in Seq(RefreshToken) /\ Len(tokens') <= MaxTokens /\ job' \in [Workers -> Jobs]
          /\ Issued' = Issued
          /\ \A i \in Issued : (Family(i))' = Family(i) /\ ((Live(i))' => Live(i) /\ i \notin S)
          /\ JobsGood' /\ NamesIssued' /\ Chains' /\ HandedNext'
      <3>1. \A v \in Workers : job[v].pc = "user" => Family(job[v].tok) \notin barred' \ crossed'
        BY <2>0, <2>r
      <3> QED
        BY <2>0, <2>2, <3>1, RevokeStep
    <2>4. user \in UserRow /\ read \in UserRow /\ read.tv < MaxChanges
      BY <1>0, <2>0 DEF GoodJob, SessionsTypeOK, Jobs
    <2>5. /\ user' \in UserRow /\ user'.tv = read.tv + 1
          /\ kind # "reset" => user'.lock = user.lock
      <3> DEFINE u == [user EXCEPT !.tv = read.tv + 1]
                 a == IF read.attempts # 0 THEN 0 ELSE user.attempts
                 l == IF read.lock # "none" THEN "none" ELSE user.lock
      <3>1. u \in UserRow /\ u.tv = read.tv + 1 /\ u.lock = user.lock /\ u.attempts = user.attempts
        BY <2>4, SessionBounds DEF UserRow
      <3>2. a \in Nat /\ l \in {"none", "set", "lapsed"}
        BY <2>4 DEF UserRow
      <3>3. /\ kind = "reset" => user' = [u EXCEPT !.attempts = a, !.lock = l]
            /\ kind = "deactivate" => user' = [u EXCEPT !.status = "inactive"]
            /\ kind = "delete" => user' = [u EXCEPT !.status = "deleted"]
            /\ kind \notin {"reset", "deactivate", "delete"} => user' = u
        BY <2>0, <2>4 DEF Changed, UserRow
      <3> HIDE DEF u, a, l
      <3>4. CASE kind = "reset"
        BY <3>1, <3>2, <3>3, <3>4 DEF UserRow
      <3>5. CASE kind = "deactivate"
        BY <3>1, <3>3, <3>5 DEF UserRow
      <3>6. CASE kind = "delete"
        BY <3>1, <3>3, <3>6 DEF UserRow
      <3>7. CASE kind \notin {"reset", "deactivate", "delete"}
        BY <3>1, <3>3, <3>7
      <3> QED
        BY <3>4, <3>5, <3>6, <3>7
    <2>6. SessionsTypeOK'
      <3>1. lockRuns' \in BOOLEAN /\ lockCrossed' \in BOOLEAN
        BY <2>0
      <3>2. (ended \cup barred \cup crossed)' \subseteq 1..MaxTokens
        BY <1>0, <2>2
      <3> QED
        BY <1>0, <2>0, <2>3, <2>5, <3>1, <3>2 DEF SessionsTypeOK
    <2>7. LockStands'
      BY <2>0, <2>5 DEF SessionsInv, LockStands
    <2>8. \A i \in Issued : (Live(i))' => (Family(i))' \notin ended' \ crossed'
      <3> SUFFICES ASSUME NEW i \in Issued, (Live(i))' PROVE Family(i) \in crossed'
        BY <2>3
      <3>1. Live(i) /\ i \notin S
        BY <2>3
      <3>2. Family(i) \in crossed
        BY <1>0, <2>0, <3>1 DEF GoodJob
      <3> QED
        BY <2>2, <3>2
    <2>9. \A a \in minted : a.tv \in Int /\ a.family \in Issued
      BY <1>0 DEF SessionsTypeOK, SessionsInv, NamesIssued
    <2>10. user.tv \in Int /\ user'.tv \in Int
      BY <2>4, <2>5, SessionBounds DEF UserRow
    <2>11. CASE user'.tv > user.tv
      <3>1. \A a \in minted : a.family \notin crossed => a.tv < user'.tv
        BY <2>9, <2>10, <2>11 DEF SessionsInv, VersionsBehind
      <3>2. VersionsBehind'
        BY <2>0, <2>2, <2>9, <2>10, <2>11, <3>1 DEF SessionsInv, VersionsBehind
      <3>3. \A a \in minted : a.tv = user'.tv => a.family \notin barred' \ crossed'
        BY <2>2, <2>9, <2>10, <2>11, <3>1
      <3>4. ClosedSessionsStayClosed'
        BY <2>0, <2>3, <2>8, <3>3 DEF ClosedSessionsStayClosed
      <3> QED
        BY <2>3, <2>6, <2>7, <3>2, <3>4 DEF SessionsInv
    <2>12. CASE ~(user'.tv > user.tv)
      <3>1. crossed' = crossed \cup Families
        BY <2>0, <2>12
      <3>2. \A a \in minted : a.family \in crossed'
        BY <2>1, <3>1 DEF SessionsInv, NamesIssued
      <3>3. VersionsBehind'
        BY <2>0, <3>2 DEF SessionsInv, VersionsBehind
      <3>4. ClosedSessionsStayClosed'
        BY <2>0, <2>3, <2>8, <3>2 DEF ClosedSessionsStayClosed
      <3> QED
        BY <2>3, <2>6, <2>7, <3>3, <3>4 DEF SessionsInv
    <2> QED
      BY <2>11, <2>12
  <1> QED
    BY <1>2, <1>3, <1>4

\* The end of a grace and the end of a token's life.
LEMMA AgeingKeeps ==
  ASSUME SessionsInv, NEW t \in 1..MaxTokens, GraceEnds(t) \/ TokenExpires(t)
  PROVE  SessionsInv'
  <1>0. SessionsTypeOK /\ Len(tokens) \in Nat /\ Issued = 1..Len(tokens) /\ DOMAIN tokens = Issued /\ t \in Issued
        /\ \A i \in Issued : i \in Nat /\ tokens[i] \in RefreshToken /\ i \in 1..MaxTokens
    BY TokenRows DEF SessionsInv, GraceEnds, TokenExpires
  <1>1. UNCHANGED <<user, open, job, handed, minted, ended, barred, crossed, lockRuns, lockCrossed>>
    BY DEF GraceEnds, TokenExpires, Past, Locks
  <1>2. /\ tokens' \in [1..Len(tokens) -> RefreshToken]
        /\ \A i \in Issued :
             /\ tokens'[i].family = tokens[i].family
             /\ i # t => tokens'[i] = tokens[i]
             /\ tokens'[i].revoked = "no" <=> tokens[i].revoked = "no"
             /\ tokens'[i].revoked = "gone" => tokens[i].revoked = "gone"
             /\ tokens'[i].revoked = "recent" => tokens[i].revoked = "recent"
             /\ tokens[i].expired => tokens'[i].expired
    <2>1. CASE GraceEnds(t)
      <3>1. tokens' = [tokens EXCEPT ![t].revoked = "old"] /\ tokens[t].revoked = "recent"
        BY <2>1 DEF GraceEnds
      <3> QED
        BY <1>0, <3>1 DEF RefreshToken
    <2>2. CASE TokenExpires(t)
      <3>1. tokens' = [tokens EXCEPT ![t].expired = TRUE]
        BY <2>2 DEF TokenExpires
      <3> QED
        BY <1>0, <3>1 DEF RefreshToken
    <2> QED
      BY <2>1, <2>2
  <1>3. tokens' \in Seq(RefreshToken) /\ Len(tokens') = Len(tokens) /\ Issued' = Issued
    <2>1. tokens' \in Seq(RefreshToken) /\ Len(tokens') = Len(tokens)
      BY <1>0, <1>2
    <2> QED
      BY <2>1 DEF Issued
  <1>4. SessionsTypeOK'
    BY <1>0, <1>1, <1>3 DEF SessionsTypeOK
  <1>5. JobsGood'
    <2> SUFFICES ASSUME NEW v \in Workers PROVE (GoodJob(job[v]))'
      BY DEF JobsGood
    <2>1. GoodJob(job[v]) /\ job'[v] = job[v]
      BY <1>1 DEF SessionsInv, JobsGood
    <2>2. \A i \in Issued : tokens'[i].family = tokens[i].family /\ (tokens'[i].revoked = "no" <=> tokens[i].revoked = "no")
      BY <1>2
    <2>3. job[v].pc = "user" => (FoundNext(job[v]))'
      BY <1>1, <1>3, <2>1, <2>2 DEF GoodJob, FoundNext, Rotated, Family
    <2> QED
      BY <1>1, <1>3, <2>1, <2>2, <2>3 DEF GoodJob, Live, Family
  <1>6. NamesIssued' /\ HandedNext'
    BY <1>1, <1>2, <1>3 DEF SessionsInv, NamesIssued, HandedNext, Family
  <1>7. Chains'
    <2>1. \A i \in Issued : tokens'[i].revoked = "gone" => tokens'[i].expired
      BY <1>2 DEF SessionsInv, Chains
    <2>2. ASSUME NEW i \in Issued, NEW o \in Issued, i < o, Family(i) = Family(o), tokens'[i].revoked = "recent"
          PROVE  ~tokens'[o].expired
      <3>1. tokens[i].revoked = "recent" /\ ~tokens[o].expired
        BY <1>2, <2>2 DEF SessionsInv, Chains
      <3>2. CASE GraceEnds(t)
        BY <1>0, <3>1, <3>2 DEF GraceEnds, RefreshToken
      <3>3. CASE TokenExpires(t)
        <4>1. o # t
          BY <2>2, <3>1, <3>3 DEF TokenExpires
        <4> QED
          BY <1>2, <3>1, <4>1
      <3> QED
        BY <3>2, <3>3
    <2>3. \A i, o \in Issued : i < o /\ tokens'[i].family = tokens'[o].family => tokens'[i].revoked # "no"
      BY <1>2 DEF SessionsInv, Chains, Live, Family
    <2> QED
      BY <1>2, <1>3, <2>1, <2>2, <2>3 DEF Chains, Live, Family
  <1>8. VersionsBehind' /\ LockStands'
    BY <1>1 DEF SessionsInv, VersionsBehind, LockStands
  <1>9. ClosedSessionsStayClosed'
    BY <1>1, <1>2, <1>3 DEF SessionsInv, ClosedSessionsStayClosed, Live, Family
  <1> QED
    BY <1>4, <1>5, <1>6, <1>7, <1>8, <1>9 DEF SessionsInv

\* Every step of every request, and of time, keeps the invariant.
LEMMA SessionsNextInv == SessionsInv /\ [SessionsNext]_sessionVars => SessionsInv'
  <1> SUFFICES ASSUME SessionsInv, [SessionsNext]_sessionVars PROVE SessionsInv'
    OBVIOUS
  <1>0. /\ SessionsTypeOK /\ user \in UserRow /\ open \in BOOLEAN /\ lockRuns \in BOOLEAN /\ lockCrossed \in BOOLEAN
        /\ job \in [Workers -> Jobs] /\ (\A w \in Workers : GoodJob(job[w])) /\ LockStands
    BY DEF SessionsInv, SessionsTypeOK, JobsGood
  <1>i. Idle \in Jobs /\ GoodJob(Idle)
    BY IdleIsGood
  <1>t. \A t \in Issued : t \in 1..MaxTokens /\ t \in 0..MaxTokens
    BY TokenRows, SessionBounds DEF SessionsInv
  <1>r. ASSUME NEW w \in Workers, NEW kind \in {"logout", "reuse"}, NEW t \in Issued, StartRevoking(w, kind, t, FamilyOf(t)),
               UNCHANGED <<user, open, tokens, handed, minted, Past, Locks>>
        PROVE  SessionsInv'
    <2> DEFINE j == [Idle EXCEPT !.pc = "revoking", !.kind = kind, !.tok = t, !.seen = FamilyOf(t)]
    <2>1. FamilyOf(t) \subseteq Issued /\ FamilyOf(t) \subseteq 1..MaxTokens
          /\ \A i \in Issued : Live(i) /\ Family(i) = Family(t) => i \in FamilyOf(t)
      BY <1>t DEF FamilyOf
    <2>2. /\ j.pc = "revoking" /\ j.kind = kind /\ j.tok = t /\ j.seen = FamilyOf(t) /\ j.row = Idle.row
          /\ j \in Jobs
      BY <1>i, <1>t, <2>1 DEF Jobs, Idle, Kinds
    <2>3. Do(w, j)
      BY <1>r DEF StartRevoking
    <2> HIDE DEF j
    <2>4. GoodJob(j)
      BY <2>1, <2>2 DEF GoodJob
    <2> QED
      BY <1>r, <2>2, <2>3, <2>4, JobStep
  <1>1. ASSUME NEW w \in Workers, LoginRead(w) PROVE SessionsInv'
    <2> DEFINE j == [Idle EXCEPT !.pc = "verify", !.row = user]
    <2>1. j \in Jobs /\ j.pc = "verify" /\ j.seen = {}
      BY <1>0, <1>i DEF Jobs, Idle
    <2>2. Do(w, j) /\ UNCHANGED <<user, open, tokens, handed, minted, Past, Locks>>
      BY <1>1 DEF LoginRead
    <2> HIDE DEF j
    <2>3. GoodJob(j)
      BY <2>1 DEF GoodJob
    <2> QED
      BY <2>1, <2>2, <2>3, JobStep
  <1>2. ASSUME NEW w \in Workers, RecordFailedLogin(w) PROVE SessionsInv'
    <2> DEFINE u == ClearLapsedLock(user)
               locks == u.attempts + 1 >= MaxAttempts
               l == IF locks THEN "set" ELSE u.lock
    <2>1. u \in UserRow /\ u.tv = user.tv /\ (user.lock = "set" => u.lock = "set")
      BY <1>0 DEF ClearLapsedLock, UserRow
    <2>2. /\ user' = [u EXCEPT !.attempts = @ + 1, !.lock = IF locks THEN "set" ELSE @]
          /\ lockRuns' = (lockRuns \/ locks) /\ Do(w, Idle)
          /\ UNCHANGED <<open, tokens, handed, minted, Past, lockCrossed>>
      BY <1>2 DEF RecordFailedLogin, Done
    <2> HIDE DEF u
    <2>3. user' = [u EXCEPT !.attempts = u.attempts + 1, !.lock = l] /\ l \in {"none", "set", "lapsed"}
      BY <2>1, <2>2 DEF UserRow
    <2>4. (locks => l = "set") /\ (~locks => l = u.lock) /\ locks \in BOOLEAN
      OBVIOUS
    <2> HIDE DEF l, locks
    <2>5. user' \in UserRow /\ user'.tv = user.tv /\ user'.lock = l
      <3> DEFINE n == u.attempts + 1
      <3>1. n \in Nat
        BY <2>1 DEF UserRow
      <3>2. user' = [u EXCEPT !.attempts = n, !.lock = l]
        BY <2>3
      <3> HIDE DEF n
      <3> QED
        BY <2>1, <2>3, <3>1, <3>2 DEF UserRow
    <2>6. LockStands'
      BY <1>0, <2>1, <2>2, <2>4, <2>5 DEF LockStands
    <2>7. job' \in [Workers -> Jobs] /\ \A v \in Workers : GoodJob(job'[v])
      BY <1>0, <1>i, <2>2 DEF Do
    <2>8. lockRuns' \in BOOLEAN /\ lockCrossed' \in BOOLEAN /\ open' \in BOOLEAN
      BY <1>0, <2>2, <2>4
    <2> QED
      BY <2>2, <2>5, <2>6, <2>7, <2>8, QuietStep
  <1>3. ASSUME NEW w \in Workers, LoginGivesUp(w) \/ RefreshGivesUp(w) PROVE SessionsInv'
    BY <1>3, <1>i, JobStep DEF LoginGivesUp, RefreshGivesUp, Done
  <1>p. ASSUME NEW w \in Workers, NEW t \in Issued, Present(w, t), UNCHANGED <<user, open, tokens, handed, minted, Past, Locks>>
        PROVE  SessionsInv'
    <2> DEFINE p == Path(t)
               j == [Idle EXCEPT !.tok = t, !.pc = p]
    <2>1. p \in {"consume", "successor", "reject"}
      BY DEF Path
    <2>2. Do(w, j)
      BY <1>p DEF Present
    <2> HIDE DEF p
    <2>3. j \in Jobs /\ j.pc = p /\ j.seen = {} /\ j.tok = t
      BY <1>i, <1>t, <2>1 DEF Jobs, Idle
    <2> HIDE DEF j
    <2>4. GoodJob(j)
      BY <2>1, <2>3 DEF GoodJob
    <2> QED
      BY <1>p, <2>2, <2>3, <2>4, JobStep
  <1>4. ASSUME NEW w \in Workers, RefuseReplay(w) \/ RejectReuse(w) PROVE SessionsInv'
    <2>1. job[w].pc \in {"user", "reject"} /\ UNCHANGED <<user, open, tokens, handed, minted, Past, Locks>>
      BY <1>4 DEF RefuseReplay, RejectReuse
    <2>2. job[w].tok \in Issued
      BY <1>0, <2>1 DEF GoodJob
    <2>3. CASE RejectReuse(w)
      BY <1>r, <2>1, <2>2, <2>3 DEF RejectReuse
    <2>4. CASE RefuseReplay(w)
      <3> DEFINE j == [job[w] EXCEPT !.pc = "reject", !.next = 0]
      <3>1. Do(w, j)
        BY <2>4 DEF RefuseReplay
      <3>2. 0 \in 0..MaxTokens
        BY SessionBounds
      <3>3. j \in Jobs /\ j.pc = "reject" /\ j.tok = job[w].tok /\ j.seen = job[w].seen
        BY <1>0, <3>2 DEF Jobs
      <3> HIDE DEF j
      <3>4. GoodJob(j)
        BY <1>0, <2>2, <3>3 DEF GoodJob
      <3> QED
        BY <2>1, <3>1, <3>3, <3>4, JobStep
    <2> QED
      BY <1>4, <2>3, <2>4
  <1>5. ASSUME NEW w \in Workers, NEW t \in 1..MaxTokens, RefreshLook(w, t) PROVE SessionsInv'
    BY <1>5, <1>p DEF RefreshLook
  <1>6. ASSUME NEW w \in Workers, LoseRace(w) PROVE SessionsInv'
    <2>1. job[w].tok \in Issued
      BY <1>0, <1>6 DEF LoseRace, GoodJob
    <2> QED
      BY <1>6, <1>p, <2>1 DEF LoseRace
  <1>7. ASSUME NEW w \in Workers, NEW t \in 1..MaxTokens, Logout(w, t) PROVE SessionsInv'
    BY <1>7, <1>r DEF Logout
  <1>8. ASSUME NEW w \in Workers, NEW kind \in Kinds \ {"none", "logout", "reuse"}, ReadForChange(w, kind) PROVE SessionsInv'
    <2> DEFINE j == [Idle EXCEPT !.pc = "close", !.kind = kind, !.row = user]
    <2>1. j \in Jobs /\ j.pc = "close" /\ j.seen = {} /\ j.kind = kind /\ j.row = user
      BY <1>0, <1>i DEF Jobs, Idle
    <2>2. Do(w, j) /\ user.tv < MaxChanges /\ UNCHANGED <<user, open, tokens, handed, minted, Past, Locks>>
      BY <1>8 DEF ReadForChange
    <2> HIDE DEF j
    <2>3. GoodJob(j)
      BY <2>1, <2>2 DEF GoodJob
    <2> QED
      BY <2>1, <2>2, <2>3, JobStep
  <1>9. ASSUME NEW w \in Workers, ChangeBegins(w) PROVE SessionsInv'
    <2> DEFINE S == {t \in Issued : Live(t)}
               j == [job[w] EXCEPT !.pc = "revoking", !.seen = S]
    <2>1. S \subseteq Issued /\ S \subseteq 1..MaxTokens /\ \A t \in Issued : Live(t) => t \in S
      BY <1>t
    <2>2. Do(w, j) /\ job[w].pc = "close" /\ UNCHANGED <<user, open, tokens, handed, minted, Past, Locks>>
      BY <1>9 DEF ChangeBegins
    <2> HIDE DEF S
    <2>3. j \in Jobs /\ j.pc = "revoking" /\ j.seen = S /\ j.kind = job[w].kind /\ j.row = job[w].row /\ j.tok = job[w].tok
      BY <1>0, <2>1 DEF Jobs
    <2> HIDE DEF j
    <2>4. GoodJob(j)
      BY <1>0, <2>1, <2>2, <2>3 DEF GoodJob
    <2> QED
      BY <2>2, <2>3, <2>4, JobStep
  <1>10. CASE Reactivate \/ LockLapses \/ BusinessSwitchedOff \/ UNCHANGED sessionVars
    <2>1. UNCHANGED <<tokens, handed, minted, Past, job>>
      BY <1>10 DEF Reactivate, LockLapses, BusinessSwitchedOff, sessionVars, Past
    <2>2. user' \in UserRow /\ user'.tv = user.tv
      <3>1. CASE Reactivate
        BY <1>0, <3>1 DEF Reactivate, UserRow
      <3>2. CASE LockLapses
        <4> DEFINE l == IF user.lock = "set" THEN "lapsed" ELSE user.lock
        <4>1. user' = [user EXCEPT !.lock = l] /\ l \in {"none", "set", "lapsed"}
          BY <1>0, <3>2 DEF LockLapses, UserRow
        <4> HIDE DEF l
        <4> QED
          BY <1>0, <4>1 DEF UserRow
      <3> QED
        BY <1>0, <1>10, <3>1, <3>2 DEF BusinessSwitchedOff, sessionVars
    <2>3. open' \in BOOLEAN /\ lockRuns' \in BOOLEAN /\ lockCrossed' \in BOOLEAN
      BY <1>0, <1>10, Zenon DEF Reactivate, LockLapses, BusinessSwitchedOff, sessionVars, Locks
    <2>4. LockStands'
      BY <1>0, <1>10 DEF Reactivate, LockLapses, BusinessSwitchedOff, sessionVars, Locks, LockStands, UserRow
    <2> QED
      BY <1>0, <2>1, <2>2, <2>3, <2>4, QuietStep
  <1> QED
    BY <1>1, <1>2, <1>3, <1>4, <1>5, <1>6, <1>7, <1>8, <1>9, <1>10,
       LookUpKeeps, ReplayKeeps, LoginKeeps, RotateKeeps, ClosingKeeps, AgeingKeeps
       DEF SessionsNext, Login, Refresh, Replay, Close

\* The invariant of the sessions holds in every reachable state.
THEOREM SessionsAlways == SessionsSpec => []SessionsInv
  BY SessionsInitInv, SessionsNextInv, PTL DEF SessionsSpec

\* For any number of concurrent requests and tokens: a refresh token has one
\* successor, however often it is presented.
THEOREM TokensAlwaysRotateOnce == SessionsSpec => []RotatesOnce
  <1>1. SessionsInv => RotatesOnce
    <2> SUFFICES ASSUME SessionsInv, NEW t \in 1..MaxTokens PROVE Cardinality(handed[t]) <= 1
      BY DEF RotatesOnce
    <2>1. \A i \in Issued : i \in Nat
      BY TokenRows DEF SessionsInv
    <2>2. \A r, s \in handed[t] : r = s
      <3> SUFFICES ASSUME NEW r \in handed[t], NEW s \in handed[t], r < s PROVE FALSE
        BY <2>1 DEF SessionsInv, HandedNext
      <3> QED
        BY DEF SessionsInv, HandedNext
    <2>3. CASE handed[t] = {}
      BY <2>3, FS_EmptySet
    <2>4. CASE handed[t] # {}
      <3>1. PICK s : handed[t] = {s}
        BY <2>2, <2>4
      <3>2. Cardinality({s}) = 1
        BY FS_Singleton
      <3> QED
        BY <3>1, <3>2
    <2> QED
      BY <2>3, <2>4
  <1> QED
    BY <1>1, SessionsAlways, PTL

\* For any number of sessions, requests and changes of credentials: what was
\* closed stays closed, apart from the requests in progress across the commit.
THEOREM SessionsAlwaysStayClosed == SessionsSpec => []ClosedSessionsStayClosed
  <1>1. SessionsInv => ClosedSessionsStayClosed
    BY DEF SessionsInv
  <1> QED
    BY <1>1, SessionsAlways, PTL

\* For any number of attempts: a lock stands for its minutes unless a sign-in
\* that had read an earlier lock succeeds.
THEOREM LockAlwaysStands == SessionsSpec => []LockStands
  <1>1. SessionsInv => LockStands
    BY DEF SessionsInv
  <1> QED
    BY <1>1, SessionsAlways, PTL

=============================================================================
