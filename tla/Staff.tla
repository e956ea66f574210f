------------------------------- MODULE Staff --------------------------------
(* The users of one business, their roles, and the permission keys that     *)
(* get_current_user grants: user_service, role_service, dependencies and    *)
(* the permission cache that every server process keeps for itself. Each    *)
(* change reads what it checks without a lock, commits, and then empties    *)
(* the cache of its own process.                                            *)

EXTENDS Naturals, FiniteSets

CONSTANTS Users, Founder,       \* the owner who registered the business
          Caller,               \* whose requests are followed: entries of two users never meet
          Roles, Owner,         \* Owner is the system role of that name
          Keys,
          Processes, Threads, ProcessOf,
          Ttl,                  \* _TTL_SECONDS, in ticks
          MaxCommits            \* bound: changes to users and roles

ASSUME StaffAssumption ==
  /\ {Founder, Caller} \subseteq Users /\ Owner \in Roles
  /\ ProcessOf \in [Threads -> Processes]
  /\ Ttl \in Nat \ {0} /\ MaxCommits \in Nat

VARIABLES
  people,     \* users and user_roles
  role,       \* roles and role_permissions
  cache,      \* the caller's entry in _store of each process
  task,       \* what each request is doing
  commits,    \* changes so far
  since,      \* history: ticks since the caller's keys last changed
  countCrossed  \* history: an owner removed after a count that was outdated

staffVars == <<people, role, cache, task, commits, since, countCrossed>>

Person == [here : BOOLEAN, roles : SUBSET Roles]
RoleRow == [here : BOOLEAN, keys : SUBSET Keys]
\* `late': the keys were already outdated when they were put.
Entry == [left : 0..Ttl, keys : SUBSET Keys, late : BOOLEAN]
NoEntry == [left |-> 0, keys |-> {}, late |-> FALSE]
Free == [pc |-> "free", who |-> Founder, roles |-> {}, keys |-> {}, owners |-> {}]
Tasks == [pc : {"free", "put", "assign", "delete", "drop", "invalidate"}, who : Users \cup Roles,
          roles : SUBSET Roles, keys : SUBSET Keys, owners : SUBSET Users]

StaffTypeOK ==
  /\ people \in [Users -> Person]
  /\ role \in [Roles -> RoleRow]
  /\ cache \in [Processes -> Entry]
  /\ task \in [Threads -> Tasks]
  /\ commits \in 0..MaxCommits
  /\ since \in 0..(Ttl + 1)
  /\ countCrossed \in BOOLEAN

\* register_new_business: the founder, and the standard roles.
StaffInit ==
  /\ people = [u \in Users |-> [here |-> u = Founder, roles |-> IF u = Founder THEN {Owner} ELSE {}]]
  /\ role = [r \in Roles |-> [here |-> r = Owner, keys |-> IF r = Owner THEN Keys ELSE {}]]
  /\ cache = [p \in Processes |-> NoEntry]
  /\ task = [t \in Threads |-> Free]
  /\ commits = 0
  /\ since = Ttl + 1
  /\ countCrossed = FALSE

\* _compute_permission_keys: a role that was deleted grants nothing.
ComputeKeys(ps, rs, u) ==
  UNION {rs[r].keys : r \in {x \in ps[u].roles : rs[x].here}}
KeysOf(u) == ComputeKeys(people, role, u)

IsOwner(u) == Owner \in people[u].roles
\* _count_active_owners counts the users that are not deleted, active or not.
Owners == {u \in Users : people[u].here /\ IsOwner(u)}

Set(t, x) == task' = [task EXCEPT ![t] = x]
Step(t, pc) == Set(t, [Free EXCEPT !.pc = pc])

\* History kept by every commit.
Note(ps, rs) == since' = IF ComputeKeys(ps, rs, Caller) # KeysOf(Caller) THEN 0 ELSE since

-----------------------------------------------------------------------------
(* get_current_user: the cache is asked first, the rows are read after it,  *)
(* and what was computed from them is put under the version of that moment. *)

TouchOnGet(e) == [e EXCEPT !.left = IF @ = 0 THEN 0 ELSE Ttl]
Get(e) == e

Request(t) ==
  /\ task[t] = Free /\ people[Caller].here
  /\ LET p == ProcessOf[t] IN
       /\ cache' = [cache EXCEPT ![p] = Get(@)]
       /\ IF cache[p].left > 0
            THEN UNCHANGED task
            ELSE Set(t, [Free EXCEPT !.pc = "put", !.keys = KeysOf(Caller)])
  /\ UNCHANGED <<people, role, commits, since, countCrossed>>

Put(t) ==
  /\ task[t].pc = "put"
  /\ cache' = [cache EXCEPT ![ProcessOf[t]] =
                 [left |-> Ttl, keys |-> task[t].keys, late |-> task[t].keys # KeysOf(Caller)]]
  /\ Step(t, "free")
  /\ UNCHANGED <<people, role, commits, since, countCrossed>>

\* The version goes up and the store is emptied.
InvalidateAll(t) ==
  /\ task[t].pc = "invalidate"
  /\ cache' = [cache EXCEPT ![ProcessOf[t]] = NoEntry]
  /\ Step(t, "free")
  /\ UNCHANGED <<people, role, commits, since, countCrossed>>

\* expires_at comes nearer; get drops an entry that has passed it.
Tick ==
  /\ since <= Ttl \/ \E p \in Processes : cache[p].left > 0
  /\ cache' = [p \in Processes |-> IF cache[p].left <= 1 THEN NoEntry ELSE [cache[p] EXCEPT !.left = @ - 1]]
  /\ since' = IF since <= Ttl THEN since + 1 ELSE since
  /\ UNCHANGED <<people, role, task, commits, countCrossed>>

-----------------------------------------------------------------------------
(* user_service.                                                            *)

Commit(t, ps, rs) ==
  /\ commits < MaxCommits /\ commits' = commits + 1
  /\ people' = ps /\ role' = rs /\ Note(ps, rs)
  /\ Step(t, "invalidate")

\* Unknown roles are passed over here, unlike in replace_user_roles.
CreateTenantUser(t, u, rs) ==
  /\ task[t] = Free /\ ~people[u].here /\ people[u].roles = {}
  /\ Commit(t, [people EXCEPT ![u] = [here |-> TRUE, roles |-> {r \in rs : role[r].here}]], role)
  /\ UNCHANGED <<cache, countCrossed>>

CountUnasked(u, rs) == TRUE
OwnersLeft(u, rs) == IsOwner(u) /\ Owner \notin rs => Cardinality(Owners) > 1

\* replace_user_roles: the checks, then the writes of _replace_user_roles.
CheckRoles(t, u, rs) ==
  /\ task[t] = Free /\ people[u].here /\ rs # people[u].roles
  /\ \A r \in rs : role[r].here
  /\ OwnersLeft(u, rs)
  /\ Set(t, [Free EXCEPT !.pc = "assign", !.who = u, !.roles = rs, !.owners = Owners])
  /\ UNCHANGED <<people, role, cache, commits, since, countCrossed>>

\* The owners this request counted are no longer the owners.
Crossed(t) == countCrossed \/ task[t].owners # Owners

ReplaceUserRoles(t) ==
  /\ task[t].pc = "assign"
  /\ Commit(t, [people EXCEPT ![task[t].who].roles = task[t].roles], role)
  /\ countCrossed' = Crossed(t)
  /\ UNCHANGED cache

\* soft_delete_tenant_user, of another user than oneself.
CheckDelete(t, u, by) ==
  /\ task[t] = Free /\ people[u].here /\ people[by].here /\ u # by
  /\ OwnersLeft(u, {})
  /\ Set(t, [Free EXCEPT !.pc = "delete", !.who = u, !.owners = Owners])
  /\ UNCHANGED <<people, role, cache, commits, since, countCrossed>>

SoftDeleteTenantUser(t) ==
  /\ task[t].pc = "delete"
  /\ Commit(t, [people EXCEPT ![task[t].who].here = FALSE], role)
  /\ countCrossed' = Crossed(t)
  /\ UNCHANGED cache

-----------------------------------------------------------------------------
(* role_service. Names and descriptions are left out: a rename changes no   *)
(* key, and the system role of the owner cannot be renamed or deleted.      *)

CreateRole(t, r, ks) ==
  /\ task[t] = Free /\ ~role[r].here /\ role[r].keys = {}
  /\ Commit(t, people, [role EXCEPT ![r] = [here |-> TRUE, keys |-> ks]])
  /\ UNCHANGED <<cache, countCrossed>>

\* The owner's role keeps every permission it must have.
ReplaceRolePermissions(t, r, ks) ==
  /\ task[t] = Free /\ role[r].here /\ ks # role[r].keys
  /\ r = Owner => Keys \subseteq ks
  /\ Commit(t, people, [role EXCEPT ![r].keys = ks])
  /\ UNCHANGED <<cache, countCrossed>>

\* delete_role counts the rows of user_roles, those of deleted users too.
Assigned(r) == {u \in Users : r \in people[u].roles}

CheckDeleteRole(t, r) ==
  /\ task[t] = Free /\ role[r].here /\ r # Owner /\ Assigned(r) = {}
  /\ Set(t, [Free EXCEPT !.pc = "drop", !.who = r])
  /\ UNCHANGED <<people, role, cache, commits, since, countCrossed>>

DeleteRole(t) ==
  /\ task[t].pc = "drop"
  /\ Commit(t, people, [role EXCEPT ![task[t].who].here = FALSE])
  /\ UNCHANGED <<cache, countCrossed>>

Manage(t) ==
  \/ \E u \in Users, rs \in SUBSET Roles : CreateTenantUser(t, u, rs) \/ CheckRoles(t, u, rs)
  \/ \E u, by \in Users : CheckDelete(t, u, by)
  \/ \E r \in Roles, ks \in SUBSET Keys : CreateRole(t, r, ks) \/ ReplaceRolePermissions(t, r, ks)
  \/ \E r \in Roles : CheckDeleteRole(t, r)
  \/ ReplaceUserRoles(t) \/ SoftDeleteTenantUser(t) \/ DeleteRole(t)

StaffNext ==
  \/ \E t \in Threads : Request(t) \/ Put(t) \/ InvalidateAll(t) \/ Manage(t)
  \/ Tick

StaffSpec == StaffInit /\ [][StaffNext]_staffVars

-----------------------------------------------------------------------------

\* A process grants keys that the user no longer has for at most the cache's
\* lifetime after the change, whichever process made the change; only a
\* request that read the rows before the commit and put its keys after it
\* starts that lifetime late.
OldKeysExpire ==
  \A p \in Processes : cache[p].left > 0 /\ cache[p].keys # KeysOf(Caller) => since < Ttl \/ cache[p].late

\* Somebody owns the business: _count_active_owners guards both ways of losing
\* an owner, and fails only when two removals counted the same owners.
OwnerRemains == Owners # {} \/ countCrossed

=============================================================================
