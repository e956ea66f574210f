------------------------------ MODULE SyncFeed ------------------------------
(***************************************************************************)
(* The change feed of offline devices (sync_feed.py and the triggers of     *)
(* migration 019): rows are stamped with the business's change_seq when     *)
(* their transaction commits, a device keeps a copy by taking a paged       *)
(* snapshot once and then pulling what is newer than its cursor.            *)
(*                                                                         *)
(* One business, one user, one device.  A row's content is its change_seq:  *)
(* the device holds the current content of a row when it holds its          *)
(* change_seq.  A request runs at READ COMMITTED, each of its statements    *)
(* sees what is committed when it runs; the actions of a pull and of a      *)
(* snapshot page are those statements.  Signatures and encodings of cursors *)
(* are left out: a device only sends what the server gave it.               *)
(***************************************************************************)
EXTENDS Integers, FiniteSets

CONSTANTS
    Rows,           \* synced rows, by their ids (keyset order of the snapshot)
    TableOf,        \* the entity a row belongs to: its place in ENTITIES
    Settings,       \* the entity served to blocked businesses (RESTRICTED_ENTITIES)
    Views,          \* sets of entities that roles of the user make visible
    Writers,        \* transactions that change synced rows
    Limit,          \* page size
    MaxTouched,     \* bound: rows one transaction changes
    MaxSeq,         \* bound: change_seq values handed out
    MaxFaults,      \* bound: lost answers, expiries, changes of role or subscription
    QuietPulls,     \* no transaction commits between two statements of a pull
    PaidSnapshots   \* snapshots are taken while the subscription is served

ASSUME FeedAssumption ==
    /\ Rows \subseteq Nat \ {0} /\ IsFiniteSet(Rows)
    /\ TableOf \in [Rows -> Nat] /\ Settings \in Nat
    /\ \A v \in Views : v \subseteq Nat /\ Settings \in v
    \* One row of business_configs per business.
    /\ \A q, r \in Rows : TableOf[q] = Settings /\ TableOf[r] = Settings => q = r
    /\ Limit \in Nat \ {0}
    /\ MaxTouched \in Nat /\ MaxSeq \in Nat /\ MaxFaults \in Nat
    /\ QuietPulls \in BOOLEAN /\ PaidSnapshots \in BOOLEAN

VARIABLES
    head,       \* sync_counters.last_seq, committed
    seq,        \* committed change_seq of each row, 0 for a row not yet created
    deleted,    \* deleted_at IS NOT NULL
    stamped,    \* per writer: the change_seq values it has stamped at its commit
    removed,    \* per writer: the rows it soft-deletes
    view,       \* entities the user may see; stands for permissions_version too
    blocked,    \* the subscription state blocks everything (blocked_code)
    copy,       \* the device: change_seq of the content it holds, 0 for none
    cursor,     \* the device: its cursor
    job,        \* the device: the request it waits for
    faults      \* how much has gone wrong so far

dbVars == <<head, seq, deleted, stamped, removed>>
userVars == <<view, blocked>>
deviceVars == <<copy, cursor, job>>
vars == <<head, seq, deleted, stamped, removed, view, blocked, copy, cursor, job, faults>>

FirstOf(S) == CHOOSE t \in S : \A u \in S : t <= u
LastOf(S) == CHOOSE t \in S : \A u \in S : u <= t

Untouched == [r \in Rows |-> 0]
NoCursor == [held |-> FALSE, seq |-> 0, view |-> {}, expired |-> FALSE]
Idle == [kind |-> "idle", since |-> 0, view |-> {}, todo |-> {}, read |-> Untouched,
         after |-> 0, room |-> 0]

Cursors == [held: BOOLEAN, seq: Nat, view: SUBSET Nat, expired: BOOLEAN]

\* since: where a pull reads from, or the head when a snapshot began; todo: the
\* entities left to read; read: what a pull has read; after, room: keyset and
\* free places of a snapshot page.
Jobs == [kind: {"idle", "pull", "snapshot"}, since: Nat, view: SUBSET Nat,
         todo: SUBSET Nat, read: [Rows -> Nat], after: Nat, room: Nat]

TypeOK ==
    /\ head \in Nat
    /\ seq \in [Rows -> Nat]
    /\ deleted \in [Rows -> BOOLEAN]
    /\ stamped \in [Writers -> [Rows -> Nat]]
    /\ removed \in [Writers -> SUBSET Rows]
    /\ view \in Views /\ blocked \in BOOLEAN
    /\ copy \in [Rows -> Nat]
    /\ cursor \in Cursors
    /\ job \in Jobs
    /\ faults \in Nat

Init ==
    /\ head = 0 /\ seq = Untouched
    /\ deleted = [r \in Rows |-> FALSE]
    /\ stamped = [w \in Writers |-> Untouched]
    /\ removed = [w \in Writers |-> {}]
    /\ view \in Views /\ blocked = FALSE
    /\ copy = Untouched /\ cursor = NoCursor /\ job = Idle
    /\ faults = 0

-----------------------------------------------------------------------------
(* Transactions that change synced rows. *)

Committing(w) == stamped[w] # Untouched

\* The numbers first+1, first+2, ... given to the rows of R, in some order.
Stamps(R, first) ==
    {s \in [Rows -> {0} \cup (first + 1)..(first + Cardinality(R))] :
        /\ \A r \in Rows : s[r] = 0 <=> r \notin R
        /\ \A q, r \in R : s[q] = s[r] => q = r}

\* Mutant: numbers from a sequence, nobody waits.
StampFromSequence(w) ==
    /\ ~Committing(w)
    /\ LET taken == {head} \cup {stamped[v][r] : v \in Writers, r \in Rows}
           last == LastOf(taken)
       IN  \E R \in SUBSET Rows :
             /\ R # {} /\ Cardinality(R) <= MaxTouched
             /\ last + Cardinality(R) <= MaxSeq
             /\ \E s \in Stamps(R, last) : stamped' = [stamped EXCEPT ![w] = s]
             /\ \E D \in SUBSET R : removed' = [removed EXCEPT ![w] = D]
    /\ UNCHANGED <<head, seq, deleted, userVars, deviceVars, faults>>

\* sync_stamp, sync_touch and sync_next_seq: the deferred triggers of a
\* transaction that changed the rows R run as it commits.  The first takes the
\* counter row, and keeps it until the commit is done.
Stamp(w) ==
    /\ \A v \in Writers : ~Committing(v)
    /\ \E R \in SUBSET Rows :
         /\ R # {} /\ Cardinality(R) <= MaxTouched
         /\ head + Cardinality(R) <= MaxSeq
         /\ \E s \in Stamps(R, head) : stamped' = [stamped EXCEPT ![w] = s]
         /\ \E D \in SUBSET R : removed' = [removed EXCEPT ![w] = D]
    /\ UNCHANGED <<head, seq, deleted, userVars, deviceVars, faults>>

\* The commit is done.
Commit(w) ==
    /\ Committing(w)
    /\ QuietPulls => job.kind # "pull"
    /\ seq' = [r \in Rows |-> IF stamped[w][r] > 0 THEN stamped[w][r] ELSE seq[r]]
    /\ deleted' = [r \in Rows |-> IF stamped[w][r] > 0 THEN r \in removed[w] ELSE deleted[r]]
    /\ head' \in {n \in {head} \cup {stamped[w][r] : r \in Rows} :
                    n >= head /\ \A r \in Rows : n >= stamped[w][r]}
    /\ stamped' = [stamped EXCEPT ![w] = Untouched]
    /\ removed' = [removed EXCEPT ![w] = {}]
    /\ UNCHANGED <<userVars, deviceVars, faults>>

\* The commit fails (a deadlock between two commits): the counter goes back.
Rollback(w) ==
    /\ Committing(w)
    /\ stamped' = [stamped EXCEPT ![w] = Untouched]
    /\ removed' = [removed EXCEPT ![w] = {}]
    /\ UNCHANGED <<head, seq, deleted, userVars, deviceVars, faults>>

-----------------------------------------------------------------------------
(* The rows a statement of _select_rows returns. *)

Exists(r) == seq[r] > 0
RowsOf(t) == {r \in Rows : TableOf[r] = t /\ Exists(r)}

\* part is the first n rows of S in the order of key.
IsFirst(part, S, n, key) ==
    /\ part \subseteq S
    /\ \A q \in part : \A r \in S \ part : key[q] < key[r]
    /\ part = S \/ Cardinality(part) = n
    /\ Cardinality(part) <= n

-----------------------------------------------------------------------------
(* pull *)

\* Mutant: the fingerprint of the cursor is not compared.
ResyncReasonNoView(c) == c.held /\ (c.expired \/ c.seq > head)

\* cursor_expired, permissions_changed, cursor_ahead_of_server.
ResyncReason(c) == c.held /\ (c.expired \/ c.view # view \/ c.seq > head)

\* full_resync_required: the device forgets its copy.
PullResync ==
    /\ job.kind = "idle"
    /\ ResyncReason(cursor)
    /\ copy' = Untouched
    /\ cursor' = NoCursor
    /\ UNCHANGED <<job, dbVars, userVars, faults>>

\* restricted: the settings row, whatever its change_seq; the cursor stays.
PullRestricted ==
    /\ job.kind = "idle"
    /\ ~ResyncReason(cursor)
    /\ blocked
    /\ copy' = [r \in Rows |-> IF r \in RowsOf(Settings) THEN seq[r] ELSE copy[r]]
    /\ cursor' = IF cursor.held THEN cursor
                 ELSE [held |-> TRUE, seq |-> 0, view |-> view, expired |-> FALSE]
    /\ UNCHANGED <<job, dbVars, userVars, faults>>

\* A pull that will be served: from the cursor, or from the beginning.
BeginPull ==
    /\ job.kind = "idle"
    /\ ~ResyncReason(cursor)
    /\ ~blocked
    /\ job' = [Idle EXCEPT !.kind = "pull", !.since = cursor.seq, !.view = view, !.todo = view]
    /\ UNCHANGED <<copy, cursor, dbVars, userVars, faults>>

\* The next entity: change_seq > since ORDER BY change_seq LIMIT limit + 1.
ReadTable ==
    /\ job.kind = "pull"
    /\ job.todo # {}
    /\ LET t == FirstOf(job.todo)
           newer == {r \in RowsOf(t) : seq[r] > job.since}
       IN  \E part \in SUBSET newer :
             /\ IsFirst(part, newer, Limit + 1, seq)
             /\ job' = [job EXCEPT !.todo = @ \ {t},
                          !.read = [r \in Rows |-> IF r \in part THEN seq[r] ELSE job.read[r]]]
    /\ UNCHANGED <<copy, cursor, dbVars, userVars, faults>>

ReadSoFar == {r \in Rows : job.read[r] > 0}

\* The page: the first limit rows of what was read.  The device applies it, and
\* stores the new cursor unless it stops in between.
Answer(page) ==
    /\ job.kind = "pull" /\ job.todo = {}
    /\ IsFirst(page, ReadSoFar, Limit, job.read)
    /\ copy' = [r \in Rows |-> IF r \in page THEN job.read[r] ELSE copy[r]]
    /\ job' = Idle

\* next_seq: the last change_seq of the page.
NextSeq(page) ==
    LastOf({job.since} \cup {job.read[r] : r \in page})

EndPull ==
    \E page \in SUBSET ReadSoFar :
        /\ Answer(page)
        /\ cursor' = [held |-> TRUE, seq |-> NextSeq(page), view |-> job.view,
                      expired |-> FALSE]
        /\ UNCHANGED <<dbVars, userVars, faults>>

EndPullBeforeCursor ==
    \E page \in SUBSET ReadSoFar :
        /\ Answer(page)
        /\ faults < MaxFaults /\ faults' = faults + 1
        /\ UNCHANGED <<cursor, dbVars, userVars>>

-----------------------------------------------------------------------------
(* snapshot *)

\* The first page.  The device has no copy any more.
BeginSnapshot ==
    /\ job.kind = "idle" /\ ~cursor.held
    /\ PaidSnapshots => ~blocked
    /\ copy' = Untouched
    /\ job' = [Idle EXCEPT !.kind = "snapshot", !.since = head, !.view = view,
                           !.todo = IF blocked THEN {Settings} ELSE view, !.room = Limit]
    /\ UNCHANGED <<cursor, dbVars, userVars, faults>>

\* No entity is left: the device goes on from the head of the first page.
FinishSnapshot ==
    /\ job.kind = "snapshot" /\ job.todo = {}
    /\ cursor' = [held |-> TRUE, seq |-> job.since, view |-> job.view, expired |-> FALSE]
    /\ job' = Idle
    /\ UNCHANGED <<copy, dbVars, userVars, faults>>

\* The next statement of the page: live rows with id > after, in order of id.
SnapshotTable ==
    /\ job.kind = "snapshot" /\ job.todo # {} /\ job.room > 0
    /\ LET t == FirstOf(job.todo)
           live == {r \in RowsOf(t) : ~deleted[r] /\ r > job.after}
           id == [r \in Rows |-> r]
       IN  \E part \in SUBSET live :
             /\ IsFirst(part, live, job.room, id)
             /\ copy' = [r \in Rows |-> IF r \in part THEN seq[r] ELSE copy[r]]
             /\ job' = IF part = live
                       THEN [job EXCEPT !.todo = @ \ {t}, !.after = 0,
                                        !.room = @ - Cardinality(part)]
                       ELSE [job EXCEPT !.after = LastOf(part), !.room = 0]
    /\ UNCHANGED <<cursor, dbVars, userVars, faults>>

\* The page is full: the device asks for the next one.  The token names the
\* entity by its place in the list of the visible entities, which is down to
\* the settings while the business is blocked.
NextPage ==
    /\ job.kind = "snapshot" /\ job.todo # {} /\ job.room = 0
    /\ job.view = view
    /\ job' = [job EXCEPT !.todo = IF blocked THEN @ \cap {Settings} ELSE @,
                          !.room = Limit]
    /\ UNCHANGED <<copy, cursor, dbVars, userVars, faults>>

\* invalid_cursor: the fingerprint has changed since the page before.
NextPageRefused ==
    /\ job.kind = "snapshot" /\ job.todo # {} /\ job.room = 0
    /\ job.view # view
    /\ job' = Idle
    /\ UNCHANGED <<copy, cursor, dbVars, userVars, faults>>

-----------------------------------------------------------------------------
(* What happens around the feed. *)

Fault == faults < MaxFaults /\ faults' = faults + 1

\* An answer does not reach the device, or the device is switched off.
LoseAnswer ==
    /\ Fault
    /\ job.kind # "idle"
    /\ job' = Idle
    /\ UNCHANGED <<copy, cursor, dbVars, userVars>>

\* More than tombstone_retention_days go by without a pull.
CursorExpires ==
    /\ Fault
    /\ cursor.held /\ job.kind = "idle"
    /\ cursor' = [cursor EXCEPT !.expired = TRUE]
    /\ UNCHANGED <<copy, job, dbVars, userVars>>

\* Roles of the user change.
ChangeRoles(v) ==
    /\ Fault
    /\ v # view
    /\ view' = v
    /\ UNCHANGED <<blocked, dbVars, deviceVars>>

\* The subscription expires, is suspended or cancelled.
Block ==
    /\ Fault
    /\ ~blocked
    /\ PaidSnapshots => job.kind # "snapshot"
    /\ blocked' = TRUE
    /\ UNCHANGED <<view, dbVars, deviceVars>>

Renew ==
    /\ blocked
    /\ blocked' = FALSE
    /\ UNCHANGED <<view, dbVars, deviceVars, faults>>

-----------------------------------------------------------------------------

WriterStep == \E w \in Writers : Stamp(w) \/ Commit(w) \/ Rollback(w)
PullStep == PullResync \/ PullRestricted \/ BeginPull \/ ReadTable \/ EndPull
SnapshotStep ==
    BeginSnapshot \/ SnapshotTable \/ NextPage \/ NextPageRefused \/ FinishSnapshot
Surroundings ==
    \/ EndPullBeforeCursor \/ LoseAnswer \/ CursorExpires \/ Block \/ Renew
    \/ \E v \in Views : ChangeRoles(v)

Next == WriterStep \/ PullStep \/ SnapshotStep \/ Surroundings

\* A device that keeps asking: "if has_more, pull again at once".
Spec == Init /\ [][Next]_vars /\ WF_vars(PullStep \/ SnapshotStep)

-----------------------------------------------------------------------------
(* Properties. *)

\* The device holds what the server holds of row r, or neither holds it.
Delivered(r) == copy[r] = seq[r] \/ (deleted[r] /\ copy[r] = 0)

\* "A cursor can never skip a late-committing row": whatever a cursor has gone
\* past has been delivered, through pages, snapshots that rows change under,
\* lost answers, role changes and blocked subscriptions.
NothingSkipped ==
    cursor.held =>
        \A r \in Rows :
            TableOf[r] \in cursor.view /\ Exists(r) /\ seq[r] <= cursor.seq => Delivered(r)

InSync ==
    cursor.held /\ \A r \in Rows : TableOf[r] \in view /\ Exists(r) => Delivered(r)

\* Once the subscription is served and nothing changes any more, a device that
\* keeps asking comes to hold everything its user may see, and stays so.
CatchesUp == <>[](~blocked) => <>[]InSync
=============================================================================
