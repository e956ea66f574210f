--------------------------- MODULE SyncFeedProofs ---------------------------
(* Proofs about the change feed, for any rows, entities, roles, writers and *)
(* page size: a cursor never goes past a row that was not delivered, when   *)
(* no transaction commits between two statements of a pull and the          *)
(* subscription is served while a snapshot is taken.                        *)

EXTENDS SyncFeed, Sums

\* One transaction at a time holds the counter row, and its numbers are new.
Writing ==
  /\ \A v, w \in Writers : Committing(v) /\ Committing(w) => v = w
  /\ \A w \in Writers : \A r \in Rows : stamped[w][r] = 0 \/ stamped[w][r] > head

\* Nobody has seen a number that was not handed out.
Bounded ==
  /\ \A r \in Rows : seq[r] <= head
  /\ cursor.seq <= head /\ (~cursor.held => cursor.seq = 0)
  /\ job.since <= head

\* Row r is delivered if it changed last at or before s.
Sure(r, s) == Exists(r) /\ seq[r] <= s => Delivered(r)

\* Limit + 1 rows that changed before r have been read.
CutOff(r) ==
  \E part \in SUBSET Rows :
    /\ Cardinality(part) = Limit + 1
    /\ \A q \in part : job.read[q] > 0 /\ seq[q] < seq[r]

\* What a running pull has read of each entity is all that is newer than the
\* cursor, or more than a page of it.
Pulling ==
  job.kind = "pull" =>
    /\ \A r \in Rows : TableOf[r] \in job.view => Sure(r, job.since)
    /\ \A r \in Rows : job.read[r] = 0 \/ job.read[r] = seq[r]
    /\ \A r \in Rows : TableOf[r] \in job.view \ job.todo /\ Exists(r) /\ seq[r] > job.since => job.read[r] = seq[r] \/ CutOff(r)

\* What a running snapshot has passed is delivered as of the head it began at;
\* rows that were deleted by then are not copied.
Copying ==
  job.kind = "snapshot" =>
    /\ ~cursor.held /\ ~blocked
    /\ job.todo \subseteq job.view
    /\ \A r \in Rows : deleted[r] /\ seq[r] <= job.since => copy[r] = 0
    /\ \A r \in Rows : TableOf[r] \in job.view \ job.todo => Sure(r, job.since)
    /\ job.todo # {} => \A r \in Rows : TableOf[r] = FirstOf(job.todo) /\ r <= job.after => Sure(r, job.since)

FeedInv == TypeOK /\ Writing /\ Bounded /\ Pulling /\ Copying /\ NothingSkipped

-----------------------------------------------------------------------------
(* Numbers, sets and records.                                               *)

\* A finite set of naturals that is not empty has a greatest member.
LEMMA GreatestNatural ==
  ASSUME NEW S, IsFiniteSet(S), S \subseteq Nat, S # {}
  PROVE  \E x \in S : \A y \in S : y <= x
  <1> DEFINE P == {T \in SUBSET S : T = {} \/ \E x \in T : \A y \in T : y <= x}
  <1>1. {} \in P OBVIOUS
  <1>2. ASSUME NEW T \in SUBSET S, NEW x \in S \ T, T \in P PROVE T \cup {x} \in P
    <2>1. CASE T = {} BY <2>1
    <2>2. CASE T # {}
      <3>1. PICK m \in T : \A y \in T : y <= m BY <1>2, <2>2
      <3>2. CASE m <= x BY <3>1, <3>2
      <3>3. CASE x <= m BY <3>1, <3>3
      <3> QED BY <3>1, <3>2, <3>3
    <2> QED BY <2>1, <2>2
  <1> HIDE DEF P
  <1>3. S \in P BY <1>1, <1>2, InductionOnSubsets
  <1> QED BY <1>3 DEF P

\* FirstOf and LastOf give the ends of a set.
LEMMA EndsOfSet ==
  /\ \A S \in SUBSET Nat : S # {} => FirstOf(S) \in S /\ \A u \in S : FirstOf(S) <= u
  /\ \A S \in SUBSET Nat : S # {} /\ IsFiniteSet(S) => LastOf(S) \in S /\ \A u \in S : u <= LastOf(S)
  BY LeastNatural, GreatestNatural DEF FirstOf, LastOf

\* The records of the device.
LEMMA Records ==
  /\ Idle \in Jobs /\ Idle.kind = "idle" /\ Idle.since = 0 /\ NoCursor \in Cursors /\ ~NoCursor.held /\ NoCursor.seq = 0
  /\ Untouched \in [Rows -> Nat] /\ \A r \in Rows : Untouched[r] = 0
  BY DEF Idle, Jobs, NoCursor, Cursors, Untouched

\* The roles make sets of entities visible.
LEMMA ViewsAreSets == \A v \in Views : v \in SUBSET Nat
  BY FeedAssumption

-----------------------------------------------------------------------------
(* The transactions.                                                        *)

\* sync_stamp: the numbers are above the head, and nobody else commits.
LEMMA StampStep == ASSUME FeedInv, NEW w \in Writers, Stamp(w) PROVE FeedInv'
  <1>0. UNCHANGED <<head, seq, deleted, userVars, deviceVars, faults>> BY DEF Stamp
  <1>1. PICK R \in SUBSET Rows : /\ \E s \in Stamps(R, head) : stamped' = [stamped EXCEPT ![w] = s]
                                 /\ \E D \in SUBSET R : removed' = [removed EXCEPT ![w] = D]
    BY DEF Stamp
  <1>2. PICK s \in Stamps(R, head) : stamped' = [stamped EXCEPT ![w] = s] BY <1>1
  <1>3. Cardinality(R) \in Nat BY FeedAssumption, FS_Subset, FS_CardinalityType
  <1>4. s \in [Rows -> Nat] /\ \A r \in Rows : s[r] = 0 \/ s[r] > head
    BY <1>2, <1>3 DEF Stamps, FeedInv, TypeOK
  <1>5. stamped' \in [Writers -> [Rows -> Nat]] /\ stamped'[w] = s /\ \A v \in Writers \ {w} : stamped'[v] = stamped[v]
    BY <1>2, <1>4 DEF FeedInv, TypeOK
  <1>6. removed' \in [Writers -> SUBSET Rows] BY <1>1 DEF FeedInv, TypeOK
  <1>7. TypeOK' BY <1>0, <1>5, <1>6 DEF FeedInv, TypeOK, userVars, deviceVars
  <1>8. Writing'
    <2>1. \A v \in Writers \ {w} : stamped'[v] = Untouched BY <1>5 DEF Stamp, Committing
    <2> QED BY <1>0, <1>4, <1>5, <2>1, Records DEF Writing, Committing
  <1>9. (Bounded /\ Pulling /\ Copying /\ NothingSkipped)'
    BY <1>0 DEF FeedInv, Bounded, Pulling, Copying, NothingSkipped, Sure, CutOff, Delivered, Exists, userVars, deviceVars
  <1> QED BY <1>7, <1>8, <1>9 DEF FeedInv

\* The counter goes back.
LEMMA RollbackStep == ASSUME FeedInv, NEW w \in Writers, Rollback(w) PROVE FeedInv'
  <1>0. UNCHANGED <<head, seq, deleted, userVars, deviceVars, faults>> BY DEF Rollback
  <1>1. stamped' \in [Writers -> [Rows -> Nat]] /\ stamped'[w] = Untouched /\ \A v \in Writers \ {w} : stamped'[v] = stamped[v]
    BY Records DEF FeedInv, TypeOK, Rollback
  <1>2. removed' \in [Writers -> SUBSET Rows] BY DEF FeedInv, TypeOK, Rollback
  <1>3. TypeOK' BY <1>0, <1>1, <1>2 DEF FeedInv, TypeOK, userVars, deviceVars
  <1>4. Writing' BY <1>0, <1>1, Records DEF FeedInv, Writing, Committing
  <1>5. (Bounded /\ Pulling /\ Copying /\ NothingSkipped)'
    BY <1>0 DEF FeedInv, Bounded, Pulling, Copying, NothingSkipped, Sure, CutOff, Delivered, Exists, userVars, deviceVars
  <1> QED BY <1>3, <1>4, <1>5 DEF FeedInv

\* A commit changes rows to numbers that no cursor has reached.
LEMMA CommitStep == ASSUME QuietPulls, FeedInv, NEW w \in Writers, Commit(w) PROVE FeedInv'
  <1>0. UNCHANGED <<userVars, deviceVars, faults>> /\ job.kind # "pull" BY DEF Commit
  <1>1. stamped' \in [Writers -> [Rows -> Nat]] /\ stamped'[w] = Untouched /\ \A v \in Writers \ {w} : stamped'[v] = stamped[v]
    BY Records DEF FeedInv, TypeOK, Commit
  <1>2. removed' \in [Writers -> SUBSET Rows] BY DEF FeedInv, TypeOK, Commit
  <1>3. stamped[w] \in [Rows -> Nat] BY DEF FeedInv, TypeOK
  <1>4. seq' \in [Rows -> Nat] /\ \A r \in Rows : seq'[r] = IF stamped[w][r] > 0 THEN stamped[w][r] ELSE seq[r]
    BY <1>3 DEF Commit, FeedInv, TypeOK
  <1>5. deleted' \in [Rows -> BOOLEAN]
    <2>1. \A r \in Rows : deleted[r] \in BOOLEAN BY DEF FeedInv, TypeOK
    <2>2. deleted' = [r \in Rows |-> IF stamped[w][r] > 0 THEN r \in removed[w] ELSE deleted[r]] BY DEF Commit
    <2>3. ASSUME NEW r \in Rows PROVE (IF stamped[w][r] > 0 THEN r \in removed[w] ELSE deleted[r]) \in BOOLEAN
      <3>1. CASE stamped[w][r] > 0 /\ r \in removed[w] BY <3>1, Zenon
      <3>1a. CASE stamped[w][r] > 0 /\ r \notin removed[w]
        <4>1. (r \in removed[w]) = FALSE BY <3>1a
        <4>2. (IF stamped[w][r] > 0 THEN r \in removed[w] ELSE deleted[r]) = FALSE BY <3>1a, <4>1, Zenon
        <4> QED BY <4>2, Zenon
      <3>2. CASE ~(stamped[w][r] > 0) BY <2>1, <3>2, Zenon
      <3> QED BY <3>1, <3>1a, <3>2, Zenon
    <2> QED BY <2>2, <2>3, Zenon
  <1>5a. \A r \in Rows : stamped[w][r] = 0 => deleted'[r] = deleted[r]
    BY DEF Commit
  <1>6. head' \in Nat /\ head' >= head /\ \A r \in Rows : head' >= stamped[w][r]
    BY <1>3 DEF Commit, FeedInv, TypeOK
  <1>7. TypeOK' BY <1>0, <1>1, <1>2, <1>4, <1>5, <1>6 DEF FeedInv, TypeOK, userVars, deviceVars
  <1>8. \A v \in Writers \ {w} : stamped[v] = Untouched BY DEF Commit, FeedInv, Writing, Committing
  <1>9. Writing' BY <1>1, <1>8, Records DEF Writing, Committing
  <1>10. head \in Nat /\ seq \in [Rows -> Nat] /\ cursor.seq \in Nat /\ job.since \in Nat BY DEF FeedInv, TypeOK, Cursors, Jobs
  <1>11. Bounded'
    BY <1>0, <1>3, <1>4, <1>6, <1>10 DEF FeedInv, Bounded, deviceVars
  <1>12. \A r \in Rows : seq'[r] <= head => seq'[r] = seq[r] /\ deleted'[r] = deleted[r]
    <2> SUFFICES ASSUME NEW r \in Rows, seq'[r] <= head PROVE seq'[r] = seq[r] /\ deleted'[r] = deleted[r] OBVIOUS
    <2>1. stamped[w][r] = 0 \/ stamped[w][r] > head BY DEF FeedInv, Writing
    <2>2. stamped[w][r] = 0 BY <1>3, <1>4, <1>10, <2>1
    <2> QED BY <1>4, <1>5a, <2>2
  <1>13. \A s \in Nat : s <= head => \A r \in Rows : Sure(r, s) => Sure(r, s)'
    BY <1>0, <1>4, <1>10, <1>12 DEF Sure, Delivered, Exists, deviceVars
  <1>14. Pulling' BY <1>0 DEF Pulling, deviceVars
  <1>15. Copying'
    <2> SUFFICES ASSUME job.kind = "snapshot" PROVE Copying' BY <1>0 DEF Copying, deviceVars
    <2>1. job.since \in Nat /\ job.since <= head BY <1>10 DEF FeedInv, Bounded
    <2>2. \A r \in Rows : deleted'[r] /\ seq'[r] <= job.since => copy[r] = 0
      BY <1>4, <1>10, <1>12, <2>1 DEF FeedInv, Copying
    <2>3. \A r \in Rows : Sure(r, job.since) => Sure(r, job.since)' 
      BY <1>0, <1>4, <1>10, <1>12, <2>1 DEF Sure, Delivered, Exists, deviceVars
    <2> QED BY <1>0, <2>2, <2>3 DEF FeedInv, Copying, deviceVars, userVars
  <1>16. NothingSkipped'
    BY <1>0, <1>4, <1>10, <1>12 DEF FeedInv, Bounded, NothingSkipped, Delivered, Exists, deviceVars
  <1> QED BY <1>7, <1>9, <1>11, <1>14, <1>15, <1>16 DEF FeedInv

-----------------------------------------------------------------------------
(* What the server and its user do besides.                                 *)

\* The rows and the writers are left alone by everything the device does.
LEMMA WritersQuiet == ASSUME FeedInv, UNCHANGED dbVars PROVE Writing' /\ head' = head /\ seq' = seq /\ deleted' = deleted
  BY DEF FeedInv, Writing, Committing, dbVars

\* A device that forgets its request keeps its copy and its cursor.
LEMMA Forgets == ASSUME FeedInv, job' = Idle, UNCHANGED <<copy, cursor, dbVars, userVars>>, faults' \in Nat PROVE FeedInv'
  <1>0. Writing' /\ head' = head /\ seq' = seq /\ deleted' = deleted BY WritersQuiet
  <1>1. TypeOK' BY Records DEF FeedInv, TypeOK, dbVars, userVars
  <1>2. Bounded' BY <1>0, Records DEF FeedInv, Bounded, TypeOK
  <1>3. Pulling' /\ Copying' BY Records DEF Pulling, Copying
  <1>4. NothingSkipped' BY <1>0 DEF FeedInv, NothingSkipped, Delivered, Exists
  <1> QED BY <1>0, <1>1, <1>2, <1>3, <1>4 DEF FeedInv

\* Lost answers, expiry, roles and the subscription.
LEMMA SurroundingsStep ==
  ASSUME PaidSnapshots, FeedInv, LoseAnswer \/ CursorExpires \/ Block \/ Renew \/ NextPageRefused \/ \E v \in Views : ChangeRoles(v)
  PROVE  FeedInv'
  <1>1. CASE LoseAnswer
    <2>1. faults' \in Nat BY <1>1 DEF LoseAnswer, Fault, FeedInv, TypeOK
    <2> QED BY <1>1, <2>1, Forgets DEF LoseAnswer
  <1>2. CASE NextPageRefused
    <2>1. faults' \in Nat BY <1>2 DEF NextPageRefused, FeedInv, TypeOK
    <2> QED BY <1>2, <2>1, Forgets DEF NextPageRefused
  <1>3. CASE CursorExpires
    <2>0. UNCHANGED <<copy, job, dbVars, userVars>> /\ faults' \in Nat /\ job.kind = "idle" BY <1>3 DEF CursorExpires, Fault, FeedInv, TypeOK
    <2>1. cursor' \in Cursors /\ cursor'.seq = cursor.seq /\ cursor'.view = cursor.view /\ cursor'.held = cursor.held
      BY <1>3 DEF CursorExpires, FeedInv, TypeOK, Cursors
    <2>2. Writing' /\ head' = head /\ seq' = seq /\ deleted' = deleted BY <2>0, WritersQuiet
    <2>3. TypeOK' BY <2>0, <2>1 DEF FeedInv, TypeOK, dbVars, userVars
    <2>4. (Bounded /\ Pulling /\ Copying /\ NothingSkipped)'
      BY <2>0, <2>1, <2>2 DEF FeedInv, Bounded, Pulling, Copying, NothingSkipped, Delivered, Exists
    <2> QED BY <2>2, <2>3, <2>4 DEF FeedInv
  <1>4. CASE Block \/ Renew \/ \E v \in Views : ChangeRoles(v)
    <2>0. UNCHANGED <<dbVars, deviceVars>> /\ faults' \in Nat /\ view' \in Views /\ blocked' \in BOOLEAN
      <3>1. blocked \in BOOLEAN /\ view \in Views /\ faults \in Nat BY DEF FeedInv, TypeOK
      <3>2. UNCHANGED <<dbVars, deviceVars>> /\ faults' \in Nat /\ view' \in Views BY <1>4, <3>1 DEF Block, Renew, ChangeRoles, Fault
      <3>3. blocked' \in BOOLEAN BY <1>4, <3>1, Zenon DEF Block, Renew, ChangeRoles
      <3> QED BY <3>2, <3>3
    <2>1. job.kind = "snapshot" /\ ~blocked => ~blocked' BY <1>4 DEF Block, Renew, ChangeRoles
    <2>2. Writing' /\ head' = head /\ seq' = seq /\ deleted' = deleted BY <2>0, WritersQuiet
    <2>3. TypeOK' BY <2>0 DEF FeedInv, TypeOK, dbVars, deviceVars
    <2>4. (Bounded /\ Pulling /\ NothingSkipped)'
      BY <2>0, <2>2 DEF FeedInv, Bounded, Pulling, NothingSkipped, Sure, CutOff, Delivered, Exists, deviceVars
    <2>5. Copying' BY <2>0, <2>1, <2>2 DEF FeedInv, Copying, Sure, Delivered, Exists, deviceVars
    <2> QED BY <2>2, <2>3, <2>4, <2>5 DEF FeedInv
  <1> QED BY <1>1, <1>2, <1>3, <1>4

-----------------------------------------------------------------------------
(* The snapshot.                                                            *)

\* The first page: the device holds nothing, and nothing has been passed.
LEMMA BeginSnapshotStep == ASSUME PaidSnapshots, FeedInv, BeginSnapshot PROVE FeedInv'
  <1> DEFINE j == [Idle EXCEPT !.kind = "snapshot", !.since = head, !.view = view, !.todo = view, !.room = Limit]
  <1>0. /\ ~cursor.held /\ ~blocked /\ copy' = Untouched /\ job' = j /\ UNCHANGED <<cursor, dbVars, userVars, faults>>
    BY DEF BeginSnapshot
  <1>1. head \in Nat /\ view \in SUBSET Nat BY ViewsAreSets DEF FeedInv, TypeOK
  <1>2. j \in Jobs /\ j.kind = "snapshot" /\ j.since = head /\ j.view = view /\ j.todo = view /\ j.after = 0
    BY <1>1, FeedAssumption, Records DEF Jobs, Idle
  <1> HIDE DEF j
  <1>3. Writing' /\ head' = head /\ seq' = seq /\ deleted' = deleted BY <1>0, WritersQuiet
  <1>4. TypeOK' BY <1>0, <1>2, Records DEF FeedInv, TypeOK, dbVars, userVars
  <1>5. Bounded' BY <1>0, <1>1, <1>2, <1>3 DEF FeedInv, Bounded
  <1>6. Pulling' /\ NothingSkipped' BY <1>0, <1>2 DEF Pulling, NothingSkipped
  <1>7. \A r \in Rows : ~(r <= 0) BY FeedAssumption
  <1>8. Copying' BY <1>0, <1>2, <1>3, <1>7, Records DEF Copying, userVars
  <1> QED BY <1>3, <1>4, <1>5, <1>6, <1>8 DEF FeedInv

\* The last page: everything visible is delivered as of the first page.
LEMMA FinishSnapshotStep == ASSUME FeedInv, FinishSnapshot PROVE FeedInv'
  <1> DEFINE c == [held |-> TRUE, seq |-> job.since, view |-> job.view, expired |-> FALSE]
  <1>0. job.kind = "snapshot" /\ job.todo = {} /\ cursor' = c /\ job' = Idle /\ UNCHANGED <<copy, dbVars, userVars, faults>>
    BY DEF FinishSnapshot
  <1>1. job.since \in Nat /\ job.view \in SUBSET Nat BY DEF FeedInv, TypeOK, Jobs
  <1>2. c \in Cursors /\ c.held /\ c.seq = job.since /\ c.view = job.view BY <1>1 DEF Cursors
  <1> HIDE DEF c
  <1>3. Writing' /\ head' = head /\ seq' = seq /\ deleted' = deleted BY <1>0, WritersQuiet
  <1>4. TypeOK' BY <1>0, <1>2, Records DEF FeedInv, TypeOK, dbVars, userVars
  <1>5. Bounded' BY <1>0, <1>2, <1>3, Records DEF FeedInv, Bounded, TypeOK
  <1>6. Pulling' /\ Copying' BY <1>0, Records DEF Pulling, Copying
  <1>7. NothingSkipped' BY <1>0, <1>2, <1>3 DEF FeedInv, Copying, NothingSkipped, Sure, Delivered, Exists
  <1> QED BY <1>3, <1>4, <1>5, <1>6, <1>7 DEF FeedInv

\* The next page begins where the last one ended.
LEMMA NextPageStep == ASSUME FeedInv, NextPage PROVE FeedInv'
  <1>0. job.kind = "snapshot" /\ ~blocked /\ UNCHANGED <<copy, cursor, dbVars, userVars, faults>> BY DEF NextPage, FeedInv, Copying
  <1>1. job' = [job EXCEPT !.todo = job.todo, !.room = Limit] BY <1>0 DEF NextPage, FeedInv, TypeOK, Jobs
  <1>2. job' \in Jobs /\ job'.kind = job.kind /\ job'.since = job.since /\ job'.view = job.view /\ job'.todo = job.todo /\ job'.after = job.after
    BY <1>1, FeedAssumption DEF FeedInv, TypeOK, Jobs
  <1>3. Writing' /\ head' = head /\ seq' = seq /\ deleted' = deleted BY <1>0, WritersQuiet
  <1>4. TypeOK' BY <1>0, <1>2 DEF FeedInv, TypeOK, dbVars, userVars
  <1>5. (Bounded /\ Pulling /\ NothingSkipped)' BY <1>0, <1>2, <1>3 DEF FeedInv, Bounded, Pulling, NothingSkipped, Delivered, Exists
  <1>6. Copying' BY <1>0, <1>2, <1>3 DEF FeedInv, Copying, Sure, Delivered, Exists, userVars
  <1> QED BY <1>3, <1>4, <1>5, <1>6 DEF FeedInv

\* A statement of a snapshot page passes the live rows of an entity in order
\* of their ids.
LEMMA SnapshotTableStep == ASSUME FeedInv, SnapshotTable PROVE FeedInv'
  <1> DEFINE t == FirstOf(job.todo)
             live == {r \in RowsOf(t) : ~deleted[r] /\ r > job.after}
             id == [r \in Rows |-> r]
  <1>0. job.kind = "snapshot" /\ job.todo # {} /\ job.room > 0 /\ UNCHANGED <<cursor, dbVars, userVars, faults>> BY DEF SnapshotTable
  <1>1. PICK part \in SUBSET live :
          /\ IsFirst(part, live, job.room, id)
          /\ copy' = [r \in Rows |-> IF r \in part THEN seq[r] ELSE copy[r]]
          /\ job' = IF part = live
                    THEN [job EXCEPT !.todo = @ \ {t}, !.after = 0, !.room = @ - Cardinality(part)]
                    ELSE [job EXCEPT !.after = LastOf(part), !.room = 0]
    BY DEF SnapshotTable
  <1>2. job \in Jobs /\ job.todo \in SUBSET Nat /\ job.room \in Nat /\ job.after \in Nat /\ job.since \in Nat /\ job.view \in SUBSET Nat
    BY DEF FeedInv, TypeOK, Jobs
  <1>3. t \in job.todo /\ t \in job.view BY <1>0, <1>2, EndsOfSet DEF FeedInv, Copying
  <1>4. live \subseteq Rows /\ part \subseteq Rows /\ IsFiniteSet(part) /\ Cardinality(part) \in Nat /\ part \subseteq Nat /\ Rows \subseteq Nat
    <2>1. live \subseteq Rows BY DEF RowsOf
    <2>2. IsFiniteSet(part) BY <2>1, FeedAssumption, FS_Subset
    <2> QED BY <2>1, <2>2, FeedAssumption, FS_CardinalityType
  <1>5. Cardinality(part) <= job.room /\ (part # live => Cardinality(part) = job.room) /\ \A q \in part : \A r \in live \ part : q < r
    BY <1>1, <1>4 DEF IsFirst
  <1>6. part # live => /\ LastOf(part) \in part /\ \A u \in part : u <= LastOf(part)
                       /\ \A r \in live : r <= LastOf(part) => r \in part
    <2> SUFFICES ASSUME part # live
                 PROVE  /\ LastOf(part) \in part /\ \A u \in part : u <= LastOf(part)
                        /\ \A r \in live : r <= LastOf(part) => r \in part
      OBVIOUS
    <2>1. part # {} BY <1>0, <1>2, <1>5, FS_EmptySet
    <2>2. LastOf(part) \in part /\ \A u \in part : u <= LastOf(part) BY <1>4, <2>1, EndsOfSet
    <2>3. \A r \in live \ part : LastOf(part) < r BY <1>5, <2>2
    <2> HIDE DEF live
    <2>4. ASSUME NEW r \in live, r <= LastOf(part), r \notin part PROVE FALSE
      <3>1. LastOf(part) < r /\ r \in Nat /\ LastOf(part) \in Nat BY <1>4, <2>2, <2>3, <2>4
      <3> QED BY <2>4, <3>1
    <2> QED BY <2>2, <2>4
  <1>7. \A r \in Rows : r \in live <=> TableOf[r] = t /\ Exists(r) /\ ~deleted[r] /\ r > job.after BY DEF RowsOf
  <1>8. Writing' /\ head' = head /\ seq' = seq /\ deleted' = deleted BY <1>0, WritersQuiet
  <1> HIDE DEF live, id, t
  <1>9. copy' \in [Rows -> Nat] /\ \A r \in Rows : copy'[r] = IF r \in part THEN seq[r] ELSE copy[r] BY <1>1 DEF FeedInv, TypeOK
  <1>10. job' \in Jobs /\ job'.kind = "snapshot" /\ job'.since = job.since /\ job'.view = job.view
    <2>1. CASE part = live
      <3>1. job.room - Cardinality(part) \in Nat BY <1>2, <1>4, <1>5
      <3> QED BY <1>0, <1>1, <1>2, <2>1, <3>1 DEF Jobs
    <2>2. CASE part # live
      <3>1. LastOf(part) \in Nat BY <1>4, <1>6, <2>2
      <3> QED BY <1>0, <1>1, <1>2, <2>2, <3>1 DEF Jobs
    <2> QED BY <2>1, <2>2
  <1>11. TypeOK' BY <1>0, <1>9, <1>10 DEF FeedInv, TypeOK, dbVars, userVars
  <1>12. Bounded' BY <1>0, <1>8, <1>10 DEF FeedInv, Bounded
  <1>13. Pulling' /\ NothingSkipped' BY <1>0, <1>10 DEF Pulling, NothingSkipped, FeedInv, Copying
  <1>14. \A r \in Rows : Sure(r, job.since) => (Sure(r, job.since))'
    <2>1. \A r \in Rows : Delivered(r) => Delivered(r)'
      <3>1. \A r \in Rows : r \in part => copy'[r] = seq[r] BY <1>9
      <3>2. \A r \in Rows : r \notin part => copy'[r] = copy[r] BY <1>9
      <3> QED BY <1>8, <3>1, <3>2 DEF Delivered
    <2> QED BY <1>8, <1>10, <2>1 DEF Sure, Exists
  <1>15. \A r \in part : (Sure(r, job.since))' BY <1>4, <1>8, <1>9 DEF Sure, Delivered
  <1>16. \A r \in Rows : deleted[r] /\ seq[r] <= job.since => copy'[r] = 0
    BY <1>0, <1>7, <1>9 DEF FeedInv, Copying
  <1>17. \A r \in Rows : deleted[r] => (Sure(r, job.since))'
    BY <1>8, <1>10, <1>16 DEF Sure, Delivered
  <1>18. \A r \in Rows : TableOf[r] = t /\ r <= job.after => (Sure(r, job.since))'
    BY <1>0, <1>14 DEF FeedInv, Copying, t
  <1>19. \A r \in Rows : TableOf[r] \in job.view \ job.todo => (Sure(r, job.since))'
    BY <1>0, <1>14 DEF FeedInv, Copying
  <1>20. \A r \in Rows : ~Exists(r) => (Sure(r, job.since))' BY <1>8 DEF Sure, Exists
  <1>21. CASE part = live
    <2>1. job'.todo = job.todo \ {t} /\ job'.after = 0 BY <1>1, <1>2, <1>21 DEF Jobs
    <2>2. \A r \in Rows : TableOf[r] = t => (Sure(r, job.since))'
      <3> SUFFICES ASSUME NEW r \in Rows, TableOf[r] = t PROVE (Sure(r, job.since))' OBVIOUS
      <3>1. r <= job.after \/ r > job.after BY <1>2, <1>4
      <3> QED BY <1>7, <1>15, <1>17, <1>18, <1>20, <1>21, <3>1, Zenon
    <2>3. \A r \in Rows : ~(r <= 0) BY FeedAssumption
    <2>4. \A r \in Rows : TableOf[r] \in job'.view \ job'.todo => (Sure(r, job.since))' BY <1>10, <1>19, <2>1, <2>2
    <2>5. job'.todo \subseteq job'.view BY <1>0, <1>10, <2>1 DEF FeedInv, Copying
    <2> QED BY <1>0, <1>8, <1>10, <1>11, <1>12, <1>13, <1>16, <2>1, <2>3, <2>4, <2>5 DEF FeedInv, Copying, userVars
  <1>22. CASE part # live
    <2>1. job'.todo = job.todo /\ job'.after = LastOf(part) BY <1>1, <1>2, <1>22 DEF Jobs
    <2>2. \A r \in Rows : TableOf[r] = t /\ r <= LastOf(part) => (Sure(r, job.since))'
      <3> SUFFICES ASSUME NEW r \in Rows, TableOf[r] = t, r <= LastOf(part) PROVE (Sure(r, job.since))' OBVIOUS
      <3>1. r <= job.after \/ r > job.after BY <1>2, <1>4
      <3>2. r \in live => r \in part BY <1>6, <1>22
      <3> QED BY <1>7, <1>15, <1>17, <1>18, <1>20, <3>1, <3>2, Zenon
    <2>3. \A r \in Rows : TableOf[r] \in job'.view \ job'.todo => (Sure(r, job.since))' BY <1>10, <1>19, <2>1
    <2>4. job'.todo \subseteq job'.view BY <1>0, <1>10, <2>1 DEF FeedInv, Copying
    <2>5. \A r \in Rows : TableOf[r] = FirstOf(job'.todo) /\ r <= job'.after => (Sure(r, job.since))' BY <2>1, <2>2 DEF t
    <2> QED BY <1>0, <1>8, <1>10, <1>11, <1>12, <1>13, <1>16, <2>3, <2>4, <2>5 DEF FeedInv, Copying, userVars
  <1> QED BY <1>21, <1>22

-----------------------------------------------------------------------------
(* The pull.                                                                *)

\* The device starts over, or gets the settings only, or asks for what is
\* newer than its cursor.
LEMMA PullBeginsStep == ASSUME FeedInv, PullResync \/ PullRestricted \/ BeginPull PROVE FeedInv'
  <1>1. CASE PullResync
    <2>0. job.kind = "idle" /\ copy' = Untouched /\ cursor' = NoCursor /\ UNCHANGED <<job, dbVars, userVars, faults>> BY <1>1 DEF PullResync
    <2>1. Writing' /\ head' = head /\ seq' = seq /\ deleted' = deleted BY <2>0, WritersQuiet
    <2>2. TypeOK' BY <2>0, Records DEF FeedInv, TypeOK, dbVars, userVars
    <2>3. (Bounded /\ Pulling /\ Copying /\ NothingSkipped)'
      BY <2>0, <2>1, Records DEF FeedInv, Bounded, Pulling, Copying, NothingSkipped, TypeOK
    <2> QED BY <2>1, <2>2, <2>3 DEF FeedInv
  <1>2. CASE PullRestricted
    <2> DEFINE new == [held |-> TRUE, seq |-> 0, view |-> view, expired |-> FALSE]
    <2>0. /\ job.kind = "idle" /\ UNCHANGED <<job, dbVars, userVars, faults>>
          /\ copy' = [r \in Rows |-> IF r \in RowsOf(Settings) THEN seq[r] ELSE copy[r]]
          /\ cursor' = IF cursor.held THEN cursor ELSE new
      BY <1>2 DEF PullRestricted
    <2>1. Writing' /\ head' = head /\ seq' = seq /\ deleted' = deleted BY <2>0, WritersQuiet
    <2>2. copy' \in [Rows -> Nat] /\ \A r \in Rows : copy'[r] = seq[r] \/ copy'[r] = copy[r] BY <2>0 DEF FeedInv, TypeOK
    <2>3. view \in SUBSET Nat BY ViewsAreSets DEF FeedInv, TypeOK
    <2>4. new \in Cursors /\ new.held /\ new.seq = 0 BY <2>3 DEF Cursors
    <2> HIDE DEF new
    <2>5. cursor' = cursor \/ cursor' = new BY <2>0
    <2>6. TypeOK' BY <2>0, <2>2, <2>4, <2>5 DEF FeedInv, TypeOK, dbVars, userVars
    <2>7. Bounded' BY <2>0, <2>1, <2>4, <2>5 DEF FeedInv, Bounded, TypeOK
    <2>8. Pulling' /\ Copying' BY <2>0 DEF Pulling, Copying
    <2>9. \A r \in Rows : Delivered(r) => Delivered(r)' BY <2>1, <2>2 DEF Delivered
    <2>10. NothingSkipped'
      <3>1. CASE cursor' = cursor BY <2>1, <2>9, <3>1 DEF FeedInv, NothingSkipped, Exists
      <3>2. CASE cursor' = new BY <2>1, <2>4, <3>2 DEF FeedInv, TypeOK, NothingSkipped, Exists
      <3> QED BY <2>5, <3>1, <3>2
    <2> QED BY <2>1, <2>6, <2>7, <2>8, <2>10 DEF FeedInv
  <1>3. CASE BeginPull
    <2> DEFINE j == [Idle EXCEPT !.kind = "pull", !.since = cursor.seq, !.view = view, !.todo = view]
    <2>0. ~ResyncReason(cursor) /\ job' = j /\ UNCHANGED <<copy, cursor, dbVars, userVars, faults>> BY <1>3 DEF BeginPull
    <2>1. Writing' /\ head' = head /\ seq' = seq /\ deleted' = deleted BY <2>0, WritersQuiet
    <2>2. view \in SUBSET Nat /\ cursor.seq \in Nat BY ViewsAreSets DEF FeedInv, TypeOK, Cursors
    <2>3. j \in Jobs /\ j.kind = "pull" /\ j.since = cursor.seq /\ j.view = view /\ j.todo = view /\ j.read = Untouched
      BY <2>2, Records DEF Jobs, Idle
    <2> HIDE DEF j
    <2>4. TypeOK' BY <2>0, <2>3 DEF FeedInv, TypeOK, dbVars, userVars
    <2>5. Bounded' /\ Copying' BY <2>0, <2>1, <2>3 DEF FeedInv, Bounded, Copying
    <2>6. NothingSkipped' BY <2>0, <2>1 DEF FeedInv, NothingSkipped, Delivered, Exists
    <2>7. \A r \in Rows : TableOf[r] \in view => Sure(r, cursor.seq)
      <3>1. CASE cursor.held
        <4>1. cursor.view = view BY <2>0, <3>1 DEF ResyncReason
        <4> QED BY <3>1, <4>1 DEF FeedInv, NothingSkipped, Sure
      <3>2. CASE ~cursor.held
        <4>1. cursor.seq = 0 BY <3>2 DEF FeedInv, Bounded
        <4> QED BY <4>1 DEF FeedInv, TypeOK, Sure, Exists
      <3> QED BY <3>1, <3>2
    <2>8. Pulling'
      BY <2>0, <2>1, <2>3, <2>7, Records DEF Pulling, Sure, Delivered, Exists
    <2> QED BY <2>1, <2>4, <2>5, <2>6, <2>8 DEF FeedInv
  <1> QED BY <1>1, <1>2, <1>3

\* A statement of a pull reads what is newer in one entity, or more than a page.
LEMMA ReadTableStep == ASSUME FeedInv, ReadTable PROVE FeedInv'
  <1> DEFINE t == FirstOf(job.todo)
             newer == {r \in RowsOf(t) : seq[r] > job.since}
  <1>0. job.kind = "pull" /\ job.todo # {} /\ UNCHANGED <<copy, cursor, dbVars, userVars, faults>> BY DEF ReadTable
  <1>1. PICK part \in SUBSET newer :
          /\ IsFirst(part, newer, Limit + 1, seq)
          /\ job' = [job EXCEPT !.todo = @ \ {t}, !.read = [r \in Rows |-> IF r \in part THEN seq[r] ELSE job.read[r]]]
    BY DEF ReadTable
  <1>2. job \in Jobs /\ job.read \in [Rows -> Nat] /\ job.todo \in SUBSET Nat /\ job.since \in Nat /\ seq \in [Rows -> Nat]
    BY DEF FeedInv, TypeOK, Jobs
  <1> DEFINE read == [r \in Rows |-> IF r \in part THEN seq[r] ELSE job.read[r]]
  <1>3. read \in [Rows -> Nat] /\ (\A r \in part : r \in Rows => read[r] = seq[r]) /\ (\A r \in Rows \ part : read[r] = job.read[r]) BY <1>2
  <1>4. newer \subseteq Rows /\ \A r \in Rows : r \in newer <=> TableOf[r] = t /\ Exists(r) /\ seq[r] > job.since BY DEF RowsOf
  <1>5. \A r \in newer : r \in part \/ (Cardinality(part) = Limit + 1 /\ \A q \in part : seq[q] < seq[r])
    BY <1>1 DEF IsFirst
  <1> HIDE DEF newer, t, read
  <1>6. /\ job' \in Jobs /\ job'.kind = "pull" /\ job'.since = job.since /\ job'.view = job.view
        /\ job'.todo = job.todo \ {t} /\ job'.read = read
    <2>1. job' = [job EXCEPT !.todo = job.todo \ {t}, !.read = read] BY <1>1, <1>2 DEF read, Jobs
    <2> QED BY <1>0, <1>2, <1>3, <2>1 DEF Jobs
  <1>7. Writing' /\ head' = head /\ seq' = seq /\ deleted' = deleted BY <1>0, WritersQuiet
  <1>8. TypeOK' BY <1>0, <1>6 DEF FeedInv, TypeOK, dbVars, userVars
  <1>9. Bounded' /\ Copying' BY <1>0, <1>6, <1>7 DEF FeedInv, Bounded, Copying
  <1>10. NothingSkipped' BY <1>0, <1>7 DEF FeedInv, NothingSkipped, Delivered, Exists
  <1>11. \A r \in Rows : read[r] = 0 \/ read[r] = seq[r] BY <1>0, <1>3 DEF FeedInv, Pulling
  <1>12. \A r \in Rows : job.read[r] > 0 => read[r] > 0
    BY <1>0, <1>2, <1>3 DEF FeedInv, Pulling
  <1>13. ASSUME NEW r \in Rows, TableOf[r] \in job.view \ (job.todo \ {t}), Exists(r), seq[r] > job.since
         PROVE  read[r] = seq[r] \/ CutOff(r)'
    <2>1. CASE TableOf[r] = t
      <3>1. r \in newer BY <1>4, <1>13, <2>1
      <3>2. CASE r \in part BY <1>3, <3>2
      <3>3. CASE r \notin part
        <4>1. Cardinality(part) = Limit + 1 /\ \A q \in part : seq[q] < seq[r] BY <1>5, <3>1, <3>3
        <4>2. \A q \in part : q \in Rows /\ read[q] > 0 BY <1>2, <1>3, <1>4, Zenon DEF Exists
        <4> QED BY <1>6, <1>7, <4>1, <4>2 DEF CutOff
      <3> QED BY <3>2, <3>3
    <2>2. CASE TableOf[r] # t
      <3>1. job.read[r] = seq[r] \/ CutOff(r) BY <1>0, <1>13, <2>2 DEF FeedInv, Pulling
      <3>2. CASE job.read[r] = seq[r] BY <1>3, <3>2
      <3>3. CASE CutOff(r)
        <4>1. PICK old \in SUBSET Rows : Cardinality(old) = Limit + 1 /\ \A q \in old : job.read[q] > 0 /\ seq[q] < seq[r] BY <3>3 DEF CutOff
        <4> QED BY <1>6, <1>7, <1>12, <4>1 DEF CutOff
      <3> QED BY <3>1, <3>2, <3>3
    <2> QED BY <2>1, <2>2
  <1>14. Pulling'
    <2>1. \A r \in Rows : TableOf[r] \in job'.view => Sure(r, job.since)' BY <1>0, <1>6, <1>7 DEF FeedInv, Pulling, Sure, Delivered, Exists
    <2>2. \A r \in Rows : Exists(r)' <=> Exists(r) BY <1>7 DEF Exists
    <2> QED BY <1>6, <1>7, <1>11, <1>13, <2>1, <2>2 DEF Pulling
  <1> QED BY <1>7, <1>8, <1>9, <1>10, <1>14 DEF FeedInv

\* The end of a page: every row that changed at or before the new cursor is in
\* the page or was delivered before.
LEMMA PageIsComplete ==
  ASSUME FeedInv, NEW page \in SUBSET ReadSoFar, job.kind = "pull", job.todo = {}, IsFirst(page, ReadSoFar, Limit, job.read)
  PROVE  /\ NextSeq(page) \in Nat /\ NextSeq(page) <= head
         /\ \A r \in Rows : TableOf[r] \in job.view /\ Exists(r) /\ seq[r] <= NextSeq(page) => r \in page \/ Delivered(r)
  <1>0. job.read \in [Rows -> Nat] /\ job.since \in Nat /\ seq \in [Rows -> Nat] /\ head \in Nat /\ Limit \in Nat
    BY FeedAssumption DEF FeedInv, TypeOK, Jobs
  <1>1. page \subseteq Rows /\ IsFiniteSet(page) BY FeedAssumption, FS_Subset DEF ReadSoFar
  <1> DEFINE ends == {job.since} \cup {job.read[r] : r \in page}
             last == NextSeq(page)
  <1>2. IsFiniteSet(ends) /\ ends \subseteq Nat /\ ends # {}
    <2>1. IsFiniteSet({job.read[r] : r \in page})
      <3> DEFINE f == [r \in page |-> job.read[r]]
                 S == {job.read[r] : r \in page}
      <3>1. f \in Surjection(page, S) BY DEF Surjection
      <3> QED BY <1>1, <3>1, FS_Surjection
    <2>2. IsFiniteSet({job.since}) BY FS_Singleton
    <2>3. IsFiniteSet(ends) BY <2>1, <2>2, FS_Union
    <2> QED BY <1>0, <1>1, <2>3
  <1>3. last = LastOf(ends) BY DEF NextSeq
  <1> HIDE DEF last
  <1>4. last \in ends /\ \A u \in ends : u <= last
    <2> HIDE DEF ends
    <2> QED BY <1>2, <1>3, EndsOfSet
  <1>5. last \in Nat /\ job.since <= last /\ \A r \in page : job.read[r] <= last BY <1>2, <1>4
  <1>6. last = job.since \/ \E r \in page : last = job.read[r] BY <1>4
  <1> HIDE DEF ends
  <1>7. \A r \in Rows : job.read[r] = 0 \/ job.read[r] = seq[r] BY DEF FeedInv, Pulling
  <1>8. last <= head BY <1>0, <1>1, <1>6, <1>7 DEF FeedInv, Bounded
  <1>9. \A q \in page : \A r \in ReadSoFar \ page : job.read[q] < job.read[r] BY DEF IsFirst
  <1>10. ASSUME NEW r \in Rows, TableOf[r] \in job.view, Exists(r), seq[r] <= last, r \notin page PROVE Delivered(r)
    <2>1. CASE seq[r] <= job.since BY <1>10, <2>1 DEF FeedInv, Pulling, Sure
    <2>2. CASE seq[r] > job.since
      <3>0. PICK p \in page : last = job.read[p] BY <1>0, <1>6, <1>10, <2>2
      <3>1. job.read[r] = seq[r] \/ CutOff(r) BY <1>10, <2>2 DEF FeedInv, Pulling
      <3>2. CASE job.read[r] = seq[r]
        <4>1. r \in ReadSoFar \ page BY <1>10, <3>2 DEF ReadSoFar, Exists
        <4>2. last < seq[r] BY <1>9, <3>0, <3>2, <4>1
        <4> QED BY <1>0, <1>5, <1>10, <4>2
      <3>3. CASE CutOff(r)
        <4>1. PICK part \in SUBSET Rows : Cardinality(part) = Limit + 1 /\ \A q \in part : job.read[q] > 0 /\ seq[q] < seq[r] BY <3>3 DEF CutOff
        <4>2. Cardinality(page) <= Limit BY DEF IsFirst
        <4>3. ~(part \subseteq page)
          <5> SUFFICES ASSUME part \subseteq page PROVE FALSE OBVIOUS
          <5>1. Cardinality(part) <= Cardinality(page) /\ Cardinality(page) \in Nat BY <1>1, FS_Subset, FS_CardinalityType
          <5> QED BY <1>0, <4>1, <4>2, <5>1
        <4>4. PICK q \in part : q \notin page BY <4>3
        <4>5. q \in ReadSoFar \ page BY <4>1, <4>4 DEF ReadSoFar
        <4>6. last < job.read[q] BY <1>9, <3>0, <4>5
        <4>7. job.read[q] = seq[q] BY <1>0, <1>7, <4>1, <4>4
        <4> QED BY <1>0, <1>5, <1>10, <4>1, <4>4, <4>6, <4>7
      <3> QED BY <3>1, <3>2, <3>3
    <2> QED BY <1>0, <2>1, <2>2
  <1> QED BY <1>5, <1>8, <1>10 DEF last

\* The page is applied, and the cursor stored or not.
LEMMA EndPullStep == ASSUME FeedInv, EndPull \/ EndPullBeforeCursor PROVE FeedInv'
  <1>1. PICK page \in SUBSET ReadSoFar :
          /\ Answer(page) /\ UNCHANGED <<dbVars, userVars>> /\ faults' \in Nat
          /\ \/ cursor' = [held |-> TRUE, seq |-> NextSeq(page), view |-> job.view, expired |-> FALSE]
             \/ cursor' = cursor
    BY DEF EndPull, EndPullBeforeCursor, FeedInv, TypeOK
  <1>2. job.kind = "pull" /\ job.todo = {} /\ IsFirst(page, ReadSoFar, Limit, job.read) /\ job' = Idle
    BY <1>1 DEF Answer
  <1>3. /\ NextSeq(page) \in Nat /\ NextSeq(page) <= head
        /\ \A r \in Rows : TableOf[r] \in job.view /\ Exists(r) /\ seq[r] <= NextSeq(page) => r \in page \/ Delivered(r)
    BY <1>2, PageIsComplete
  <1>4. page \subseteq Rows /\ \A r \in page : job.read[r] = seq[r] BY <1>2 DEF ReadSoFar, FeedInv, Pulling
  <1>5. copy' \in [Rows -> Nat] /\ (\A r \in page : copy'[r] = seq[r]) /\ \A r \in Rows \ page : copy'[r] = copy[r]
    BY <1>1, <1>4 DEF Answer, FeedInv, TypeOK
  <1>6. Writing' /\ head' = head /\ seq' = seq /\ deleted' = deleted BY <1>1, WritersQuiet
  <1>7. \A r \in Rows : r \in page \/ Delivered(r) => Delivered(r)' BY <1>5, <1>6 DEF Delivered
  <1>8. Pulling' /\ Copying' BY <1>2, Records DEF Pulling, Copying
  <1>9. CASE cursor' = cursor
    <2>1. TypeOK' BY <1>1, <1>2, <1>5, <1>9, Records DEF FeedInv, TypeOK, dbVars, userVars
    <2>2. Bounded' BY <1>2, <1>6, <1>9, Records DEF FeedInv, Bounded, TypeOK
    <2>3. NothingSkipped' BY <1>6, <1>7, <1>9 DEF FeedInv, NothingSkipped, Exists
    <2> QED BY <1>6, <1>8, <2>1, <2>2, <2>3 DEF FeedInv
  <1>10. CASE cursor' = [held |-> TRUE, seq |-> NextSeq(page), view |-> job.view, expired |-> FALSE]
    <2>0. job.view \in SUBSET Nat BY DEF FeedInv, TypeOK, Jobs
    <2>1. cursor' \in Cursors /\ cursor'.held /\ cursor'.seq = NextSeq(page) /\ cursor'.view = job.view BY <1>3, <1>10, <2>0 DEF Cursors
    <2>2. TypeOK' BY <1>1, <1>2, <1>5, <2>1, Records DEF FeedInv, TypeOK, dbVars, userVars
    <2>3. Bounded' BY <1>2, <1>3, <1>6, <2>1, Records DEF FeedInv, Bounded, TypeOK
    <2>4. NothingSkipped' BY <1>3, <1>6, <1>7, <2>1 DEF NothingSkipped, Exists
    <2> QED BY <1>6, <1>8, <2>2, <2>3, <2>4 DEF FeedInv
  <1> QED BY <1>1, <1>9, <1>10

-----------------------------------------------------------------------------
\* Before the first request the device holds nothing.
LEMMA FeedInit == ASSUME Init PROVE FeedInv
  <1> USE Records DEF Init
  <1>1. TypeOK BY DEF TypeOK
  <1>2. Writing /\ Bounded /\ Pulling /\ Copying /\ NothingSkipped
    BY DEF Writing, Committing, Bounded, Pulling, Copying, NothingSkipped
  <1> QED BY <1>1, <1>2 DEF FeedInv

\* Every step keeps the invariant.
LEMMA FeedStep == ASSUME QuietPulls, PaidSnapshots, FeedInv, [Next]_vars PROVE FeedInv'
  <1>1. CASE UNCHANGED vars
    BY <1>1 DEF vars, FeedInv, TypeOK, Writing, Committing, Bounded, Pulling, Copying, NothingSkipped, Sure, CutOff, Delivered, Exists
  <1>2. CASE WriterStep BY <1>2, StampStep, CommitStep, RollbackStep DEF WriterStep
  <1>3. CASE PullStep BY <1>3, PullBeginsStep, ReadTableStep, EndPullStep DEF PullStep
  <1>4. CASE SnapshotStep
    BY <1>4, BeginSnapshotStep, SnapshotTableStep, NextPageStep, SurroundingsStep, FinishSnapshotStep DEF SnapshotStep
  <1>5. CASE Surroundings BY <1>5, EndPullStep, SurroundingsStep DEF Surroundings
  <1> QED BY <1>1, <1>2, <1>3, <1>4, <1>5 DEF Next

\* A cursor never goes past a row that the device was not given, if no commit
\* falls between two statements of a pull and snapshots are taken while the
\* subscription is served (sync_feed.pull, sync_feed.snapshot, migration 019).
THEOREM NothingEverSkipped == ASSUME QuietPulls, PaidSnapshots PROVE Spec => []NothingSkipped
  <1>1. FeedInv /\ [Next]_vars => FeedInv' BY FeedStep
  <1>2. FeedInv => NothingSkipped BY DEF FeedInv
  <1> QED BY <1>1, <1>2, FeedInit, PTL DEF Spec
=============================================================================
