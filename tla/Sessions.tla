------------------------------ MODULE Sessions ------------------------------
(* Sign-in, refresh-token rotation and sign-out of one user, from           *)
(* login_service, token_service and the credential changes of user_service. *)
(* The rows of two users never meet. A worker is a request in progress: it  *)
(* may be suspended between two statements, and a statement sees what was   *)
(* committed when it began (READ COMMITTED).                                *)

EXTENDS Naturals, Sequences, FiniteSets

CONSTANTS Workers,
          MaxTokens,      \* bound: refresh tokens ever issued
          MaxChanges,     \* bound: credential changes
          MaxAttempts     \* settings.max_login_attempts

ASSUME SessionBounds == MaxTokens \in Nat \ {0} /\ MaxChanges \in Nat /\ MaxAttempts \in Nat \ {0}

VARIABLES
  user,      \* the row of users
  open,      \* businesses.is_active and not deleted
  tokens,    \* the rows of refresh_tokens, oldest first
  job,       \* what each worker is doing
  handed,    \* history: the successors handed out for each token
  minted,    \* history: the access tokens issued, by session and version
  ended,     \* history: sessions whose refresh tokens a commit has revoked
  barred,    \* history: sessions ended by a change of credentials
  crossed,   \* history: sessions with a request in progress across their end
  lockRuns, lockCrossed   \* history: the lock's minutes, and a lost lock

sessionVars == <<user, open, tokens, job, handed, minted, ended, barred, crossed, lockRuns, lockCrossed>>

UserRow == [status : {"active", "inactive", "deleted"}, tv : 0..MaxChanges,
            attempts : Nat,
            lock : {"none", "set", "lapsed"}]

\* A family is named after its first token. "gone": purged.
RefreshToken == [family : 1..MaxTokens, revoked : {"no", "recent", "old", "gone"}, expired : BOOLEAN]

Idle == [pc |-> "idle", tok |-> 0, next |-> 0, row |-> [status |-> "active", tv |-> 0, attempts |-> 0, lock |-> "none"],
         seen |-> {}, kind |-> "none"]
Kinds == {"none", "logout", "reuse", "password", "reset", "deactivate", "delete"}
Jobs == [pc : {"idle", "verify", "consume", "successor", "user", "reject", "close", "revoking"},
         tok : 0..MaxTokens, next : 0..MaxTokens, row : UserRow, seen : SUBSET (1..MaxTokens), kind : Kinds]

SessionsTypeOK ==
  /\ user \in UserRow
  /\ open \in BOOLEAN
  /\ tokens \in Seq(RefreshToken) /\ Len(tokens) <= MaxTokens
  /\ job \in [Workers -> Jobs]
  /\ handed \in [1..MaxTokens -> SUBSET (1..MaxTokens)]
  /\ minted \subseteq [family : 1..MaxTokens, tv : 0..MaxChanges]
  /\ ended \cup barred \cup crossed \subseteq 1..MaxTokens
  /\ lockRuns \in BOOLEAN /\ lockCrossed \in BOOLEAN

Issued == 1..Len(tokens)
Live(t) == tokens[t].revoked = "no"
Family(t) == tokens[t].family
Families == {Family(t) : t \in Issued}
Token(f) == [family |-> f, revoked |-> "no", expired |-> FALSE]

SessionsInit ==
  /\ user = Idle.row
  /\ open = TRUE
  /\ tokens = <<Token(1)>>
  /\ job = [w \in Workers |-> Idle]
  /\ handed = [t \in 1..MaxTokens |-> {}]
  /\ minted = {[family |-> 1, tv |-> 0]}
  /\ ended = {} /\ barred = {} /\ crossed = {}
  /\ lockRuns = FALSE /\ lockCrossed = FALSE

Do(w, j) == job' = [job EXCEPT ![w] = j]
Done(w) == Do(w, Idle)

\* A credential change has written users and holds that row until it commits.
RowFree == \A w \in Workers : job[w].pc = "revoking" => job[w].kind \in {"logout", "reuse"}

Past == <<ended, barred, crossed>>
Locks == <<lockRuns, lockCrossed>>

-----------------------------------------------------------------------------
(* login_with_password and login_with_pin: the row is read without a lock;  *)
(* only a deleted user is refused, an inactive one may sign in.             *)

LoginRead(w) ==
  /\ job[w] = Idle /\ Len(tokens) < MaxTokens
  /\ user.status # "deleted" /\ user.lock # "set" /\ open
  /\ Do(w, [Idle EXCEPT !.pc = "verify", !.row = user])
  /\ UNCHANGED <<user, open, tokens, handed, minted, Past, Locks>>

\* _record_failed_login: one transaction of its own.
ClearAnyLock(u) == IF u.lock # "none" THEN [u EXCEPT !.lock = "none", !.attempts = 0] ELSE u
ClearLapsedLock(u) == IF u.lock = "lapsed" THEN [u EXCEPT !.lock = "none", !.attempts = 0] ELSE u

RecordFailedLogin(w) ==
  /\ job[w].pc = "verify" /\ RowFree
  /\ LET u == ClearLapsedLock(user)
         locks == u.attempts + 1 >= MaxAttempts IN
       /\ user' = [u EXCEPT !.attempts = @ + 1, !.lock = IF locks THEN "set" ELSE @]
       /\ lockRuns' = (lockRuns \/ locks)
  /\ Done(w)
  /\ UNCHANGED <<open, tokens, handed, minted, Past, lockCrossed>>

\* purge_stale_tokens deletes rows that expired long ago.
Purged(S) == [t \in Issued |-> IF t \in S THEN [tokens[t] EXCEPT !.revoked = "gone"] ELSE tokens[t]]

\* The session writes only the columns that differ from what it read; the
\* refresh token starts a family; all of it commits at once.
LoginSucceeds(w) ==
  /\ job[w].pc = "verify" /\ RowFree /\ Len(tokens) < MaxTokens
  /\ LET read == job[w].row
         f == Len(tokens) + 1 IN
       /\ user' = [user EXCEPT !.attempts = IF read.attempts # 0 THEN 0 ELSE @,
                               !.lock = IF read.lock # "none" THEN "none" ELSE @]
       /\ lockCrossed' = (lockCrossed \/ (read.lock # "none" /\ user.lock = "set"))
       /\ \E S \in SUBSET {t \in Issued : tokens[t].expired} : tokens' = Append(Purged(S), Token(f))
       /\ minted' = minted \cup {[family |-> f, tv |-> read.tv]}
       \* a sign-in under credentials that were changed meanwhile
       /\ LET late == IF read.tv # user.tv THEN {f} ELSE {} IN
            /\ ended' = ended \cup late
            /\ barred' = barred \cup late
            /\ crossed' = crossed \cup late
  /\ Done(w)
  /\ UNCHANGED <<open, handed, lockRuns>>

\* What is left of a job that ran out of tokens to issue: the bound, not code.
LoginGivesUp(w) ==
  /\ job[w].pc = "verify" /\ Len(tokens) = MaxTokens
  /\ Done(w)
  /\ UNCHANGED <<user, open, tokens, handed, minted, Past, Locks>>

-----------------------------------------------------------------------------
(* refresh_tokens. The row is read first; then one UPDATE consumes it, and  *)
(* only the request whose UPDATE changed the row issues the successor, in   *)
(* the same transaction. An unknown or an expired token is refused and      *)
(* nothing changes: decode_refresh_token fails before anything is read.     *)

\* The statement that will revoke live tokens takes its snapshot.
OnlyShown(t) == {t} \cap {s \in Issued : Live(s)}
FamilyOf(t) == {s \in Issued : Live(s) /\ Family(s) = Family(t)}
StartRevoking(w, kind, t, set) ==
  Do(w, [Idle EXCEPT !.pc = "revoking", !.kind = kind, !.tok = t, !.seen = set])

\* A token that is no longer live is replayed within the grace; otherwise the
\* family is revoked.
Path(t) == IF Live(t) THEN "consume" ELSE IF tokens[t].revoked = "recent" THEN "successor" ELSE "reject"
Present(w, t) == Do(w, [Idle EXCEPT !.tok = t, !.pc = Path(t)])

RefreshLook(w, t) ==
  /\ job[w] = Idle /\ t \in Issued /\ ~tokens[t].expired
  /\ Present(w, t)
  /\ UNCHANGED <<user, open, tokens, handed, minted, Past, Locks>>

\* get_family_successor: the next token of the family, live or not.
Later(t) == {s \in Issued : s > t /\ Family(s) = Family(t) /\ tokens[s].revoked # "gone"}
Successor(t) == IF Later(t) = {} THEN 0 ELSE CHOOSE s \in Later(t) : \A o \in Later(t) : s <= o

\* A successor created moments after t was revoked is the rotation of t:
\* rows are purged days after they expire, far beyond the grace.
Rotated(t, s) == \A o \in Issued : t < o /\ o < s => Family(o) # Family(t)

\* _replay_recent_rotation reads the successor and then the user: what
\* commits in between is seen by the second read only.
LookUpSuccessor(w) ==
  LET t == job[w].tok
      s == Successor(t)
      found == s # 0 /\ Live(s) /\ ~tokens[s].expired /\ Rotated(t, s) IN
    /\ job[w].pc = "successor"
    /\ Do(w, IF found THEN [job[w] EXCEPT !.pc = "user", !.next = s] ELSE [job[w] EXCEPT !.pc = "reject"])
    /\ UNCHANGED <<user, open, tokens, handed, minted, Past, Locks>>

\* The pair that the rotation issued, its access token as the user is now.
ReplayRecentRotation(w) ==
  /\ job[w].pc = "user" /\ user.status = "active" /\ user.lock = "none"
  /\ handed' = [handed EXCEPT ![job[w].tok] = @ \cup {job[w].next}]
  /\ minted' = minted \cup {[family |-> Family(job[w].tok), tv |-> user.tv]}
  /\ Done(w)
  /\ UNCHANGED <<user, open, tokens, Past, Locks>>

RefuseReplay(w) ==
  /\ job[w].pc = "user" /\ ~(user.status = "active" /\ user.lock = "none")
  /\ Do(w, [job[w] EXCEPT !.pc = "reject", !.next = 0])
  /\ UNCHANGED <<user, open, tokens, handed, minted, Past, Locks>>

RejectReuse(w) ==
  /\ job[w].pc = "reject"
  /\ StartRevoking(w, "reuse", job[w].tok, FamilyOf(job[w].tok))
  /\ UNCHANGED <<user, open, tokens, handed, minted, Past, Locks>>

Revoke(S) == [t \in Issued |-> IF t \in S /\ Live(t) THEN [tokens[t] EXCEPT !.revoked = "recent"] ELSE tokens[t]]

\* The sessions whose revocation is being written while this one moves on.
Racing(f) == {f} \cap {Family(s) : s \in UNION {job[w].seen : w \in {x \in Workers : job[x].pc = "revoking"}}}

RotateAgain(w) ==
  LET t == job[w].tok IN
    /\ job[w].pc = "consume" /\ tokens[t].revoked # "gone" /\ Len(tokens) < MaxTokens
    /\ user.status = "active" /\ user.lock = "none" /\ open
    /\ tokens' = Append(Revoke({t}), Token(Family(t)))
    /\ handed' = [handed EXCEPT ![t] = @ \cup {Len(tokens) + 1}]
    /\ minted' = minted \cup {[family |-> Family(t), tv |-> user.tv]}
    /\ crossed' = crossed \cup Racing(Family(t))
    /\ Done(w)
    /\ UNCHANGED <<user, open, ended, barred, Locks>>
Rotate(w) ==
  LET t == job[w].tok IN
    /\ job[w].pc = "consume" /\ Live(t) /\ Len(tokens) < MaxTokens
    /\ user.status = "active" /\ user.lock = "none" /\ open
    /\ tokens' = Append(Revoke({t}), Token(Family(t)))
    /\ handed' = [handed EXCEPT ![t] = @ \cup {Len(tokens) + 1}]
    /\ minted' = minted \cup {[family |-> Family(t), tv |-> user.tv]}
    /\ crossed' = crossed \cup Racing(Family(t))
    /\ Done(w)
    /\ UNCHANGED <<user, open, ended, barred, Locks>>

\* The user or the business may no longer sign in: the family goes with the token.
RefuseRotation(w) ==
  LET t == job[w].tok IN
    /\ job[w].pc = "consume" /\ Live(t)
    /\ ~(user.status = "active" /\ user.lock = "none" /\ open)
    /\ tokens' = Revoke(FamilyOf(t))
    /\ ended' = ended \cup {Family(t)}
    /\ Done(w)
    /\ UNCHANGED <<user, open, handed, minted, barred, crossed, Locks>>

\* The loser of a double submit reads the token again: the winner's pair, or
\* reuse. A revoked token stays revoked between its UPDATE and this read.
LoseRace(w) ==
  /\ job[w].pc = "consume" /\ ~Live(job[w].tok)
  /\ Present(w, job[w].tok)
  /\ UNCHANGED <<user, open, tokens, handed, minted, Past, Locks>>

RefreshGivesUp(w) ==
  /\ job[w].pc = "consume" /\ Len(tokens) = MaxTokens
  /\ Done(w)
  /\ UNCHANGED <<user, open, tokens, handed, minted, Past, Locks>>

-----------------------------------------------------------------------------
(* The end of sessions. logout_with_refresh_token and reuse detection       *)
(* revoke one family. A change of password or PIN, a reset, a deactivation  *)
(* and a deletion raise token_version, computed from the row as it was      *)
(* read, and revoke every token of the user.                                *)

Logout(w, t) ==
  /\ job[w] = Idle /\ t \in Issued /\ ~tokens[t].expired
  /\ user.status = "active" /\ user.lock = "none" /\ open
  /\ StartRevoking(w, "logout", t, FamilyOf(t))
  /\ UNCHANGED <<user, open, tokens, handed, minted, Past, Locks>>

ReadForChange(w, kind) ==
  /\ job[w] = Idle /\ user.status # "deleted" /\ user.tv < MaxChanges
  /\ kind = "password" => user.status = "active" /\ user.lock = "none"
  /\ kind = "deactivate" => user.status = "active"
  /\ Do(w, [Idle EXCEPT !.pc = "close", !.kind = kind, !.row = user])
  /\ UNCHANGED <<user, open, tokens, handed, minted, Past, Locks>>

ChangeBegins(w) ==
  /\ job[w].pc = "close" /\ RowFree
  /\ Do(w, [job[w] EXCEPT !.pc = "revoking", !.seen = {t \in Issued : Live(t)}])
  /\ UNCHANGED <<user, open, tokens, handed, minted, Past, Locks>>

\* The columns each change writes, over the row as it is now.
Changed(kind, read) ==
  LET u == [user EXCEPT !.tv = read.tv + 1] IN
    CASE kind = "reset" -> [u EXCEPT !.attempts = IF read.attempts # 0 THEN 0 ELSE @,
                                     !.lock = IF read.lock # "none" THEN "none" ELSE @]
      [] kind = "deactivate" -> [u EXCEPT !.status = "inactive"]
      [] kind = "delete" -> [u EXCEPT !.status = "deleted"]
      [] OTHER -> u

\* The sessions whose successor was found live, by a replay that has yet to
\* read the user: it will mint an access token of the new version.
Replaying == {Family(job[w].tok) : w \in {x \in Workers : job[x].pc = "user"}}

RevokeCommits(w) ==
  /\ job[w].pc = "revoking" /\ job[w].kind \in {"logout", "reuse"}
  /\ tokens' = Revoke(job[w].seen)
  /\ ended' = ended \cup {Family(job[w].tok)}
  /\ Done(w)
  /\ UNCHANGED <<user, open, handed, minted, barred, crossed, Locks>>

ChangeCommits(w) ==
  /\ job[w].pc = "revoking" /\ job[w].kind \notin {"logout", "reuse"}
  /\ user' = Changed(job[w].kind, job[w].row)
  /\ tokens' = Revoke(job[w].seen)
  /\ ended' = ended \cup Families
  /\ barred' = barred \cup Families
  \* a change that read an earlier version writes no later one
  /\ crossed' = crossed \cup IF user'.tv > user.tv THEN Replaying ELSE Families
  /\ lockRuns' = (lockRuns /\ job[w].kind # "reset")
  /\ lockCrossed' = (lockCrossed /\ job[w].kind # "reset")
  /\ Done(w)
  /\ UNCHANGED <<open, handed, minted>>

\* update_tenant_user with is_active, when the user is inactive.
Reactivate ==
  /\ user.status = "inactive" /\ RowFree
  /\ user' = [user EXCEPT !.status = "active"]
  /\ UNCHANGED <<open, tokens, job, handed, minted, Past, Locks>>

-----------------------------------------------------------------------------
(* Time and the rest of the program.                                        *)

LockLapses ==
  /\ user.lock = "set" \/ lockRuns
  /\ RowFree
  /\ user' = [user EXCEPT !.lock = IF @ = "set" THEN "lapsed" ELSE @]
  /\ lockRuns' = FALSE /\ lockCrossed' = FALSE
  /\ UNCHANGED <<open, tokens, job, handed, minted, Past>>

GraceEnds(t) ==
  /\ t \in Issued /\ tokens[t].revoked = "recent"
  /\ tokens' = [tokens EXCEPT ![t].revoked = "old"]
  /\ UNCHANGED <<user, open, job, handed, minted, Past, Locks>>

\* Tokens live for days and the grace for seconds: when one expires, that of
\* the tokens it was rotated from is over.
TokenExpires(t) ==
  /\ t \in Issued /\ ~tokens[t].expired
  /\ \A s \in Issued : s < t => tokens[s].expired /\ ~(Family(s) = Family(t) /\ tokens[s].revoked = "recent")
  /\ tokens' = [tokens EXCEPT ![t].expired = TRUE]
  /\ UNCHANGED <<user, open, job, handed, minted, Past, Locks>>

\* businesses.is_active: no code writes it, an operator may.
BusinessSwitchedOff ==
  /\ open /\ open' = FALSE
  /\ UNCHANGED <<user, tokens, job, handed, minted, Past, Locks>>

Login(w) == LoginRead(w) \/ RecordFailedLogin(w) \/ LoginSucceeds(w) \/ LoginGivesUp(w)
Replay(w) == LookUpSuccessor(w) \/ ReplayRecentRotation(w) \/ RefuseReplay(w) \/ RejectReuse(w)
Refresh(w) ==
  \/ \E t \in 1..MaxTokens : RefreshLook(w, t)
  \/ Rotate(w) \/ RefuseRotation(w) \/ LoseRace(w) \/ RefreshGivesUp(w) \/ Replay(w)
Close(w) ==
  \/ \E t \in 1..MaxTokens : Logout(w, t)
  \/ \E kind \in Kinds \ {"none", "logout", "reuse"} : ReadForChange(w, kind)
  \/ ChangeBegins(w) \/ RevokeCommits(w) \/ ChangeCommits(w)

SessionsNext ==
  \/ \E w \in Workers : Login(w) \/ Refresh(w) \/ Close(w)
  \/ Reactivate \/ LockLapses \/ BusinessSwitchedOff
  \/ \E t \in 1..MaxTokens : GraceEnds(t) \/ TokenExpires(t)

SessionsSpec == SessionsInit /\ [][SessionsNext]_sessionVars

-----------------------------------------------------------------------------

\* However often and however concurrently one refresh token is presented, all
\* the answers carry one successor: the atomic consume of refresh_tokens and
\* _replay_recent_rotation never fork a session.
RotatesOnce == \A t \in 1..MaxTokens : Cardinality(handed[t]) <= 1

\* Once a logout, a detected reuse or a change of credentials has committed,
\* no refresh token of that session is live and, after a change, no access
\* token of it passes the token_version check of get_current_user. The code
\* keeps this except for what was in progress across that commit: a rotation
\* that commits while the tokens are being revoked, a replay that has read
\* the successor and not yet the user, a sign-in that read the old
\* credentials, and a change that read the row before another one wrote it.
ClosedSessionsStayClosed ==
  /\ \A t \in Issued : Live(t) => Family(t) \notin ended \ crossed
  /\ \A a \in minted : a.tv = user.tv => a.family \notin barred \ crossed

\* While the minutes of a lock run the account is locked, whatever other
\* requests do, except after a sign-in that had read an earlier, lapsed lock:
\* _record_failed_login and the columns a successful sign-in writes.
LockStands == lockRuns => user.lock = "set" \/ lockCrossed

=============================================================================
