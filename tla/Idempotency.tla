---------------------------- MODULE Idempotency ----------------------------
(* Requests that carry one Idempotency-Key, through run_idempotent of       *)
(* app/core/idempotency.py. Rows of different keys never meet, so one key   *)
(* is modelled; a request without the header runs its handler directly and  *)
(* never reads these rows. The bookkeeping and the handler are transactions *)
(* of their own, so everything may happen between two of them: other        *)
(* requests, the passing of time, the end of the server process.            *)

EXTENDS Naturals, FiniteSets, Functions

CONSTANTS Requests,   \* the deliveries the clients make with this key
          BodyOf,     \* what each asks for: its fingerprint
          NoBody, NoOne,
          MaxWaits,   \* _WAIT_TOTAL / _WAIT_STEP
          Slow        \* the requests whose handler may run for two minutes

ASSUME BodyAssumption == NoBody \notin {BodyOf[r] : r \in Requests}
ASSUME RequestsAssumption == IsFiniteSet(Requests) /\ NoOne \notin Requests
ASSUME MaxWaitsAssumption == MaxWaits \in Nat

Bodies == {BodyOf[r] : r \in Requests}

VARIABLES
  row,        \* the row of idempotency_keys, or NoRow
  pc,         \* where each request is in run_idempotent
  waited,     \* the local variable of that name
  reply,      \* what the caller got: how, and the response to which body
  effects,    \* history: committed handlers, per body
  lapses,     \* history: events after which the server has forgotten an effect
  overtaken   \* history: requests that ran on after their claim was released

vars == <<row, pc, waited, reply, effects, lapses, overtaken>>

\* `answer' is response_status and response_body, NoBody while they are NULL;
\* `by' stands for the row's id, which no statement of the code names.
Row(r) == [body |-> BodyOf[r], answer |-> NoBody, age |-> "fresh", by |-> r]
NoRow == [body |-> NoBody, answer |-> NoBody, age |-> "fresh", by |-> NoOne]

Steps == {"insert", "look", "clear", "run", "reread", "store", "done", "dead"}
Replies == [how : {"none", "ran", "replayed", "conflict", "failed"}, body : Bodies \cup {NoBody}]
Silent == [how |-> "none", body |-> NoBody]

TypeOK ==
  /\ row \in [body : Bodies \cup {NoBody}, answer : Bodies \cup {NoBody},
              age : {"fresh", "stale", "expired"}, by : Requests \cup {NoOne}]
  /\ pc \in [Requests -> Steps]
  /\ waited \in [Requests -> 0..MaxWaits]
  /\ reply \in [Requests -> Replies]
  /\ effects \in [Bodies -> Nat]
  /\ lapses \in Nat
  /\ overtaken \subseteq Requests

Init ==
  /\ row = NoRow
  /\ pc = [r \in Requests |-> "insert"]
  /\ waited = [r \in Requests |-> 0]
  /\ reply = [r \in Requests |-> Silent]
  /\ effects = [b \in Bodies |-> 0]
  /\ lapses = 0
  /\ overtaken = {}

Goto(r, p) == pc' = [pc EXCEPT ![r] = p]
End(r, how, body) ==
  /\ Goto(r, "done")
  /\ reply' = [reply EXCEPT ![r] = [how |-> how, body |-> body]]

Ghosts == <<effects, lapses, overtaken>>

-----------------------------------------------------------------------------
(* _claim. Expired rows are deleted first; the INSERT takes the key unless  *)
(* a row is there, and only then the SELECT looks at that row.              *)

\* The loss of an expired answer is a lapse: 24 hours are the promise's end.
ClaimInsert(r) ==
  /\ pc[r] = "insert"
  /\ LET left == IF row.age = "expired" THEN NoRow ELSE row IN
       IF left = NoRow
         THEN row' = Row(r) /\ Goto(r, "run")
         ELSE row' = left /\ Goto(r, "look")
  /\ lapses' = lapses + (IF row.age = "expired" /\ row.answer # NoBody THEN 1 ELSE 0)
  /\ UNCHANGED <<waited, reply, effects, overtaken>>

AnyBody(r) == TRUE
SameBody(r) == row.body = BodyOf[r]

\* The row is gone, or it is another request's: 409.
LookGone(r) == pc[r] = "look" /\ row = NoRow /\ Goto(r, "insert") /\ UNCHANGED <<row, waited, reply>>

LookDifferent(r) ==
  /\ pc[r] = "look" /\ row # NoRow /\ ~SameBody(r)
  /\ End(r, "conflict", NoBody)
  /\ UNCHANGED <<row, waited>>

\* _replay: the stored response, whoever produced it.
Replay(r) ==
  /\ pc[r] = "look" /\ row # NoRow /\ SameBody(r) /\ row.answer # NoBody
  /\ End(r, "replayed", row.answer)
  /\ UNCHANGED <<row, waited>>

InFlight(r) == pc[r] = "look" /\ row # NoRow /\ SameBody(r) /\ row.answer = NoBody

LookStale(r) == InFlight(r) /\ row.age # "fresh" /\ Goto(r, "clear") /\ UNCHANGED <<row, waited, reply>>

WaitOver(r) ==
  /\ InFlight(r) /\ row.age = "fresh" /\ waited[r] < MaxWaits
  /\ waited' = waited
  /\ Goto(r, "insert") /\ UNCHANGED <<row, reply>>
Wait(r) ==
  /\ InFlight(r) /\ row.age = "fresh" /\ waited[r] < MaxWaits
  /\ waited' = [waited EXCEPT ![r] = @ + 1]
  /\ Goto(r, "insert") /\ UNCHANGED <<row, reply>>

GiveUp(r) ==
  /\ InFlight(r) /\ row.age = "fresh" /\ waited[r] >= MaxWaits
  /\ End(r, "conflict", NoBody)
  /\ UNCHANGED <<row, waited>>

Look(r) ==
  /\ LookGone(r) \/ LookDifferent(r) \/ Replay(r) \/ LookStale(r) \/ Wait(r) \/ GiveUp(r)
  /\ UNCHANGED Ghosts

Alive(r) == r \in Requests /\ pc[r] \in {"run", "reread", "store"}

\* A request is overtaken when its claim is deleted while it still works.
Delete(cond) ==
  /\ row' = IF cond THEN NoRow ELSE row
  /\ overtaken' = IF cond /\ Alive(row.by) THEN overtaken \cup {row.by} ELSE overtaken
  /\ lapses' = lapses + (IF cond /\ Alive(row.by) THEN 1 ELSE 0)

ReleaseStaleAny(r) == pc[r] = "clear" /\ Delete(row # NoRow /\ row.age # "fresh") /\ Goto(r, "insert") /\ UNCHANGED <<waited, reply, effects>>

ReleaseStale(r) ==
  /\ pc[r] = "clear"
  /\ Delete(row # NoRow /\ row.answer = NoBody /\ row.age # "fresh")
  /\ Goto(r, "insert")
  /\ UNCHANGED <<waited, reply, effects>>

-----------------------------------------------------------------------------
(* The handler commits its own transaction and then reads back what it      *)
(* wrote; it may fail before the commit or between the two.                 *)

HandlerCommit(r) ==
  /\ pc[r] = "run"
  /\ effects' = [effects EXCEPT ![BodyOf[r]] = @ + 1]
  /\ Goto(r, "reread")
  /\ UNCHANGED <<row, waited, reply, lapses, overtaken>>

HandlerReturns(r) == pc[r] = "reread" /\ Goto(r, "store") /\ UNCHANGED <<row, waited, reply, effects, lapses, overtaken>>

\* DELETE ... WHERE key = :k AND response_status IS NULL: the key, not the claim.
\* Deleting another request's claim lets a third one run beside it.
Release(r, forgot) ==
  LET deleted == row # NoRow /\ row.answer = NoBody
      other == deleted /\ row.by # r /\ Alive(row.by)
  IN /\ row' = IF deleted THEN NoRow ELSE row
     /\ overtaken' = IF other THEN overtaken \cup {row.by} ELSE overtaken
     /\ lapses' = lapses + (IF forgot THEN 1 ELSE 0) + (IF other THEN 1 ELSE 0)

HandlerFails(r) ==
  /\ pc[r] \in {"run", "reread"}
  /\ Release(r, pc[r] = "reread")
  /\ End(r, "failed", NoBody)
  /\ UNCHANGED <<waited, effects>>

\* UPDATE ... WHERE key = :k: again whatever claim holds the key now.
Store(r) ==
  /\ pc[r] = "store"
  /\ row' = IF row = NoRow THEN row ELSE [row EXCEPT !.answer = BodyOf[r]]
  /\ End(r, "ran", BodyOf[r])
  /\ UNCHANGED <<waited, effects, lapses, overtaken>>

\* Serialising or storing the response fails: the claim is dropped, the caller
\* still gets the result.
StoreFails(r) ==
  /\ pc[r] = "store"
  /\ Release(r, TRUE)
  /\ End(r, "ran", BodyOf[r])
  /\ UNCHANGED <<waited, effects>>

RunIdempotent(r) ==
  \/ ClaimInsert(r) \/ Look(r) \/ ReleaseStale(r)
  \/ HandlerCommit(r) \/ HandlerReturns(r) \/ Store(r)

-----------------------------------------------------------------------------
(* The environment: the process ends, time passes.                          *)

\* (A request that dies without a claim leaves nothing behind.)
Crash(r) ==
  /\ Alive(r)
  /\ Goto(r, "dead")
  /\ lapses' = lapses + (IF pc[r] \in {"reread", "store"} THEN 1 ELSE 0)
  /\ UNCHANGED <<row, waited, reply, effects, overtaken>>

\* Two minutes or 24 hours after created_at. Handlers outside Slow end within
\* two minutes, and every handler within a day.
Age ==
  /\ row # NoRow
  /\ \/ /\ row.age = "fresh" /\ (Alive(row.by) => row.by \in Slow)
        /\ row' = [row EXCEPT !.age = "stale"]
     \/ /\ row.age = "stale" /\ \A r \in Requests : ~Alive(r)
        /\ row' = [row EXCEPT !.age = "expired"]
  /\ UNCHANGED <<pc, waited, reply, effects, lapses, overtaken>>

Finished == /\ \A r \in Requests : pc[r] \in {"done", "dead"}
            /\ UNCHANGED vars

Next == \/ \E r \in Requests : RunIdempotent(r) \/ HandlerFails(r) \/ StoreFails(r) \/ Crash(r)
        \/ Age
        \/ Finished

\* The event loop runs every request on to its next await.
Spec == Init /\ [][Next]_vars /\ \A r \in Requests : WF_vars(RunIdempotent(r))
-----------------------------------------------------------------------------
\* A second effect under one key always has a cause outside the protocol's
\* promise, and each cause admits one: the process ended, the read-back or the
\* storing failed after the commit, a handler ran past the two minutes and was
\* overtaken, or the answer expired. (run_idempotent, _release_stale, _release)
RepeatsExplained ==
  SumFunctionOnSet(effects, Bodies) <= 1 + lapses

\* A replayed response answers the request that gets it, although _store and
\* _release name only the key; it needs that no claim was ever overtaken.
AnswersOwnRequest ==
  \A r \in Requests :
    reply[r].how = "replayed" /\ overtaken = {} =>
      reply[r].body = BodyOf[r] /\ effects[BodyOf[r]] >= 1

\* Every request that is not killed is answered: the wait for another one ends,
\* however the other one ended.
EveryRequestAnswered ==
  \A r \in Requests : <>(pc[r] \in {"done", "dead"})
=============================================================================
