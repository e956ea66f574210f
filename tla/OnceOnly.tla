------------------------------ MODULE OnceOnly ------------------------------
(* What the server promises a client that sends a job again because it does *)
(* not know what became of it: the job is decided once, whatever number of  *)
(* times it is sent, and every answer the client accepts is that decision.  *)
(* SyncPush implements this specification.                                  *)

CONSTANTS Jobs, Outcomes,
          Open      \* not an outcome

VARIABLES outcome,  \* what the server has decided about a job
          told      \* what the client knows of it

vars == <<outcome, told>>

Init == /\ outcome = [j \in Jobs |-> Open]
        /\ told = [j \in Jobs |-> Open]

\* Several jobs may be decided together: one decision can settle others.
Decide ==
  /\ outcome' \in [Jobs -> Outcomes \cup {Open}]
  /\ \A j \in Jobs : outcome[j] # Open => outcome'[j] = outcome[j]
  /\ UNCHANGED told

\* An answer brings the client the decisions about some jobs.
Answer ==
  /\ told' \in [Jobs -> Outcomes \cup {Open}]
  /\ \A j \in Jobs : told'[j] # told[j] => told'[j] = outcome[j]
  /\ UNCHANGED outcome

Next == Decide \/ Answer

Spec == Init /\ [][Next]_vars
=============================================================================
