-------------------------------- MODULE Desk --------------------------------
(* The requests of the back office. Its services read a row, check it and   *)
(* commit without a lock: other requests commit between the reading and the *)
(* commit, which is therefore a step of its own.                            *)
CONSTANTS Clerks, Nil

VARIABLES
  desk,     \* what the request of each clerk has read, or Free
  stale     \* history: the rows written by a request whose reading was outdated

deskVars == <<desk, stale>>

Free == [pc |-> "free"]
DeskInit == desk = [c \in Clerks |-> Free] /\ stale = {}

Read(c, task) == desk[c] = Free /\ desk' = [desk EXCEPT ![c] = task] /\ UNCHANGED stale

\* The request ends; `outdated' says that what it checked no longer holds.
Commit(c, row, outdated) ==
  /\ desk' = [desk EXCEPT ![c] = Free]
  /\ stale' = IF outdated THEN stale \cup {row} ELSE stale

=============================================================================
