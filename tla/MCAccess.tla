------------------------------ MODULE MCAccess ------------------------------
(* Sign-in, staff and the vendor's side, model-checked in one run. The      *)
(* three share no variable, so nothing is lost by following one of them in  *)
(* each behaviour; `focus' says which, and bounds the sessions further.     *)
EXTENDS Sessions, Staff, Platform, TLC

CONSTANTS w1, w2, ann, bob, owner, clerk, edit, p1, p2, t1, t2

VARIABLE focus

ThreadProcess == (t1 :> p1) @@ (t2 :> p2)
Calendar == <<0, 2, 5, 7, 10, 12, 15, 17, 20, 22, 25>>

Init == /\ focus \in {"rotation", "lock", "staff", "subscription", "admin"}
        /\ SessionsInit /\ StaffInit /\ PlatformInit

Next ==
  /\ UNCHANGED focus
  /\ \/ focus \in {"rotation", "lock"} /\ SessionsNext /\ UNCHANGED <<staffVars, platformVars>>
     \/ focus = "staff" /\ StaffNext /\ UNCHANGED <<sessionVars, platformVars>>
     \/ focus = "subscription" /\ (NextDay \/ Subscribe) /\ UNCHANGED <<sessionVars, staffVars>>
     \/ focus = "admin" /\ (NextDay \/ Administer) /\ UNCHANGED <<sessionVars, staffVars>>

Spec == Init /\ [][Next]_<<focus, sessionVars, staffVars, platformVars>>

\* Without wrong guesses three tokens are issued and time passes for one;
\* with them, two are issued and time passes for the lock only.
Expired == {t \in Issued : tokens[t].expired}
Old == {t \in Issued : tokens[t].revoked = "old"}
Bounds ==
  /\ focus = "rotation" => user.attempts = 0 /\ open /\ Cardinality(Expired \cup Old) <= 1
  /\ focus = "lock" => Len(tokens) <= 2 /\ Expired = {} /\ Old = {}

Alike == Permutations({w1, w2}) \cup {(t1 :> t2) @@ (t2 :> t1) @@ (p1 :> p2) @@ (p2 :> p1)}
=============================================================================
