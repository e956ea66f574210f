---------------------------- MODULE MCSyncFeed ----------------------------
(* Model-checking instances of SyncFeed: the settings (row 1) and two         *)
(* products; the user may or may not see the products.                        *)
EXTENDS SyncFeed

Entities == [r \in Rows |-> IF r = 1 THEN 1 ELSE 2]
Roles == {{1, 2}, {1}}
=============================================================================
