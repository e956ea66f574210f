--------------------------- MODULE MCIdempotency ---------------------------
(* One key: a request and two retries of it, the first of which may be slow, *)
(* and a request with another body that reuses the key.                      *)
EXTENDS Idempotency

CONSTANTS first, retry, again, reused, order, refund

MCRequests == {first, retry, again, reused}
MCBodyOf == [r \in MCRequests |-> IF r = reused THEN refund ELSE order]
MCSlow == {first}
=============================================================================
