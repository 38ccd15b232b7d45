---------------------------- MODULE MCIdempotency ---------------------------
(* Two commands under one key, each sent twice.  The first ends the work   *)
(* session it is sent in, the second may succeed without a commit.         *)
EXTENDS Idempotency

CONSTANTS first, repeat, other, again

MCRequests == {first, repeat, other, again}
MCHash == [r \in MCRequests |-> IF r \in {first, repeat} THEN "h1" ELSE "h2"]
=============================================================================
