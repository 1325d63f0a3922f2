-------------------------- MODULE MCRetrievalCache --------------------------
(* Instances of RetrievalCache for TLC: two threads of one process, beside *)
(* writers and checkpoint files that outlive its restarts.                 *)
EXTENDS RetrievalCache, TLC

CONSTANTS t1, t2, p1

OneProcess == t1 :> p1 @@ t2 :> p1
=============================================================================
