-------------------------- MODULE MCConnectionPools --------------------------
(***************************************************************************)
(* One replica that serves three requests and a status probe, on a pool of *)
(* one or of two connections.  The requests are interchangeable, so it is  *)
(* no loss to deal the calls out in an order: PATCHes to the first         *)
(* requests, links to the last.  (TLC's symmetry is not sound for          *)
(* liveness, this is.)                                                     *)
(***************************************************************************)
EXTENDS ConnectionPools, MCConnectionManager

CONSTANTS s1, r1

MCHome == [p \in Req \cup Probes |-> r1]

Turn(c) == CASE c.kind = "none" -> 0
             [] c.kind = "update" -> 1
             [] c.kind = "delete" -> 2
             [] c.kind = "link" -> 3

InOrder == \A p, q \in Req :
    <<p, q>> \in {<<p1, p2>>, <<p1, p3>>, <<p2, p3>>} /\ NoCall \notin {call[p]', call[q]'}
        => Turn(call[p]') <= Turn(call[q]')

OrderedSpec == PooledInit /\ [][PooledNext /\ InOrder]_pooledVars /\ Fairness
==============================================================================
