----------------------------- MODULE PoolProofs -----------------------------
(***************************************************************************)
(* No handler waits for a database connection while others may wait for    *)
(* it: proved of pools of any size, from the invariant RowsInv.            *)
(***************************************************************************)
EXTENDS ConnectionPools, StoreProofs

\* p's transaction has written something.
HasPending(p) == HasWritten(p) \/ HasConn(p)

\* A transaction that has written holds a connection; none holds two.
HeldInv == /\ held \in [Req -> {0, 1}]
           /\ \A p \in Req : HasPending(p) => held[p] = 1

PooledInv == RowsInv /\ HeldInv

\* The handlers on pools behave as the handlers do.
LEMMA PooledNextIsNext == [PooledNext]_pooledVars => [Next]_vars
  BY DEF PooledNext, PooledStart, Acquire, PooledStep, GetStatus, Next, pooledVars, poolVars, vars

\* A transaction has written only in the stages in which it has a connection.
LEMMA PendingIsInTx == ASSUME NEW p \in Req, HasPending(p) PROVE Needed(pc[p]) = 1
  BY DEF HasPending, HasWritten, HasConn, Needed, TxStages, WriteStages, AddStages

\* It becomes so only in those stages.
LEMMA PendingFromTx ==
    ASSUME TablesInv, NEW p \in Req, Step(p), HasPending(p)'
    PROVE  Needed(pc[p]) = 1 /\ pc'[p] \in TxStages
<1> USE DEF TablesInv
<1>1. Outcome(p) /\ UNCHANGED call
  BY StepOutcome, CallIsFixed
<1>2. pc'[p] \in TxStages
  BY DEF HasPending, HasWritten, HasConn, TxStages, WriteStages, AddStages
<1>3. CASE HasPending(p)
  BY <1>2, <1>3, PendingIsInTx
<1>4. CASE ~HasPending(p)
  <2>1. WroteConn(p) \/ WroteAws(p)
    BY <1>1, <1>4, ConnWrittenFollows, WrittenFollows DEF HasPending, Outcome
  <2> QED
    BY <1>2, <2>1 DEF WroteConn, WroteAws, Needed, TxStages, WriteStages
<1> QED
  BY <1>3, <1>4

\* Handlers that have written keep their connection.
LEMMA NextHeld ==
    ASSUME TablesInv, HeldInv, [PooledNext]_pooledVars
    PROVE  HeldInv'
<1> USE DEF TablesInv
<1>1. CASE UNCHANGED <<vars, held>>
  BY <1>1 DEF vars, HeldInv, HasPending, HasWritten, HasConn, Kind
<1>2. ASSUME NEW p \in Req, PooledStart(p) \/ PooledStep(p)
      PROVE  HeldInv'
  <2>1. Start(p) \/ Step(p)
    BY <1>2 DEF PooledStart, PooledStep
  <2>2. \A q \in Req \ {p} : HasPending(q)' <=> HasPending(q)
    BY <2>1, StepIsLocal DEF Others, HasPending, HasWritten, HasConn, Kind
  <2>3. CASE PooledStart(p)
    <3>1. UNCHANGED held /\ pc'[p] = FirstStage(Kind(p)') /\ Kind(p)' \in AllKinds
      BY <2>3, CallAssumption DEF PooledStart, poolVars, Start, Goto, Kind, Inv, TypeOK
    <3>2. ~HasPending(p)'
      BY <3>1 DEF FirstStage, HasPending, HasWritten, HasConn, AllKinds, AddStages
    <3> QED
      BY <2>2, <3>1, <3>2 DEF HeldInv
  <2>4. CASE PooledStep(p)
    <3>1. /\ held' = [held EXCEPT ![p] = IF pc'[p] \in TxStages THEN @ ELSE 0]
          /\ ~(held[p] < Needed(pc[p]))
      BY <2>4 DEF PooledStep, Keep, Waiting
    <3>2. HasPending(p)' => held[p] = 1 /\ pc'[p] \in TxStages
      BY <2>4, <3>1, PendingFromTx DEF PooledStep, HeldInv
    <3> QED
      BY <2>2, <3>1, <3>2 DEF HeldInv
  <2> QED
    BY <1>2, <2>3, <2>4
<1>3. ASSUME NEW p \in Req, Acquire(p) PROVE HeldInv'
  <2>1. held' = [held EXCEPT ![p] = @ + 1] /\ held[p] < Needed(pc[p]) /\ UNCHANGED vars
    BY <1>3 DEF Acquire, Waiting
  <2>2. held[p] = 0
    BY <2>1 DEF HeldInv, Needed
  <2>3. \A q \in Req : HasPending(q)' <=> HasPending(q)
    BY <2>1 DEF vars, HasPending, HasWritten, HasConn, Kind
  <2> QED
    BY <2>1, <2>2, <2>3 DEF HeldInv
<1> QED
  BY <1>1, <1>2, <1>3 DEF PooledNext, GetStatus, pooledVars, poolVars

\* The invariant of handlers and pools.
LEMMA PooledInvHolds == PooledSpec => []PooledInv
<1>1. PooledSpec => Spec
  <2>1. PooledInit => Init
    BY DEF PooledInit
  <2> QED
    BY <2>1, PooledNextIsNext, PTL DEF PooledSpec, Spec
<1>2. PooledInit => HeldInv
  BY DEF PooledInit, Init, HeldInv, HasPending, HasWritten, HasConn, AddStages
<1>3. RowsInv /\ HeldInv /\ [PooledNext]_pooledVars => HeldInv'
  BY NextHeld DEF RowsInv, RegistryInv
<1> QED
  BY <1>1, <1>2, <1>3, RowsInvHolds, PTL DEF PooledSpec, PooledInv

\* A handler that waits for a database connection holds none and its
\* transaction has locked no row, on pools of any size and for any number of
\* replicas: pool and row locks cannot lock each other up, because all the
\* statements of a transaction run on the connection that Begin took.
THEOREM PoolsCannotLockUp == PooledSpec => []NoHoldAndWait
<1>1. PooledInv => NoHoldAndWait
  <2> USE DEF PooledInv, RowsInv, RegistryInv, TablesInv
  <2> SUFFICES ASSUME PooledInv, NEW p \in Req, Waiting(p)
               PROVE  held[p] = 0 /\ tx[p] = NoTx
    BY DEF NoHoldAndWait
  <2>1. held[p] = 0 /\ ~HasPending(p)
    BY DEF Waiting, HeldInv, Needed
  <2>2. \A i \in Ids : tx[p].aws[i] = NoWrite
    BY <2>1 DEF Pending, HasPending
  <2>3. \A k \in CIds : tx[p].conns[k] = NoWrite
    BY <2>1 DEF PairPending, HasPending
  <2>4. tx[p] \in Tx
    BY DEF Inv, TypeOK, StoreTypeOK
  <2>5. tx[p].conns = [k \in CIds |-> NoWrite] /\ tx[p].aws = [i \in Ids |-> NoWrite]
    BY <2>2, <2>3, <2>4 DEF Tx
  <2>6. tx[p] = NoTx
    BY <2>4, <2>5 DEF Tx, NoTx
  <2> QED
    BY <2>1, <2>6
<1> QED
  BY <1>1, PooledInvHolds, PTL
=============================================================================
