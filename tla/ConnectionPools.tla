--------------------------- MODULE ConnectionPools ---------------------------
(***************************************************************************)
(* The handlers of ConnectionManager with the database connections they    *)
(* run their transactions on.  Every replica has a bounded pool behind     *)
(* RWDB(); Begin takes a connection from it, waiting for one as long as    *)
(* need be, and COMMIT or Rollback gives it back.  In between a handler    *)
(* waits for row locks and makes up to five calls to Vault.  Queries go to *)
(* the pool behind RODB(), take a connection for no longer than the query  *)
(* and wait for no lock, so that this pool delays nobody for good.  The    *)
(* status endpoint pings both pools.  A replica that dies takes its pool   *)
(* with it: these are replicas that live.                                  *)
(***************************************************************************)
EXTENDS ConnectionManager, Integers, FiniteSetsExt

CONSTANTS
    Replicas,
    Home,      \* [Req \cup Probes -> Replicas] who serves a request
    Probes,    \* requests to the status endpoint
    MaxPool    \* bound on the configured pool size

ASSUME PoolAssumption ==
    /\ Home \in [Req \cup Probes -> Replicas]
    /\ MaxPool \in Nat \ {0}

VARIABLES
    limit,   \* the size of the pool behind RWDB()
    held,    \* [Req -> Nat] the connections of that pool a request holds
    pinging  \* the requests to the status endpoint that have no answer yet

poolVars == <<limit, held, pinging>>
pooledVars == <<vars, poolVars>>

\* From Begin to COMMIT or Rollback.
TxStages == WriteStages \cup AddStages \cup {"disable", "commit"}

\* Mutant of Needed: the second save runs on the pool, not on the transaction.
NeededOnPool(stage) == IF stage = "save_aws" THEN 2
                       ELSE IF stage \in TxStages THEN 1 ELSE 0

\* The connections a handler must hold to go on: the statements of a
\* transaction all use tx, the one connection it began on.
Needed(stage) == IF stage \in TxStages THEN 1 ELSE 0

InUse(r) == MapThenSumSet(LAMBDA p : held[p], {p \in Req : Home[p] = r})

Waiting(p) == held[p] < Needed(pc[p])

\* sql.DB hands out a connection, or opens one, if it has not reached its limit.
Acquire(p) ==
    /\ Waiting(p)
    /\ InUse(Home[p]) < limit
    /\ held' = [held EXCEPT ![p] = @ + 1]
    /\ UNCHANGED <<vars, limit, pinging>>

\* Mutant of Keep: an error return without Rollback.
KeepOnError(p) ==
    held' = [held EXCEPT ![p] = IF pc'[p] \in TxStages \/ resp'[p] # "200" THEN @ ELSE 0]

\* COMMIT and Rollback give the connection back.
Keep(p) == held' = [held EXCEPT ![p] = IF pc'[p] \in TxStages THEN @ ELSE 0]

PooledStep(p) ==
    /\ ~Waiting(p)
    /\ Step(p)
    /\ Keep(p)
    /\ UNCHANGED <<limit, pinging>>

PooledStart(p) == Start(p) /\ UNCHANGED poolVars

\* PostgresDataSource.Ping needs a connection of each pool for a moment.
Ping(r) == InUse(r) < limit

\* GetStatus answers UP or DOWN when Ping returns.
GetStatus(s) ==
    /\ s \in pinging
    /\ Ping(Home[s])
    /\ pinging' = pinging \ {s}
    /\ UNCHANGED <<vars, limit, held>>

\* The size comes from ROConnectionPoolSize: the struct literal that ends
\* NewPostgresDataSource exchanges the two pools.
PooledInit ==
    /\ Init
    /\ limit \in 1..MaxPool
    /\ held = [p \in Req |-> 0]
    /\ pinging = Probes

PooledNext ==
    \/ \E p \in Req : PooledStart(p) \/ Acquire(p) \/ PooledStep(p)
    \/ \E s \in Probes : GetStatus(s)

PooledSpec == PooledInit /\ [][PooledNext]_pooledVars

\* net/http runs every accepted request in a goroutine of its own, and a waiter for
\* a connection is served when one stays free.
Fairness ==
    /\ \A p \in Req : WF_pooledVars(Acquire(p)) /\ WF_pooledVars(PooledStep(p))
    /\ \A s \in Probes : WF_pooledVars(GetStatus(s))

FairPooledSpec == PooledSpec /\ Fairness
------------------------------------------------------------------------------
\* A handler that waits for a connection holds none and has no pending writes,
\* so nobody waits for it: the bounded pool and the row locks cannot lock each
\* other up, however small the pool.
NoHoldAndWait == \A p \in Req : Waiting(p) => held[p] = 0 /\ tx[p] = NoTx

\* The status endpoint answers, if only when a transaction has ended: one that
\* waits for Vault keeps it waiting too.
StatusAnswers == <>(pinging = {})
==============================================================================
