------------------------------ MODULE Datastore ------------------------------
(***************************************************************************)
(* The two Postgres tables and the transactions the handlers run on them   *)
(* through gorm.  A transaction's writes are pending until it commits, and *)
(* lock the rows they touch: another writer of the row, or of a name that  *)
(* a pending write claims or gives up, waits.  Queries outside a           *)
(* transaction read committed rows (READ COMMITTED).                       *)
(***************************************************************************)
EXTENDS Domain

VARIABLES
    conns,   \* table connections:     [CIds -> Row \cup {NoRow}]
    aws,     \* table aws_connections: [Ids -> CIds \cup {NoRow}], its connection_id
    tx       \* pending writes of each request's transaction

storeVars == <<conns, aws, tx>>

Tx == [conns : [CIds -> Row \cup {NoRow, NoWrite}],
       aws   : [Ids -> CIds \cup {NoRow, NoWrite}]]

NoTx == [conns |-> [k \in CIds |-> NoWrite], aws |-> [i \in Ids |-> NoWrite]]

Overlay(table, writes) ==
    [k \in DOMAIN table |-> IF writes[k] = NoWrite THEN table[k] ELSE writes[k]]

\* The tables as request p's own statements see them.
ConnsSeenBy(p) == Overlay(conns, tx[p].conns)
AwsSeenBy(p)   == Overlay(aws, tx[p].aws)

Named(row, n) == row \notin {NoRow, NoWrite} /\ row.name = n

\* The transactions a write by p of row r under key k has to wait for.
ConnOwners(p, k, r) ==
    {q \in Req \ {p} :
        \/ tx[q].conns[k] # NoWrite
        \/ /\ r # NoRow
           /\ \E j \in CIds \ {k} :
                /\ tx[q].conns[j] # NoWrite
                /\ Named(tx[q].conns[j], r.name) \/ Named(conns[j], r.name)}

AwsOwners(p, i) == {q \in Req \ {p} : tx[q].aws[i] # NoWrite}

\* The unique index on connections.name rejects row r under key k.
NameTaken(p, k, r) ==
    \E j \in CIds \ {k} : Named(ConnsSeenBy(p)[j], r.name)

\* gorm's Save inserts when the primary key is zero and otherwise updates,
\* inserting when no row was updated: a deleted row comes back.
SaveAccepted(p, k, r) ==
    /\ ~NameTaken(p, k, r)
    /\ k = ZeroId => ConnsSeenBy(p)[k] = NoRow

WriteConn(p, k, r) == tx' = [tx EXCEPT ![p].conns[k] = r]
WriteAws(p, i, c)  == tx' = [tx EXCEPT ![p].aws[i] = c]

Release(p) == tx' = [tx EXCEPT ![p] = NoTx]

Rollback(p) == Release(p) /\ UNCHANGED <<conns, aws>>

Apply(p) ==
    /\ conns' = ConnsSeenBy(p)
    /\ aws' = AwsSeenBy(p)
    /\ Release(p)

\* COMMIT.  A failed one left nothing, or took effect with its answer lost.
Commit(p, ok) ==
    \/ ok /\ Apply(p)
    \/ ~ok /\ "commit" \in Faults /\ (Rollback(p) \/ Apply(p))

StoreTypeOK ==
    /\ conns \in [CIds -> Row \cup {NoRow}]
    /\ aws \in [Ids -> CIds \cup {NoRow}]
    /\ tx \in [Req -> Tx]

StoreInit ==
    /\ conns = [k \in CIds |-> IF k \in Preloaded THEN Seed[k].row ELSE NoRow]
    /\ aws = [i \in Ids |-> IF i \in Preloaded THEN i ELSE NoRow]
    /\ tx = [p \in Req |-> NoTx]
=============================================================================
