------------------------------- MODULE Domain -------------------------------
(***************************************************************************)
(* The values that the connection manager, its Postgres database and its   *)
(* Vault server exchange.  A UUID, a name, a key or a policy list is a     *)
(* member of a small set: the code copies and compares them, nothing more. *)
(***************************************************************************)
CONSTANTS
    Req,      \* the HTTP requests of a behaviour; request p mints UUID p
    Seed,     \* [id |-> [row, access, secret, ctype, arns]]: what is there at the start
    Names,    \* connection names clients use
    Keys,     \* AWS access keys and secret keys
    Policies, \* non-empty lists of policy ARNs
    Apps,     \* application ids
    Faults,   \* the failures the environment may produce, see AllFaults
    ZeroId,   \* uuid.Nil, the primary key of a zero-valued Go struct
    NoRow,    \* no row in a table under this key
    NoWrite,  \* a transaction has not written this key
    None      \* a part of a secrets engine that was never written

\* Go's zero string, and what CopyMatchingFields sees for an omitted JSON field.
Blank == ""

Preloaded == DOMAIN Seed
Ids  == Preloaded \cup Req
CIds == Ids \cup {ZeroId}

CredentialTypes == {"iam_user", "session_token"}

\* vault:  a Vault call fails, before or after it took effect
\* db:     a statement of a transaction, or a query, fails
\* commit: COMMIT fails, or succeeds and its answer is lost
\* crash:  a replica dies, or main returns with the request in flight
AllFaults == {"vault", "db", "commit", "crash"}

\* The columns of table connections that some handler reads or decides on.
Row == [name : Names \cup {Blank}, tested : {0, 1}, apps : SUBSET Apps]

ZeroRow == [name |-> Blank, tested |-> 0, apps |-> {}]

SeedEntry == [row : Row, access : Keys, secret : Keys,
              ctype : CredentialTypes, arns : Policies]

ASSUME DomainAssumption ==
    /\ Seed \in [Preloaded -> SeedEntry]
    /\ Faults \subseteq AllFaults
    \* a UUID minted by a POST is new, and is never uuid.Nil
    /\ Preloaded \cap Req = {}
    /\ ZeroId \notin Ids
    \* the markers are not values
    /\ NoRow \notin Row \cup CIds
    /\ NoWrite \notin Row \cup CIds \cup {NoRow}
    /\ None \notin [access : Keys \cup {Blank}, secret : Keys \cup {Blank}]
    /\ None \notin [ctype : CredentialTypes, arns : Policies \cup {Blank}]
    /\ Blank \notin Names \cup Keys \cup Policies
=============================================================================
