--------------------------- MODULE ConnectionList ---------------------------
(***************************************************************************)
(* A client that pages through GET /connections/aws, or GET /connections,  *)
(* while the handlers of ConnectionManager run.  As the load test does, it *)
(* skips what it has been shown and stops at an empty page.  For the AWS   *)
(* connections a page is two queries and then four calls to Vault for each *)
(* row; the first error fails the whole list.                              *)
(***************************************************************************)
EXTENDS ConnectionManager, Integers, SequencesExt

CONSTANTS
    Rank,   \* [Names -> Nat] the collation of names
    Limit   \* the effective limit of a page

ASSUME ListAssumption ==
    /\ Rank \in [Names -> Nat]
    /\ \A m, n \in Names : Rank[m] = Rank[n] => m = n
    /\ Limit \in Nat \ {0}
    \* the tables are finite, and POST and the unique index have seen their rows
    /\ IsFiniteSet(Ids)
    /\ \A i \in Preloaded : Seed[i].row.name # Blank
    /\ \A i, j \in Preloaded : Seed[i].row.name = Seed[j].row.name => i = j

VARIABLES
    list,   \* "aws" or "generic": the endpoint
    step,   \* the next call of the list handler
    page,   \* the rows of the page being made, a sequence of Entry
    at,     \* the index of the row whose engine is being read
    shown,  \* what the client got on earlier pages
    first   \* history: the connections listed when the first page was fetched

listVars == <<list, step, page, at, shown, first>>
listingVars == <<vars, listVars>>

Entry == [id : CIds, fk : CIds, row : Row,
          access : Keys \cup {Blank}, ctype : CredentialTypes \cup {Blank}]

Table == IF list = "aws" THEN {i \in Ids : aws[i] # NoRow}
                         ELSE {k \in CIds : conns[k] # NoRow}

\* LEFT JOIN connections: the connection of row i of the table.
Joined(i) == conns[IF list = "aws" THEN aws[i] ELSE i]

Collation(name) == IF name = Blank THEN -1 ELSE Rank[name]

\* ORDER BY name.  Postgres sorts the rows of missing connections last.
Before(i, j) ==
    /\ Joined(i) # NoRow
    /\ \/ Joined(j) = NoRow
       \/ Collation(Joined(i).name) < Collation(Joined(j).name)

Sortings == {s \in SetToSeqs(Table) :
                \A m, n \in DOMAIN s : m < n => ~Before(s[n], s[m])}

\* LIMIT and OFFSET.
PageOf(rows, skip) == SubSeq(rows, skip + 1, Min({skip + Limit, Len(rows)}))

\* Mutant of Selected: the query without its ORDER BY.
SelectedUnordered(skip) ==
    {PageOf(s, skip) : s \in SetToSeqs(Table)}

\* The rows a query with this OFFSET and LIMIT may return.
Selected(skip) == {PageOf(s, skip) : s \in Sortings}

Fetched(k) ==
    [id |-> k, fk |-> IF list = "aws" THEN aws[k] ELSE k,
     row |-> IF list = "aws" THEN ZeroRow ELSE conns[k],
     access |-> Blank, ctype |-> Blank]

\* fetchAWSConnections and fetchConnections; OFFSET is what the client has seen.
Fetch ==
    /\ step = "fetch"
    /\ \E rows \in Selected(Len(shown)) :
        /\ page' = [n \in DOMAIN rows |-> Fetched(rows[n])]
        /\ step' = IF rows = << >> THEN "end"
                   ELSE IF list = "aws" THEN "preload" ELSE "answer"
    /\ first' = IF shown = << >> THEN Table ELSE first
    /\ at' = 1
    /\ UNCHANGED <<vars, list, shown>>

\* The second query, for the rows' connections: one that is gone stays zero.
Preload ==
    /\ step = "preload"
    /\ page' = [n \in DOMAIN page |->
                  [page[n] EXCEPT !.row = IF conns[page[n].fk] = NoRow
                                          THEN ZeroRow ELSE conns[page[n].fk]]]
    /\ step' = "get_config"
    /\ UNCHANGED <<vars, list, at, shown, first>>

Mount == engine[page[at].id]

\* A query, a login or a reading call that gets no answer.
ListBreaks ==
    /\ \/ "db" \in Faults /\ step \in {"fetch", "preload"}
       \/ Flaky /\ step \in ReadStages
    /\ step' = "broken"
    /\ UNCHANGED <<vars, list, page, at, shown, first>>

\* GetAWSSecretsEngine on one row, as in the handlers of a single connection:
\* here and in ListRole a status other than 200 is no error.
ListConfig ==
    /\ step = "get_config"
    /\ \E access \in IF Mount.root = None THEN {Blank}
                     ELSE {Mount.root.access} \cup IF Flaky THEN {Blank} ELSE {} :
          page' = [page EXCEPT ![at].access = access]
    /\ step' = "get_lease"
    /\ UNCHANGED <<vars, list, at, shown, first>>

ListLease ==
    /\ step = "get_lease"
    /\ step' = IF Mount.mounted THEN "get_rolename" ELSE "failed"
    /\ UNCHANGED <<vars, list, page, at, shown, first>>

ListRoleName ==
    /\ step = "get_rolename"
    /\ step' = IF Mount.role # None THEN "get_role" ELSE "failed"
    /\ UNCHANGED <<vars, list, page, at, shown, first>>

ListRole ==
    /\ step = "get_role"
    /\ \E ctype \in IF Mount.role = None THEN {Blank}
                    ELSE {Mount.role.ctype} \cup IF Flaky THEN {Blank} ELSE {} :
          page' = [page EXCEPT ![at].ctype = ctype]
    /\ at' = at + 1
    /\ step' = IF at = Len(page) THEN "answer" ELSE "get_config"
    /\ UNCHANGED <<vars, list, shown, first>>

\* WriteResponse; the client goes on with the next page.
Answer ==
    /\ step = "answer"
    /\ shown' = shown \o page
    /\ page' = << >>
    /\ step' = "fetch"
    /\ UNCHANGED <<vars, list, at, first>>

ListInit ==
    /\ Init
    /\ list \in {"aws", "generic"}
    /\ step = "fetch"
    /\ page = << >>
    /\ at = 1
    /\ shown = << >>
    /\ first = {}

ListStep == \/ Fetch \/ Preload \/ Answer \/ ListBreaks
            \/ ListConfig \/ ListLease \/ ListRoleName \/ ListRole

ListNext == ListStep \/ (Next /\ UNCHANGED listVars)

ListSpec == ListInit /\ [][ListNext]_listingVars
------------------------------------------------------------------------------
NoneAsked(kinds) == \A i \in Ids : ~Targeted(i, kinds)

\* As long as the servers answer, a list is an error only if it has come upon a
\* connection that somebody is patching or deleting: nothing a POST does, before
\* it commits or when it fails, is in its way.
FailsOnlyForWriters ==
    step = "failed" => Targeted(page[at].id, {"update", "delete"})

\* Every connection that a list shows is whole: it has its name, also when a
\* DELETE commits between the two queries of the list, unless it is patched; and
\* it has its key and type, unless it is patched or deleted, or Vault fails.
ShownIsWhole ==
    \A n \in DOMAIN shown :
        LET e == shown[n] IN
        e.id # ZeroId =>
            /\ Targeted(e.id, {"update"}) \/ e.row.name # Blank
            /\ \/ list = "generic"
               \/ Flaky
               \/ Targeted(e.id, {"update", "delete"})
               \/ e.access # Blank /\ e.ctype # Blank

\* A connection that was there when the client began is shown on some page, as
\* long as none is deleted or renamed meanwhile.
NothingSkipped ==
    step = "end" /\ NoneAsked({"update", "delete"})
        => \A i \in first : \E n \in DOMAIN shown : shown[n].id = i

\* The pages follow each other in the order of names, and nothing is shown twice,
\* unless a connection is added whose name comes before what was shown, or one is
\* written back, as long as none is renamed.
PagesAscend ==
    NoneAsked({"update"}) =>
        \A m, n \in DOMAIN shown :
            LET x == shown[m].row.name
                y == shown[n].row.name
            IN m < n /\ Blank \notin {x, y}
                => \/ Rank[x] < Rank[y]
                   \/ \E p \in Req : Kind(p) = "add" /\ Rank[call[p].body.name] < Rank[x]
                   \/ \E i \in Ids : Contended(i)
------------------------------------------------------------------------------
\* The load test pages by the number of connections that it has renamed, until a
\* page is empty, to have them all (e2e_awsconnection_test.go:62): a connection
\* that was there when the client began is shown, if none is deleted.
PagingReachesAll ==
    list = "aws" /\ step = "end" /\ NoneAsked({"delete"})
        => \A i \in first : \E n \in DOMAIN shown : shown[n].id = i
=============================================================================
