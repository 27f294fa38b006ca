-------------------------- MODULE ConnectionManager --------------------------
(***************************************************************************)
(* The handlers of the connection manager, run concurrently by any number  *)
(* of replicas over one Postgres database and one Vault server.  A request *)
(* is served once; each call that its handler makes to the database or to  *)
(* Vault is a step, because other requests run between two such calls.     *)
(* A request's in-memory AWSConnection is loc[p].                          *)
(***************************************************************************)
EXTENDS Vault, Datastore

CONSTANTS
    Kinds,    \* the endpoints exercised
    Posts,    \* bodies of POST /connection/aws
    Patches   \* bodies of PATCH /connection/aws/{connectionid}

VARIABLES
    pc,     \* [Req -> Stage] the next call of the request's handler
    call,   \* [Req -> [kind, id, body]] what the client sent
    loc,    \* [Req -> Local] the handler's AWSConnection
    resp    \* [Req -> Response] the status that the answer's body reports

vars == <<engine, conns, aws, tx, pc, call, loc, resp>>

\* A request body.  part tells whether a PATCH has a "connection" object; ttl
\* whether a lease TTL is given; Blank stands for a field that is left out.
Body == [part : BOOLEAN, name : Names \cup {Blank}, tested : {0, 1}, ttl : BOOLEAN,
         access : Keys \cup {Blank}, secret : Keys \cup {Blank},
         ctype : CredentialTypes \cup {Blank}, arns : Policies \cup {Blank}]

NoBody == [part |-> FALSE, name |-> Blank, tested |-> 0, ttl |-> FALSE,
           access |-> Blank, secret |-> Blank, ctype |-> Blank, arns |-> Blank]

AllKinds == {"add", "update", "delete", "get", "test", "link", "unlink"}
Mutating == {"add", "update", "delete"}

\* DecodeAndValidate rejects a POST before the handler unless these are there.
ASSUME CallAssumption ==
    /\ Kinds \subseteq AllKinds
    /\ Posts \subseteq Body
    /\ \A b \in Posts : Blank \notin {b.name, b.access, b.secret, b.ctype}
    /\ Patches \subseteq Body
    /\ Apps # {}

NoCall == [kind |-> "none", id |-> ZeroId, body |-> NoBody, app |-> CHOOSE a \in Apps : TRUE]

Request == [kind : AllKinds \cup {"none"}, id : CIds, body : Posts \cup Patches \cup {NoBody},
            app : Apps]

\* fk is AWSConnection.ConnectionID, cid and row are AWSConnection.Connection.
Local == [fk : CIds, cid : CIds, row : Row,
          access : Keys \cup {Blank}, secret : Keys \cup {Blank},
          ctype : CredentialTypes \cup {Blank}, arns : Policies \cup {Blank}]

ZeroLocal == [fk |-> ZeroId, cid |-> ZeroId, row |-> ZeroRow,
              access |-> Blank, secret |-> Blank, ctype |-> Blank, arns |-> Blank]

\* AddAWSSecretsEngine, shared by POST and PATCH, runs through AddStages.
AddStages   == {"enable", "tune", "root", "role"}
ReadStages  == {"get_config", "get_lease", "get_rolename", "get_role"}
WriteStages == {"create_conn", "create_aws", "save_conn", "save_aws",
                "del_aws", "del_conn", "save_row"}

Stage == {"idle", "validate", "read_aws", "read_conn", "merge", "remerge",
          "disable", "test_creds", "append", "remove", "commit", "done"}
         \cup AddStages \cup ReadStages \cup WriteStages

Response == {"none", "200", "400", "404", "500", "crashed"}

Active(p) == pc[p] \notin {"idle", "done"}
At(p, stage) == pc[p] = stage
Target(p) == call[p].id
Kind(p) == call[p].kind

Goto(p, stage) == pc' = [pc EXCEPT ![p] = stage]

Reply(p, code) ==
    /\ Goto(p, "done")
    /\ resp' = [resp EXCEPT ![p] = code]

\* The errors of deleteAWSConnection become 400, all others 500.
ErrorCode(p) == IF Kind(p) = "delete" /\ pc[p] \notin {"read_aws", "read_conn"}
                THEN "400" ELSE "500"

\* An error return: the open transaction is rolled back and the error reported.
FailWith(p, code) ==
    /\ Rollback(p)
    /\ loc' = [loc EXCEPT ![p] = ZeroLocal]
    /\ Reply(p, code)

Fail(p) == FailWith(p, ErrorCode(p))

FirstStage(kind) ==
    CASE kind = "add"                         -> "validate"
      [] kind \in {"link", "unlink"}          -> "read_conn"
      [] kind \in {"update", "delete", "get", "test"} -> "read_aws"

\* A client addresses a connection that a list has shown it.
Known(i) == i \in Preloaded \/ conns[i] # NoRow

Bodies(kind) == CASE kind = "add"    -> Posts
                  [] kind = "update" -> Patches
                  [] OTHER           -> {NoBody}

Start(p) ==
    /\ At(p, "idle")
    /\ \E kind \in Kinds, i \in Ids, a \in Apps :
        /\ IF kind = "add" THEN i = p ELSE Known(i)
        /\ kind \in {"link", "unlink"} \/ a = NoCall.app
        /\ \E b \in Bodies(kind) :
              call' = [call EXCEPT ![p] = [kind |-> kind, id |-> i, body |-> b, app |-> a]]
        /\ loc' = [loc EXCEPT ![p].fk = IF kind \in {"link", "unlink"} THEN i ELSE ZeroId]
        /\ Goto(p, FirstStage(kind))
    /\ UNCHANGED <<engine, storeVars, resp>>
------------------------------------------------------------------------------
(***************************************************************************)
(* Reading the tables: First and Preload are two queries.                  *)
(***************************************************************************)
\* Mutant of ReadAws: the result of First is used unchecked.
ReadAwsUnchecked(p) ==
    /\ At(p, "read_aws")
    /\ loc' = [loc EXCEPT ![p].fk = aws[Target(p)]]
    /\ Goto(p, "read_conn")
    /\ UNCHANGED <<engine, storeVars, call, resp>>

ReadAws(p) ==
    /\ At(p, "read_aws")
    /\ IF aws[Target(p)] = NoRow
       THEN Fail(p)
       ELSE /\ loc' = [loc EXCEPT ![p].fk = aws[Target(p)]]
            /\ Goto(p, "read_conn")
            /\ UNCHANGED <<storeVars, resp>>
    /\ UNCHANGED <<engine, call>>

\* What a handler does with what it has read.
AfterRead(kind) ==
    CASE kind = "update" -> "merge"
      [] kind = "delete" -> "del_aws"
      [] kind = "get"    -> "get_config"
      [] kind = "test"   -> "get_rolename"
      [] kind = "link"   -> "append"
      [] kind = "unlink" -> "remove"

\* Preload("Connection") leaves the zero Connection when the row is gone;
\* getConnection, used by link and unlink, returns the error.
ReadConn(p) ==
    /\ At(p, "read_conn")
    /\ LET k == loc[p].fk IN
       IF conns[k] # NoRow
       THEN /\ loc' = [loc EXCEPT ![p].cid = k, ![p].row = conns[k]]
            /\ Goto(p, AfterRead(Kind(p)))
            /\ UNCHANGED <<storeVars, resp>>
       ELSE IF Kind(p) \in {"link", "unlink"}
       THEN Fail(p)
       ELSE /\ Goto(p, AfterRead(Kind(p)))
            /\ UNCHANGED <<storeVars, loc, resp>>
    /\ UNCHANGED <<engine, call>>
------------------------------------------------------------------------------
(***************************************************************************)
(* Validation and merging of bodies, in memory.                            *)
(***************************************************************************)
\* validateAWSConnection, on the fields of the AWSConnection c.
Invalid(ctype, arns, ttl) ==
    \/ ctype = "iam_user" /\ arns = Blank
    \/ ctype = "session_token" /\ ttl

OrElse(new, old) == IF new # Blank THEN new ELSE old

\* CopyMatchingFields from the PATCH wrapper: an omitted pointer keeps the
\* target's field, but the slice policy_arns is copied even when omitted.
Merge(c, b) ==
    [c EXCEPT !.row.name = OrElse(b.name, @),
              !.access = OrElse(b.access, @),
              !.secret = OrElse(b.secret, @),
              !.ctype  = OrElse(b.ctype, @),
              !.arns   = b.arns]

\* NewAWSConnection and the copy of the POST body, whose test result is the
\* client's; then Begin.
AddValidate(p) ==
    /\ At(p, "validate")
    /\ LET b == call[p].body IN
       IF Invalid(b.ctype, b.arns, b.ttl)
       THEN FailWith(p, "400")
       ELSE /\ loc' = [loc EXCEPT ![p] =
                  [fk |-> p, cid |-> p,
                   row |-> [name |-> b.name, tested |-> b.tested, apps |-> {}],
                   access |-> b.access, secret |-> b.secret,
                   ctype |-> b.ctype, arns |-> b.arns]]
            /\ Goto(p, "create_conn")
            /\ UNCHANGED <<storeVars, resp>>
    /\ UNCHANGED <<engine, call>>

\* The first merge of a PATCH.  Without a connection object the second
\* CopyMatchingFields is given a nil pointer and fails.
UpdateMerge(p) ==
    /\ At(p, "merge")
    /\ LET b == call[p].body
           c == Merge(loc[p], b)
       IN IF ~b.part
          THEN Fail(p)
          ELSE IF Invalid(c.ctype, c.arns, b.ttl)
          THEN FailWith(p, "400")
          ELSE /\ loc' = [loc EXCEPT ![p] = c]
               /\ Goto(p, "get_config")
               /\ UNCHANGED <<storeVars, resp>>
    /\ UNCHANGED <<engine, call>>

\* The second merge, over what Vault returned, ResetTestStatus and Begin.
UpdateRemerge(p) ==
    /\ At(p, "remerge")
    /\ loc' = [loc EXCEPT ![p] = [Merge(loc[p], call[p].body) EXCEPT !.row.tested = 0]]
    /\ Goto(p, "disable")
    /\ UNCHANGED <<engine, storeVars, call, resp>>
------------------------------------------------------------------------------
(***************************************************************************)
(* GetAWSSecretsEngine and TestAWSSecretsEngine: one step per reading call.*)
(***************************************************************************)
\* The sequence of reads is abandoned: a test records a failed verdict and
\* goes on, the others report the error.
AbandonRead(p) ==
    IF Kind(p) = "test"
    THEN /\ loc' = [loc EXCEPT ![p].row.tested = 0]
         /\ Goto(p, "save_row")
         /\ UNCHANGED <<storeVars, resp>>
    ELSE Fail(p)

\* A status other than 200 is no error here: the fields stay zero.
GetConfig(p) ==
    /\ At(p, "get_config")
    /\ \E access \in IF HasRoot(Target(p))
                    THEN {engine[Target(p)].root.access} \cup IF Flaky THEN {Blank} ELSE {}
                    ELSE {Blank} :
          loc' = [loc EXCEPT ![p].access = access]
    /\ Goto(p, "get_lease")
    /\ UNCHANGED <<engine, storeVars, call, resp>>

GetLease(p) ==
    /\ At(p, "get_lease")
    /\ IF engine[Target(p)].mounted
       THEN Goto(p, "get_rolename") /\ UNCHANGED <<storeVars, loc, resp>>
       ELSE AbandonRead(p)
    /\ UNCHANGED <<engine, call>>

GetRoleName(p) ==
    /\ At(p, "get_rolename")
    /\ IF HasRole(Target(p))
       THEN Goto(p, "get_role") /\ UNCHANGED <<storeVars, loc, resp>>
       ELSE AbandonRead(p)
    /\ UNCHANGED <<engine, call>>

NoRole == [ctype |-> Blank, arns |-> Blank]

\* Again, a status other than 200 is no error.
GetRole(p) ==
    /\ At(p, "get_role")
    /\ \E role \in IF HasRole(Target(p))
                  THEN {engine[Target(p)].role} \cup IF Flaky THEN {NoRole} ELSE {}
                  ELSE {NoRole} :
          loc' = [loc EXCEPT ![p].ctype = role.ctype, ![p].arns = role.arns]
    /\ CASE Kind(p) = "get"    -> Reply(p, "200")
         [] Kind(p) = "update" -> Goto(p, "remerge") /\ UNCHANGED resp
         [] Kind(p) = "test"   -> Goto(p, "test_creds") /\ UNCHANGED resp
    /\ UNCHANGED <<engine, storeVars, call>>

\* A login or a reading call that gets no answer at all.
VaultReadFails(p) ==
    /\ Flaky
    /\ pc[p] \in ReadStages
    /\ AbandonRead(p)
    /\ UNCHANGED <<engine, call>>

\* Mutant of TestCreds: the verdict is saved as a PATCH saves, both rows.
TestCredsSaveAll(p) ==
    /\ At(p, "test_creds")
    /\ \E verdict \in {0, 1} : loc' = [loc EXCEPT ![p].row.tested = verdict]
    /\ Goto(p, "save_conn")
    /\ UNCHANGED <<engine, storeVars, call, resp>>

\* testAWSSecretsEngine, SetTestPassed and SetTestFailed.  The engine issues
\* credentials only if it has all it needs for the type asked for; AWS may
\* still refuse.
TestCreds(p) ==
    /\ At(p, "test_creds")
    /\ \E verdict \in {0, 1} :
          /\ verdict = 1 => /\ Usable(engine[Target(p)])
                            /\ engine[Target(p)].role.ctype = loc[p].ctype
          /\ loc' = [loc EXCEPT ![p].row.tested = verdict]
    /\ Goto(p, "save_row")
    /\ UNCHANGED <<engine, storeVars, call, resp>>
------------------------------------------------------------------------------
(***************************************************************************)
(* AddAWSSecretsEngine and RemoveAWSSecretsEngine, called with the         *)
(* transaction open: an error rolls it back, and leaves Vault as it is.    *)
(***************************************************************************)
\* What follows a writing call: the next one, or the error return.
Proceed(p, ok, next) ==
    /\ IF ok
       THEN Goto(p, next) /\ UNCHANGED <<storeVars, loc, resp>>
       ELSE Fail(p)
    /\ UNCHANGED call

EnableAWSSecretsEngine(p) ==
    /\ At(p, "enable")
    /\ \E ok \in BOOLEAN : Enable(Target(p), ok) /\ Proceed(p, ok, "tune")

ConfigureAWSSecretsEngine(p) ==
    /\ At(p, "tune")
    /\ \E ok \in BOOLEAN : Tune(Target(p), ok) /\ Proceed(p, ok, "root")

\* Mutant of ConfigureAWSRootCredentials: its error is dropped.
RootErrorDropped(p) ==
    /\ At(p, "root")
    /\ \E ok \in BOOLEAN : WriteRoot(Target(p), loc[p].access, loc[p].secret, ok)
    /\ Proceed(p, TRUE, "role")

ConfigureAWSRootCredentials(p) ==
    /\ At(p, "root")
    /\ \E ok \in BOOLEAN :
          /\ WriteRoot(Target(p), loc[p].access, loc[p].secret, ok)
          /\ Proceed(p, ok, "role")

ConfigureAWSIAMRole(p) ==
    /\ At(p, "role")
    /\ \E ok \in BOOLEAN :
          /\ WriteRole(Target(p), loc[p].ctype, loc[p].arns, ok)
          /\ Proceed(p, ok, IF Kind(p) = "add" THEN "commit" ELSE "save_conn")

\* Mutants of DisableAWSSecretsEngine: its error is dropped; a PATCH does not
\* call AddAWSSecretsEngine after it.
DisableErrorDropped(p) ==
    /\ At(p, "disable")
    /\ \E ok \in BOOLEAN : Disable(Target(p), ok)
    /\ Proceed(p, TRUE, IF Kind(p) = "delete" THEN "commit" ELSE "enable")

DisableOnly(p) ==
    /\ At(p, "disable")
    /\ \E ok \in BOOLEAN :
          /\ Disable(Target(p), ok)
          /\ Proceed(p, ok, IF Kind(p) = "delete" THEN "commit" ELSE "save_conn")

DisableAWSSecretsEngine(p) ==
    /\ At(p, "disable")
    /\ \E ok \in BOOLEAN :
          /\ Disable(Target(p), ok)
          /\ Proceed(p, ok, IF Kind(p) = "delete" THEN "commit" ELSE "enable")
------------------------------------------------------------------------------
(***************************************************************************)
(* The statements of the transactions.                                     *)
(***************************************************************************)
\* The transactions that the statement p is about to execute waits for.
WaitsFor(p) ==
    CASE pc[p] \in {"create_conn", "save_conn", "save_row"}
                            -> ConnOwners(p, loc[p].cid, loc[p].row)
      [] pc[p] = "del_conn" -> ConnOwners(p, loc[p].cid, NoRow)
      [] pc[p] \in {"create_aws", "save_aws", "del_aws"}
                            -> AwsOwners(p, Target(p))
      [] OTHER              -> {}

CanExecute(p, stage) == At(p, stage) /\ WaitsFor(p) = {}

\* A statement that succeeds when accepted, and is an error return otherwise.
Execute(p, accepted, write, next) ==
    /\ IF accepted
       THEN write /\ Goto(p, next) /\ UNCHANGED <<conns, aws, loc, resp>>
       ELSE Fail(p)
    /\ UNCHANGED <<engine, call>>

\* Mutant of CreateConn: CreateObject, with a transaction of its own.
CreateConnCommitted(p) ==
    /\ CanExecute(p, "create_conn")
    /\ ~NameTaken(p, loc[p].cid, loc[p].row)
    /\ conns' = [conns EXCEPT ![loc[p].cid] = loc[p].row]
    /\ Goto(p, "create_aws")
    /\ UNCHANGED <<engine, aws, tx, call, loc, resp>>

CreateConn(p) ==
    /\ CanExecute(p, "create_conn")
    /\ Execute(p, ~NameTaken(p, loc[p].cid, loc[p].row),
               WriteConn(p, loc[p].cid, loc[p].row), "create_aws")

\* Mutant of CreateAws: the transaction is committed before the engine is made.
CreateAwsCommitted(p) ==
    /\ CanExecute(p, "create_aws")
    /\ aws' = [aws EXCEPT ![Target(p)] = loc[p].cid]
    /\ conns' = ConnsSeenBy(p)
    /\ Release(p)
    /\ Goto(p, "enable")
    /\ UNCHANGED <<engine, call, loc, resp>>

CreateAws(p) ==
    /\ CanExecute(p, "create_aws")
    /\ Execute(p, TRUE, WriteAws(p, Target(p), loc[p].cid), "enable")

SaveConn(p) ==
    /\ CanExecute(p, "save_conn")
    /\ Execute(p, SaveAccepted(p, loc[p].cid, loc[p].row),
               WriteConn(p, loc[p].cid, loc[p].row), "save_aws")

\* gorm sets ConnectionID to the primary key of the Connection it holds.
SaveAws(p) ==
    /\ CanExecute(p, "save_aws")
    /\ Execute(p, TRUE, WriteAws(p, Target(p), loc[p].cid), "commit")

\* DeleteObjectWithoutTx insists on one affected row; its mutant does not.
AnyAffected(row) == TRUE
Affected(row) == row # NoRow

DeleteAws(p) ==
    /\ CanExecute(p, "del_aws")
    /\ Execute(p, Affected(AwsSeenBy(p)[Target(p)]),
               WriteAws(p, Target(p), NoRow), "del_conn")

\* Mutant of DeleteConn: the engine is not removed before COMMIT.
DeleteConnOnly(p) ==
    /\ CanExecute(p, "del_conn")
    /\ Execute(p, loc[p].cid # ZeroId /\ Affected(ConnsSeenBy(p)[loc[p].cid]),
               WriteConn(p, loc[p].cid, NoRow), "commit")

\* gorm refuses a DELETE by a zero primary key.
DeleteConn(p) ==
    /\ CanExecute(p, "del_conn")
    /\ Execute(p, loc[p].cid # ZeroId /\ Affected(ConnsSeenBy(p)[loc[p].cid]),
               WriteConn(p, loc[p].cid, NoRow), "disable")

\* Mutant of CommitTx: a path on which the transaction is left open.
CommitForgotten(p) ==
    /\ At(p, "commit")
    /\ Reply(p, "200")
    /\ UNCHANGED <<engine, storeVars, call, loc>>

CommitTx(p) ==
    /\ At(p, "commit")
    /\ \E ok \in BOOLEAN :
          /\ Commit(p, ok)
          /\ Reply(p, IF ok THEN "200" ELSE ErrorCode(p))
    /\ UNCHANGED <<engine, call, loc>>

\* The test of an application's membership, and the change, in memory.
AppendApp(p) ==
    /\ At(p, "append")
    /\ IF call[p].app \in loc[p].row.apps
       THEN FailWith(p, "400")
       ELSE /\ loc' = [loc EXCEPT ![p].row.apps = @ \cup {call[p].app}]
            /\ Goto(p, "save_row")
            /\ UNCHANGED <<storeVars, resp>>
    /\ UNCHANGED <<engine, call>>

RemoveApp(p) ==
    /\ At(p, "remove")
    /\ IF call[p].app \notin loc[p].row.apps
       THEN FailWith(p, "404")
       ELSE /\ loc' = [loc EXCEPT ![p].row.apps = @ \ {call[p].app}]
            /\ Goto(p, "save_row")
            /\ UNCHANGED <<storeVars, resp>>
    /\ UNCHANGED <<engine, call>>

\* UpdateObject: Begin, Save of the whole row and Commit, nothing between
\* them.  A test only logs the error.
SaveRow(p) ==
    /\ CanExecute(p, "save_row")
    /\ \E saved, ok \in BOOLEAN :
          /\ saved => SaveAccepted(p, loc[p].cid, loc[p].row)
          /\ saved /\ ~ok => "commit" \in Faults
          /\ ~saved => ~ok
          /\ ~saved /\ SaveAccepted(p, loc[p].cid, loc[p].row)
                => {"db", "commit"} \cap Faults # {}
          /\ conns' = IF saved THEN [conns EXCEPT ![loc[p].cid] = loc[p].row] ELSE conns
          /\ Reply(p, IF ok \/ Kind(p) = "test" THEN "200" ELSE "500")
    /\ UNCHANGED <<engine, aws, tx, call, loc>>

\* A query, Begin or statement that the database fails.  A POST's Begin comes
\* after its validation.
DbStages == {"read_aws", "read_conn", "validate", "remerge"} \cup (WriteStages \ {"save_row"})

DbFails(p) ==
    /\ "db" \in Faults
    /\ pc[p] \in DbStages
    /\ At(p, "validate") => LET b == call[p].body IN ~Invalid(b.ctype, b.arns, b.ttl)
    /\ Fail(p)
    /\ UNCHANGED <<engine, call>>

\* Postgres aborts one of two transactions that wait for each other.  (It would
\* do so in longer cycles too, but DeadlocksArePairs: these contain such a pair.)
DeadlockVictim(p) ==
    /\ \E q \in WaitsFor(p) : p \in WaitsFor(q)
    /\ Fail(p)
    /\ UNCHANGED <<engine, call>>

\* The replica dies, or main returns from Shutdown's timeout: Postgres rolls
\* the transaction back, nobody undoes what Vault did.
Crash(p) ==
    /\ "crash" \in Faults
    /\ Active(p)
    /\ FailWith(p, "crashed")
    /\ UNCHANGED <<engine, call>>
------------------------------------------------------------------------------
Read(p)     == ReadAws(p) \/ ReadConn(p)
Memory(p)   == AddValidate(p) \/ UpdateMerge(p) \/ UpdateRemerge(p) \/ AppendApp(p) \/ RemoveApp(p)
ReadVault(p) == \/ GetConfig(p) \/ GetLease(p) \/ GetRoleName(p) \/ GetRole(p)
                \/ VaultReadFails(p) \/ TestCreds(p)
WriteVault(p) == \/ EnableAWSSecretsEngine(p) \/ ConfigureAWSSecretsEngine(p)
                 \/ ConfigureAWSRootCredentials(p) \/ ConfigureAWSIAMRole(p)
                 \/ DisableAWSSecretsEngine(p)
Statement(p) == \/ CreateConn(p) \/ CreateAws(p) \/ SaveConn(p) \/ SaveAws(p)
                \/ DeleteAws(p) \/ DeleteConn(p) \/ SaveRow(p) \/ CommitTx(p)
                \/ DbFails(p) \/ DeadlockVictim(p)

Step(p) == Read(p) \/ Memory(p) \/ ReadVault(p) \/ WriteVault(p) \/ Statement(p)

Init ==
    /\ VaultInit
    /\ StoreInit
    /\ pc = [p \in Req |-> "idle"]
    /\ call = [p \in Req |-> NoCall]
    /\ loc = [p \in Req |-> ZeroLocal]
    /\ resp = [p \in Req |-> "none"]

Next == \E p \in Req : Start(p) \/ Step(p) \/ Crash(p)

Spec == Init /\ [][Next]_vars
------------------------------------------------------------------------------
(***************************************************************************)
(* Properties.  Which of them hold depends on the endpoints in use: see    *)
(* the configurations.                                                     *)
(***************************************************************************)
\* The shape of the state.  Writes of a transaction belong to an active request.
TypeOK ==
    /\ VaultTypeOK
    /\ StoreTypeOK
    /\ pc \in [Req -> Stage]
    /\ call \in [Req -> Request]
    /\ loc \in [Req -> Local]
    /\ resp \in [Req -> Response]

\* Some request of these kinds was sent for connection i.
Targeted(i, kinds) == \E p \in Req : Kind(p) \in kinds /\ Target(p) = i

Updating(i, stages) ==
    \E p \in Req : Kind(p) = "update" /\ Target(p) = i /\ pc[p] \in stages

\* One of several PATCHes of connection i named no credential type and failed.
Untyped(i) ==
    \E p, q \in Req :
        /\ p # q
        /\ \A r \in {p, q} : Kind(r) = "update" /\ Target(r) = i
        /\ call[p].body.ctype = Blank
        /\ resp[p] = "500"

\* PATCH rebuilds an engine from nothing, with no lock on it, and any number
\* of PATCHes may interleave their calls.  As long as Vault answers, whatever
\* an engine lacks that nobody asked to delete, some PATCH still has to write:
\* the engine is complete as soon as they are all through.  Only the role may be
\* missing for good, and only if a PATCH that names no type met another one.
EngineConverges ==
    \A i \in Preloaded : ~Targeted(i, {"delete"}) =>
        LET e == engine[i] IN
        /\ ~e.mounted => Updating(i, {"enable"})
        /\ e.mounted /\ ~e.tuned => Updating(i, {"tune"})
        /\ e.mounted /\ e.root = None => Updating(i, {"tune", "root"})
        /\ e.mounted /\ e.role = None => Updating(i, {"tune", "root", "role"}) \/ Untyped(i)

\* POST commits its rows only after Vault has everything: whatever fails, and
\* wherever the request dies, a row that a list can show has its whole engine,
\* until somebody asks for the connection to be changed or deleted.
PublishedIsComplete ==
    \A i \in Ids :
        /\ ~Targeted(i, {"update", "delete"})
        /\ aws[i] # NoRow
        => Complete(engine[i])

\* The two rows of a connection are both there and belong together, or neither is.
RowsAgree(i) == /\ aws[i] \in {i, NoRow}
                /\ aws[i] = NoRow <=> conns[i] = NoRow

\* The requests that write back a row they have read.
WriteBack == {"update", "test", "link", "unlink"}

Contended(i) == Targeted(i, {"delete"}) /\ Targeted(i, WriteBack)

\* The generic connection and the aws_connections row appear and disappear
\* together, whatever fails, unless a deleted connection is also written back;
\* and only then is there a row under the nil UUID.
RowsPaired ==
    /\ \A i \in Ids : ~Contended(i) => RowsAgree(i)
    /\ conns[ZeroId] # NoRow => \E i \in Ids : Contended(i)

\* Of the DELETEs of one connection at most one reports success, unless a PATCH
\* brings the connection back.
DeleteAtMostOnce ==
    \A p, q \in Req :
        /\ Kind(p) = "delete" /\ Kind(q) = "delete" /\ Target(p) = Target(q)
        /\ resp[p] = "200" /\ resp[q] = "200"
        /\ ~Targeted(Target(p), {"update"})
        => p = q

\* Connection i was there once and has been deleted.
Gone(i) == aws[i] = NoRow /\ (i \in Req => resp[i] = "200")

\* No step but that of a PATCH brings back the aws_connections row of a deleted
\* connection.
DeletedStaysDeleted ==
    [][\A i \in Ids : Gone(i) /\ ~Targeted(i, {"update"}) => Gone(i)']_vars

\* No writer of connection i is under way, and each that ended reported success.
Settled(i) ==
    \A p \in Req : Kind(p) \in Mutating /\ Target(p) = i => resp[p] = "200"

\* The row of connection i exists exactly when its engine does, and then the
\* engine is complete.
StoresAgree(i) ==
    IF aws[i] = NoRow THEN ~engine[i].mounted ELSE Complete(engine[i])

\* When the database and Vault disagree about a connection that is not both
\* patched and deleted, some client has been told: not all of its writers got a 200.
NoSilentDivergence ==
    \A i \in Ids :
        ~(Targeted(i, {"update"}) /\ Targeted(i, {"delete"}))
            => (Settled(i) => StoresAgree(i))

\* The handlers implement the registry of ConnectionRegistry: a connection is
\* listed when its aws_connections row is committed, and a request takes effect
\* at the COMMIT that its handler answers from.
Registry == INSTANCE ConnectionRegistry WITH
    listed  <- {i \in Ids : aws[i] # NoRow},
    stage   <- [i \in Ids |-> CASE Complete(engine[i])  -> "whole"
                               [] ~engine[i].mounted    -> "none"
                               [] OTHER                 -> "part"],
    asked   <- [p \in Req |-> Kind(p)],
    subject <- [p \in Req |-> Target(p)],
    answer  <- resp

ImplementsRegistry == Registry!Spec

\* These requests wait for each other, or for one that will never go on.
Deadlocked(D) == \A p \in D : \E q \in WaitsFor(p) : q \in D \/ ~Active(q)

\* PATCH locks connections before aws_connections, DELETE after it, and both may
\* fall back on the nil UUID; yet however many wait for each other, two of them do
\* so directly, and Postgres aborts one.  No lock outlives its request.
DeadlocksArePairs ==
    \A D \in (SUBSET Req) \ {{}} :
        Deadlocked(D) => \E p, q \in D : q \in WaitsFor(p) /\ p \in WaitsFor(q)

\* Every request that was accepted is answered: the locks that handlers take
\* in opposite orders, or hold while they talk to Vault, stop nobody for good.
Termination == \A p \in Req : Active(p) ~> At(p, "done")
------------------------------------------------------------------------------
(***************************************************************************)
(* What the documentation says and the code does not do.                   *)
(***************************************************************************)
Idle(i) == \A p \in Req : Active(p) => Target(p) # i

\* Every connection that both a PATCH and a DELETE succeeded on is either there,
\* with its engine, or gone with it (awsconnection.go:541).
SettledStoresAgree == \A i \in Ids : Settled(i) => StoresAgree(i)

\* Deleting the AWS connections leaves as many connections as there were
\* before they were made (e2e_awsconnection_test.go:360).
TablesAgree == \A i \in Ids : RowsAgree(i)

\* A PATCH updates the attributes it has and keeps the others
\* (awsconnection.go:382): a connection on which one succeeded, and which nobody
\* deletes, has a credential type when all is quiet.
TypeIsKept ==
    \A p \in Req :
        /\ Kind(p) = "update" /\ resp[p] = "200" /\ Idle(Target(p))
        /\ ~Targeted(Target(p), {"delete"})
        => engine[Target(p)].role # None

\* A PATCH updates the attributes it has and keeps the others
\* (awsconnection.go:382), the secret key and the policies included.
OmittedIsKept ==
    \A p \in Req :
        LET e == engine[Target(p)] IN
        /\ Kind(p) = "update" /\ resp[p] = "200" /\ Idle(Target(p)) /\ Complete(e)
        => e.root.secret # Blank /\ e.role.arns # Blank
==============================================================================
