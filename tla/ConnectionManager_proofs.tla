---------------------- MODULE ConnectionManager_proofs ----------------------
(***************************************************************************)
(* Theorems about ConnectionManager, for any requests, faults, payloads    *)
(* and connections.                                                        *)
(***************************************************************************)
EXTENDS ConnectionManager, TLAPS

Serving(p, kinds, stages) == pc[p] \in stages => Kind(p) \in kinds

\* Handlers run only their own stages, on a connection id; that of a POST is
\* the one it minted.
WellFormed ==
    \A p \in Req :
        /\ pc[p] # "idle" => /\ Kind(p) \in AllKinds
                             /\ Target(p) \in Ids
        /\ Kind(p) = "add" => Target(p) = p
        /\ Serving(p, {"add"}, {"validate", "create_conn", "create_aws"})
        /\ Serving(p, {"update", "delete", "get", "test"}, {"read_aws"})
        /\ Serving(p, AllKinds \ {"add"}, {"read_conn"})
        /\ Serving(p, {"update"}, {"merge", "remerge", "save_conn", "save_aws"})
        /\ Serving(p, {"update", "get"}, {"get_config", "get_lease"})
        /\ Serving(p, {"update", "get", "test"}, {"get_rolename", "get_role"})
        /\ Serving(p, {"add", "update"}, AddStages)
        /\ Serving(p, {"delete"}, {"del_aws", "del_conn"})
        /\ Serving(p, {"update", "delete"}, {"disable"})
        /\ Serving(p, Mutating, {"commit"})
        /\ Serving(p, {"test"}, {"test_creds"})
        /\ Serving(p, {"link"}, {"append"})
        /\ Serving(p, {"unlink"}, {"remove"})
        /\ Serving(p, {"test", "link", "unlink"}, {"save_row"})

\* What every other proof starts from.
Inv == TypeOK /\ WellFormed

\* The markers and zero values have the types they are used at.
LEMMA Constants ==
    /\ NoTx \in Tx
    /\ ZeroRow \in Row
    /\ ZeroLocal \in Local
    /\ NoCall \in Request
    /\ Unmounted \in Engine /\ FreshMount \in Engine
    /\ Req \subseteq Ids /\ Ids \subseteq CIds /\ ZeroId \in CIds
    /\ Posts \cup Patches \cup {NoBody} \subseteq Body
<1>1. ZeroRow \in Row
  BY DEF ZeroRow, Row
<1>2. ZeroId \in CIds /\ Req \subseteq Ids /\ Ids \subseteq CIds
  BY DEF Ids, CIds
<1>3. ZeroLocal \in Local
  BY <1>1, <1>2 DEF ZeroLocal, Local
<1>4. NoBody \in Body
  BY DEF NoBody, Body
<1>5. NoCall \in Request
  BY <1>2, CallAssumption DEF NoCall, Request
<1>6. Unmounted \in Engine /\ FreshMount \in Engine
  BY DEF Unmounted, FreshMount, Engine
<1>7. NoTx \in Tx
  BY DEF NoTx, Tx
<1> QED
  BY <1>1, <1>2, <1>3, <1>4, <1>5, <1>6, <1>7, CallAssumption

\* An error return, which every handler may take, keeps the invariant.
LEMMA FailKeepsInv ==
    ASSUME Inv, NEW p \in Req, NEW code \in Response, pc[p] # "idle",
           FailWith(p, code), VaultTypeOK', UNCHANGED call
    PROVE  Inv'
<1>1. StoreTypeOK'
  <2>1. tx' \in [Req -> Tx]
    BY Constants DEF Inv, TypeOK, StoreTypeOK, FailWith, Rollback, Release
  <2> QED
    BY <2>1 DEF Inv, TypeOK, StoreTypeOK, FailWith, Rollback
<1>2. pc' \in [Req -> Stage] /\ resp' \in [Req -> Response] /\ loc' \in [Req -> Local]
  BY Constants DEF Inv, TypeOK, FailWith, Reply, Goto, Stage
<1>3. WellFormed'
  BY DEF Inv, TypeOK, WellFormed, FailWith, Reply, Goto, Kind, Target, Serving, AddStages
<1> QED
  BY <1>1, <1>2, <1>3 DEF Inv, TypeOK

\* So does going on to another stage of the same handler.
LEMMA GotoKeepsInv ==
    ASSUME Inv, NEW p \in Req, NEW stage \in Stage, Goto(p, stage),
           VaultTypeOK', StoreTypeOK', loc' \in [Req -> Local], resp' \in [Req -> Response],
           UNCHANGED call, WellFormed'
    PROVE  Inv'
  BY DEF Inv, TypeOK, Goto

\* Queries: ReadAws keeps the invariant.
LEMMA ReadAwsKeepsInv ==
    ASSUME Inv, NEW p \in Req, ReadAws(p) PROVE Inv'
<1>1. CASE aws[Target(p)] = NoRow
  BY <1>1, FailKeepsInv DEF ReadAws, At, Fail, ErrorCode, Response, Inv, TypeOK, VaultTypeOK
<1>2. CASE aws[Target(p)] # NoRow
  <2>1. aws[Target(p)] \in CIds
    BY <1>2 DEF ReadAws, At, Inv, TypeOK, StoreTypeOK, WellFormed, Target
  <2>2. loc' \in [Req -> Local]
    BY <1>2, <2>1 DEF ReadAws, Inv, TypeOK, Local
  <2>3. WellFormed'
    BY <1>2 DEF ReadAws, Inv, TypeOK, WellFormed, Goto, Kind, Target, Serving, AddStages,
       AllKinds, At
  <2> QED
    BY <1>2, <2>2, <2>3, GotoKeepsInv
    DEF ReadAws, Inv, TypeOK, VaultTypeOK, StoreTypeOK, storeVars, Stage
<1> QED
  BY <1>1, <1>2

\* ReadConn keeps the invariant.
LEMMA ReadConnKeepsInv ==
    ASSUME Inv, NEW p \in Req, ReadConn(p) PROVE Inv'
<1> DEFINE k == loc[p].fk
           next == AfterRead(Kind(p))
<1>1. CASE conns[k] = NoRow /\ Kind(p) \in {"link", "unlink"}
  BY <1>1, FailKeepsInv DEF ReadConn, At, Fail, ErrorCode, Response, Inv, TypeOK, VaultTypeOK
<1>2. CASE conns[k] # NoRow \/ Kind(p) \notin {"link", "unlink"}
  <2>1. Kind(p) \in AllKinds \ {"add"}
    BY DEF ReadConn, At, Inv, WellFormed, Serving
  <2>2. next \in Stage
    BY <2>1 DEF AfterRead, AllKinds, Stage, ReadStages, WriteStages
  <2>3. k \in CIds /\ conns[k] \in Row \cup {NoRow}
    BY DEF Inv, TypeOK, StoreTypeOK, Local
  <2>4. loc' \in [Req -> Local]
    <3>1. CASE conns[k] # NoRow
      <4>1. loc' = [loc EXCEPT ![p] = [loc[p] EXCEPT !.cid = k, !.row = conns[k]]]
        BY <3>1 DEF ReadConn
      <4>2. [loc[p] EXCEPT !.cid = k, !.row = conns[k]] \in Local
        BY <2>3, <3>1 DEF Inv, TypeOK, Local
      <4> QED
        BY <4>1, <4>2 DEF Inv, TypeOK
    <3>2. CASE conns[k] = NoRow
      BY <1>2, <3>2 DEF ReadConn, Inv, TypeOK
    <3> QED
      BY <3>1, <3>2
  <2>5. WellFormed'
    <3>1. Goto(p, next) /\ UNCHANGED call
      BY <1>2 DEF ReadConn
    <3> QED
      BY <2>1, <3>1 DEF ReadConn, Inv, TypeOK, WellFormed, Goto, Kind, Target, Serving, AddStages,
         AllKinds, Mutating, At, AfterRead
  <2> QED
    BY <1>2, <2>2, <2>4, <2>5, GotoKeepsInv
    DEF ReadConn, Inv, TypeOK, VaultTypeOK, StoreTypeOK, storeVars
<1> QED
  BY <1>1, <1>2

\* Steps in memory: a merge of a body into an AWSConnection is one.
LEMMA MergeType ==
    ASSUME NEW c \in Local, NEW b \in Body
    PROVE  Merge(c, b) \in Local
<1>1. OrElse(b.name, c.row.name) \in Names \cup {Blank}
  BY DEF Local, Body, Row, OrElse
<1>2. [c.row EXCEPT !.name = OrElse(b.name, @)] \in Row
  BY <1>1 DEF Local, Row
<1>3. /\ OrElse(b.access, c.access) \in Keys \cup {Blank}
      /\ OrElse(b.secret, c.secret) \in Keys \cup {Blank}
      /\ OrElse(b.ctype, c.ctype) \in CredentialTypes \cup {Blank}
      /\ b.arns \in Policies \cup {Blank}
  BY DEF Local, Body, OrElse
<1> QED
  BY <1>2, <1>3 DEF Merge, Local

\* AddValidate keeps the invariant.
LEMMA AddValidateKeepsInv ==
    ASSUME Inv, NEW p \in Req, AddValidate(p) PROVE Inv'
<1> DEFINE b == call[p].body
           c == [fk |-> p, cid |-> p,
                 row |-> [name |-> b.name, tested |-> b.tested, apps |-> {}],
                 access |-> b.access, secret |-> b.secret,
                 ctype |-> b.ctype, arns |-> b.arns]
<1>1. CASE Invalid(b.ctype, b.arns, b.ttl)
  BY <1>1, FailKeepsInv DEF AddValidate, At, Response, Inv, TypeOK, VaultTypeOK
<1>2. CASE ~Invalid(b.ctype, b.arns, b.ttl)
  <2>1. b \in Body
    BY Constants DEF Inv, TypeOK, Request
  <2>2. [name |-> b.name, tested |-> b.tested, apps |-> {}] \in Row
    BY <2>1 DEF Body, Row
  <2>3. c \in Local
    BY <2>1, <2>2, Constants DEF Body, Local
  <2>4. loc' \in [Req -> Local]
    BY <1>2, <2>3 DEF AddValidate, Inv, TypeOK
  <2>5. WellFormed'
    BY <1>2 DEF AddValidate, Inv, TypeOK, WellFormed, Goto, Reply, Kind, Target, Serving, AddStages,
       AllKinds, Mutating, At
  <2> QED
    BY <1>2, <2>4, <2>5, GotoKeepsInv
    DEF AddValidate, Inv, TypeOK, VaultTypeOK, StoreTypeOK, storeVars, Stage, WriteStages
<1> QED
  BY <1>1, <1>2

\* UpdateMerge keeps the invariant.
LEMMA UpdateMergeKeepsInv ==
    ASSUME Inv, NEW p \in Req, UpdateMerge(p) PROVE Inv'
<1> DEFINE b == call[p].body
           c == Merge(loc[p], b)
<1>1. CASE ~b.part \/ Invalid(c.ctype, c.arns, b.ttl)
  BY <1>1, FailKeepsInv
  DEF UpdateMerge, At, Fail, ErrorCode, Response, Inv, TypeOK, VaultTypeOK
<1>2. CASE b.part /\ ~Invalid(c.ctype, c.arns, b.ttl)
  <2>1. b \in Body /\ loc[p] \in Local
    BY Constants DEF Inv, TypeOK, Request
  <2>2. c \in Local
    BY <2>1, MergeType
  <2>3. loc' \in [Req -> Local]
    BY <1>2, <2>2 DEF UpdateMerge, Inv, TypeOK
  <2>4. WellFormed'
    BY <1>2 DEF UpdateMerge, Inv, TypeOK, WellFormed, Goto, Reply, Kind, Target, Serving, AddStages,
       AllKinds, Mutating, At
  <2> QED
    BY <1>2, <2>3, <2>4, GotoKeepsInv
    DEF UpdateMerge, Inv, TypeOK, VaultTypeOK, StoreTypeOK, storeVars, Stage, ReadStages
<1> QED
  BY <1>1, <1>2

\* UpdateRemerge keeps the invariant.
LEMMA UpdateRemergeKeepsInv ==
    ASSUME Inv, NEW p \in Req, UpdateRemerge(p) PROVE Inv'
<1> DEFINE c == Merge(loc[p], call[p].body)
<1>1. call[p].body \in Body /\ loc[p] \in Local
  BY Constants DEF Inv, TypeOK, Request
<1>2. c \in Local
  BY <1>1, MergeType
<1>3. [c EXCEPT !.row.tested = 0] \in Local
  BY <1>2 DEF Local, Row
<1>4. loc' \in [Req -> Local]
  BY <1>3 DEF UpdateRemerge, Inv, TypeOK
<1>5. WellFormed'
  BY DEF UpdateRemerge, Inv, TypeOK, WellFormed, Goto, Reply, Kind, Target, Serving, AddStages,
       AllKinds, Mutating, At
<1> QED
  BY <1>4, <1>5, GotoKeepsInv
  DEF UpdateRemerge, Inv, TypeOK, VaultTypeOK, StoreTypeOK, storeVars, Stage

\* AppendApp keeps the invariant.
LEMMA AppendKeepsInv ==
    ASSUME Inv, NEW p \in Req, AppendApp(p) PROVE Inv'
<1>1. CASE call[p].app \in loc[p].row.apps
  BY <1>1, FailKeepsInv DEF AppendApp, At, Response, Inv, TypeOK, VaultTypeOK
<1>2. CASE ~(call[p].app \in loc[p].row.apps)
  <2>1. loc[p] \in Local /\ call[p].app \in Apps
    BY DEF Inv, TypeOK, Request
  <2>2. [loc[p] EXCEPT !.row.apps = @ \cup {call[p].app}] \in Local
    BY <2>1 DEF Local, Row
  <2>3. loc' \in [Req -> Local]
    BY <1>2, <2>2 DEF AppendApp, Inv, TypeOK
  <2>4. WellFormed'
    BY <1>2 DEF AppendApp, Inv, TypeOK, WellFormed, Goto, Reply, Kind, Target, Serving, AddStages,
       AllKinds, Mutating, At
  <2> QED
    BY <1>2, <2>3, <2>4, GotoKeepsInv
    DEF AppendApp, Inv, TypeOK, VaultTypeOK, StoreTypeOK, storeVars, Stage, WriteStages
<1> QED
  BY <1>1, <1>2

\* RemoveApp keeps the invariant.
LEMMA RemoveKeepsInv ==
    ASSUME Inv, NEW p \in Req, RemoveApp(p) PROVE Inv'
<1>1. CASE call[p].app \notin loc[p].row.apps
  BY <1>1, FailKeepsInv DEF RemoveApp, At, Response, Inv, TypeOK, VaultTypeOK
<1>2. CASE ~(call[p].app \notin loc[p].row.apps)
  <2>1. loc[p] \in Local /\ call[p].app \in Apps
    BY DEF Inv, TypeOK, Request
  <2>2. [loc[p] EXCEPT !.row.apps = @ \ {call[p].app}] \in Local
    BY <2>1 DEF Local, Row
  <2>3. loc' \in [Req -> Local]
    BY <1>2, <2>2 DEF RemoveApp, Inv, TypeOK
  <2>4. WellFormed'
    BY <1>2 DEF RemoveApp, Inv, TypeOK, WellFormed, Goto, Reply, Kind, Target, Serving, AddStages,
       AllKinds, Mutating, At
  <2> QED
    BY <1>2, <2>3, <2>4, GotoKeepsInv
    DEF RemoveApp, Inv, TypeOK, VaultTypeOK, StoreTypeOK, storeVars, Stage, WriteStages
<1> QED
  BY <1>1, <1>2

\* Reading calls to Vault: AbandonRead keeps the invariant.
LEMMA AbandonReadKeepsInv ==
    ASSUME Inv, NEW p \in Req, pc[p] \in ReadStages, AbandonRead(p), UNCHANGED <<engine, call>>
    PROVE  Inv'
<1>1. CASE Kind(p) # "test"
  BY <1>1, FailKeepsInv
  DEF AbandonRead, ReadStages, Fail, ErrorCode, Response, Inv, TypeOK, VaultTypeOK
<1>2. CASE Kind(p) = "test"
  <2>1. [loc[p] EXCEPT !.row.tested = 0] \in Local
    <3>1. loc[p] \in Local
      BY DEF Inv, TypeOK
    <3> QED
      BY <3>1 DEF Local, Row
  <2>2. loc' \in [Req -> Local]
    BY <1>2, <2>1 DEF AbandonRead, Inv, TypeOK
  <2>3. WellFormed'
    BY <1>2 DEF AbandonRead, ReadStages, Inv, TypeOK, WellFormed, Goto, Reply, Kind, Target,
       Serving, AddStages, AllKinds, Mutating, At
  <2> QED
    BY <1>2, <2>2, <2>3, GotoKeepsInv
    DEF AbandonRead, Inv, TypeOK, VaultTypeOK, StoreTypeOK, storeVars, Stage, WriteStages
<1> QED
  BY <1>1, <1>2

\* What Vault returns has the types of the fields it is decoded into.
LEMMA EngineParts ==
    ASSUME Inv, NEW p \in Req, pc[p] # "idle"
    PROVE  /\ Target(p) \in Ids
           /\ engine[Target(p)] \in Engine
           /\ HasRoot(Target(p)) => engine[Target(p)].root \in Root
           /\ HasRole(Target(p)) => engine[Target(p)].role \in Role
<1>1. Target(p) \in Ids
  BY DEF Inv, WellFormed
<1>2. engine[Target(p)] \in Engine
  BY <1>1 DEF Inv, TypeOK, VaultTypeOK
<1> QED
  BY <1>1, <1>2 DEF Engine, HasRoot, HasRole

\* GetConfig keeps the invariant.
LEMMA GetConfigKeepsInv ==
    ASSUME Inv, NEW p \in Req, GetConfig(p) PROVE Inv'
<1>1. PICK access \in Keys \cup {Blank} : loc' = [loc EXCEPT ![p].access = access]
  BY EngineParts DEF GetConfig, At, Root
<1>2. [loc[p] EXCEPT !.access = access] \in Local
  BY DEF Inv, TypeOK, Local
<1>3. loc' \in [Req -> Local]
  BY <1>1, <1>2 DEF Inv, TypeOK
<1>4. WellFormed'
  BY DEF GetConfig, Inv, TypeOK, WellFormed, Goto, Reply, Kind, Target, Serving, AddStages,
       AllKinds, Mutating, At
<1> QED
  BY <1>3, <1>4, GotoKeepsInv
  DEF GetConfig, Inv, TypeOK, VaultTypeOK, StoreTypeOK, storeVars, Stage, ReadStages

\* GetLease keeps the invariant.
LEMMA GetLeaseKeepsInv ==
    ASSUME Inv, NEW p \in Req, GetLease(p) PROVE Inv'
<1>1. CASE ~engine[Target(p)].mounted
  BY <1>1, AbandonReadKeepsInv DEF GetLease, At, ReadStages
<1>2. CASE engine[Target(p)].mounted
  <2>1. WellFormed'
    BY <1>2 DEF GetLease, Inv, TypeOK, WellFormed, Goto, Reply, Kind, Target, Serving, AddStages,
       AllKinds, Mutating, At
  <2> QED
    BY <1>2, <2>1, GotoKeepsInv
    DEF GetLease, Inv, TypeOK, VaultTypeOK, StoreTypeOK, storeVars, Stage, ReadStages
<1> QED
  BY <1>1, <1>2

\* GetRoleName keeps the invariant.
LEMMA GetRoleNameKeepsInv ==
    ASSUME Inv, NEW p \in Req, GetRoleName(p) PROVE Inv'
<1>1. CASE ~HasRole(Target(p))
  BY <1>1, AbandonReadKeepsInv DEF GetRoleName, At, ReadStages
<1>2. CASE HasRole(Target(p))
  <2>1. WellFormed'
    BY <1>2 DEF GetRoleName, Inv, TypeOK, WellFormed, Goto, Reply, Kind, Target, Serving, AddStages,
       AllKinds, Mutating, At
  <2> QED
    BY <1>2, <2>1, GotoKeepsInv
    DEF GetRoleName, Inv, TypeOK, VaultTypeOK, StoreTypeOK, storeVars, Stage, ReadStages
<1> QED
  BY <1>1, <1>2

\* GetRole keeps the invariant.
LEMMA GetRoleKeepsInv ==
    ASSUME Inv, NEW p \in Req, GetRole(p) PROVE Inv'
<1>1. PICK role \in Role \cup {NoRole} :
        loc' = [loc EXCEPT ![p].ctype = role.ctype, ![p].arns = role.arns]
  BY EngineParts DEF GetRole, At
<1>2. role.ctype \in CredentialTypes \cup {Blank} /\ role.arns \in Policies \cup {Blank}
  BY DEF Role, NoRole
<1>3. loc' \in [Req -> Local]
  <2>1. [loc[p] EXCEPT !.ctype = role.ctype, !.arns = role.arns] \in Local
    BY <1>2 DEF Inv, TypeOK, Local
  <2> QED
    BY <1>1, <2>1 DEF Inv, TypeOK
<1>4. Kind(p) \in {"update", "get", "test"}
  BY DEF GetRole, At, Inv, WellFormed, Serving
<1>5. PICK stage \in {"done", "remerge", "test_creds"} :
        /\ Goto(p, stage)
        /\ stage = "remerge" => Kind(p) = "update"
        /\ stage = "test_creds" => Kind(p) = "test"
  BY <1>4 DEF GetRole, Reply
<1>6. WellFormed'
  BY <1>5 DEF GetRole, Inv, TypeOK, WellFormed, Goto, Kind, Target, Serving, AddStages,
       AllKinds, Mutating, At
<1>7. resp' \in [Req -> Response]
  BY <1>4 DEF GetRole, Reply, Response, Inv, TypeOK
<1> QED
  BY <1>3, <1>5, <1>6, <1>7, GotoKeepsInv
  DEF GetRole, Inv, TypeOK, VaultTypeOK, StoreTypeOK, storeVars, Stage

\* VaultReadFails keeps the invariant.
LEMMA VaultReadFailsKeepsInv ==
    ASSUME Inv, NEW p \in Req, VaultReadFails(p) PROVE Inv'
  BY AbandonReadKeepsInv DEF VaultReadFails

\* TestCreds keeps the invariant.
LEMMA TestCredsKeepsInv ==
    ASSUME Inv, NEW p \in Req, TestCreds(p) PROVE Inv'
<1>1. PICK verdict \in {0, 1} : loc' = [loc EXCEPT ![p].row.tested = verdict]
  BY DEF TestCreds
<1>2. [loc[p] EXCEPT !.row.tested = verdict] \in Local
  <2>1. loc[p] \in Local
    BY DEF Inv, TypeOK
  <2> QED
    BY <2>1 DEF Local, Row
<1>3. loc' \in [Req -> Local]
  BY <1>1, <1>2 DEF Inv, TypeOK
<1>4. WellFormed'
  BY DEF TestCreds, Inv, TypeOK, WellFormed, Goto, Reply, Kind, Target, Serving, AddStages,
       AllKinds, Mutating, At
<1> QED
  BY <1>3, <1>4, GotoKeepsInv
  DEF TestCreds, Inv, TypeOK, VaultTypeOK, StoreTypeOK, storeVars, Stage, WriteStages

\* Writing calls to Vault: whatever comes of one, the engines are engines.
LEMMA CallKeepsType ==
    ASSUME VaultTypeOK, NEW i \in Ids, NEW e \in Engine,
           NEW acceptable, NEW ok, Call(i, acceptable, e, ok)
    PROVE  VaultTypeOK'
  BY DEF VaultTypeOK, Call

\* A writing call to Vault and what follows it keep the invariant.
LEMMA ProceedKeepsInv ==
    ASSUME Inv, NEW p \in Req, pc[p] # "idle", NEW ok \in BOOLEAN, NEW next \in Stage,
           Proceed(p, ok, next), VaultTypeOK', Goto(p, next) => WellFormed'
    PROVE  Inv'
<1>1. CASE ~ok
  BY <1>1, FailKeepsInv DEF Proceed, Fail, ErrorCode, Response
<1>2. CASE ok
  BY <1>2, GotoKeepsInv
  DEF Proceed, Inv, TypeOK, StoreTypeOK, storeVars
<1> QED
  BY <1>1, <1>2

\* EnableAWSSecretsEngine keeps the invariant.
LEMMA EnableAWSSecretsEngineKeepsInv ==
    ASSUME Inv, NEW p \in Req, EnableAWSSecretsEngine(p) PROVE Inv'
<1> DEFINE i == Target(p)
           next == "tune"
<1>1. pc[p] = "enable" /\ i \in Ids /\ engine[i] \in Engine
  BY EngineParts DEF EnableAWSSecretsEngine, At
<1>2. PICK ok \in BOOLEAN : Enable(i, ok) /\ Proceed(p, ok, next)
  BY DEF EnableAWSSecretsEngine
<1>3. VaultTypeOK'
  BY <1>1, <1>2, Constants, CallKeepsType DEF Enable, Inv, TypeOK
<1>4. Goto(p, next) => WellFormed'
  BY <1>1, <1>2 DEF Proceed, Inv, TypeOK, WellFormed, Goto, Kind, Target, Serving, AddStages,
       AllKinds, Mutating
<1>5. next \in Stage
  BY DEF Stage, AddStages, WriteStages
<1> HIDE DEF next
<1> QED
  BY <1>1, <1>2, <1>3, <1>4, <1>5, ProceedKeepsInv

\* ConfigureAWSSecretsEngine keeps the invariant.
LEMMA ConfigureAWSSecretsEngineKeepsInv ==
    ASSUME Inv, NEW p \in Req, ConfigureAWSSecretsEngine(p) PROVE Inv'
<1> DEFINE i == Target(p)
           next == "root"
<1>1. pc[p] = "tune" /\ i \in Ids /\ engine[i] \in Engine
  BY EngineParts DEF ConfigureAWSSecretsEngine, At
<1>2. PICK ok \in BOOLEAN : Tune(i, ok) /\ Proceed(p, ok, next)
  BY DEF ConfigureAWSSecretsEngine
<1>3. VaultTypeOK'
  <2>1. [engine[i] EXCEPT !.tuned = TRUE] \in Engine
    BY <1>1 DEF Engine
  <2> QED
    BY <1>1, <1>2, <2>1, CallKeepsType DEF Tune, Inv, TypeOK
<1>4. Goto(p, next) => WellFormed'
  BY <1>1, <1>2 DEF Proceed, Inv, TypeOK, WellFormed, Goto, Kind, Target, Serving, AddStages,
       AllKinds, Mutating
<1>5. next \in Stage
  BY DEF Stage, AddStages, WriteStages
<1> HIDE DEF next
<1> QED
  BY <1>1, <1>2, <1>3, <1>4, <1>5, ProceedKeepsInv

\* ConfigureAWSRootCredentials keeps the invariant.
LEMMA ConfigureAWSRootCredentialsKeepsInv ==
    ASSUME Inv, NEW p \in Req, ConfigureAWSRootCredentials(p) PROVE Inv'
<1> DEFINE i == Target(p)
           next == "role"
<1>1. pc[p] = "root" /\ i \in Ids /\ engine[i] \in Engine
  BY EngineParts DEF ConfigureAWSRootCredentials, At
<1>2. PICK ok \in BOOLEAN : WriteRoot(i, loc[p].access, loc[p].secret, ok) /\ Proceed(p, ok, next)
  BY DEF ConfigureAWSRootCredentials
<1>3. VaultTypeOK'
  <2> DEFINE r == [access |-> loc[p].access, secret |-> loc[p].secret]
  <2>1. r \in Root
    BY DEF Inv, TypeOK, Local, Root
  <2>2. [engine[i] EXCEPT !.root = r] \in Engine
    BY <1>1, <2>1 DEF Engine
  <2> QED
    BY <1>1, <1>2, <2>2, CallKeepsType DEF WriteRoot, Inv, TypeOK
<1>4. Goto(p, next) => WellFormed'
  BY <1>1, <1>2 DEF Proceed, Inv, TypeOK, WellFormed, Goto, Kind, Target, Serving, AddStages,
       AllKinds, Mutating
<1>5. next \in Stage
  BY DEF Stage, AddStages, WriteStages
<1> HIDE DEF next
<1> QED
  BY <1>1, <1>2, <1>3, <1>4, <1>5, ProceedKeepsInv

\* ConfigureAWSIAMRole keeps the invariant.
LEMMA ConfigureAWSIAMRoleKeepsInv ==
    ASSUME Inv, NEW p \in Req, ConfigureAWSIAMRole(p) PROVE Inv'
<1> DEFINE i == Target(p)
           next == IF Kind(p) = "add" THEN "commit" ELSE "save_conn"
<1>1. pc[p] = "role" /\ i \in Ids /\ engine[i] \in Engine
  BY EngineParts DEF ConfigureAWSIAMRole, At
<1>2. PICK ok \in BOOLEAN : WriteRole(i, loc[p].ctype, loc[p].arns, ok) /\ Proceed(p, ok, next)
  BY DEF ConfigureAWSIAMRole
<1>3. VaultTypeOK'
  <2> DEFINE r == [ctype |-> loc[p].ctype, arns |-> loc[p].arns]
  <2>1. CASE loc[p].ctype = Blank
    BY <1>2, <2>1 DEF WriteRole, Call, Inv, TypeOK, VaultTypeOK
  <2>2. CASE loc[p].ctype # Blank
    <3>1. r \in Role
      BY <2>2 DEF Inv, TypeOK, Local, Role
    <3>2. [engine[i] EXCEPT !.role = r] \in Engine
      BY <1>1, <3>1 DEF Engine
    <3> QED
      BY <1>1, <1>2, <3>2, CallKeepsType DEF WriteRole, Inv, TypeOK
  <2> QED
    BY <2>1, <2>2
<1>4. Goto(p, next) => WellFormed'
  BY <1>1, <1>2 DEF Proceed, Inv, TypeOK, WellFormed, Goto, Kind, Target, Serving, AddStages,
       AllKinds, Mutating
<1>5. next \in Stage
  BY DEF Stage, AddStages, WriteStages
<1> HIDE DEF next
<1> QED
  BY <1>1, <1>2, <1>3, <1>4, <1>5, ProceedKeepsInv

\* DisableAWSSecretsEngine keeps the invariant.
LEMMA DisableAWSSecretsEngineKeepsInv ==
    ASSUME Inv, NEW p \in Req, DisableAWSSecretsEngine(p) PROVE Inv'
<1> DEFINE i == Target(p)
           next == IF Kind(p) = "delete" THEN "commit" ELSE "enable"
<1>1. pc[p] = "disable" /\ i \in Ids /\ engine[i] \in Engine
  BY EngineParts DEF DisableAWSSecretsEngine, At
<1>2. PICK ok \in BOOLEAN : Disable(i, ok) /\ Proceed(p, ok, next)
  BY DEF DisableAWSSecretsEngine
<1>3. VaultTypeOK'
  BY <1>1, <1>2, Constants, CallKeepsType DEF Disable, Inv, TypeOK
<1>4. Goto(p, next) => WellFormed'
  BY <1>1, <1>2 DEF Proceed, Inv, TypeOK, WellFormed, Goto, Kind, Target, Serving, AddStages,
       AllKinds, Mutating
<1>5. next \in Stage
  BY DEF Stage, AddStages, WriteStages
<1> HIDE DEF next
<1> QED
  BY <1>1, <1>2, <1>3, <1>4, <1>5, ProceedKeepsInv

\* Statements: a pending write to connections keeps the tables well typed.
LEMMA WriteConnKeepsType ==
    ASSUME StoreTypeOK, NEW p \in Req, NEW k \in CIds, NEW r \in Row \cup {NoRow},
           WriteConn(p, k, r), UNCHANGED <<conns, aws>>
    PROVE  StoreTypeOK'
<1>1. [tx[p] EXCEPT !.conns[k] = r] \in Tx
  <2>1. tx[p] \in Tx
    BY DEF StoreTypeOK
  <2> QED
    BY <2>1 DEF Tx
<1>2. tx' \in [Req -> Tx]
  BY <1>1 DEF StoreTypeOK, WriteConn
<1> QED
  BY <1>2 DEF StoreTypeOK

\* A pending write to aws_connections keeps the tables well typed.
LEMMA WriteAwsKeepsType ==
    ASSUME StoreTypeOK, NEW p \in Req, NEW i \in Ids, NEW c \in CIds \cup {NoRow},
           WriteAws(p, i, c), UNCHANGED <<conns, aws>>
    PROVE  StoreTypeOK'
<1>1. [tx[p] EXCEPT !.aws[i] = c] \in Tx
  <2>1. tx[p] \in Tx
    BY DEF StoreTypeOK
  <2> QED
    BY <2>1 DEF Tx
<1>2. tx' \in [Req -> Tx]
  BY <1>1 DEF StoreTypeOK, WriteAws
<1> QED
  BY <1>2 DEF StoreTypeOK

\* A transaction sees well-typed tables.
LEMMA OverlayType ==
    ASSUME StoreTypeOK, NEW p \in Req
    PROVE  /\ ConnsSeenBy(p) \in [CIds -> Row \cup {NoRow}]
           /\ AwsSeenBy(p) \in [Ids -> CIds \cup {NoRow}]
<1>1. tx[p] \in Tx
  BY DEF StoreTypeOK
<1> QED
  BY <1>1 DEF StoreTypeOK, Tx, ConnsSeenBy, AwsSeenBy, Overlay

\* So does everybody after its COMMIT, failed or not.
LEMMA CommitKeepsType ==
    ASSUME StoreTypeOK, NEW p \in Req, NEW ok \in BOOLEAN, Commit(p, ok)
    PROVE  StoreTypeOK'
<1>1. tx' \in [Req -> Tx]
  BY Constants DEF StoreTypeOK, Commit, Apply, Rollback, Release
<1>2. conns' \in [CIds -> Row \cup {NoRow}] /\ aws' \in [Ids -> CIds \cup {NoRow}]
  BY OverlayType DEF StoreTypeOK, Commit, Apply, Rollback
<1> QED
  BY <1>1, <1>2 DEF StoreTypeOK

\* A statement keeps the invariant if its write and its next stage do.
LEMMA ExecuteKeepsInv ==
    ASSUME Inv, NEW p \in Req, pc[p] # "idle", NEW accepted, NEW write, NEW next \in Stage,
           Execute(p, accepted, write, next),
           write /\ UNCHANGED <<conns, aws>> => StoreTypeOK',
           Goto(p, next) /\ UNCHANGED call => WellFormed'
    PROVE  Inv'
<1>1. CASE ~accepted
  BY <1>1, FailKeepsInv DEF Execute, Fail, ErrorCode, Response, Inv, TypeOK, VaultTypeOK
<1>2. CASE accepted
  BY <1>2, GotoKeepsInv DEF Execute, Inv, TypeOK, VaultTypeOK
<1> QED
  BY <1>1, <1>2

\* CreateConn keeps the invariant.
LEMMA CreateConnKeepsInv ==
    ASSUME Inv, NEW p \in Req, CreateConn(p) PROVE Inv'
<1> DEFINE accepted == ~NameTaken(p, loc[p].cid, loc[p].row)
           write == WriteConn(p, loc[p].cid, loc[p].row)
<1>1. pc[p] = "create_conn" /\ Execute(p, accepted, write, "create_aws")
  BY DEF CreateConn, CanExecute, At
<1>2. Target(p) \in Ids /\ loc[p] \in Local
  BY <1>1 DEF Inv, TypeOK, WellFormed
<1>3. write /\ UNCHANGED <<conns, aws>> => StoreTypeOK'
  BY <1>2, WriteConnKeepsType DEF Inv, TypeOK, Local
<1>4. Goto(p, "create_aws") /\ UNCHANGED call => WellFormed'
  BY <1>1 DEF Inv, TypeOK, WellFormed, Goto, Kind, Target, Serving, AddStages, AllKinds, Mutating
<1>5. "create_aws" \in Stage
  BY DEF Stage, WriteStages, AddStages
<1> HIDE DEF accepted, write
<1> QED
  BY <1>1, <1>3, <1>4, <1>5, ExecuteKeepsInv

\* CreateAws keeps the invariant.
LEMMA CreateAwsKeepsInv ==
    ASSUME Inv, NEW p \in Req, CreateAws(p) PROVE Inv'
<1> DEFINE accepted == TRUE
           write == WriteAws(p, Target(p), loc[p].cid)
<1>1. pc[p] = "create_aws" /\ Execute(p, accepted, write, "enable")
  BY DEF CreateAws, CanExecute, At
<1>2. Target(p) \in Ids /\ loc[p] \in Local
  BY <1>1 DEF Inv, TypeOK, WellFormed
<1>3. write /\ UNCHANGED <<conns, aws>> => StoreTypeOK'
  BY <1>2, WriteAwsKeepsType DEF Inv, TypeOK, Local
<1>4. Goto(p, "enable") /\ UNCHANGED call => WellFormed'
  BY <1>1 DEF Inv, TypeOK, WellFormed, Goto, Kind, Target, Serving, AddStages, AllKinds, Mutating
<1>5. "enable" \in Stage
  BY DEF Stage, WriteStages, AddStages
<1> HIDE DEF accepted, write
<1> QED
  BY <1>1, <1>3, <1>4, <1>5, ExecuteKeepsInv

\* SaveConn keeps the invariant.
LEMMA SaveConnKeepsInv ==
    ASSUME Inv, NEW p \in Req, SaveConn(p) PROVE Inv'
<1> DEFINE accepted == SaveAccepted(p, loc[p].cid, loc[p].row)
           write == WriteConn(p, loc[p].cid, loc[p].row)
<1>1. pc[p] = "save_conn" /\ Execute(p, accepted, write, "save_aws")
  BY DEF SaveConn, CanExecute, At
<1>2. Target(p) \in Ids /\ loc[p] \in Local
  BY <1>1 DEF Inv, TypeOK, WellFormed
<1>3. write /\ UNCHANGED <<conns, aws>> => StoreTypeOK'
  BY <1>2, WriteConnKeepsType DEF Inv, TypeOK, Local
<1>4. Goto(p, "save_aws") /\ UNCHANGED call => WellFormed'
  BY <1>1 DEF Inv, TypeOK, WellFormed, Goto, Kind, Target, Serving, AddStages, AllKinds, Mutating
<1>5. "save_aws" \in Stage
  BY DEF Stage, WriteStages, AddStages
<1> HIDE DEF accepted, write
<1> QED
  BY <1>1, <1>3, <1>4, <1>5, ExecuteKeepsInv

\* SaveAws keeps the invariant.
LEMMA SaveAwsKeepsInv ==
    ASSUME Inv, NEW p \in Req, SaveAws(p) PROVE Inv'
<1> DEFINE accepted == TRUE
           write == WriteAws(p, Target(p), loc[p].cid)
<1>1. pc[p] = "save_aws" /\ Execute(p, accepted, write, "commit")
  BY DEF SaveAws, CanExecute, At
<1>2. Target(p) \in Ids /\ loc[p] \in Local
  BY <1>1 DEF Inv, TypeOK, WellFormed
<1>3. write /\ UNCHANGED <<conns, aws>> => StoreTypeOK'
  BY <1>2, WriteAwsKeepsType DEF Inv, TypeOK, Local
<1>4. Goto(p, "commit") /\ UNCHANGED call => WellFormed'
  BY <1>1 DEF Inv, TypeOK, WellFormed, Goto, Kind, Target, Serving, AddStages, AllKinds, Mutating
<1>5. "commit" \in Stage
  BY DEF Stage, WriteStages, AddStages
<1> HIDE DEF accepted, write
<1> QED
  BY <1>1, <1>3, <1>4, <1>5, ExecuteKeepsInv

\* DeleteAws keeps the invariant.
LEMMA DeleteAwsKeepsInv ==
    ASSUME Inv, NEW p \in Req, DeleteAws(p) PROVE Inv'
<1> DEFINE accepted == Affected(AwsSeenBy(p)[Target(p)])
           write == WriteAws(p, Target(p), NoRow)
<1>1. pc[p] = "del_aws" /\ Execute(p, accepted, write, "del_conn")
  BY DEF DeleteAws, CanExecute, At
<1>2. Target(p) \in Ids /\ loc[p] \in Local
  BY <1>1 DEF Inv, TypeOK, WellFormed
<1>3. write /\ UNCHANGED <<conns, aws>> => StoreTypeOK'
  BY <1>2, WriteAwsKeepsType DEF Inv, TypeOK, Local
<1>4. Goto(p, "del_conn") /\ UNCHANGED call => WellFormed'
  BY <1>1 DEF Inv, TypeOK, WellFormed, Goto, Kind, Target, Serving, AddStages, AllKinds, Mutating
<1>5. "del_conn" \in Stage
  BY DEF Stage, WriteStages, AddStages
<1> HIDE DEF accepted, write
<1> QED
  BY <1>1, <1>3, <1>4, <1>5, ExecuteKeepsInv

\* DeleteConn keeps the invariant.
LEMMA DeleteConnKeepsInv ==
    ASSUME Inv, NEW p \in Req, DeleteConn(p) PROVE Inv'
<1> DEFINE accepted == loc[p].cid # ZeroId /\ Affected(ConnsSeenBy(p)[loc[p].cid])
           write == WriteConn(p, loc[p].cid, NoRow)
<1>1. pc[p] = "del_conn" /\ Execute(p, accepted, write, "disable")
  BY DEF DeleteConn, CanExecute, At
<1>2. Target(p) \in Ids /\ loc[p] \in Local
  BY <1>1 DEF Inv, TypeOK, WellFormed
<1>3. write /\ UNCHANGED <<conns, aws>> => StoreTypeOK'
  BY <1>2, WriteConnKeepsType DEF Inv, TypeOK, Local
<1>4. Goto(p, "disable") /\ UNCHANGED call => WellFormed'
  BY <1>1 DEF Inv, TypeOK, WellFormed, Goto, Kind, Target, Serving, AddStages, AllKinds, Mutating
<1>5. "disable" \in Stage
  BY DEF Stage, WriteStages, AddStages
<1> HIDE DEF accepted, write
<1> QED
  BY <1>1, <1>3, <1>4, <1>5, ExecuteKeepsInv

\* Sending an answer keeps the invariant.
LEMMA ReplyKeepsInv ==
    ASSUME Inv, NEW p \in Req, NEW code \in Response, pc[p] # "idle", Reply(p, code),
           StoreTypeOK', UNCHANGED <<engine, call, loc>>
    PROVE  Inv'
<1>1. WellFormed'
  BY DEF Inv, TypeOK, WellFormed, Goto, Reply, Kind, Target, Serving, AddStages
<1>2. resp' \in [Req -> Response]
  BY DEF Inv, TypeOK, Reply
<1> QED
  BY <1>1, <1>2, GotoKeepsInv DEF Inv, TypeOK, VaultTypeOK, Reply, Stage

\* CommitTx keeps the invariant.
LEMMA CommitTxKeepsInv ==
    ASSUME Inv, NEW p \in Req, CommitTx(p) PROVE Inv'
<1>1. PICK ok \in BOOLEAN : Commit(p, ok) /\ Reply(p, IF ok THEN "200" ELSE ErrorCode(p))
  BY DEF CommitTx
<1>2. StoreTypeOK'
  BY <1>1, CommitKeepsType DEF Inv, TypeOK
<1>3. (IF ok THEN "200" ELSE ErrorCode(p)) \in Response
  BY DEF ErrorCode, Response
<1> QED
  BY <1>1, <1>2, <1>3, ReplyKeepsInv DEF CommitTx, At

\* SaveRow keeps the invariant.
LEMMA SaveRowKeepsInv ==
    ASSUME Inv, NEW p \in Req, SaveRow(p) PROVE Inv'
<1>1. loc[p].cid \in CIds /\ loc[p].row \in Row
  BY DEF Inv, TypeOK, Local
<1>2. StoreTypeOK'
  <2>1. conns' = [conns EXCEPT ![loc[p].cid] = loc[p].row] \/ conns' = conns
    BY DEF SaveRow
  <2> QED
    BY <1>1, <2>1 DEF SaveRow, Inv, TypeOK, StoreTypeOK
<1>3. \E code \in Response : Reply(p, code)
  BY DEF SaveRow, Response
<1> QED
  BY <1>2, <1>3, ReplyKeepsInv DEF SaveRow, CanExecute, At

\* DbFails, DeadlockVictim and Crash, three ways to abort, keep the invariant.
LEMMA AbortKeepsInv ==
    ASSUME Inv, NEW p \in Req, DbFails(p) \/ DeadlockVictim(p) \/ Crash(p) PROVE Inv'
<1>1. pc[p] # "idle"
  BY DEF DbFails, DbStages, WriteStages, DeadlockVictim, WaitsFor, Crash, Active
<1>2. \E code \in Response : FailWith(p, code)
  BY DEF DbFails, DeadlockVictim, Crash, Fail, ErrorCode, Response
<1>3. UNCHANGED <<engine, call>>
  BY DEF DbFails, DeadlockVictim, Crash
<1> QED
  BY <1>1, <1>2, <1>3, FailKeepsInv DEF Inv, TypeOK, VaultTypeOK

\* Start keeps the invariant.
LEMMA StartKeepsInv ==
    ASSUME Inv, NEW p \in Req, Start(p) PROVE Inv'
<1>1. PICK kind \in Kinds, i \in Ids, a \in Apps, b \in Posts \cup Patches \cup {NoBody} :
        /\ kind = "add" => i = p
        /\ call' = [call EXCEPT ![p] = [kind |-> kind, id |-> i, body |-> b, app |-> a]]
        /\ loc' = [loc EXCEPT ![p].fk = IF kind \in {"link", "unlink"} THEN i ELSE ZeroId]
        /\ Goto(p, FirstStage(kind))
  BY DEF Start, Bodies
<1>2. kind \in AllKinds /\ i \in CIds
  BY Constants, CallAssumption
<1>3. /\ kind = "add" => FirstStage(kind) = "validate"
      /\ kind \in {"link", "unlink"} => FirstStage(kind) = "read_conn"
      /\ kind \in {"update", "delete", "get", "test"} => FirstStage(kind) = "read_aws"
  BY DEF FirstStage
<1>4. FirstStage(kind) \in Stage
  BY <1>2, <1>3 DEF AllKinds, Stage
<1>5. call' \in [Req -> Request]
  BY <1>1, <1>2 DEF Inv, TypeOK, Request
<1>6. loc' \in [Req -> Local]
  <2>1. [loc[p] EXCEPT !.fk = IF kind \in {"link", "unlink"} THEN i ELSE ZeroId] \in Local
    BY <1>2, Constants DEF Inv, TypeOK, Local
  <2> QED
    BY <1>1, <2>1 DEF Inv, TypeOK
<1>7. WellFormed'
  BY <1>1, <1>2, <1>3 DEF Inv, TypeOK, WellFormed, Goto, Kind, Target, Serving, AddStages,
     AllKinds, Mutating
<1> QED
  BY <1>1, <1>4, <1>5, <1>6, <1>7
  DEF Start, Inv, TypeOK, VaultTypeOK, StoreTypeOK, storeVars, Goto
------------------------------------------------------------------------------
\* The invariant holds at the start,
LEMMA InitInv == Init => Inv
<1> SUFFICES ASSUME Init PROVE Inv
  OBVIOUS
<1>1. VaultTypeOK
  <2> SUFFICES ASSUME NEW i \in Preloaded
      PROVE [mounted |-> TRUE, tuned |-> TRUE,
             root |-> [access |-> Seed[i].access, secret |-> Seed[i].secret],
             role |-> [ctype |-> Seed[i].ctype, arns |-> Seed[i].arns]] \in Engine
    BY Constants DEF Init, VaultInit, VaultTypeOK
  <2>1. Seed[i] \in SeedEntry
    BY DomainAssumption
  <2> QED
    BY <2>1 DEF SeedEntry, Engine, Root, Role
<1>2. StoreTypeOK
  <2>1. \A k \in Preloaded : Seed[k].row \in Row
    BY DomainAssumption DEF SeedEntry
  <2> QED
    BY <2>1, Constants DEF Init, StoreInit, StoreTypeOK, Ids
<1>3. WellFormed
  BY DEF Init, WellFormed, Serving, AddStages, Kind, NoCall
<1> QED
  BY <1>1, <1>2, <1>3, Constants DEF Init, Inv, TypeOK, Stage, Response

\* every step keeps it,
LEMMA NextInv == Inv /\ [Next]_vars => Inv'
<1> SUFFICES ASSUME Inv, [Next]_vars PROVE Inv'
  OBVIOUS
<1>1. CASE UNCHANGED vars
  BY <1>1 DEF vars, Inv, TypeOK, VaultTypeOK, StoreTypeOK, WellFormed, Kind, Target, Serving
<1>2. ASSUME NEW p \in Req, Start(p) \/ Step(p) \/ Crash(p) PROVE Inv'
  <2>1. CASE Start(p)
    BY <2>1, StartKeepsInv
  <2>2. CASE Read(p)
    BY <2>2, ReadAwsKeepsInv, ReadConnKeepsInv DEF Read
  <2>3. CASE Memory(p)
    BY <2>3, AddValidateKeepsInv, UpdateMergeKeepsInv, UpdateRemergeKeepsInv,
       AppendKeepsInv, RemoveKeepsInv DEF Memory
  <2>4. CASE ReadVault(p)
    BY <2>4, GetConfigKeepsInv, GetLeaseKeepsInv, GetRoleNameKeepsInv, GetRoleKeepsInv,
       VaultReadFailsKeepsInv, TestCredsKeepsInv DEF ReadVault
  <2>5. CASE WriteVault(p)
    BY <2>5, EnableAWSSecretsEngineKeepsInv, ConfigureAWSSecretsEngineKeepsInv,
       ConfigureAWSRootCredentialsKeepsInv, ConfigureAWSIAMRoleKeepsInv,
       DisableAWSSecretsEngineKeepsInv DEF WriteVault
  <2>6. CASE Statement(p)
    BY <2>6, CreateConnKeepsInv, CreateAwsKeepsInv, SaveConnKeepsInv, SaveAwsKeepsInv,
       DeleteAwsKeepsInv, DeleteConnKeepsInv, SaveRowKeepsInv, CommitTxKeepsInv,
       AbortKeepsInv DEF Statement
  <2>7. CASE Crash(p)
    BY <2>7, AbortKeepsInv
  <2> QED
    BY <1>2, <2>1, <2>2, <2>3, <2>4, <2>5, <2>6, <2>7 DEF Step
<1> QED
  BY <1>1, <1>2 DEF Next

\* and so it always holds.
LEMMA InvHolds == Spec => []Inv
  BY InitInv, NextInv, PTL DEF Spec

\* Every state of every instance has the declared shape: no interleaving or
\* failure leaves a handler with a value of the wrong kind, such as a missing
\* row where it expects a connection.
THEOREM TypeCorrect == Spec => []TypeOK
<1>1. Inv => TypeOK
  BY DEF Inv
<1> QED
  BY <1>1, InvHolds, PTL

------------------------------------------------------------------------------
(***************************************************************************)
(* What a step of one request leaves alone, and what it may change.        *)
(***************************************************************************)
\* The handlers of kinds K only, on bodies that clients may send.
Exercised ==
    \A p \in Req : pc[p] # "idle" =>
        /\ Kind(p) \in Kinds
        /\ call[p].body \in Bodies(Kind(p))

\* A request that was not sent asks for nothing.
Fresh == \A p \in Req : pc[p] = "idle" => call[p] = NoCall

\* A step belongs to one request: the others keep their place and their call.
Others(p) == \A q \in Req \ {p} : pc'[q] = pc[q] /\ call'[q] = call[q] /\ loc'[q] = loc[q]

\* Every step of request p leaves the other requests alone.
LEMMA StepIsLocal ==
    ASSUME Inv, NEW p \in Req, Start(p) \/ Step(p) \/ Crash(p)
    PROVE  Others(p)
<1> USE DEF Others, Goto, Reply, FailWith, Fail, Inv, TypeOK
<1>1. CASE Start(p)
  BY <1>1 DEF Start
<1>2. CASE Read(p)
  BY <1>2 DEF Read, ReadAws, ReadConn
<1>3. CASE Memory(p)
  BY <1>3 DEF Memory, AddValidate, UpdateMerge, UpdateRemerge, AppendApp, RemoveApp
<1>4. CASE ReadVault(p)
  <2>1. CASE AbandonRead(p) /\ UNCHANGED call
    BY <2>1 DEF AbandonRead
  <2>2. CASE GetConfig(p) \/ TestCreds(p)
    BY <2>2 DEF GetConfig, TestCreds
  <2>3. CASE GetLease(p) \/ GetRoleName(p) \/ VaultReadFails(p)
    BY <2>1, <2>3 DEF GetLease, GetRoleName, VaultReadFails
  <2>4. CASE GetRole(p)
    <3>1. Kind(p) \in {"update", "get", "test"}
      BY <2>4 DEF GetRole, At, WellFormed, Serving
    <3> QED
      BY <2>4, <3>1 DEF GetRole
  <2> QED
    BY <1>4, <2>2, <2>3, <2>4 DEF ReadVault
<1>5. CASE WriteVault(p)
  BY <1>5 DEF WriteVault, EnableAWSSecretsEngine, ConfigureAWSSecretsEngine,
     ConfigureAWSRootCredentials, ConfigureAWSIAMRole, DisableAWSSecretsEngine, Proceed
<1>6. CASE Statement(p)
  BY <1>6 DEF Statement, CreateConn, CreateAws, SaveConn, SaveAws, DeleteAws, DeleteConn,
     Execute, SaveRow, CommitTx, DbFails, DeadlockVictim
<1>7. CASE Crash(p)
  BY <1>7 DEF Crash
<1> QED
  BY <1>1, <1>2, <1>3, <1>4, <1>5, <1>6, <1>7 DEF Step

\* Only WriteVault changes an engine, or starts from a stage of AddStages,
\* as long as requests are not killed.
LEMMA OnlyWriteVault ==
    ASSUME Inv, NEW p \in Req, Start(p) \/ Read(p) \/ Memory(p) \/ ReadVault(p) \/ Statement(p)
    PROVE  UNCHANGED engine /\ pc[p] \notin AddStages
<1> USE DEF At, AddStages, ReadStages, WriteStages
<1>1. CASE Start(p)
  BY <1>1 DEF Start
<1>2. CASE Read(p)
  BY <1>2 DEF Read, ReadAws, ReadConn
<1>3. CASE Memory(p)
  BY <1>3 DEF Memory, AddValidate, UpdateMerge, UpdateRemerge, AppendApp, RemoveApp
<1>4. CASE ReadVault(p)
  BY <1>4 DEF ReadVault, GetConfig, GetLease, GetRoleName, GetRole, VaultReadFails, TestCreds
<1>5. CASE Statement(p)
  BY <1>5 DEF Statement, CreateConn, CreateAws, SaveConn, SaveAws, DeleteAws, DeleteConn,
     CanExecute, Execute, SaveRow, CommitTx, DbFails, DbStages, DeadlockVictim, WaitsFor
<1> QED
  BY <1>1, <1>2, <1>3, <1>4, <1>5

\* A call is fixed when the request starts.
LEMMA CallIsFixed ==
    ASSUME Inv, NEW p \in Req, Step(p) \/ Crash(p)
    PROVE  UNCHANGED call /\ pc[p] # "idle"
<1> USE DEF At
<1>1. CASE Read(p)
  BY <1>1 DEF Read, ReadAws, ReadConn
<1>2. CASE Memory(p)
  BY <1>2 DEF Memory, AddValidate, UpdateMerge, UpdateRemerge, AppendApp, RemoveApp
<1>3. CASE ReadVault(p)
  BY <1>3 DEF ReadVault, GetConfig, GetLease, GetRoleName, GetRole, VaultReadFails, ReadStages,
     TestCreds
<1>4. CASE WriteVault(p)
  BY <1>4 DEF WriteVault, EnableAWSSecretsEngine, ConfigureAWSSecretsEngine,
     ConfigureAWSRootCredentials, ConfigureAWSIAMRole, DisableAWSSecretsEngine, Proceed
<1>5. CASE Statement(p)
  BY <1>5 DEF Statement, CreateConn, CreateAws, SaveConn, SaveAws, DeleteAws, DeleteConn,
     CanExecute, Execute, SaveRow, CommitTx, DbFails, DbStages, WriteStages, DeadlockVictim,
     WaitsFor
<1>6. CASE Crash(p)
  BY <1>6 DEF Crash, Active
<1> QED
  BY <1>1, <1>2, <1>3, <1>4, <1>5, <1>6 DEF Step

\* A request that is sent is no longer idle.
LEMMA NextFresh ==
    ASSUME Inv, Fresh, NEW p \in Req, Start(p) \/ Step(p) \/ Crash(p)
    PROVE  Fresh' /\ pc'[p] # "idle"
<1>1. pc'[p] # "idle"
  <2> USE DEF At, Goto, Inv, TypeOK, Fail, FailWith, Reply
  <2>1. CASE Start(p)
    <3>1. PICK kind \in AllKinds : pc'[p] = FirstStage(kind)
      BY <2>1, CallAssumption DEF Start
    <3> QED
      BY <3>1 DEF FirstStage, AllKinds
  <2>2. CASE Read(p)
    <3>1. ReadConn(p) => AfterRead(Kind(p)) # "idle"
      <4>1. ReadConn(p) => Kind(p) \in AllKinds \ {"add"}
        BY DEF ReadConn, WellFormed, Serving
      <4> QED
        BY <4>1 DEF AfterRead, AllKinds
    <3> QED
      BY <2>2, <3>1 DEF Read, ReadAws, ReadConn
  <2>3. CASE Memory(p)
    BY <2>3 DEF Memory, AddValidate, UpdateMerge, UpdateRemerge, AppendApp, RemoveApp
  <2>4. CASE ReadVault(p)
    <3>1. AbandonRead(p) => pc'[p] # "idle"
      BY DEF AbandonRead
    <3>2. GetRole(p) => pc'[p] # "idle"
      <4>1. GetRole(p) => Kind(p) \in {"update", "get", "test"}
        BY DEF GetRole, WellFormed, Serving
      <4> QED
        BY <4>1 DEF GetRole
    <3> QED
      BY <2>4, <3>1, <3>2
      DEF ReadVault, GetConfig, GetLease, GetRoleName, VaultReadFails, TestCreds
  <2>5. CASE WriteVault(p)
    BY <2>5 DEF WriteVault, EnableAWSSecretsEngine, ConfigureAWSSecretsEngine,
       ConfigureAWSRootCredentials, ConfigureAWSIAMRole, DisableAWSSecretsEngine, Proceed
  <2>6. CASE Statement(p)
    BY <2>6 DEF Statement, CreateConn, CreateAws, SaveConn, SaveAws, DeleteAws, DeleteConn,
       SaveRow, CommitTx, DbFails, DeadlockVictim, Execute
  <2>7. CASE Crash(p)
    BY <2>7 DEF Crash
  <2> QED
    BY <2>1, <2>2, <2>3, <2>4, <2>5, <2>6, <2>7 DEF Step
<1>2. Fresh'
  BY <1>1, StepIsLocal DEF Others, Fresh
<1> QED
  BY <1>1, <1>2

\* What was asked for stays asked for.
LEMMA TargetedGrows ==
    ASSUME Inv, Fresh, NEW p \in Req, Start(p) \/ Step(p) \/ Crash(p),
           NEW i, NEW K, "none" \notin K, Targeted(i, K)
    PROVE  Targeted(i, K)'
<1>1. PICK q \in Req : Kind(q) \in K /\ Target(q) = i
  BY DEF Targeted
<1>2. UNCHANGED call \/ (pc[p] = "idle" /\ \A r \in Req \ {p} : call'[r] = call[r])
  BY StepIsLocal, CallIsFixed DEF Start, At, Others
<1>3. pc[q] # "idle"
  <2>1. NoCall.kind = "none"
    BY DEF NoCall
  <2> QED
    BY <1>1, <2>1 DEF Fresh, Kind
<1> QED
  BY <1>1, <1>2, <1>3 DEF Targeted, Kind, Target

\* Only the endpoints and bodies of the constants are ever used.
LEMMA NextExercised ==
    ASSUME Inv, Exercised, NEW p \in Req, Start(p) \/ Step(p) \/ Crash(p)
    PROVE  Exercised'
<1>1. \A q \in Req \ {p} : pc'[q] = pc[q] /\ call'[q] = call[q]
  BY StepIsLocal DEF Others
<1>2. pc'[p] # "idle" => Kind(p)' \in Kinds /\ call'[p].body \in Bodies(Kind(p)')
  <2>1. CASE Start(p)
    BY <2>1 DEF Start, Kind, Inv, TypeOK
  <2>2. CASE Step(p) \/ Crash(p)
    BY <2>2, CallIsFixed DEF Exercised, Kind
  <2> QED
    BY <2>1, <2>2
<1> QED
  BY <1>1, <1>2 DEF Exercised, Kind

\* What engine i still lacks is accounted for.
Accounted(i) ==
    LET e == engine[i] IN
    /\ ~e.mounted => Updating(i, {"enable"})
    /\ e.mounted /\ ~e.tuned => Updating(i, {"tune"})
    /\ e.mounted /\ e.root = None => Updating(i, {"tune", "root"})
    /\ e.mounted /\ e.role = None => Updating(i, {"tune", "root", "role"})

\* The requests that keep an account are still where they were, unless they
\* are the one that steps.
LEMMA OthersKeepUpdating ==
    ASSUME NEW p \in Req, Others(p), NEW i, NEW S, Updating(i, S),
           Kind(p) # "update" \/ Target(p) # i \/ pc[p] \notin S
    PROVE  Updating(i, S)'
  BY DEF Updating, Others, Kind, Target
=============================================================================
