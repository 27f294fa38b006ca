------------------------- MODULE RegistryRefinement -------------------------
(***************************************************************************)
(* ConnectionManager implements ConnectionRegistry, for any requests,      *)
(* endpoints, bodies and faults; and the properties that the same          *)
(* invariant gives.                                                        *)
(***************************************************************************)
EXTENDS ConnectionManager_proofs

(***************************************************************************)
(* What a step of a handler comes to.                                      *)
(***************************************************************************)
\* The handler gives up: nothing of its transaction stays.
Failed(p) == /\ \E code \in Response \ {"none", "200"} : FailWith(p, code)
             /\ UNCHANGED call

\* The stages at which a transaction has no pending aws_connections row, nor
\* calls to Vault behind it.
Early == {"read_aws", "read_conn", "merge", "remerge", "validate", "create_conn", "del_aws",
          "test_creds", "append", "remove", "save_row"} \cup ReadStages

\* In memory, it learns of no connection but its own and those in the tables.
Learns(p) ==
    /\ loc'[p].fk \in {loc[p].fk, aws[Target(p)]} \/ (Kind(p) = "add" /\ loc'[p].fk = p)
    /\ loc'[p].cid \in {loc[p].cid, loc[p].fk} \/ (Kind(p) = "add" /\ loc'[p].cid = p)

Quiet(p) ==
    /\ UNCHANGED <<engine, conns, aws, tx, call, resp>>
    /\ pc[p] \in Early
    /\ pc'[p] \in Early \/ (Kind(p) = "update" /\ pc'[p] = "disable")
    /\ Learns(p)

\* A GET is answered.
Shown(p) == /\ Kind(p) = "get"
            /\ UNCHANGED <<engine, conns, aws, tx, call>>
            /\ Reply(p, "200")
            /\ Learns(p)

\* Statements that were accepted.
WroteConn(p) ==
    /\ UNCHANGED <<engine, conns, aws, call, loc, resp>>
    /\ <<pc[p], pc'[p]>> \in {<<"create_conn", "create_aws">>, <<"save_conn", "save_aws">>,
                              <<"del_conn", "disable">>}
    /\ \E r \in Row \cup {NoRow} : WriteConn(p, loc[p].cid, r)

WroteAws(p) ==
    /\ UNCHANGED <<engine, conns, aws, call, loc, resp>>
    /\ AwsOwners(p, Target(p)) = {}
    /\ \/ /\ <<pc[p], pc'[p]>> \in {<<"create_aws", "enable">>, <<"save_aws", "commit">>}
          /\ WriteAws(p, Target(p), loc[p].cid)
       \/ /\ pc[p] = "del_aws" /\ pc'[p] = "del_conn"
          /\ AwsSeenBy(p)[Target(p)] # NoRow
          /\ WriteAws(p, Target(p), NoRow)

\* A call to Vault after which it goes on.
NextCall(p) == CASE pc[p] = "enable"  -> "tune"
                 [] pc[p] = "tune"    -> "root"
                 [] pc[p] = "root"    -> "role"
                 [] pc[p] = "role"    -> IF Kind(p) = "add" THEN "commit" ELSE "save_conn"
                 [] pc[p] = "disable" -> IF Kind(p) = "delete" THEN "commit" ELSE "enable"

Called(p) == /\ UNCHANGED <<conns, aws, tx, call, loc, resp>>
             /\ pc[p] \in AddStages \cup {"disable"}
             /\ pc'[p] = NextCall(p)

\* A query, a step in memory or a reading call fails, goes on or answers.
LEMMA ReadingOutcome ==
    ASSUME Inv, NEW p \in Req, Read(p) \/ Memory(p) \/ ReadVault(p)
    PROVE  UNCHANGED engine /\ (Failed(p) \/ Quiet(p) \/ Shown(p))
<1> USE DEF At, Inv, TypeOK, Goto, storeVars
<1>0. UNCHANGED engine
  BY OnlyWriteVault
<1>1. ASSUME Fail(p), UNCHANGED call PROVE Failed(p)
  BY <1>1 DEF Failed, Fail, ErrorCode, Response
<1>2. CASE ReadAws(p)
  <2>1. aws[Target(p)] # NoRow => Quiet(p)
    <3>1. pc[p] = "read_aws" => Target(p) \in Ids
      BY DEF WellFormed
    <3> QED
      BY <1>2, <3>1 DEF ReadAws, Quiet, Learns, Early, Local
  <2> QED
    BY <1>0, <1>1, <1>2, <2>1 DEF ReadAws
<1>3. CASE ReadConn(p)
  <2>1. Kind(p) \in AllKinds \ {"add"}
    BY <1>3 DEF ReadConn, WellFormed, Serving
  <2>2. AfterRead(Kind(p)) \in Early
    BY <2>1 DEF AfterRead, AllKinds, Early, ReadStages
  <2>3. Fail(p) \/ Quiet(p)
    BY <1>0, <1>3, <2>2 DEF ReadConn, Quiet, Learns, Early, Local
  <2> QED
    BY <1>0, <1>1, <1>3, <2>3 DEF ReadConn
<1>4. CASE AddValidate(p)
  <2>1. FailWith(p, "400") \/ Quiet(p)
    BY <1>4 DEF AddValidate, Quiet, Learns, Early, WellFormed, Serving
  <2> QED
    BY <1>0, <1>4, <2>1 DEF AddValidate, Failed, Response
<1>5. CASE UpdateMerge(p)
  <2>1. Merge(loc[p], call[p].body).fk = loc[p].fk /\ Merge(loc[p], call[p].body).cid = loc[p].cid
    BY DEF Merge, Local
  <2>2. Fail(p) \/ FailWith(p, "400") \/ Quiet(p)
    BY <1>0, <1>5, <2>1 DEF UpdateMerge, Quiet, Learns, Early, ReadStages
  <2> QED
    BY <1>0, <1>1, <1>5, <2>2 DEF UpdateMerge, Failed, Response
<1>6. CASE UpdateRemerge(p)
  <2>1. Merge(loc[p], call[p].body).fk = loc[p].fk /\ Merge(loc[p], call[p].body).cid = loc[p].cid
    BY DEF Merge, Local
  <2>2. Merge(loc[p], call[p].body) \in Local
    BY Constants, MergeType DEF Request
  <2>3. loc'[p].fk = loc[p].fk /\ loc'[p].cid = loc[p].cid
    BY <1>6, <2>1, <2>2 DEF UpdateRemerge, Local
  <2>4. Kind(p) = "update"
    BY <1>6 DEF UpdateRemerge, WellFormed, Serving
  <2> QED
    BY <1>6, <2>3, <2>4 DEF UpdateRemerge, Quiet, Learns, Early
<1>7. CASE AppendApp(p) \/ RemoveApp(p)
  <2>1. Failed(p) \/ (UNCHANGED <<engine, storeVars, call, resp>> /\ pc'[p] = "save_row"
                      /\ loc'[p].fk = loc[p].fk /\ loc'[p].cid = loc[p].cid)
    BY <1>7 DEF AppendApp, RemoveApp, Failed, Response, Local
  <2> QED
    BY <1>0, <1>7, <2>1 DEF AppendApp, RemoveApp, Quiet, Learns, Early
<1>8. CASE ReadVault(p)
  <2>1. loc'[p].fk = loc[p].fk /\ loc'[p].cid = loc[p].cid => Learns(p)
    BY DEF Learns
  <2>2. ASSUME AbandonRead(p), UNCHANGED <<engine, call>>, pc[p] \in Early
        PROVE  Failed(p) \/ Quiet(p)
    BY <1>1, <2>1, <2>2 DEF AbandonRead, Quiet, Early, Local
  <2>3. CASE GetConfig(p) \/ TestCreds(p)
    BY <2>1, <2>3 DEF GetConfig, TestCreds, Quiet, Early, ReadStages, Local
  <2>4. CASE GetLease(p) \/ GetRoleName(p) \/ VaultReadFails(p)
    BY <2>1, <2>2, <2>4
    DEF GetLease, GetRoleName, VaultReadFails, Quiet, Early, ReadStages
  <2>5. CASE GetRole(p)
    <3>1. loc'[p].fk = loc[p].fk /\ loc'[p].cid = loc[p].cid
      BY <2>5 DEF GetRole, Local
    <3>2. Kind(p) \in {"update", "get", "test"}
      BY <2>5 DEF GetRole, WellFormed, Serving
    <3> QED
      BY <2>1, <2>5, <3>1, <3>2 DEF GetRole, Quiet, Shown, Early, ReadStages
  <2> QED
    BY <1>0, <1>8, <2>3, <2>4, <2>5 DEF ReadVault
<1> QED
  BY <1>2, <1>3, <1>4, <1>5, <1>6, <1>7, <1>8 DEF Read, Memory

\* A statement fails or is pending, but for COMMIT and for UpdateObject's.
LEMMA StatementOutcome ==
    ASSUME Inv, NEW p \in Req, Statement(p)
    PROVE  /\ UNCHANGED engine
           /\ Failed(p) \/ WroteConn(p) \/ WroteAws(p) \/ SaveRow(p) \/ CommitTx(p)
<1> USE DEF At, Inv, TypeOK, Goto
<1>0. UNCHANGED engine
  BY OnlyWriteVault
<1>1. ASSUME Fail(p), UNCHANGED call PROVE Failed(p)
  BY <1>1 DEF Failed, Fail, ErrorCode, Response
<1>2. CASE CreateConn(p) \/ SaveConn(p) \/ DeleteConn(p)
  <2>1. loc[p].row \in Row
    BY DEF Local
  <2>2. Fail(p) \/ WroteConn(p)
    BY <1>2, <2>1 DEF CreateConn, SaveConn, DeleteConn, CanExecute, Execute, WroteConn
  <2> QED
    BY <1>0, <1>1, <1>2, <2>2 DEF CreateConn, SaveConn, DeleteConn, Execute
<1>3. CASE CreateAws(p) \/ SaveAws(p) \/ DeleteAws(p)
  <2>1. AwsOwners(p, Target(p)) = {}
    BY <1>3 DEF CreateAws, SaveAws, DeleteAws, CanExecute, WaitsFor
  <2>2. Fail(p) \/ WroteAws(p)
    BY <1>3, <2>1 DEF CreateAws, SaveAws, DeleteAws, CanExecute, Execute, WroteAws, Affected
  <2> QED
    BY <1>0, <1>1, <1>3, <2>2 DEF CreateAws, SaveAws, DeleteAws, Execute
<1>4. CASE DbFails(p) \/ DeadlockVictim(p)
  BY <1>0, <1>1, <1>4 DEF DbFails, DeadlockVictim
<1> QED
  BY <1>0, <1>2, <1>3, <1>4 DEF Statement

\* A writing call fails or leads to the next stage.
LEMMA CallOutcome ==
    ASSUME Inv, NEW p \in Req, WriteVault(p)
    PROVE  Failed(p) \/ Called(p)
<1> USE DEF At, Inv, TypeOK, Goto, AddStages
<1>1. ASSUME NEW ok \in BOOLEAN, Proceed(p, ok, NextCall(p)), pc[p] \in AddStages \cup {"disable"}
      PROVE  Failed(p) \/ Called(p)
  BY <1>1 DEF Proceed, Fail, Failed, ErrorCode, Response, Called, storeVars
<1> QED
  BY <1>1 DEF WriteVault, EnableAWSSecretsEngine, ConfigureAWSSecretsEngine, NextCall,
     ConfigureAWSRootCredentials, ConfigureAWSIAMRole, DisableAWSSecretsEngine

\* All that a step of a handler can come to.
Outcome(p) ==
    \/ Failed(p) /\ (UNCHANGED engine \/ WriteVault(p))
    \/ Called(p) /\ WriteVault(p)
    \/ /\ UNCHANGED engine
       /\ Quiet(p) \/ Shown(p) \/ WroteConn(p) \/ WroteAws(p) \/ SaveRow(p) \/ CommitTx(p)

\* Every step of a handler comes to one of these.
LEMMA StepOutcome ==
    ASSUME Inv, NEW p \in Req, Step(p) \/ Crash(p)
    PROVE  Outcome(p)
<1>1. Crash(p) => Failed(p) /\ UNCHANGED engine
  BY DEF Crash, Failed, Response
<1> QED
  BY <1>1, ReadingOutcome, StatementOutcome, CallOutcome DEF Step, Outcome
------------------------------------------------------------------------------
(***************************************************************************)
(* The invariant, in parts.                                                *)
(***************************************************************************)
\* A request is answered when its handler is through, and not before.
Answered == \A p \in Req : resp[p] = "none" <=> pc[p] # "done"

\* p's transaction has written, and not committed, its aws_connections row.
HasWritten(p) ==
    \/ Kind(p) = "add" /\ pc[p] \in AddStages \cup {"commit"}
    \/ Kind(p) = "update" /\ pc[p] = "commit"
    \/ Kind(p) = "delete" /\ pc[p] \in {"del_conn", "disable", "commit"}

Pending ==
    \A p \in Req, i \in Ids :
        LET write == tx[p].aws[i] IN
        /\ write # NoWrite <=> HasWritten(p) /\ i = Target(p)
        /\ write # NoWrite => (write = NoRow <=> Kind(p) = "delete")

\* A pending write locks its row.
Exclusive ==
    \A p, q \in Req, i \in Ids : tx[p].aws[i] # NoWrite /\ tx[q].aws[i] # NoWrite => p = q

\* A DELETE that locks its row has a row to delete.
Deletable == \A p \in Req : Kind(p) = "delete" /\ HasWritten(p) => aws[Target(p)] # NoRow

\* Nothing in request q or its transaction refers to UUID r,
Strange(q, r) ==
    /\ Target(q) # r
    /\ loc[q].fk # r /\ loc[q].cid # r
    /\ tx[q].conns[r] = NoWrite
    /\ \A i \in Ids : tx[q].aws[i] # r

\* nor does anything but the POST that minted it,
Unknown(r) ==
    /\ conns[r] = NoRow /\ aws[r] = NoRow
    /\ \A i \in Ids : aws[i] # r
    /\ \A q \in Req : Strange(q, r) \/ (q = r /\ Kind(r) = "add")

\* before that POST is over.
Over(r) == Kind(r) = "add" /\ pc[r] = "done"
UuidsAreNew == \A r \in Req : Over(r) \/ Unknown(r)

TablesInv == Inv /\ Fresh /\ Answered /\ Pending /\ Exclusive /\ Deletable /\ UuidsAreNew

\* The invariant of the tables holds at the start.
LEMMA InitTables == Init => TablesInv
<1> SUFFICES ASSUME Init PROVE TablesInv
  OBVIOUS
<1>1. Fresh /\ Answered
  BY DEF Init, Fresh, Answered
<1>2. \A p \in Req : ~HasWritten(p)
  BY DEF Init, HasWritten, AddStages
<1>3. \A p \in Req, i \in Ids : tx[p].aws[i] = NoWrite
  BY DEF Init, StoreInit, NoTx
<1>4. Pending /\ Exclusive /\ Deletable
  BY <1>2, <1>3 DEF Pending, Exclusive, Deletable
<1>5. UuidsAreNew
  <2> SUFFICES ASSUME NEW r \in Req PROVE Unknown(r)
    BY DEF UuidsAreNew
  <2>1. r \notin Preloaded /\ r # ZeroId /\ NoRow # r /\ NoWrite # r
    BY DomainAssumption DEF Ids, CIds
  <2>2. conns[r] = NoRow /\ aws[r] = NoRow /\ \A i \in Ids : aws[i] # r
    BY <2>1 DEF Init, StoreInit, Ids, CIds
  <2>3. ASSUME NEW q \in Req PROVE Strange(q, r)
    <3>1. Target(q) = ZeroId /\ loc[q].fk = ZeroId /\ loc[q].cid = ZeroId
      BY DEF Init, NoCall, Target, ZeroLocal
    <3>2. tx[q].conns[r] = NoWrite
      BY Constants DEF Init, StoreInit, NoTx
    <3> QED
      BY <1>3, <2>1, <3>1, <3>2 DEF Strange
  <2> QED
    BY <2>2, <2>3 DEF Unknown
<1> QED
  BY <1>1, <1>4, <1>5, InitInv DEF TablesInv

\* Only the request that steps changes its transaction.
LEMMA TxIsLocal ==
    ASSUME Inv, NEW p \in Req, Outcome(p)
    PROVE  \A q \in Req \ {p} : tx'[q] = tx[q]
<1> USE DEF Inv, TypeOK, StoreTypeOK
<1>1. CASE Failed(p)
  BY <1>1 DEF Failed, FailWith, Rollback, Release
<1>2. CASE CommitTx(p)
  BY <1>2 DEF CommitTx, Commit, Rollback, Apply, Release
<1>3. CASE WroteConn(p) \/ WroteAws(p)
  BY <1>3 DEF WroteConn, WroteAws, WriteConn, WriteAws
<1> QED
  BY <1>1, <1>2, <1>3 DEF Outcome, Called, Quiet, Shown, SaveRow

\* When a request is answered, it is through.
LEMMA NextAnswered ==
    ASSUME TablesInv, NEW p \in Req, Start(p) \/ Step(p) \/ Crash(p)
    PROVE  Answered'
<1> USE DEF TablesInv, Inv, TypeOK, Goto, Answered
<1>1. CASE Start(p)
  <2>1. pc[p] = "idle" /\ pc'[p] # "done" /\ UNCHANGED resp
    <3>1. PICK kind \in AllKinds : pc'[p] = FirstStage(kind)
      BY <1>1, CallAssumption DEF Start
    <3> QED
      BY <1>1, <3>1 DEF Start, At, FirstStage, AllKinds
  <2> QED
    BY <1>1, <2>1, StepIsLocal DEF Others
<1>2. CASE Step(p) \/ Crash(p)
  <2>1. Outcome(p)
    BY <1>2, StepOutcome
  <2>2. \/ UNCHANGED resp /\ pc[p] # "done" /\ pc'[p] # "done"
        \/ \E code \in Response \ {"none"} : Reply(p, code)
    <3>1. CASE Failed(p)
      BY <3>1 DEF Failed, FailWith
    <3>2. CASE Called(p)
      BY <3>2 DEF Called, NextCall, AddStages
    <3>3. CASE Quiet(p) \/ WroteConn(p) \/ WroteAws(p)
      BY <3>3 DEF Quiet, WroteConn, WroteAws, Early, ReadStages
    <3>4. CASE Shown(p) \/ SaveRow(p) \/ CommitTx(p)
      BY <3>4 DEF Shown, SaveRow, CommitTx, ErrorCode, Response
    <3> QED
      BY <2>1, <3>1, <3>2, <3>3, <3>4 DEF Outcome
  <2>3. Others(p)
    BY <1>2, StepIsLocal
  <2> QED
    BY <2>2, <2>3 DEF Reply, Others
<1> QED
  BY <1>1, <1>2

\* What the call of a request is before it is sent.
LEMMA NotSent ==
    ASSUME Fresh, NEW p \in Req, pc[p] = "idle"
    PROVE  Kind(p) = "none" /\ Target(p) = ZeroId
<1>1. NoCall.kind = "none" /\ NoCall.id = ZeroId
  BY DEF NoCall
<1> QED
  BY <1>1 DEF Fresh, Kind, Target

\* Whether its row is written follows from a request's stage.
LEMMA WrittenFollows ==
    ASSUME TablesInv, NEW p \in Req, Outcome(p), UNCHANGED call
    PROVE  /\ WroteAws(p) => ~HasWritten(p) /\ HasWritten(p)'
           /\ Quiet(p) \/ Shown(p) \/ WroteConn(p) \/ Called(p) \/ SaveRow(p)
                => (HasWritten(p)' <=> HasWritten(p))
           /\ Failed(p) \/ CommitTx(p) => ~HasWritten(p)'
           /\ CommitTx(p) => HasWritten(p)
           /\ WroteAws(p) /\ pc[p] = "del_aws" <=> WroteAws(p) /\ Kind(p) = "delete"
<1> USE DEF TablesInv, Inv, TypeOK, WellFormed, Serving, HasWritten, Kind
<1>1. WroteAws(p) => ~HasWritten(p) /\ HasWritten(p)'
  BY DEF WroteAws, AddStages
<1>2. Quiet(p) => (HasWritten(p)' <=> HasWritten(p))
  BY DEF Quiet, Early, ReadStages, AddStages
<1>3. Shown(p) \/ SaveRow(p) => (HasWritten(p)' <=> HasWritten(p))
  BY DEF Shown, SaveRow, CanExecute, At, Reply, Goto, AddStages
<1>4. WroteConn(p) => (HasWritten(p)' <=> HasWritten(p))
  BY DEF WroteConn, AddStages
<1>5. Called(p) => (HasWritten(p)' <=> HasWritten(p))
  BY DEF Called, NextCall, AddStages
<1>6. Failed(p) \/ CommitTx(p) => ~HasWritten(p)'
  BY DEF Failed, FailWith, CommitTx, At, Reply, Goto, AddStages, Mutating
<1>7. CommitTx(p) => HasWritten(p)
  BY DEF CommitTx, At, Mutating
<1>8. WroteAws(p) /\ pc[p] = "del_aws" <=> WroteAws(p) /\ Kind(p) = "delete"
  BY DEF WroteAws
<1> QED
  BY <1>1, <1>2, <1>3, <1>4, <1>5, <1>6, <1>7, <1>8

\* A write to aws_connections becomes pending, and nothing else changes.
LEMMA WriteAwsEffect ==
    ASSUME StoreTypeOK, NEW p \in Req, NEW i \in Ids, NEW w, WriteAws(p, i, w)
    PROVE  /\ tx'[p].aws[i] = w
           /\ \A j \in Ids \ {i} : tx'[p].aws[j] = tx[p].aws[j]
           /\ tx'[p].conns = tx[p].conns
<1>1. tx[p] \in Tx
  BY DEF StoreTypeOK
<1>2. tx'[p] = [tx[p] EXCEPT !.aws[i] = w]
  BY DEF StoreTypeOK, WriteAws
<1> QED
  BY <1>1, <1>2 DEF Tx

\* A write to connections becomes pending, and nothing else changes.
LEMMA WriteConnEffect ==
    ASSUME StoreTypeOK, NEW p \in Req, NEW k \in CIds, NEW r, WriteConn(p, k, r)
    PROVE  /\ tx'[p].conns[k] = r
           /\ \A j \in CIds \ {k} : tx'[p].conns[j] = tx[p].conns[j]
           /\ tx'[p].aws = tx[p].aws
<1>1. tx[p] \in Tx
  BY DEF StoreTypeOK
<1>2. tx'[p] = [tx[p] EXCEPT !.conns[k] = r]
  BY DEF StoreTypeOK, WriteConn
<1> QED
  BY <1>1, <1>2 DEF Tx

\* The row that p's transaction writes, in the state after it.
Wrote(p) ==
    /\ Target(p) \in Ids
    /\ tx'[p].aws[Target(p)] # NoWrite
    /\ tx'[p].aws[Target(p)] \in {NoRow, loc[p].cid}
    /\ tx'[p].aws[Target(p)] = NoRow <=> pc[p] = "del_aws"
    /\ \A i \in Ids \ {Target(p)} : tx'[p].aws[i] = tx[p].aws[i]

\* An accepted statement on aws_connections leaves such a write.
LEMMA WroteAwsEffect ==
    ASSUME Inv, NEW p \in Req, WroteAws(p)
    PROVE  Wrote(p)
<1>1. PICK t \in Ids : t = Target(p)
  BY DEF WroteAws, Inv, WellFormed
<1>2. PICK c \in CIds : c = loc[p].cid
  BY DEF Inv, TypeOK, Local
<1>3. c \notin {NoRow, NoWrite} /\ NoRow # NoWrite
  BY DomainAssumption
<1>4. CASE pc[p] = "del_aws"
  <2>1. WriteAws(p, t, NoRow)
    BY <1>1, <1>4 DEF WroteAws
  <2>2. /\ tx'[p].aws[t] = NoRow
        /\ \A i \in Ids \ {t} : tx'[p].aws[i] = tx[p].aws[i]
    BY <2>1, WriteAwsEffect DEF Inv, TypeOK
  <2> QED
    BY <1>1, <1>3, <1>4, <2>2 DEF Wrote
<1>5. CASE pc[p] # "del_aws"
  <2>1. WriteAws(p, t, c)
    BY <1>1, <1>2, <1>5 DEF WroteAws
  <2>2. /\ tx'[p].aws[t] = c
        /\ \A i \in Ids \ {t} : tx'[p].aws[i] = tx[p].aws[i]
    BY <2>1, WriteAwsEffect DEF Inv, TypeOK
  <2> QED
    BY <1>1, <1>2, <1>3, <1>5, <2>2 DEF Wrote
<1> QED
  BY <1>4, <1>5

\* What the transaction of the request that steps has pending.
LEMMA PendingFollows ==
    ASSUME TablesInv, NEW p \in Req, Outcome(p)
    PROVE  /\ Failed(p) \/ CommitTx(p) => \A i \in Ids : tx'[p].aws[i] = NoWrite
           /\ Quiet(p) \/ Shown(p) \/ WroteConn(p) \/ Called(p) \/ SaveRow(p)
                => \A i \in Ids : tx'[p].aws[i] = tx[p].aws[i]
           /\ WroteAws(p) => Wrote(p)
<1> USE DEF TablesInv
<1>1. Failed(p) \/ CommitTx(p) => \A i \in Ids : tx'[p].aws[i] = NoWrite
  BY DEF Failed, FailWith, CommitTx, Commit, Rollback, Apply, Release, NoTx,
     Inv, TypeOK, StoreTypeOK
<1>2. WroteConn(p) => \A i \in Ids : tx'[p].aws[i] = tx[p].aws[i]
  BY DEF WroteConn, WriteConn, Tx, Inv, TypeOK, StoreTypeOK
<1>3. WroteAws(p) => Wrote(p)
  BY WroteAwsEffect
<1> QED
  BY <1>1, <1>2, <1>3 DEF Quiet, Shown, Called, SaveRow, Wrote

\* The pending writes, and their locks, are as the stages say.
LEMMA NextPending ==
    ASSUME TablesInv, NEW p \in Req, Step(p) \/ Crash(p)
    PROVE  Pending' /\ Exclusive'
<1>1. Outcome(p) /\ Others(p) /\ UNCHANGED call
  BY StepOutcome, StepIsLocal, CallIsFixed DEF TablesInv
<1>2. \A q \in Req \ {p} : tx'[q] = tx[q] /\ (HasWritten(q)' <=> HasWritten(q))
  BY <1>1, TxIsLocal DEF TablesInv, Others, HasWritten, Kind
<1>3. \A q \in Req : Target(q)' = Target(q) /\ Kind(q)' = Kind(q)
  BY <1>1 DEF Target, Kind
<1> DEFINE PendingOf(q, i) ==
      /\ tx[q].aws[i] # NoWrite <=> HasWritten(q) /\ i = Target(q)
      /\ tx[q].aws[i] # NoWrite => (tx[q].aws[i] = NoRow <=> Kind(q) = "delete")
<1>4. \A q \in Req, i \in Ids : PendingOf(q, i)
  BY DEF TablesInv, Pending
<1>5. \A i \in Ids : PendingOf(p, i)'
  <2>1. CASE Failed(p) \/ CommitTx(p)
    BY <1>1, <2>1, PendingFollows, WrittenFollows
  <2>2. CASE Quiet(p) \/ Shown(p) \/ WroteConn(p) \/ Called(p) \/ SaveRow(p)
    BY <1>1, <1>3, <1>4, <2>2, PendingFollows, WrittenFollows
  <2>3. CASE WroteAws(p)
    BY <1>1, <1>3, <1>4, <2>3, PendingFollows, WrittenFollows DEF Wrote
  <2> QED
    BY <1>1, <2>1, <2>2, <2>3 DEF Outcome
<1>6. Pending'
  <2>1. \A q \in Req, i \in Ids : PendingOf(q, i)'
    BY <1>2, <1>3, <1>4, <1>5
  <2> QED
    BY <2>1 DEF Pending
<1>7. Exclusive'
  <2> SUFFICES ASSUME NEW q \in Req \ {p}, NEW i \in Ids,
                      tx'[p].aws[i] # NoWrite, tx[q].aws[i] # NoWrite
               PROVE  FALSE
    BY <1>2 DEF TablesInv, Exclusive
  <2>1. CASE WroteAws(p)
    <3>1. i # Target(p)
      BY <2>1 DEF WroteAws, AwsOwners
    <3> QED
      BY <1>1, <2>1, <3>1, PendingFollows DEF Wrote, TablesInv, Exclusive
  <2>2. CASE ~WroteAws(p)
    BY <1>1, <2>2, PendingFollows DEF Outcome, TablesInv, Exclusive
  <2> QED
    BY <2>1, <2>2
<1> QED
  BY <1>6, <1>7

\* Only a COMMIT changes the aws_connections table, and only at its target.
LEMMA OnlyCommitChangesAws ==
    ASSUME TablesInv, NEW p \in Req, Step(p) \/ Crash(p), NEW i \in Ids, aws'[i] # aws[i]
    PROVE  CommitTx(p) /\ i = Target(p) /\ aws'[i] = tx[p].aws[i] /\ HasWritten(p)
<1> USE DEF TablesInv, Inv, TypeOK, StoreTypeOK
<1>1. Outcome(p)
  BY StepOutcome
<1>2. CommitTx(p)
  BY <1>1 DEF Outcome, Failed, FailWith, Rollback, Called, Quiet, Shown, WroteConn, WroteAws,
     SaveRow
<1>3. aws'[i] = tx[p].aws[i] /\ tx[p].aws[i] # NoWrite
  BY <1>2 DEF CommitTx, Commit, Rollback, Apply, AwsSeenBy, Overlay
<1> QED
  BY <1>2, <1>3 DEF Pending

\* A DELETE deletes a row that is still there.
LEMMA NextDeletable ==
    ASSUME TablesInv, NEW p \in Req, Step(p) \/ Crash(p)
    PROVE  Deletable'
<1> USE DEF TablesInv
<1>1. Outcome(p) /\ Others(p) /\ UNCHANGED call
  BY StepOutcome, StepIsLocal, CallIsFixed
<1> SUFFICES ASSUME NEW q \in Req, Kind(q) = "delete", HasWritten(q)'
             PROVE  aws'[Target(q)] # NoRow
  BY <1>1 DEF Deletable, Kind, Target
<1>2. Target(q) \in Ids
  BY NotSent DEF Inv, WellFormed
<1>3. CASE q # p
  <2>1. HasWritten(q)
    BY <1>1, <1>3 DEF HasWritten, Others, Kind
  <2>2. aws[Target(q)] # NoRow /\ tx[q].aws[Target(q)] # NoWrite
    BY <1>2, <2>1 DEF Deletable, Pending
  <2>3. aws'[Target(q)] = aws[Target(q)]
    <3> SUFFICES ASSUME aws'[Target(q)] # aws[Target(q)] PROVE FALSE
      OBVIOUS
    <3>1. HasWritten(p) /\ Target(p) = Target(q)
      BY <1>2, OnlyCommitChangesAws
    <3>2. tx[p].aws[Target(q)] # NoWrite
      BY <1>2, <3>1 DEF Pending
    <3> QED
      BY <1>2, <1>3, <2>2, <3>2 DEF Exclusive
  <2> QED
    BY <2>2, <2>3
<1>4. CASE q = p
  <2>1. ~Failed(p) /\ ~CommitTx(p)
    BY <1>1, <1>4, WrittenFollows
  <2>2. aws'[Target(p)] = aws[Target(p)]
    BY <1>2, <1>4, <2>1, OnlyCommitChangesAws
  <2>3. CASE WroteAws(p)
    <3>1. AwsSeenBy(p)[Target(p)] # NoRow /\ ~HasWritten(p)
      BY <1>1, <1>4, <2>3, WrittenFollows DEF WroteAws
    <3>2. AwsSeenBy(p)[Target(p)] = aws[Target(p)]
      BY <1>2, <1>4, <3>1 DEF AwsSeenBy, Overlay, Pending, Inv, TypeOK, StoreTypeOK
    <3> QED
      BY <1>4, <2>2, <3>1, <3>2
  <2>4. CASE ~WroteAws(p)
    <3>1. HasWritten(p)
      BY <1>1, <1>4, <2>1, <2>4, WrittenFollows DEF Outcome
    <3> QED
      BY <1>4, <2>2, <3>1 DEF Deletable
  <2> QED
    BY <2>3, <2>4
<1> QED
  BY <1>3, <1>4

\* The connections rows that a request touches.
LEMMA ConnsFollow ==
    ASSUME Inv, NEW p \in Req, Outcome(p), NEW k \in CIds
    PROVE  /\ conns'[k] # conns[k] =>
                 \/ CommitTx(p) /\ tx[p].conns[k] # NoWrite
                 \/ SaveRow(p) /\ k = loc[p].cid
           /\ tx'[p].conns[k] \in {tx[p].conns[k], NoWrite} \/ k = loc[p].cid
<1> USE DEF Inv, TypeOK, StoreTypeOK
<1>1. CASE Failed(p)
  BY <1>1 DEF Failed, FailWith, Rollback, Release, NoTx
<1>2. CASE CommitTx(p)
  BY <1>2 DEF CommitTx, Commit, Rollback, Apply, Release, NoTx, ConnsSeenBy, Overlay
<1>3. CASE SaveRow(p)
  BY <1>3 DEF SaveRow
<1>4. CASE WroteConn(p)
  <2>1. PICK c \in CIds : c = loc[p].cid
    BY DEF Local
  <2>2. PICK r \in Row \cup {NoRow} : WriteConn(p, c, r)
    BY <1>4, <2>1 DEF WroteConn
  <2>3. \A j \in CIds \ {c} : tx'[p].conns[j] = tx[p].conns[j]
    BY <2>2, WriteConnEffect
  <2> QED
    BY <1>4, <2>1, <2>3 DEF WroteConn
<1>5. CASE WroteAws(p)
  <2>1. tx'[p].conns = tx[p].conns
    BY <1>5 DEF WroteAws, WriteAws, Tx
  <2> QED
    BY <1>5, <2>1 DEF WroteAws
<1> QED
  BY <1>1, <1>2, <1>3, <1>4, <1>5 DEF Outcome, Called, Quiet, Shown

\* What a handler knows of other connections it has read from the tables.
LEMMA LocFollows ==
    ASSUME Inv, NEW p \in Req, Outcome(p)
    PROVE  Learns(p) \/ (loc'[p].fk = ZeroId /\ loc'[p].cid = ZeroId)
<1> USE DEF Inv, TypeOK
<1>1. CASE Failed(p)
  BY <1>1 DEF Failed, FailWith, ZeroLocal
<1>2. CASE ~Failed(p)
  <2>1. Quiet(p) \/ Shown(p) \/ UNCHANGED loc
    BY <1>2 DEF Outcome, WroteConn, WroteAws, Called, SaveRow, CommitTx
  <2> QED
    BY <2>1 DEF Quiet, Shown, Learns
<1> QED
  BY <1>1, <1>2

\* A UUID stays unknown until the COMMIT of the POST that minted it.
LEMMA NextUuids ==
    ASSUME TablesInv, Pending', NEW p \in Req, Step(p) \/ Crash(p)
    PROVE  UuidsAreNew'
<1> USE DEF TablesInv
<1>1. Outcome(p) /\ Others(p) /\ UNCHANGED call
  BY StepOutcome, StepIsLocal, CallIsFixed
<1>2. \A q \in Req \ {p} : tx'[q] = tx[q]
  BY <1>1, TxIsLocal
<1>3. \A q \in Req : Target(q)' = Target(q) /\ Kind(q)' = Kind(q)
  BY <1>1 DEF Target, Kind
<1> SUFFICES ASSUME NEW r \in Req, ~Over(r)' PROVE Unknown(r)'
  BY DEF UuidsAreNew
<1>4. r \in Ids /\ r \in CIds /\ r # ZeroId /\ r # NoRow /\ r # NoWrite /\ NoRow # NoWrite
  BY Constants, DomainAssumption
<1>5. Unknown(r)
  <2>1. ~Over(r)
    <3>1. CASE r # p
      BY <1>1, <1>3, <3>1 DEF Over, Others
    <3>2. CASE r = p
      BY <1>1, <1>3, <3>2 DEF Over, Outcome, Failed, FailWith, Reply, Goto, Called, Quiet, Shown,
         WroteConn, WroteAws, SaveRow, CommitTx, CanExecute, At, Early, ReadStages, AddStages,
         Inv, TypeOK
    <3> QED
      BY <3>1, <3>2
  <2> QED
    BY <2>1 DEF UuidsAreNew
<1> DEFINE Own(q) == q = r /\ Kind(r) = "add"
<1>6. Own(p) => ~CommitTx(p) /\ ~SaveRow(p)
  BY <1>3 DEF Over, CommitTx, SaveRow, Reply, Goto, Inv, TypeOK, WellFormed, Serving, CanExecute, At
<1>7. ASSUME NEW i \in Ids PROVE aws'[i] # r /\ (i = r => aws'[i] = NoRow)
  <2>1. CASE aws'[i] = aws[i]
    BY <1>5, <2>1 DEF Unknown
  <2>2. CASE aws'[i] # aws[i]
    <3>1. CommitTx(p) /\ i = Target(p) /\ aws'[i] = tx[p].aws[i]
      BY <2>2, OnlyCommitChangesAws
    <3>2. Strange(p, r)
      BY <1>5, <1>6, <3>1 DEF Unknown
    <3> QED
      BY <3>1, <3>2 DEF Strange
  <2> QED
    BY <2>1, <2>2
<1>8. conns'[r] = NoRow
  <2>1. CASE Own(p)
    BY <1>1, <1>4, <1>5, <1>6, <2>1, ConnsFollow DEF Unknown
  <2>2. CASE Strange(p, r)
    BY <1>1, <1>4, <1>5, <2>2, ConnsFollow DEF Unknown, Strange
  <2> QED
    BY <1>5, <2>1, <2>2 DEF Unknown
<1>9. ASSUME NEW q \in Req, ~Own(q) PROVE Strange(q, r)'
  <2>1. Strange(q, r)
    BY <1>5, <1>9 DEF Unknown
  <2>2. CASE q # p
    BY <1>1, <1>2, <1>3, <2>1, <2>2 DEF Strange, Others
  <2>3. CASE q = p
    <3>1. loc'[p].fk # r /\ loc'[p].cid # r
      <4>1. Target(p) \in Ids => aws[Target(p)] # r
        BY <1>5 DEF Unknown
      <4>2. Target(p) \in Ids
        BY CallIsFixed DEF Inv, WellFormed
      <4>3. Kind(p) = "add" => p # r
        BY <1>9, <2>3
      <4> QED
        BY <1>1, <1>4, <2>1, <2>3, <4>1, <4>2, <4>3, LocFollows DEF Strange, Learns
    <3>2. tx'[p].conns[r] = NoWrite
      BY <1>1, <1>4, <2>1, <2>3, ConnsFollow DEF Strange
    <3>3. ASSUME NEW i \in Ids PROVE tx'[p].aws[i] # r
      <4>1. CASE WroteAws(p)
        BY <1>1, <1>4, <2>1, <2>3, <4>1, PendingFollows DEF Strange, Wrote
      <4>2. CASE ~WroteAws(p)
        BY <1>1, <1>4, <2>1, <2>3, <4>2, PendingFollows DEF Strange, Outcome
      <4> QED
        BY <4>1, <4>2
    <3> QED
      BY <1>3, <2>1, <2>3, <3>1, <3>2, <3>3 DEF Strange
  <2> QED
    BY <2>2, <2>3
<1> QED
  BY <1>3, <1>4, <1>7, <1>8, <1>9 DEF Unknown

\* A request that starts works on a UUID of its own, or one that is known.
LEMMA StartTables ==
    ASSUME TablesInv, NEW p \in Req, Start(p)
    PROVE  Pending' /\ Exclusive' /\ Deletable' /\ UuidsAreNew'
<1> USE DEF TablesInv
<1>1. PICK kind \in Kinds, i \in Ids :
        /\ IF kind = "add" THEN i = p ELSE Known(i)
        /\ Kind(p)' = kind /\ Target(p)' = i
        /\ pc'[p] = FirstStage(kind)
        /\ loc'[p].fk \in {i, ZeroId} /\ (kind = "add" => loc'[p].fk = ZeroId)
        /\ loc'[p].cid = loc[p].cid
  BY DEF Start, Kind, Target, Goto, Inv, TypeOK, Local
<1>2. UNCHANGED <<conns, aws, tx>> /\ pc[p] = "idle"
  BY DEF Start, storeVars, At
<1>3. Others(p)
  BY StepIsLocal
<1>4. \A q \in Req \ {p} : Kind(q)' = Kind(q) /\ Target(q)' = Target(q)
  BY <1>3 DEF Others, Kind, Target
<1>5. ~HasWritten(p) /\ ~HasWritten(p)'
  BY <1>1, <1>2, NotSent, CallAssumption DEF HasWritten, FirstStage, AddStages, AllKinds
<1>6. \A q \in Req \ {p} : HasWritten(q)' <=> HasWritten(q)
  BY <1>3, <1>4 DEF HasWritten, Others
<1>7. Pending'
  BY <1>2, <1>4, <1>5, <1>6 DEF Pending
<1>8. Exclusive' /\ Deletable'
  BY <1>2, <1>4, <1>5, <1>6 DEF Exclusive, Deletable
<1>9. UuidsAreNew'
  <2> SUFFICES ASSUME NEW r \in Req, ~Over(r)' PROVE Unknown(r)'
    BY DEF UuidsAreNew
  <2>1. Unknown(r)
    BY <1>2, <1>3, <1>4 DEF UuidsAreNew, Over, Others
  <2>2. r \notin Preloaded /\ r # ZeroId
    BY Constants, DomainAssumption
  <2>3. Strange(p, r)
    BY <1>2, <2>1, NotSent DEF Unknown
  <2>4. (kind = "add" /\ p = r) \/ i # r
    <3>1. kind # "add" => i # r
      BY <1>1, <2>1, <2>2 DEF Known, Unknown
    <3> QED
      BY <1>1, <3>1
  <2>5. Strange(p, r)' \/ (p = r /\ Kind(r)' = "add")
    BY <1>1, <1>2, <2>2, <2>3, <2>4 DEF Strange
  <2>6. ASSUME NEW q \in Req \ {p} PROVE Strange(q, r)' \/ (q = r /\ Kind(r)' = "add")
    BY <1>2, <1>3, <1>4, <2>1 DEF Unknown, Strange, Others
  <2> QED
    BY <1>2, <2>1, <2>5, <2>6 DEF Unknown
<1> QED
  BY <1>7, <1>8, <1>9

\* So the invariant about the tables holds in every state.
LEMMA NextTables ==
    ASSUME TablesInv, NEW p \in Req, Start(p) \/ Step(p) \/ Crash(p)
    PROVE  TablesInv'
<1>1. Inv' /\ Fresh'
  BY NextInv, NextFresh DEF TablesInv, Next
<1>2. Answered'
  BY NextAnswered
<1>3. Pending' /\ Exclusive' /\ Deletable' /\ UuidsAreNew'
  BY StartTables, NextPending, NextDeletable, NextUuids
<1> QED
  BY <1>1, <1>2, <1>3 DEF TablesInv

\* The invariant of the tables survives a step that changes nothing.
LEMMA StutterTables == TablesInv /\ UNCHANGED vars => TablesInv'
<1> SUFFICES ASSUME TablesInv, UNCHANGED vars PROVE TablesInv'
  OBVIOUS
<1>1. Inv'
  BY NextInv DEF TablesInv
<1> QED
  BY <1>1 DEF vars, TablesInv, Fresh, Answered, Pending, Exclusive, Deletable, UuidsAreNew, Over,
     Unknown, Strange, HasWritten, Kind, Target
------------------------------------------------------------------------------
(***************************************************************************)
(* The engines: a handler that nobody disturbs has done what the stages    *)
(* before its own stand for.                                               *)
(***************************************************************************)
Ahead(p) ==
    LET e == engine[Target(p)] IN
    /\ pc[p] \in {"tune", "root", "role"} => e.mounted
    /\ pc[p] \in {"root", "role"} => e.tuned
    /\ pc[p] = "role" => e.root # None
    /\ pc[p] \in {"save_conn", "save_aws"} => Complete(e)
    /\ pc[p] = "commit" => IF Kind(p) = "delete" THEN ~e.mounted ELSE Complete(e)

\* Nobody else was asked to change p's engine, or only other DELETEs if p is one.
Undisturbed(p) ==
    \/ Kind(p) = "add"
    \/ /\ Kind(p) = "update"
       /\ \A q \in Req \ {p} : Kind(q) \in {"update", "delete"} => Target(q) # Target(p)
    \/ /\ Kind(p) = "delete"
       /\ \A q \in Req : Kind(q) = "update" => Target(q) # Target(p)

EnginesKept == \A p \in Req : Undisturbed(p) => Ahead(p)

\* A call to Vault changes the engine of its connection only.
LEMMA EngineEffect ==
    ASSUME Inv, NEW p \in Req, WriteVault(p)
    PROVE  /\ Kind(p) \in Mutating /\ Target(p) \in Ids
           /\ pc[p] # "done"
           /\ \A i \in Ids \ {Target(p)} : engine'[i] = engine[i]
           /\ Kind(p) = "delete" => engine'[Target(p)] \in {engine[Target(p)], Unmounted}
           /\ Kind(p) = "add" =>
                engine'[Target(p)] = engine[Target(p)] \/ engine'[Target(p)].mounted
<1> USE DEF Inv, TypeOK, VaultTypeOK, At
<1>1. PICK t \in Ids : t = Target(p)
  BY EngineParts, CallIsFixed DEF Step
<1>2. engine[t] \in Engine
  OBVIOUS
<1>3. pc[p] \in {"disable"} \cup AddStages
  BY DEF WriteVault, EnableAWSSecretsEngine, ConfigureAWSSecretsEngine, At, AddStages,
     ConfigureAWSRootCredentials, ConfigureAWSIAMRole, DisableAWSSecretsEngine
<1>4. /\ Kind(p) \in Mutating
      /\ Kind(p) = "add" => pc[p] # "disable"
      /\ Kind(p) = "delete" => pc[p] = "disable"
  BY <1>3 DEF WellFormed, Serving, Mutating
<1>5. \A i \in Ids \ {t} : engine'[i] = engine[i]
  BY <1>1 DEF WriteVault, EnableAWSSecretsEngine, ConfigureAWSSecretsEngine,
     ConfigureAWSRootCredentials, ConfigureAWSIAMRole, DisableAWSSecretsEngine,
     Enable, Disable, Tune, WriteRoot, WriteRole, Call
<1>6. pc[p] = "disable" => engine'[t] \in {engine[t], Unmounted}
  BY <1>1 DEF WriteVault, EnableAWSSecretsEngine, ConfigureAWSSecretsEngine,
     ConfigureAWSRootCredentials, ConfigureAWSIAMRole, DisableAWSSecretsEngine, Disable, Call
<1>7. pc[p] # "disable" => engine'[t] = engine[t] \/ engine'[t].mounted
  <2>1. CASE EnableAWSSecretsEngine(p)
    BY <1>1, <2>1 DEF EnableAWSSecretsEngine, Enable, Call, FreshMount, Unmounted
  <2>2. CASE ConfigureAWSSecretsEngine(p)
    BY <1>1, <1>2, <2>2 DEF ConfigureAWSSecretsEngine, Tune, Call, Engine
  <2>3. CASE ConfigureAWSRootCredentials(p)
    BY <1>1, <1>2, <2>3 DEF ConfigureAWSRootCredentials, WriteRoot, Call, Engine
  <2>4. CASE ConfigureAWSIAMRole(p)
    BY <1>1, <1>2, <2>4 DEF ConfigureAWSIAMRole, WriteRole, Call, Engine
  <2> QED
    BY <2>1, <2>2, <2>3, <2>4 DEF WriteVault, DisableAWSSecretsEngine
<1>8. pc[p] # "done"
  BY <1>3 DEF AddStages
<1> QED
  BY <1>1, <1>4, <1>5, <1>6, <1>7, <1>8

\* A call that succeeds leaves the engine as the next stage expects it.
LEMMA CalledAhead ==
    ASSUME Inv, NEW p \in Req, WriteVault(p), Called(p), Ahead(p)
    PROVE  Ahead(p)'
<1> USE DEF Inv, TypeOK, VaultTypeOK, At
<1>1. PICK t \in Ids : t = Target(p)
  BY EngineEffect
<1>2. engine[t] \in Engine
  OBVIOUS
<1>3. Target(p)' = t /\ Kind(p)' = Kind(p) /\ UNCHANGED resp /\ pc'[p] = NextCall(p)
  BY <1>1 DEF Called, Target, Kind
<1>4. ASSUME NEW ok \in BOOLEAN, NEW next, Proceed(p, ok, next) PROVE ok
  BY <1>3, <1>4 DEF Proceed, Fail, FailWith, Reply, Goto, NextCall, Called, AddStages
<1>5. CASE EnableAWSSecretsEngine(p)
  <2>1. engine'[t].mounted
    BY <1>1, <1>4, <1>5 DEF EnableAWSSecretsEngine, Enable, Call, FreshMount, Unmounted
  <2> QED
    BY <1>3, <1>5, <2>1 DEF Ahead, NextCall, EnableAWSSecretsEngine
<1>6. CASE ConfigureAWSSecretsEngine(p)
  <2>1. engine'[t].mounted /\ engine'[t].tuned
    BY <1>1, <1>2, <1>4, <1>6 DEF ConfigureAWSSecretsEngine, Tune, Call, Engine
  <2> QED
    BY <1>3, <1>6, <2>1 DEF Ahead, NextCall, ConfigureAWSSecretsEngine
<1>7. CASE ConfigureAWSRootCredentials(p)
  <2> DEFINE r == [access |-> loc[p].access, secret |-> loc[p].secret]
  <2>1. r # None
    <3>1. r \in [access : Keys \cup {Blank}, secret : Keys \cup {Blank}]
      BY DEF Local
    <3> QED
      BY <3>1, DomainAssumption
  <2>2. engine'[t] = [engine[t] EXCEPT !.root = r] /\ engine[t].mounted
    BY <1>1, <1>4, <1>7 DEF ConfigureAWSRootCredentials, WriteRoot, Call
  <2>3. engine[t].tuned
    BY <1>1, <1>7 DEF Ahead, ConfigureAWSRootCredentials
  <2> HIDE DEF r
  <2>4. engine'[t].mounted /\ engine'[t].tuned /\ engine'[t].root # None
    BY <1>2, <2>1, <2>2, <2>3 DEF Engine
  <2> QED
    BY <1>3, <1>7, <2>4 DEF Ahead, NextCall, ConfigureAWSRootCredentials
<1>8. CASE ConfigureAWSIAMRole(p)
  <2> DEFINE r == [ctype |-> loc[p].ctype, arns |-> loc[p].arns]
  <2>1. /\ engine'[t] = [engine[t] EXCEPT !.role = r]
        /\ engine[t].mounted /\ loc[p].ctype # Blank
    BY <1>1, <1>4, <1>8 DEF ConfigureAWSIAMRole, WriteRole, Call
  <2>2. r # None
    <3>1. r \in [ctype : CredentialTypes, arns : Policies \cup {Blank}]
      BY <2>1 DEF Local
    <3> QED
      BY <3>1, DomainAssumption
  <2>3. engine[t].tuned /\ engine[t].root # None
    BY <1>1, <1>8 DEF Ahead, ConfigureAWSIAMRole
  <2> HIDE DEF r
  <2>4. Complete(engine'[t])
    BY <1>2, <2>1, <2>2, <2>3 DEF Engine, Complete
  <2>5. pc'[p] \in {"commit", "save_conn"} /\ (pc'[p] = "commit" => Kind(p) = "add")
    BY <1>3, <1>8 DEF NextCall, ConfigureAWSIAMRole
  <2> QED
    BY <1>3, <2>4, <2>5 DEF Ahead
<1>9. CASE DisableAWSSecretsEngine(p)
  <2>1. ~engine'[t].mounted
    BY <1>1, <1>4, <1>9 DEF DisableAWSSecretsEngine, Disable, Call, Unmounted
  <2> QED
    BY <1>3, <1>9, <2>1 DEF Ahead, NextCall, DisableAWSSecretsEngine
<1> QED
  BY <1>5, <1>6, <1>7, <1>8, <1>9 DEF WriteVault

\* Two requests do not both work on the engine of a connection that one of
\* them is making.
LEMMA AddsAreAlone ==
    ASSUME TablesInv, NEW p \in Req, NEW q \in Req, p # q, Kind(p) = "add", pc[p] # "done"
    PROVE  Target(p) = p /\ Target(q) # p
  BY DEF TablesInv, UuidsAreNew, Over, Unknown, Strange, Inv, WellFormed

\* Whatever others do, a handler that nobody disturbs stays ahead.
LEMMA NextEngines ==
    ASSUME TablesInv, EnginesKept, NEW p \in Req, Start(p) \/ Step(p) \/ Crash(p)
    PROVE  EnginesKept'
<1> USE DEF TablesInv
<1>1. Others(p) /\ \A q \in Req \ {p} : Kind(q)' = Kind(q) /\ Target(q)' = Target(q)
  BY StepIsLocal DEF Others, Kind, Target
<1>2. CASE Start(p)
  <2>1. UNCHANGED engine /\ Kind(p) = "none"
    BY <1>2, NotSent DEF Start, At
  <2>2. Ahead(p)'
    <3>1. PICK kind \in AllKinds : pc'[p] = FirstStage(kind)
      BY <1>2, CallAssumption DEF Start, Goto, Inv, TypeOK
    <3>2. pc'[p] \in {"validate", "read_conn", "read_aws"}
      BY <3>1 DEF FirstStage, AllKinds
    <3> QED
      BY <3>2 DEF Ahead
  <2>3. ASSUME NEW q \in Req \ {p}, Undisturbed(q)' PROVE Ahead(q)'
    <3>1. Undisturbed(q)
      BY <1>1, <2>1, <2>3 DEF Undisturbed
    <3> QED
      BY <1>1, <2>1, <3>1 DEF EnginesKept, Ahead, Others
  <2> QED
    BY <2>2, <2>3 DEF EnginesKept
<1>3. CASE Step(p) \/ Crash(p)
  <2>1. Outcome(p) /\ UNCHANGED call
    BY <1>3, StepOutcome, CallIsFixed
  <2>2. Kind(p)' = Kind(p) /\ Target(p)' = Target(p)
    BY <2>1 DEF Kind, Target
  <2>3. ASSUME NEW q \in Req, Undisturbed(q)' PROVE Undisturbed(q) /\ Ahead(q)
    BY <1>1, <2>2, <2>3 DEF Undisturbed, EnginesKept
  <2>4. ASSUME Ahead(p) PROVE Ahead(p)'
    <3>1. CASE Failed(p) \/ SaveRow(p) \/ CommitTx(p) \/ Shown(p)
      <4>1. pc'[p] = "done"
        BY <3>1 DEF Failed, FailWith, SaveRow, CommitTx, Shown, Reply, Goto, Inv, TypeOK
      <4> QED
        BY <4>1 DEF Ahead
    <3>2. CASE Called(p) /\ WriteVault(p)
      BY <2>4, <3>2, CalledAhead
    <3>3. CASE Quiet(p)
      BY <3>3 DEF Quiet, Early, ReadStages, Ahead
    <3>4. CASE WroteConn(p)
      BY <2>2, <2>4, <3>4 DEF WroteConn, Ahead
    <3>5. CASE WroteAws(p)
      <4>1. pc[p] = "save_aws" => Kind(p) = "update"
        BY DEF Inv, WellFormed, Serving
      <4> QED
        BY <2>2, <2>4, <3>5, <4>1 DEF WroteAws, Ahead
    <3> QED
      BY <2>1, <3>1, <3>2, <3>3, <3>4, <3>5 DEF Outcome
  <2>5. ASSUME NEW q \in Req \ {p}, Undisturbed(q), Ahead(q) PROVE Ahead(q)'
    <3>1. CASE engine'[Target(q)] = engine[Target(q)]
      BY <1>1, <2>5, <3>1 DEF Ahead, Others
    <3>2. CASE engine'[Target(q)] # engine[Target(q)]
      <4>1. WriteVault(p)
        BY <2>1, <3>2 DEF Outcome, Quiet, Shown, WroteConn, WroteAws
      <4>2. Target(q) \in Ids
        BY <2>5, NotSent DEF Undisturbed, Inv, WellFormed
      <4>3. Target(p) = Target(q)
        BY <3>2, <4>1, <4>2, EngineEffect
      <4>4. CASE Kind(q) = "add"
        <5>1. pc[q] = "done"
          BY <4>3, <4>4, AddsAreAlone
        <5> QED
          BY <1>1, <5>1 DEF Ahead, Others
      <4>5. Kind(p) # "add"
        BY <2>5, <4>1, <4>3, AddsAreAlone, EngineEffect
      <4>6. CASE Kind(q) = "update"
        BY <2>5, <4>1, <4>3, <4>5, <4>6, EngineEffect DEF Undisturbed, Mutating
      <4>7. CASE Kind(q) = "delete"
        <5>1. Kind(p) = "delete"
          BY <2>5, <4>1, <4>3, <4>5, <4>7, EngineEffect DEF Undisturbed, Mutating
        <5>2. ~engine'[Target(q)].mounted
          BY <3>2, <4>1, <4>3, <5>1, EngineEffect DEF Unmounted
        <5>3. pc[q] \notin {"tune", "root", "role", "save_conn", "save_aws"}
          BY <4>7 DEF Inv, WellFormed, Serving, AddStages
        <5> QED
          BY <1>1, <4>7, <5>2, <5>3 DEF Ahead, Others
      <4> QED
        BY <2>5, <4>4, <4>6, <4>7 DEF Undisturbed
    <3> QED
      BY <3>1, <3>2
  <2> QED
    BY <2>3, <2>4, <2>5 DEF EnginesKept
<1> QED
  BY <1>2, <1>3

RegistryInv == TablesInv /\ EnginesKept

\* The invariant that the refinement and the theorems of StoreProofs rest on.
LEMMA RegistryInvHolds == Spec => []RegistryInv
<1>1. Init => RegistryInv
  <2>1. Init => EnginesKept
    BY DEF Init, EnginesKept, Ahead
  <2> QED
    BY <2>1, InitTables DEF RegistryInv
<1>2. RegistryInv /\ [Next]_vars => RegistryInv'
  <2> SUFFICES ASSUME RegistryInv, [Next]_vars PROVE RegistryInv'
    OBVIOUS
  <2>1. CASE UNCHANGED vars
    <3>1. EnginesKept'
      BY <2>1 DEF vars, RegistryInv, EnginesKept, Undisturbed, Ahead, Kind, Target
    <3> QED
      BY <2>1, <3>1, StutterTables DEF RegistryInv
  <2>2. ASSUME NEW p \in Req, Start(p) \/ Step(p) \/ Crash(p) PROVE RegistryInv'
    BY <2>2, NextTables, NextEngines DEF RegistryInv
  <2> QED
    BY <2>1, <2>2 DEF Next
<1> QED
  BY <1>1, <1>2, PTL DEF Spec
------------------------------------------------------------------------------
(***************************************************************************)
(* The refinement.                                                         *)
(***************************************************************************)
Listed == {i \in Ids : aws[i] # NoRow}
Built == [i \in Ids |-> CASE Complete(engine[i])  -> "whole"
                          [] ~engine[i].mounted    -> "none"
                          [] OTHER                 -> "part"]
Asked == [p \in Req |-> Kind(p)]
Subject == [p \in Req |-> Target(p)]

\* When the abstract engine is whole, and when there is none.
LEMMA BuiltIs ==
    ASSUME NEW i \in Ids
    PROVE  /\ Built[i] = "whole" <=> Complete(engine[i])
           /\ Built[i] = "none" <=> ~engine[i].mounted
  BY DEF Built, Complete

\* What is there at the start is whole, and nothing else is there.
LEMMA StartsWhole ==
    ASSUME Init
    PROVE  /\ \A i \in Preloaded : aws[i] # NoRow /\ Complete(engine[i])
           /\ \A i \in Ids \ Preloaded : aws[i] = NoRow /\ ~engine[i].mounted
<1>1. ASSUME NEW i \in Preloaded PROVE aws[i] # NoRow /\ Complete(engine[i])
  <2>1. aws[i] = i /\ i # NoRow
    BY DomainAssumption DEF Init, StoreInit, Ids, CIds
  <2>2. Seed[i] \in SeedEntry
    BY DomainAssumption
  <2>3. engine[i] = [mounted |-> TRUE, tuned |-> TRUE,
                     root |-> [access |-> Seed[i].access, secret |-> Seed[i].secret],
                     role |-> [ctype |-> Seed[i].ctype, arns |-> Seed[i].arns]]
    BY DEF Init, VaultInit, Ids
  <2>4. /\ engine[i].root \in [access : Keys \cup {Blank}, secret : Keys \cup {Blank}]
        /\ engine[i].role \in [ctype : CredentialTypes, arns : Policies \cup {Blank}]
    BY <2>2, <2>3 DEF SeedEntry
  <2> QED
    BY <2>1, <2>3, <2>4, DomainAssumption DEF Complete
<1>2. ASSUME NEW i \in Ids \ Preloaded PROVE aws[i] = NoRow /\ ~engine[i].mounted
  BY DEF Init, StoreInit, VaultInit, Unmounted
<1> QED
  BY <1>1, <1>2

\* The initial states map to initial states of the registry.
LEMMA InitRefines == Init => Registry!Init
<1> SUFFICES ASSUME Init PROVE Registry!Init
  OBVIOUS
<1>1. Listed = Preloaded
  BY StartsWhole DEF Listed, Ids
<1>2. Built = [i \in Ids |-> IF i \in Preloaded THEN "whole" ELSE "none"]
  <2>1. \A i \in Preloaded : Complete(engine[i])
    BY StartsWhole
  <2>2. \A i \in Ids \ Preloaded : ~engine[i].mounted /\ ~Complete(engine[i])
    BY StartsWhole DEF Complete
  <2>3. \A i \in Ids : Built[i] = IF i \in Preloaded THEN "whole" ELSE "none"
    BY <2>1, <2>2, BuiltIs
  <2> QED
    BY <2>3 DEF Built
<1>3. Asked = [p \in Req |-> "none"]
  BY DEF Init, Asked, Kind, NoCall
<1>4. resp = [p \in Req |-> "none"]
  BY DEF Init
<1> QED
  BY <1>1, <1>2, <1>3, <1>4 DEF Registry!Init, Listed, Built, Asked

\* A request that starts is asked for.
LEMMA StartRefines ==
    ASSUME TablesInv, NEW p \in Req, Start(p)
    PROVE  Registry!Ask(p)
<1> USE DEF TablesInv
<1>1. PICK kind \in Kinds, i \in Ids :
        /\ IF kind = "add" THEN i = p ELSE Known(i)
        /\ Kind(p)' = kind /\ Target(p)' = i
  BY DEF Start, Kind, Target, Inv, TypeOK
<1>2. UNCHANGED <<engine, aws, resp>> /\ pc[p] = "idle" /\ kind # "none"
  BY CallAssumption DEF Start, storeVars, At, AllKinds
<1>3. \A q \in Req \ {p} : Kind(q)' = Kind(q) /\ Target(q)' = Target(q)
  BY StepIsLocal DEF Others, Kind, Target
<1>4. Kind(p) = "none" /\ Unknown(p)
  BY <1>2, NotSent DEF UuidsAreNew, Over
<1>5. kind = "add" => i = p /\ aws[i] = NoRow
  BY <1>1, <1>4 DEF Unknown
<1>6. ASSUME NEW q \in Req \ {p}, Kind(q) # "none", Target(q) = i
      PROVE  ~(resp[q] = "none") \/ "add" \notin {Kind(q), kind}
  <2>1. kind # "add"
    BY <1>1, <1>4, <1>6 DEF Unknown, Strange
  <2>2. Kind(q) = "add" => pc[q] = "done"
    <3> SUFFICES ASSUME Kind(q) = "add", pc[q] # "done" PROVE FALSE
      OBVIOUS
    <3>1. Unknown(q) /\ i = q
      BY <1>6 DEF UuidsAreNew, Over, Inv, WellFormed
    <3>2. q \notin Preloaded
      BY DomainAssumption
    <3> QED
      BY <1>1, <2>1, <3>1, <3>2 DEF Known, Unknown
  <2> QED
    BY <2>1, <2>2 DEF Answered
<1>7. Asked[p] = "none" /\ Asked'[p] = kind /\ Subject'[p] = i
  BY <1>1, <1>4 DEF Asked, Subject
<1>8. \A q \in Req \ {p} : /\ Asked[q] = Kind(q) /\ Subject[q] = Target(q)
                           /\ Asked'[q] = Asked[q] /\ Subject'[q] = Subject[q]
  BY <1>3 DEF Asked, Subject
<1>9. UNCHANGED <<Listed, Built, resp>> /\ (kind = "add" => i \notin Listed)
  BY <1>2, <1>5 DEF Listed, Built
<1> HIDE DEF TablesInv
<1> QED
  BY <1>2, <1>6, <1>7, <1>8, <1>9
  DEF Registry!Ask, Registry!InFlight, Asked, Subject, Listed, Built

\* A handler that has answered takes no step.
LEMMA StepsAreActive ==
    ASSUME Inv, NEW p \in Req, Step(p) \/ Crash(p)
    PROVE  Active(p)
<1> USE DEF At, Active
<1>0. pc[p] # "idle"
  BY CallIsFixed
<1>1. CASE Read(p)
  BY <1>1 DEF Read, ReadAws, ReadConn
<1>2. CASE Memory(p)
  BY <1>2 DEF Memory, AddValidate, UpdateMerge, UpdateRemerge, AppendApp, RemoveApp
<1>3. CASE ReadVault(p)
  BY <1>3 DEF ReadVault, GetConfig, GetLease, GetRoleName, GetRole, VaultReadFails, ReadStages,
     TestCreds
<1>4. CASE WriteVault(p)
  BY <1>0, <1>4, EngineEffect
<1>5. CASE Statement(p)
  BY <1>5 DEF Statement, CreateConn, CreateAws, SaveConn, SaveAws, DeleteAws, DeleteConn,
     CanExecute, SaveRow, CommitTx, DbFails, DbStages, WriteStages, DeadlockVictim, WaitsFor
<1>6. CASE Crash(p)
  BY <1>6 DEF Crash
<1> QED
  BY <1>0, <1>1, <1>2, <1>3, <1>4, <1>5, <1>6 DEF Step

\* A call to Vault is work on the engine of the request's connection.
LEMMA WorkRefines ==
    ASSUME RegistryInv, NEW p \in Req, WriteVault(p), UNCHANGED <<call, aws>>
    PROVE  Registry!Work(p)
<1>1. Active(p) /\ resp[p] = "none"
  BY StepsAreActive DEF Step, RegistryInv, TablesInv, Answered, Active
<1>2. /\ Asked' = Asked /\ Subject' = Subject /\ Listed' = Listed
      /\ Asked[p] = Kind(p) /\ Subject[p] = Target(p)
  BY DEF Asked, Subject, Listed, Kind, Target
<1>3. Kind(p) \in Mutating /\ Kind(p) # "none"
  BY EngineEffect DEF Mutating, RegistryInv, TablesInv
<1>4. ASSUME NEW i \in Ids, Built'[i] # Built[i]
      PROVE  /\ i = Target(p)
             /\ Kind(p) = "add" => Built'[i] # "none"
             /\ Kind(p) = "delete" => Built'[i] = "none"
  <2>1. engine'[i] # engine[i]
    BY <1>4 DEF Built
  <2>2. i = Target(p)
    BY <2>1, EngineEffect DEF RegistryInv, TablesInv
  <2>3. Built'[i] = "none" <=> ~engine'[i].mounted
    BY BuiltIs DEF Built, Complete
  <2> QED
    BY <2>1, <2>2, <2>3, EngineEffect DEF RegistryInv, TablesInv, Unmounted
<1>5. \A i \in Ids : Built'[i] # Built[i] =>
          /\ i = Subject[p]
          /\ Asked[p] \in {"add", "update", "delete"}
          /\ Asked[p] = "add" => Built'[i] # "none"
          /\ Asked[p] = "delete" => Built'[i] = "none"
  BY <1>2, <1>3, <1>4 DEF Mutating
<1>6. Asked[p] # "none"
  BY <1>2, <1>3
<1> QED
  BY <1>1, <1>2, <1>5, <1>6
  DEF Registry!Work, Registry!InFlight, Asked, Subject, Listed, Built

\* An answer other than a COMMIT's leaves the list alone and promises nothing.
LEMMA PlainAnswerRefines ==
    ASSUME RegistryInv, NEW p \in Req, Step(p) \/ Crash(p), UNCHANGED engine,
           Failed(p) \/ Shown(p) \/ SaveRow(p)
    PROVE  Registry!Answer(p)
<1>1. Active(p) /\ resp[p] = "none" /\ Kind(p) # "none" /\ UNCHANGED call
  BY StepsAreActive, CallIsFixed
  DEF RegistryInv, TablesInv, Answered, Active, Inv, WellFormed, AllKinds
<1>2. /\ UNCHANGED aws
      /\ resp'[p] # "none"
      /\ \A q \in Req \ {p} : resp'[q] = resp[q]
      /\ Kind(p) \in {"add", "update", "delete"} => resp'[p] # "200"
  <2> USE DEF RegistryInv, TablesInv, Inv, TypeOK
  <2>1. CASE Failed(p)
    BY <2>1 DEF Failed, FailWith, Rollback, Reply
  <2>2. CASE Shown(p)
    BY <2>2 DEF Shown, Reply
  <2>3. CASE SaveRow(p)
    BY <2>3 DEF SaveRow, CanExecute, At, Reply, WellFormed, Serving
  <2> QED
    BY <2>1, <2>2, <2>3
<1>3. /\ UNCHANGED <<Asked, Subject, Listed, Built>>
      /\ Asked[p] = Kind(p)
  BY <1>1, <1>2 DEF Asked, Subject, Listed, Built, Kind, Target
<1> QED
  BY <1>1, <1>2, <1>3
  DEF Registry!Answer, Registry!InFlight, Asked, Subject, Listed, Built

\* A COMMIT that takes effect lists a connection that is whole, or withdraws
\* one whose engine is gone; any other leaves the list alone and fails.
LEMMA CommitRefines ==
    ASSUME RegistryInv, NEW p \in Req, CommitTx(p)
    PROVE  Registry!Answer(p)
<1> USE DEF At
<1>0. Step(p)
  BY DEF Step, Statement
<1>1. Active(p) /\ resp[p] = "none" /\ UNCHANGED <<call, engine>> /\ Kind(p) \in Mutating
  BY <1>0, StepsAreActive
  DEF CommitTx, RegistryInv, TablesInv, Answered, Active, Inv, WellFormed, Serving
<1>2. PICK ok \in BOOLEAN : Commit(p, ok) /\ Reply(p, IF ok THEN "200" ELSE ErrorCode(p))
  BY DEF CommitTx
<1>3. /\ resp'[p] # "none"
      /\ \A q \in Req \ {p} : resp'[q] = resp[q]
      /\ ~ok => resp'[p] # "200"
  BY <1>2 DEF Reply, ErrorCode, RegistryInv, TablesInv, Inv, TypeOK
<1>4. PICK t \in Ids : t = Target(p)
  BY <1>1 DEF Active, RegistryInv, TablesInv, Inv, WellFormed
<1>5. HasWritten(p) /\ (Undisturbed(p) => Ahead(p)) /\ pc[p] = "commit"
  BY <1>1 DEF HasWritten, Mutating, CommitTx, RegistryInv, EnginesKept
<1>6. /\ UNCHANGED <<Asked, Subject, Built>>
      /\ \A q \in Req : Asked[q] = Kind(q) /\ Subject[q] = Target(q)
  BY <1>1 DEF Asked, Subject, Built, Kind, Target
<1>7. CASE UNCHANGED aws /\ ~ok
  <2>1. UNCHANGED Listed
    BY <1>7 DEF Listed
  <2>2. Asked[p] # "none"
    BY <1>1, <1>6 DEF Mutating
  <2> QED
    BY <1>1, <1>3, <1>6, <1>7, <2>1, <2>2
    DEF Registry!Answer, Registry!InFlight, Asked, Subject, Listed, Built
<1>8. CASE Apply(p)
  <2>1. /\ tx[p].aws[t] # NoWrite
        /\ tx[p].aws[t] = NoRow <=> Kind(p) = "delete"
        /\ \A i \in Ids \ {t} : tx[p].aws[i] = NoWrite
    BY <1>4, <1>5 DEF RegistryInv, TablesInv, Pending
  <2>2. aws'[t] = tx[p].aws[t] /\ \A i \in Ids \ {t} : aws'[i] = aws[i]
    BY <1>8, <2>1 DEF Apply, AwsSeenBy, Overlay, RegistryInv, TablesInv, Inv, TypeOK, StoreTypeOK
  <2>3. CASE Kind(p) = "delete"
    <3>1. t \in Listed
      BY <1>4, <1>5, <2>3 DEF RegistryInv, TablesInv, Deletable, Listed
    <3>2. Listed' = Listed \ {t}
      BY <2>1, <2>2, <2>3 DEF Listed
    <3>3. (\A q \in Req : Kind(q) = "update" => Target(q) # t) => Built[t] = "none"
      BY <1>4, <1>5, <2>3, BuiltIs DEF Undisturbed, Ahead
    <3>4. Registry!Withdraw(p, t)
      BY <1>6, <2>3, <3>1, <3>2, <3>3
      DEF Registry!Withdraw, Registry!Unpatched, Asked, Subject, Listed, Built
    <3>5. Asked[p] # "none" /\ Subject[p] = t
      BY <1>4, <1>6, <2>3
    <3> QED
      BY <1>1, <1>3, <1>6, <3>4, <3>5
      DEF Registry!Answer, Registry!InFlight, Registry!Withdraw, Registry!Unpatched,
          Asked, Subject, Listed, Built
  <2>4. CASE Kind(p) \in {"add", "update"}
    <3>1. Listed' = Listed \cup {t}
      BY <2>1, <2>2, <2>4 DEF Listed
    <3>2. Kind(p) = "add" => t \notin Listed /\ Built[t] = "whole"
      <4>1. Kind(p) = "add" => Unknown(p) /\ t = p
        BY <1>4, <1>5 DEF RegistryInv, TablesInv, UuidsAreNew, Over, Inv, WellFormed
      <4>2. Kind(p) = "add" => Complete(engine[t])
        BY <1>4, <1>5 DEF Undisturbed, Ahead
      <4> QED
        BY <4>1, <4>2, BuiltIs DEF Unknown, Listed
    <3>3. /\ Kind(p) = "update"
          /\ \A q \in Req \ {p} : Kind(q) \in {"update", "delete"} => Target(q) # t
          => Built[t] = "whole"
      BY <1>4, <1>5, BuiltIs DEF Undisturbed, Ahead
    <3>4. Registry!List(p, t)
      BY <1>6, <2>4, <3>1, <3>2, <3>3
      DEF Registry!List, Registry!Alone, Asked, Subject, Listed, Built
    <3>5. Asked[p] # "none" /\ Subject[p] = t
      BY <1>4, <1>6, <2>4
    <3> QED
      BY <1>1, <1>3, <1>6, <3>4, <3>5
      DEF Registry!Answer, Registry!InFlight, Registry!List, Registry!Alone,
          Asked, Subject, Listed, Built
  <2> QED
    BY <1>1, <2>3, <2>4 DEF Mutating
<1> QED
  BY <1>2, <1>7, <1>8 DEF Commit, Rollback

\* Every step of a handler is one of the registry's, or none.
LEMMA StepRefines ==
    ASSUME RegistryInv, NEW p \in Req, Step(p) \/ Crash(p)
    PROVE  Registry!Next \/ UNCHANGED Registry!vars
<1>1. Outcome(p) /\ UNCHANGED call
  BY StepOutcome, CallIsFixed DEF RegistryInv, TablesInv
<1>2. CASE UNCHANGED <<engine, aws, call, resp>>
  BY <1>2 DEF Registry!vars, Kind, Target
<1>3. CASE UNCHANGED engine /\ (Failed(p) \/ Shown(p) \/ SaveRow(p))
  BY <1>3, PlainAnswerRefines DEF Registry!Next
<1>4. CASE CommitTx(p)
  BY <1>4, CommitRefines DEF Registry!Next
<1>5. CASE WriteVault(p) /\ Called(p)
  BY <1>1, <1>5, WorkRefines DEF Called, Registry!Next
<1>6. CASE WriteVault(p) /\ Failed(p)
  <2>1. UNCHANGED aws
    BY <1>6 DEF Failed, FailWith, Rollback
  <2>2. resp'[p] \notin {"none", "200"} /\ \A q \in Req \ {p} : resp'[q] = resp[q]
    BY <1>6 DEF Failed, FailWith, Reply, RegistryInv, TablesInv, Inv, TypeOK
  <2>3. Registry!WorkAndFail(p)
    BY <1>1, <1>6, <2>1, <2>2, WorkRefines DEF Registry!WorkAndFail
  <2> QED
    BY <2>3 DEF Registry!Next
<1> QED
  BY <1>1, <1>2, <1>3, <1>4, <1>5, <1>6 DEF Outcome, Quiet, WroteConn, WroteAws

\* The handlers, whatever clients ask, whatever fails and however they
\* interleave, implement the registry: what a POST lists is whole, what a
\* DELETE that meets no PATCH withdraws has no engine, an answer of 200 to either
\* says that it took effect, and no request touches another's connection.
THEOREM Refinement == Spec => ImplementsRegistry
<1>1. RegistryInv /\ [Next]_vars => [Registry!Next]_(Registry!vars)
  <2> SUFFICES ASSUME RegistryInv, [Next]_vars PROVE [Registry!Next]_(Registry!vars)
    OBVIOUS
  <2>1. CASE UNCHANGED vars
    BY <2>1 DEF vars, Registry!vars, Kind, Target
  <2>2. ASSUME NEW p \in Req, Start(p) PROVE Registry!Next
    BY <2>2, StartRefines DEF RegistryInv, Registry!Next
  <2>3. ASSUME NEW p \in Req, Step(p) \/ Crash(p) PROVE Registry!Next \/ UNCHANGED Registry!vars
    BY <2>3, StepRefines
  <2> QED
    BY <2>1, <2>2, <2>3 DEF Next
<1> QED
  BY <1>1, InitRefines, RegistryInvHolds, PTL DEF Spec, ImplementsRegistry, Registry!Spec
=============================================================================
