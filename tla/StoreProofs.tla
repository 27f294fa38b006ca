----------------------------- MODULE StoreProofs -----------------------------
(***************************************************************************)
(* What holds of the rows and the engines of a connection, for any         *)
(* requests, endpoints, bodies and faults.  These theorems rest on the     *)
(* invariant of RegistryRefinement.                                        *)
(***************************************************************************)
EXTENDS RegistryRefinement

\* What a step may do to the row and the engine of a connection.
LEMMA StepEffect ==
    ASSUME RegistryInv, NEW p \in Req, Start(p) \/ Step(p) \/ Crash(p), NEW i \in Ids
    PROVE  /\ aws'[i] # aws[i] =>
                /\ CommitTx(p) /\ Step(p) /\ i = Target(p) /\ HasWritten(p) /\ UNCHANGED engine
                /\ aws'[i] = tx[p].aws[i]
                /\ aws'[i] = NoRow <=> Kind(p) = "delete"
           /\ engine'[i] # engine[i] =>
                /\ WriteVault(p) /\ i = Target(p)
                /\ UNCHANGED <<aws, call>>
                /\ Kind(p) = "add" => aws[i] = NoRow
<1> USE DEF RegistryInv, TablesInv
<1>1. CASE Start(p)
  BY <1>1 DEF Start, storeVars
<1>2. CASE Step(p) \/ Crash(p)
  <2>1. Outcome(p) /\ UNCHANGED call
    BY <1>2, StepOutcome, CallIsFixed
  <2>2. ASSUME aws'[i] # aws[i]
        PROVE  /\ CommitTx(p) /\ Step(p) /\ i = Target(p) /\ HasWritten(p) /\ UNCHANGED engine
               /\ aws'[i] = tx[p].aws[i]
               /\ aws'[i] = NoRow <=> Kind(p) = "delete"
    BY <1>2, <2>2, OnlyCommitChangesAws DEF Pending, CommitTx, Step, Statement
  <2>3. ASSUME engine'[i] # engine[i]
        PROVE  /\ WriteVault(p) /\ i = Target(p)
               /\ UNCHANGED <<aws, call>>
               /\ Kind(p) = "add" => aws[i] = NoRow
    <3>1. WriteVault(p)
      BY <2>1, <2>3 DEF Outcome, Quiet, Shown, WroteConn, WroteAws
    <3>2. i = Target(p) /\ pc[p] # "done"
      BY <2>3, <3>1, EngineEffect
    <3>3. UNCHANGED aws
      BY <3>1, CallOutcome DEF Failed, FailWith, Rollback, Called
    <3>4. Kind(p) = "add" => aws[i] = NoRow
      BY <3>2 DEF UuidsAreNew, Over, Unknown, Inv, WellFormed
    <3> QED
      BY <2>1, <3>1, <3>2, <3>3, <3>4
  <2> QED
    BY <2>2, <2>3
<1> QED
  BY <1>1, <1>2

\* A COMMIT finds the engine as its handler left it, if nobody disturbed it.
LEMMA CommitAhead ==
    ASSUME RegistryInv, NEW p \in Req, CommitTx(p), Undisturbed(p)
    PROVE  IF Kind(p) = "delete" THEN ~engine[Target(p)].mounted ELSE Complete(engine[Target(p)])
  BY DEF RegistryInv, EnginesKept, Ahead, CommitTx, At

\* What a request targets once it always does.
LEMMA UntargetedBefore ==
    ASSUME RegistryInv, NEW p \in Req, Start(p) \/ Step(p) \/ Crash(p),
           NEW i, NEW K, "none" \notin K, ~Targeted(i, K)'
    PROVE  ~Targeted(i, K)
  BY TargetedGrows DEF RegistryInv, TablesInv

\* A row that a list can show has its whole engine in Vault until somebody asks
\* for the connection to be changed or deleted, whatever fails and wherever a
\* request dies: COMMIT is the last thing a POST does.
THEOREM PublishedAreComplete == Spec => []PublishedIsComplete
<1>1. Init => PublishedIsComplete
  BY StartsWhole DEF PublishedIsComplete
<1>2. RegistryInv /\ PublishedIsComplete /\ [Next]_vars => PublishedIsComplete'
  <2> SUFFICES ASSUME RegistryInv, PublishedIsComplete, [Next]_vars PROVE PublishedIsComplete'
    OBVIOUS
  <2>1. CASE UNCHANGED vars
    BY <2>1 DEF vars, PublishedIsComplete, Targeted, Kind, Target
  <2>2. ASSUME NEW p \in Req, Start(p) \/ Step(p) \/ Crash(p), NEW i \in Ids,
               ~Targeted(i, {"update", "delete"})', aws'[i] # NoRow
        PROVE  Complete(engine'[i])
    <3>1. ~Targeted(i, {"update", "delete"})
      BY <2>2, UntargetedBefore
    <3>2. CASE aws'[i] # aws[i]
      <4>1. CommitTx(p) /\ i = Target(p) /\ UNCHANGED engine /\ HasWritten(p)
        BY <2>2, <3>2, StepEffect
      <4>2. Kind(p) = "add"
        BY <3>1, <4>1 DEF Targeted, HasWritten
      <4> QED
        BY <4>1, <4>2, CommitAhead DEF Undisturbed
    <3>3. CASE aws'[i] = aws[i]
      <4>1. Complete(engine[i])
        BY <2>2, <3>1, <3>3 DEF PublishedIsComplete
      <4>2. CASE engine'[i] # engine[i]
        <5>1. WriteVault(p) /\ i = Target(p) /\ Kind(p) # "add"
          BY <2>2, <3>3, <4>2, StepEffect
        <5>2. Kind(p) \in {"update", "delete"}
          BY <5>1, EngineEffect DEF Mutating, RegistryInv, TablesInv
        <5> QED
          BY <3>1, <5>1, <5>2 DEF Targeted
      <4> QED
        BY <4>1, <4>2
    <3> QED
      BY <3>2, <3>3
  <2> QED
    BY <2>1, <2>2 DEF Next, PublishedIsComplete
<1> QED
  BY <1>1, <1>2, RegistryInvHolds, PTL DEF Spec
------------------------------------------------------------------------------
\* What a DELETE reported as deleted stays deleted, but for a PATCH.
DeletedIsGone ==
    \A p \in Req :
        /\ Kind(p) = "delete" /\ resp[p] = "200"
        /\ ~Targeted(Target(p), {"update"})
        => aws[Target(p)] = NoRow

\* A request that is answered was under way, and 200 for a writer is a COMMIT.
LEMMA AnswerEffect ==
    ASSUME RegistryInv, NEW p \in Req, Start(p) \/ Step(p) \/ Crash(p)
    PROVE  /\ \A q \in Req \ {p} : resp'[q] = resp[q]
           /\ resp'[p] # resp[p] => resp[p] = "none" /\ Active(p)
           /\ resp'[p] = "200" /\ resp[p] # "200" /\ Kind(p) \in Mutating =>
                CommitTx(p) /\ Apply(p)
<1> USE DEF RegistryInv, TablesInv
<1>1. CASE Start(p)
  BY <1>1 DEF Start
<1>2. CASE Step(p) \/ Crash(p)
  <2>1. Outcome(p) /\ Active(p) /\ resp[p] = "none"
    BY <1>2, StepOutcome, StepsAreActive DEF Active, Answered
  <2> USE DEF Inv, TypeOK, Reply
  <2>2. CASE Failed(p)
    BY <2>1, <2>2 DEF Failed, FailWith
  <2>3. CASE CommitTx(p)
    <3>1. PICK ok \in BOOLEAN : Commit(p, ok) /\ Reply(p, IF ok THEN "200" ELSE ErrorCode(p))
      BY <2>3 DEF CommitTx
    <3>2. resp'[p] = "200" => ok
      BY <3>1 DEF ErrorCode
    <3> QED
      BY <2>1, <2>3, <3>1, <3>2 DEF Commit
  <2>4. CASE Shown(p) \/ SaveRow(p)
    <3>1. Kind(p) \notin Mutating
      BY <2>4 DEF Shown, SaveRow, CanExecute, At, WellFormed, Serving, Mutating
    <3> QED
      BY <2>1, <2>4, <3>1 DEF Shown, SaveRow
  <2>5. CASE UNCHANGED resp
    BY <2>1, <2>5
  <2> QED
    BY <2>1, <2>2, <2>3, <2>4, <2>5 DEF Outcome, Called, Quiet, WroteConn, WroteAws
<1> QED
  BY <1>1, <1>2

\* What a COMMIT that takes effect does to its row.
LEMMA ApplyEffect ==
    ASSUME RegistryInv, NEW p \in Req, CommitTx(p), Apply(p)
    PROVE  /\ Target(p) \in Ids
           /\ aws'[Target(p)] = tx[p].aws[Target(p)]
           /\ aws'[Target(p)] = NoRow <=> Kind(p) = "delete"
           /\ Kind(p) = "delete" => aws[Target(p)] # NoRow
<1> USE DEF RegistryInv, TablesInv
<1>1. HasWritten(p) /\ Target(p) \in Ids
  BY DEF CommitTx, At, Inv, WellFormed, Serving, Mutating, HasWritten
<1>2. tx[p].aws[Target(p)] # NoWrite /\ (tx[p].aws[Target(p)] = NoRow <=> Kind(p) = "delete")
  BY <1>1 DEF Pending
<1>3. aws'[Target(p)] = tx[p].aws[Target(p)]
  BY <1>1, <1>2 DEF Apply, AwsSeenBy, Overlay, Inv, TypeOK, StoreTypeOK
<1> QED
  BY <1>1, <1>2, <1>3 DEF Deletable

\* No step brings a deleted connection back, and a DELETE that succeeds deletes.
LEMMA NextDeletedIsGone ==
    ASSUME RegistryInv, DeletedIsGone, NEW s \in Req, Start(s) \/ Step(s) \/ Crash(s)
    PROVE  DeletedIsGone'
<1> USE DEF RegistryInv, TablesInv
<1> SUFFICES ASSUME NEW p \in Req, Kind(p)' = "delete", resp'[p] = "200",
                    ~Targeted(Target(p), {"update"})'
             PROVE  aws'[Target(p)'] = NoRow
  BY DEF DeletedIsGone
<1>1. Kind(p)' = Kind(p) /\ Target(p)' = Target(p)
  <2>1. CASE Start(s)
    <3>1. resp[p] = "200" /\ pc[p] = "done" /\ pc[s] = "idle"
      BY <2>1 DEF Start, At, Answered
    <3> QED
      BY <2>1, <3>1, StepIsLocal DEF Others, Kind, Target
  <2>2. CASE Step(s) \/ Crash(s)
    BY <2>2, CallIsFixed DEF Kind, Target
  <2> QED
    BY <2>1, <2>2
<1>2. PICK t \in Ids : t = Target(p)
  BY <1>1, NotSent DEF Inv, WellFormed
<1>4. ~Targeted(t, {"update"})
  <2>1. ~Targeted(t, {"update"})'
    BY <1>1, <1>2 DEF Targeted
  <2> QED
    BY <2>1, UntargetedBefore
<1>5. CASE resp[p] = "200"
  <2>1. aws[t] = NoRow
    BY <1>1, <1>2, <1>4, <1>5 DEF DeletedIsGone
  <2>2. CASE aws'[t] # aws[t]
    <3>1. CommitTx(s) /\ t = Target(s) /\ HasWritten(s) /\ Kind(s) # "delete" /\ pc[s] = "commit"
      BY <2>1, <2>2, StepEffect DEF CommitTx, At
    <3>2. Kind(s) = "add"
      BY <1>4, <3>1 DEF Targeted, HasWritten
    <3> QED
      BY <1>1, <1>2, <3>1, <3>2, AddsAreAlone
  <2> QED
    BY <1>1, <1>2, <2>1, <2>2
<1>6. CASE resp[p] # "200"
  <2>1. s = p /\ CommitTx(p) /\ Apply(p)
    BY <1>1, <1>6, AnswerEffect DEF Mutating
  <2> QED
    BY <1>1, <2>1, ApplyEffect
<1> QED
  BY <1>5, <1>6

\* Of the DELETEs of one connection that nobody patches at most one reports
\* success, however they interleave and whatever fails: the second finds no row
\* to delete once the first has committed.
THEOREM DeletedOnce == Spec => []DeleteAtMostOnce
<1>1. Init => DeletedIsGone /\ DeleteAtMostOnce
  BY DEF Init, DeletedIsGone, DeleteAtMostOnce
<1>2. RegistryInv /\ DeletedIsGone /\ DeleteAtMostOnce /\ [Next]_vars
        => (DeletedIsGone /\ DeleteAtMostOnce)'
  <2> SUFFICES ASSUME RegistryInv, DeletedIsGone, DeleteAtMostOnce, [Next]_vars
               PROVE  (DeletedIsGone /\ DeleteAtMostOnce)'
    OBVIOUS
  <2>1. CASE UNCHANGED vars
    BY <2>1 DEF vars, DeletedIsGone, DeleteAtMostOnce, Targeted, Kind, Target
  <2>2. ASSUME NEW s \in Req, Start(s) \/ Step(s) \/ Crash(s)
        PROVE  (DeletedIsGone /\ DeleteAtMostOnce)'
    <3>1. DeletedIsGone'
      BY <2>2, NextDeletedIsGone
    <3>2. ASSUME NEW p \in Req, NEW q \in Req, p # q,
                 Kind(p)' = "delete", Kind(q)' = "delete", Target(p)' = Target(q)',
                 resp'[p] = "200", resp'[q] = "200", ~Targeted(Target(p), {"update"})'
          PROVE  FALSE
      <4>1. \A r \in {p, q} : Kind(r)' = Kind(r) /\ Target(r)' = Target(r)
        <5>1. CASE Start(s)
          <6>1. pc[s] = "idle" /\ pc[p] = "done" /\ pc[q] = "done"
            BY <2>2, <3>2, <5>1 DEF Start, At, RegistryInv, TablesInv, Answered
          <6> QED
            BY <2>2, <6>1, StepIsLocal DEF Others, Kind, Target, RegistryInv, TablesInv
        <5>2. CASE Step(s) \/ Crash(s)
          BY <5>2, CallIsFixed DEF Kind, Target, RegistryInv, TablesInv
        <5> QED
          BY <2>2, <5>1, <5>2
      <4>2. PICK t \in Ids : t = Target(p)
        BY <3>2, <4>1, NotSent DEF RegistryInv, TablesInv, Inv, WellFormed
      <4>6. ~Targeted(t, {"update"})
        <5>1. ~Targeted(t, {"update"})'
          BY <3>2, <4>1, <4>2 DEF Targeted
        <5> QED
          BY <2>2, <5>1, UntargetedBefore
      <4>3. \A r \in {p, q} : resp[r] = "200" => aws[Target(p)] = NoRow
        BY <3>2, <4>1, <4>2, <4>6 DEF DeletedIsGone
      <4>4. ASSUME NEW r \in {p, q}, resp[r] # "200"
            PROVE  r = s /\ aws[Target(p)] # NoRow
        <5>1. r = s /\ Kind(s) = "delete" /\ resp'[s] = "200" /\ Target(s) = Target(p)
          BY <2>2, <3>2, <4>1, <4>4, AnswerEffect
        <5>2. CommitTx(s) /\ Apply(s)
          BY <2>2, <4>4, <5>1, AnswerEffect DEF Mutating
        <5> QED
          BY <5>1, <5>2, ApplyEffect
      <4>5. resp[p] = "200" /\ resp[q] = "200"
        BY <3>2, <4>3, <4>4
      <4> QED
        BY <3>2, <4>1, <4>2, <4>5, <4>6 DEF DeleteAtMostOnce
    <3> QED
      BY <3>1, <3>2 DEF DeleteAtMostOnce
  <2> QED
    BY <2>1, <2>2 DEF Next
<1> QED
  BY <1>1, <1>2, RegistryInvHolds, PTL DEF Spec

\* Nothing but a PATCH brings back the aws_connections row of a connection that
\* was there and has been deleted: neither a test nor a link that read it
\* before, nor a failed or a late COMMIT.
THEOREM DeletedRowsStay == Spec => DeletedStaysDeleted
<1>1. RegistryInv /\ [Next]_vars
        => [\A i \in Ids : Gone(i) /\ ~Targeted(i, {"update"}) => Gone(i)']_vars
  <2> SUFFICES ASSUME RegistryInv, NEW p \in Req, Start(p) \/ Step(p) \/ Crash(p),
                      NEW i \in Ids, Gone(i), ~Targeted(i, {"update"})
               PROVE  Gone(i)'
    BY DEF Next
  <2>1. aws'[i] = NoRow
    <3> SUFFICES ASSUME aws'[i] # NoRow PROVE FALSE
      OBVIOUS
    <3>1. CommitTx(p) /\ i = Target(p) /\ HasWritten(p) /\ Kind(p) # "delete"
      BY StepEffect DEF Gone
    <3>2. Kind(p) = "add" /\ i = p
      BY <3>1 DEF Targeted, HasWritten, RegistryInv, TablesInv, Inv, WellFormed
    <3>3. resp[p] = "none"
      BY <3>1 DEF CommitTx, At, RegistryInv, TablesInv, Answered
    <3> QED
      BY <3>2, <3>3 DEF Gone
  <2>2. i \in Req => resp'[i] = "200"
    BY AnswerEffect DEF Gone
  <2> QED
    BY <2>1, <2>2 DEF Gone
<1> QED
  BY <1>1, RegistryInvHolds, PTL DEF Spec, DeletedStaysDeleted
-----------------------------------------------------------------------------
(***************************************************************************)
(* The two tables agree about every connection that is not both deleted    *)
(* and written back.  This theorem needs, on top of the invariant of       *)
(* RegistryRefinement, that a handler writes back the rows it has read.    *)
(***************************************************************************)

(***************************************************************************)
(* How a handler comes by the keys of the rows it writes.                  *)
(***************************************************************************)
Unread == {"idle", "validate", "read_aws", "read_conn"}

\* First.
FoundAws(p) ==
    /\ pc[p] = "read_aws" /\ pc'[p] = "read_conn"
    /\ aws[Target(p)] # NoRow
    /\ loc'[p].fk = aws[Target(p)] /\ loc'[p].cid = loc[p].cid

\* Preload and getConnection.
FoundConn(p) ==
    /\ pc[p] = "read_conn" /\ pc'[p] \notin Unread
    /\ loc'[p].fk = loc[p].fk
    /\ IF conns[loc[p].fk] # NoRow
       THEN loc'[p].cid = loc[p].fk
       ELSE loc'[p].cid = loc[p].cid /\ Kind(p) \notin {"link", "unlink"}

\* NewAWSConnection.
Minted(p) ==
    /\ pc[p] = "validate" /\ pc'[p] = "create_conn"
    /\ loc'[p].fk = p /\ loc'[p].cid = p

Kept(p) ==
    /\ {pc[p], pc'[p]} \cap Unread = {}
    /\ loc'[p].fk = loc[p].fk /\ loc'[p].cid = loc[p].cid

\* A step that does not fail is one of these.
LEMMA LocEffect ==
    ASSUME Inv, NEW p \in Req, Step(p) \/ Crash(p)
    PROVE  Failed(p) \/ FoundAws(p) \/ FoundConn(p) \/ Minted(p) \/ Kept(p)
<1> USE DEF At, Inv, TypeOK, Goto, Unread
<1>0. UNCHANGED call /\ pc[p] # "idle"
  BY CallIsFixed
<1>1. ASSUME Fail(p) PROVE Failed(p)
  BY <1>0, <1>1 DEF Failed, Fail, ErrorCode, Response
<1>2. CASE ReadAws(p)
  BY <1>1, <1>2 DEF ReadAws, FoundAws, Local
<1>3. CASE ReadConn(p)
  <2>1. Kind(p) \in AllKinds \ {"add"}
    BY <1>3 DEF ReadConn, WellFormed, Serving
  <2>2. AfterRead(Kind(p)) \notin Unread
    BY <2>1 DEF AfterRead, AllKinds
  <2> QED
    BY <1>1, <1>3, <2>2 DEF ReadConn, FoundConn, Local
<1>4. CASE AddValidate(p)
  <2>1. FailWith(p, "400") \/ Minted(p)
    BY <1>4 DEF AddValidate, Minted
  <2> QED
    BY <1>0, <2>1 DEF Failed, Response
<1>5. CASE UpdateMerge(p) \/ UpdateRemerge(p)
  <2>1. Merge(loc[p], call[p].body).fk = loc[p].fk /\ Merge(loc[p], call[p].body).cid = loc[p].cid
    BY DEF Merge, Local
  <2>2. Merge(loc[p], call[p].body) \in Local
    BY Constants, MergeType DEF Request
  <2>3. Fail(p) \/ FailWith(p, "400") \/ Kept(p)
    BY <1>5, <2>1, <2>2 DEF UpdateMerge, UpdateRemerge, Kept, Local
  <2> QED
    BY <1>0, <1>1, <2>3 DEF Failed, Response
<1>6. CASE AppendApp(p) \/ RemoveApp(p)
  BY <1>0, <1>6 DEF AppendApp, RemoveApp, Failed, Response, Kept, Local
<1>7. CASE ReadVault(p)
  <2>1. ASSUME AbandonRead(p), pc[p] \notin Unread PROVE Failed(p) \/ Kept(p)
    BY <1>1, <2>1 DEF AbandonRead, Kept, Local
  <2>2. CASE GetRole(p)
    <3>1. Kind(p) \in {"update", "get", "test"}
      BY <2>2 DEF GetRole, WellFormed, Serving
    <3> QED
      BY <2>2, <3>1 DEF GetRole, Reply, Kept, Local
  <2>3. CASE GetConfig(p) \/ TestCreds(p)
    BY <2>3 DEF GetConfig, TestCreds, Kept, Local
  <2>4. CASE GetLease(p) \/ GetRoleName(p) \/ VaultReadFails(p)
    BY <2>1, <2>4 DEF GetLease, GetRoleName, VaultReadFails, ReadStages, Kept
  <2> QED
    BY <1>7, <2>2, <2>3, <2>4 DEF ReadVault
<1>8. CASE WriteVault(p)
  <2>1. CASE Called(p)
    BY <2>1 DEF Called, NextCall, AddStages, Kept
  <2> QED
    BY <1>8, <2>1, CallOutcome
<1>9. CASE Statement(p)
  <2>1. CASE WroteConn(p) \/ WroteAws(p)
    BY <2>1 DEF WroteConn, WroteAws, Kept
  <2>2. CASE SaveRow(p) \/ CommitTx(p)
    BY <2>2 DEF SaveRow, CommitTx, CanExecute, Reply, Kept
  <2> QED
    BY <1>9, <2>1, <2>2, StatementOutcome
<1>10. CASE Crash(p)
  BY <1>0, <1>10 DEF Crash, Failed, Response
<1> QED
  BY <1>2, <1>3, <1>4, <1>5, <1>6, <1>7, <1>8, <1>9, <1>10 DEF Step, Read, Memory

\* Which statement it is.
LEMMA WroteConnIs ==
    ASSUME NEW p \in Req, Step(p) \/ Crash(p), WroteConn(p), pc \in [Req -> Stage]
    PROVE  CreateConn(p) \/ SaveConn(p) \/ DeleteConn(p)
<1>1. pc[p] \in {"create_conn", "save_conn", "del_conn"} /\ pc'[p] # "done"
  BY DEF WroteConn
<1>2. ~Fail(p) /\ ~Crash(p)
  BY <1>1 DEF Fail, Crash, FailWith, Reply, Goto
<1> QED
  BY <1>1, <1>2 DEF Step, Read, ReadAws, ReadConn, Memory, AddValidate, UpdateMerge,
     UpdateRemerge, AppendApp, RemoveApp, ReadVault, GetConfig, GetLease, GetRoleName, GetRole,
     VaultReadFails, TestCreds, ReadStages, WriteVault, EnableAWSSecretsEngine,
     ConfigureAWSSecretsEngine, ConfigureAWSRootCredentials, ConfigureAWSIAMRole,
     DisableAWSSecretsEngine, Statement, CreateAws, SaveAws, DeleteAws, SaveRow, CommitTx,
     DbFails, DeadlockVictim, CanExecute, At

\* What a statement on connections leaves pending.
LEMMA WroteConnEffect ==
    ASSUME Inv, NEW p \in Req, Step(p) \/ Crash(p), WroteConn(p)
    PROVE  /\ loc[p].cid \in CIds
           /\ tx'[p].conns[loc[p].cid] # NoWrite
           /\ tx'[p].conns[loc[p].cid] = NoRow <=> pc[p] = "del_conn"
           /\ \A k \in CIds \ {loc[p].cid} : tx'[p].conns[k] = tx[p].conns[k]
           /\ tx'[p].aws = tx[p].aws
           /\ pc[p] = "del_conn" => loc[p].cid # ZeroId
<1> USE DEF Inv, TypeOK
<1>1. PICK c \in CIds : c = loc[p].cid
  BY DEF Local
<1>2. loc[p].row \in Row
  BY DEF Local
<1>3. NoWrite # NoRow /\ NoRow \notin Row /\ NoWrite \notin Row
  BY DomainAssumption
<1>4. CreateConn(p) \/ SaveConn(p) \/ DeleteConn(p)
  BY WroteConnIs
<1> DEFINE r == IF pc[p] = "del_conn" THEN NoRow ELSE loc[p].row
<1>5. WriteConn(p, c, r) /\ (pc[p] = "del_conn" => c # ZeroId)
  <2>1. ~Fail(p)
    BY DEF WroteConn, Fail, FailWith, Reply, Goto
  <2> QED
    BY <1>1, <1>4, <2>1 DEF CreateConn, SaveConn, DeleteConn, CanExecute, At, Execute
<1> HIDE DEF r
<1>6. /\ tx'[p].conns[c] = r
      /\ \A k \in CIds \ {c} : tx'[p].conns[k] = tx[p].conns[k]
      /\ tx'[p].aws = tx[p].aws
  BY <1>5, WriteConnEffect
<1>7. r # NoWrite /\ (r = NoRow <=> pc[p] = "del_conn")
  BY <1>2, <1>3 DEF r
<1> QED
  BY <1>1, <1>5, <1>6, <1>7
------------------------------------------------------------------------------
(***************************************************************************)
(* The invariant.                                                          *)
(***************************************************************************)
\* A handler works on the rows of its own connection, or on the nil UUID.
OwnKeys ==
    /\ \A p \in Req : {loc[p].fk, loc[p].cid} \subseteq {Target(p), ZeroId}
    /\ \A i \in Ids : aws[i] \in {i, NoRow, ZeroId}

\* p's transaction has written, and not committed, its connections row.
HasConn(p) ==
    \/ Kind(p) = "add" /\ pc[p] \in {"create_aws", "commit"} \cup AddStages
    \/ Kind(p) = "update" /\ pc[p] \in {"save_aws", "commit"}
    \/ Kind(p) = "delete" /\ pc[p] \in {"disable", "commit"}

\* The row it has written is under the key that its aws_connections row refers to.
PairPending(p) ==
    /\ \A k \in CIds : tx[p].conns[k] # NoWrite <=> HasConn(p) /\ k = loc[p].cid
    /\ HasConn(p) => (tx[p].conns[loc[p].cid] = NoRow <=> Kind(p) = "delete")
    /\ HasConn(p) /\ Kind(p) = "delete" => loc[p].cid # ZeroId
    /\ HasWritten(p) /\ Kind(p) # "delete" => tx[p].aws[Target(p)] = loc[p].cid

\* What a handler is about to write back it has found under its own id, and it is
\* still there unless somebody deletes it.
WritesOwn(p) ==
    /\ Kind(p) = "add" /\ pc[p] \notin Unread \cup {"done"} => loc[p].cid = p
    /\ Kind(p) \in WriteBack /\ ~Targeted(Target(p), {"delete"}) =>
          /\ pc[p] = "read_conn" =>
                loc[p].fk = Target(p) /\ (Kind(p) \in {"update", "test"} => aws[Target(p)] # NoRow)
          /\ pc[p] \notin Unread \cup {"done"} => loc[p].cid = Target(p) /\ aws[Target(p)] # NoRow

RowsInv ==
    /\ RegistryInv
    /\ OwnKeys
    /\ \A p \in Req : PairPending(p) /\ WritesOwn(p)
    /\ RowsPaired

\* What Start does.
LEMMA StartEffect ==
    ASSUME RegistryInv, NEW p \in Req, Start(p)
    PROVE  /\ UNCHANGED <<engine, conns, aws, tx, resp>> /\ pc[p] = "idle"
           /\ pc'[p] \in Unread \ {"idle"}
           /\ Target(p)' \in Ids
           /\ loc'[p].cid = loc[p].cid
           /\ loc'[p].fk \in {Target(p)', ZeroId}
           /\ pc'[p] = "read_conn" => Kind(p)' \in {"link", "unlink"} /\ loc'[p].fk = Target(p)'
<1> USE DEF RegistryInv, TablesInv
<1>1. PICK kind \in Kinds, i \in Ids :
        /\ Kind(p)' = kind /\ Target(p)' = i
        /\ pc'[p] = FirstStage(kind)
        /\ loc'[p].fk = IF kind \in {"link", "unlink"} THEN i ELSE ZeroId
        /\ loc'[p].cid = loc[p].cid
  BY DEF Start, Kind, Target, Goto, Inv, TypeOK, Local
<1> QED
  BY <1>1, CallAssumption DEF Start, storeVars, At, FirstStage, Unread, AllKinds

\* The invariant holds at the start.
LEMMA InitRows == Init => OwnKeys /\ (\A p \in Req : PairPending(p) /\ WritesOwn(p)) /\ RowsPaired
<1> SUFFICES ASSUME Init
             PROVE  OwnKeys /\ (\A p \in Req : PairPending(p) /\ WritesOwn(p)) /\ RowsPaired
  OBVIOUS
<1>1. \A p \in Req : Kind(p) = "none" /\ loc[p].fk = ZeroId /\ loc[p].cid = ZeroId
  BY DEF Init, NoCall, Kind, ZeroLocal
<1>2. \A i \in Ids : aws[i] = IF i \in Preloaded THEN i ELSE NoRow
  BY DEF Init, StoreInit
<1>3. \A p \in Req, k \in CIds : tx[p].conns[k] = NoWrite
  BY DEF Init, StoreInit, NoTx
<1>4. ASSUME NEW i \in Ids PROVE aws[i] \in {i, NoRow} /\ (aws[i] = NoRow <=> conns[i] = NoRow)
  <2>1. CASE i \in Preloaded
    <3>1. Seed[i] \in SeedEntry
      BY <2>1, DomainAssumption
    <3>2. conns[i] = Seed[i].row /\ Seed[i].row \in Row /\ i \in CIds
      BY <2>1, <3>1, Constants DEF Init, StoreInit, SeedEntry
    <3> QED
      BY <1>2, <2>1, <3>2, DomainAssumption
  <2>2. CASE i \notin Preloaded
    BY <1>2, <2>2, Constants DEF Init, StoreInit
  <2> QED
    BY <2>1, <2>2
<1>5. conns[ZeroId] = NoRow
  BY DomainAssumption DEF Init, StoreInit, Ids, CIds
<1> QED
  BY <1>1, <1>2, <1>3, <1>4, <1>5 DEF OwnKeys, PairPending, HasConn, HasWritten, WritesOwn,
     WriteBack, RowsPaired, RowsAgree

\* Whether its connections row is written follows from a request's stage.
LEMMA ConnWrittenFollows ==
    ASSUME TablesInv, NEW p \in Req, Outcome(p), UNCHANGED call
    PROVE  /\ WroteConn(p) => /\ ~HasConn(p) /\ HasConn(p)'
                              /\ pc[p] = "del_conn" <=> Kind(p) = "delete"
           /\ Quiet(p) => ~HasConn(p) /\ ~HasConn(p)'
           /\ Shown(p) \/ SaveRow(p) => ~HasConn(p) /\ ~HasConn(p)'
           /\ WroteAws(p) \/ Called(p) => (HasConn(p)' <=> HasConn(p))
           /\ Failed(p) \/ CommitTx(p) => ~HasConn(p)'
           /\ CommitTx(p) => HasConn(p) /\ HasWritten(p)
<1> USE DEF TablesInv, Inv, TypeOK, WellFormed, Serving, HasConn, Kind
<1>1. WroteConn(p) => ~HasConn(p) /\ HasConn(p)' /\ (pc[p] = "del_conn" <=> Kind(p) = "delete")
  BY DEF WroteConn, AddStages
<1>2. Quiet(p) => ~HasConn(p) /\ ~HasConn(p)'
  BY DEF Quiet, Early, ReadStages, AddStages
<1>3. Shown(p) \/ SaveRow(p) => ~HasConn(p) /\ ~HasConn(p)'
  BY DEF Shown, SaveRow, CanExecute, At, Reply, Goto, AddStages
<1>4. WroteAws(p) => (HasConn(p)' <=> HasConn(p))
  BY DEF WroteAws, AddStages
<1>5. Called(p) => (HasConn(p)' <=> HasConn(p))
  BY DEF Called, NextCall, AddStages
<1>6. Failed(p) \/ CommitTx(p) => ~HasConn(p)'
  BY DEF Failed, FailWith, CommitTx, At, Reply, Goto, AddStages, Mutating
<1>7. CommitTx(p) => HasConn(p) /\ HasWritten(p)
  BY DEF CommitTx, At, Mutating, HasWritten
<1> QED
  BY <1>1, <1>2, <1>3, <1>4, <1>5, <1>6, <1>7

\* The pending rows of a transaction belong together.
LEMMA NextPairPending ==
    ASSUME RowsInv, NEW p \in Req, Step(p) \/ Crash(p)
    PROVE  PairPending(p)'
<1> USE DEF RowsInv, RegistryInv, TablesInv
<1>1. Outcome(p) /\ UNCHANGED call
  BY StepOutcome, CallIsFixed
<1>2. Target(p)' = Target(p) /\ Kind(p)' = Kind(p) /\ Target(p) \in Ids
  BY <1>1, CallIsFixed DEF Target, Kind, Inv, WellFormed
<1>3. PICK c \in CIds : c = loc[p].cid
  BY DEF Inv, TypeOK, Local
<1>4. PairPending(p)
  OBVIOUS
<1>5. CASE Failed(p) \/ CommitTx(p)
  <2>1. \A k \in CIds : tx'[p].conns[k] = NoWrite
    BY <1>5 DEF Failed, FailWith, CommitTx, Commit, Rollback, Apply, Release, NoTx,
       Inv, TypeOK, StoreTypeOK
  <2>2. ~HasConn(p)' /\ ~HasWritten(p)'
    BY <1>1, <1>5, ConnWrittenFollows, WrittenFollows
  <2> QED
    BY <2>1, <2>2 DEF PairPending
<1>6. CASE Quiet(p) \/ Shown(p) \/ SaveRow(p)
  <2>1. UNCHANGED tx
    BY <1>6 DEF Quiet, Shown, SaveRow
  <2>2. ~HasConn(p) /\ ~HasConn(p)'
    BY <1>1, <1>6, ConnWrittenFollows
  <2>3. ~HasWritten(p)
    BY <1>6 DEF Quiet, Shown, SaveRow, CanExecute, At, HasWritten, Early, ReadStages, AddStages,
       Inv, WellFormed, Serving
  <2>4. ~HasWritten(p)'
    BY <1>1, <1>6, <2>3, WrittenFollows
  <2> QED
    BY <1>4, <2>1, <2>2, <2>4 DEF PairPending
<1>7. CASE Called(p)
  <2>1. UNCHANGED <<tx, loc>>
    BY <1>7 DEF Called
  <2>2. (HasConn(p)' <=> HasConn(p)) /\ (HasWritten(p)' <=> HasWritten(p))
    BY <1>1, <1>7, ConnWrittenFollows, WrittenFollows
  <2> QED
    BY <1>2, <1>4, <2>1, <2>2 DEF PairPending
<1>8. CASE WroteConn(p)
  <2>1. UNCHANGED loc
    BY <1>8 DEF WroteConn
  <2>2. /\ tx'[p].conns[c] # NoWrite
        /\ tx'[p].conns[c] = NoRow <=> Kind(p) = "delete"
        /\ \A k \in CIds \ {c} : tx'[p].conns[k] = tx[p].conns[k]
        /\ tx'[p].aws = tx[p].aws
        /\ Kind(p) = "delete" => c # ZeroId
    BY <1>1, <1>3, <1>8, WroteConnEffect, ConnWrittenFollows
  <2>3. ~HasConn(p) /\ HasConn(p)' /\ (HasWritten(p)' <=> HasWritten(p))
    BY <1>1, <1>8, ConnWrittenFollows, WrittenFollows
  <2> QED
    BY <1>2, <1>3, <1>4, <2>1, <2>2, <2>3 DEF PairPending
<1>9. CASE WroteAws(p)
  <2>1. UNCHANGED loc
    BY <1>9 DEF WroteAws
  <2>2. \A k \in CIds : tx'[p].conns[k] = tx[p].conns[k]
    <3>1. tx'[p].conns = tx[p].conns
      BY <1>9 DEF WroteAws, WriteAws, Tx, Inv, TypeOK, StoreTypeOK
    <3> QED
      BY <3>1
  <2>3. HasConn(p)' <=> HasConn(p)
    BY <1>1, <1>9, ConnWrittenFollows
  <2>4. Kind(p) # "delete" => tx'[p].aws[Target(p)] = loc[p].cid
    BY <1>1, <1>9, PendingFollows, WrittenFollows DEF Wrote
  <2> QED
    BY <1>2, <1>3, <1>4, <2>1, <2>2, <2>3, <2>4 DEF PairPending
<1> QED
  BY <1>1, <1>5, <1>6, <1>7, <1>8, <1>9 DEF Outcome

\* A handler learns of no rows but its own.
LEMMA NextOwnKeys ==
    ASSUME RowsInv, NEW p \in Req, Start(p) \/ Step(p) \/ Crash(p)
    PROVE  OwnKeys'
<1> USE DEF RowsInv, RegistryInv, TablesInv, OwnKeys
<1>1. \A q \in Req \ {p} : Target(q)' = Target(q) /\ loc'[q] = loc[q]
  BY StepIsLocal DEF Others, Target
<1>2. {loc'[p].fk, loc'[p].cid} \subseteq {Target(p)', ZeroId}
  <2>1. CASE Start(p)
    BY <2>1, StartEffect, NotSent
  <2>2. CASE Step(p) \/ Crash(p)
    <3>1. UNCHANGED call /\ Target(p)' = Target(p) /\ Target(p) \in Ids
      BY <2>2, CallIsFixed DEF Target, Inv, WellFormed
    <3>2. CASE Failed(p)
      BY <3>2 DEF Failed, FailWith, ZeroLocal, Inv, TypeOK
    <3>3. CASE FoundAws(p)
      BY <3>1, <3>3 DEF FoundAws
    <3>4. CASE FoundConn(p) \/ Kept(p)
      BY <3>1, <3>4 DEF FoundConn, Kept
    <3>5. CASE Minted(p)
      BY <3>1, <3>5 DEF Minted, Inv, WellFormed, Serving
    <3> QED
      BY <2>2, <3>2, <3>3, <3>4, <3>5, LocEffect
  <2> QED
    BY <2>1, <2>2
<1>3. ASSUME NEW i \in Ids PROVE aws'[i] \in {i, NoRow, ZeroId}
  <2>1. CASE aws'[i] # aws[i]
    <3>1. i = Target(p) /\ HasWritten(p) /\ aws'[i] = tx[p].aws[i]
          /\ (aws'[i] = NoRow <=> Kind(p) = "delete")
      BY <2>1, StepEffect
    <3>2. Kind(p) # "delete" => aws'[i] = loc[p].cid
      BY <3>1 DEF PairPending
    <3> QED
      BY <3>1, <3>2
  <2> QED
    BY <2>1
<1> QED
  BY <1>1, <1>2, <1>3

\* An aws_connections row goes only when a DELETE for it was sent.
LEMMA RowStays ==
    ASSUME RegistryInv, NEW p \in Req, Start(p) \/ Step(p) \/ Crash(p), NEW i \in Ids,
           aws[i] # NoRow, ~Targeted(i, {"delete"})
    PROVE  aws'[i] # NoRow
<1>1. CASE aws'[i] # aws[i]
  BY <1>1, StepEffect DEF Targeted
<1> QED
  BY <1>1

\* What a handler will write back it has found.
LEMMA NextWritesOwn ==
    ASSUME RowsInv, NEW p \in Req, Start(p) \/ Step(p) \/ Crash(p), NEW q \in Req
    PROVE  WritesOwn(q)'
<1> USE DEF RowsInv, RegistryInv, TablesInv
<1>1. WritesOwn(q)
  OBVIOUS
<1>2. CASE q # p
  <2>1. Kind(q)' = Kind(q) /\ Target(q)' = Target(q) /\ loc'[q] = loc[q] /\ pc'[q] = pc[q]
    BY <1>2, StepIsLocal DEF Others, Target, Kind
  <2>2. CASE pc[q] = "idle"
    BY <2>1, <2>2 DEF WritesOwn, Unread
  <2>3. CASE pc[q] # "idle"
    <3>1. PICK t \in Ids : t = Target(q)
      BY <2>3 DEF Inv, WellFormed
    <3>2. ~Targeted(t, {"delete"})'
            => ~Targeted(t, {"delete"}) /\ (aws[t] # NoRow => aws'[t] # NoRow)
      BY UntargetedBefore, RowStays
    <3>3. Targeted(Target(q), {"delete"})' <=> Targeted(t, {"delete"})'
      BY <2>1, <3>1 DEF Targeted
    <3> QED
      BY <1>1, <2>1, <3>1, <3>2, <3>3 DEF WritesOwn
  <2> QED
    BY <2>2, <2>3
<1>3. CASE q = p /\ Start(p)
  BY <1>3, StartEffect DEF WritesOwn, Unread
<1>4. CASE q = p /\ (Step(p) \/ Crash(p))
  <2>1. UNCHANGED call /\ Active(p) /\ Kind(p)' = Kind(p) /\ Target(p)' = Target(p)
    BY <1>4, CallIsFixed, StepsAreActive DEF Kind, Target
  <2>2. PICK t \in Ids : t = Target(p)
    BY <1>4, CallIsFixed DEF Inv, WellFormed
  <2>3. Targeted(Target(p), {"delete"})' <=> Targeted(t, {"delete"})
    BY <2>1, <2>2 DEF Targeted, Kind, Target
  <2>4. /\ ~Targeted(t, {"delete"}) /\ aws[t] # NoRow => aws'[t] # NoRow
        /\ ~Targeted(t, {"delete"}) => RowsAgree(t)
    BY <1>4, RowStays DEF RowsPaired, Contended
  <2> DEFINE own == Kind(p) \in WriteBack /\ ~Targeted(t, {"delete"})
  <2>5. CASE Failed(p)
    BY <1>4, <2>5 DEF Failed, FailWith, Reply, Goto, WritesOwn, Inv, TypeOK
  <2>6. CASE FoundAws(p)
    <3>1. Kind(p) # "add"
      BY <2>6 DEF FoundAws, Inv, WellFormed, Serving
    <3>2. own => loc'[p].fk = t /\ aws'[t] # NoRow
      BY <2>2, <2>4, <2>6 DEF FoundAws, RowsAgree
    <3> QED
      BY <1>4, <2>1, <2>2, <2>3, <2>6, <3>1, <3>2 DEF WritesOwn, FoundAws, Unread
  <2>7. CASE FoundConn(p)
    <3>1. Kind(p) \in AllKinds \ {"add"}
      BY <2>7 DEF FoundConn, Inv, WellFormed, Serving
    <3>2. own => loc[p].fk = t /\ (Kind(p) \in {"update", "test"} => aws[t] # NoRow)
      BY <1>1, <1>4, <2>2, <2>7 DEF FoundConn, WritesOwn
    <3>3. own => conns[t] # NoRow /\ aws[t] # NoRow
      BY <2>4, <2>7, <3>2 DEF FoundConn, RowsAgree, WriteBack
    <3>4. own => loc'[p].cid = t /\ aws'[t] # NoRow
      BY <2>4, <2>7, <3>2, <3>3 DEF FoundConn
    <3> QED
      BY <1>4, <2>1, <2>2, <2>3, <2>7, <3>1, <3>4 DEF WritesOwn, FoundConn, Unread
  <2>8. CASE Minted(p)
    <3>1. Kind(p) = "add"
      BY <2>8 DEF Minted, Inv, WellFormed, Serving
    <3> QED
      BY <1>4, <2>1, <2>8, <3>1 DEF WritesOwn, Minted, WriteBack
  <2>9. CASE Kept(p)
    <3>1. pc[p] \notin Unread \cup {"done"} /\ pc'[p] \notin Unread
      BY <2>1, <2>9 DEF Kept, Active
    <3>2. own => loc'[p].cid = t /\ aws'[t] # NoRow
      BY <1>1, <1>4, <2>2, <2>4, <2>9, <3>1 DEF WritesOwn, Kept
    <3>3. Kind(p) = "add" => loc'[p].cid = p
      BY <1>1, <1>4, <2>9, <3>1 DEF WritesOwn, Kept
    <3> QED
      BY <1>4, <2>1, <2>2, <2>3, <3>1, <3>2, <3>3 DEF WritesOwn, Unread
  <2> QED
    BY <1>4, <2>5, <2>6, <2>7, <2>8, <2>9, LocEffect
<1> QED
  BY <1>2, <1>3, <1>4

\* So do those of every transaction, whoever steps.
LEMMA NextPairs ==
    ASSUME RowsInv, NEW p \in Req, Start(p) \/ Step(p) \/ Crash(p), NEW q \in Req
    PROVE  PairPending(q)'
<1> USE DEF RowsInv, RegistryInv, TablesInv
<1>1. PairPending(q)
  OBVIOUS
<1>2. CASE q # p
  <2>1. /\ Kind(q)' = Kind(q) /\ Target(q)' = Target(q)
        /\ loc'[q] = loc[q] /\ pc'[q] = pc[q]
    BY <1>2, StepIsLocal DEF Others, Target, Kind
  <2>2. tx'[q] = tx[q]
    <3>1. CASE Start(p)
      BY <3>1, StartEffect
    <3>2. CASE Step(p) \/ Crash(p)
      BY <1>2, <3>2, StepOutcome, TxIsLocal
    <3> QED
      BY <3>1, <3>2
  <2>3. (HasConn(q)' <=> HasConn(q)) /\ (HasWritten(q)' <=> HasWritten(q))
    BY <2>1 DEF HasConn, HasWritten
  <2> QED
    BY <1>1, <2>1, <2>2, <2>3 DEF PairPending
<1>3. CASE q = p /\ Start(p)
  <2>1. UNCHANGED tx /\ pc[p] = "idle" /\ pc'[p] \in Unread
    BY <1>3, StartEffect
  <2>2. ~HasConn(p) /\ ~HasConn(p)' /\ ~HasWritten(p)'
    BY <2>1 DEF HasConn, HasWritten, Unread, AddStages
  <2> QED
    BY <1>1, <1>3, <2>1, <2>2 DEF PairPending
<1>4. CASE q = p /\ (Step(p) \/ Crash(p))
  BY <1>4, NextPairPending
<1> QED
  BY <1>2, <1>3, <1>4
------------------------------------------------------------------------------
(***************************************************************************)
(* The two rows of a connection.                                           *)
(***************************************************************************)
\* What may change a row of connections.
LEMMA ConnsChange ==
    ASSUME RowsInv, NEW p \in Req, Start(p) \/ Step(p) \/ Crash(p),
           NEW k \in CIds, conns'[k] # conns[k]
    PROVE  /\ UNCHANGED call /\ k = loc[p].cid
           /\ \/ CommitTx(p) /\ Apply(p) /\ (conns'[k] = NoRow <=> Kind(p) = "delete")
              \/ SaveRow(p) /\ conns'[k] # NoRow
<1> USE DEF RowsInv, RegistryInv, TablesInv
<1>1. Step(p) \/ Crash(p)
  BY StartEffect
<1>2. Outcome(p) /\ UNCHANGED call
  BY <1>1, StepOutcome, CallIsFixed
<1>3. CASE CommitTx(p)
  <2>1. tx[p].conns[k] # NoWrite \/ SaveRow(p)
    BY <1>2, ConnsFollow
  <2>2. ~SaveRow(p)
    BY <1>3 DEF CommitTx, SaveRow, CanExecute, At
  <2>3. Apply(p)
    BY <1>3 DEF CommitTx, Commit, Rollback
  <2>4. PairPending(p)
    OBVIOUS
  <2>5. HasConn(p) /\ k = loc[p].cid
    BY <2>1, <2>2, <2>4 DEF PairPending
  <2>6. conns'[k] = tx[p].conns[k]
    BY <2>1, <2>2, <2>3 DEF Apply, ConnsSeenBy, Overlay, Inv, TypeOK, StoreTypeOK
  <2> QED
    BY <1>2, <1>3, <2>3, <2>4, <2>5, <2>6 DEF PairPending
<1>4. CASE ~CommitTx(p)
  <2>1. SaveRow(p) /\ k = loc[p].cid
    BY <1>2, <1>4, ConnsFollow
  <2>2. loc[p].row \in Row /\ NoRow \notin Row
    BY DomainAssumption DEF Inv, TypeOK, Local
  <2>3. conns'[k] = loc[p].row
    BY <2>1 DEF SaveRow, Inv, TypeOK, StoreTypeOK
  <2> QED
    BY <1>2, <2>1, <2>2, <2>3
<1> QED
  BY <1>3, <1>4

\* A handler that writes a row of connections, or is about to commit, writes
\* that of its own connection, unless that is being deleted.
LEMMA WritesItsOwn ==
    ASSUME RowsInv, NEW p \in Req, CommitTx(p) \/ SaveRow(p), ~Contended(Target(p))
    PROVE  /\ loc[p].cid = Target(p)
           /\ Kind(p) # "delete" /\ SaveRow(p) => aws[Target(p)] # NoRow
<1> USE DEF RowsInv, RegistryInv, TablesInv
<1>1. PairPending(p) /\ WritesOwn(p)
  OBVIOUS
<1>2. pc[p] \in {"commit", "save_row"} /\ pc[p] \notin Unread \cup {"done"}
  BY DEF CommitTx, SaveRow, CanExecute, At, Unread
<1>3. Kind(p) \in WriteBack \cup {"add", "delete"} /\ (Kind(p) = "add" => Target(p) = p)
  BY <1>2 DEF Inv, WellFormed, Serving, Mutating, WriteBack
<1>4. CASE Kind(p) = "add"
  <2>1. pc[p] = "commit"
    BY <1>2, <1>4 DEF Inv, WellFormed, Serving
  <2>2. ~SaveRow(p)
    BY <2>1 DEF SaveRow, CanExecute, At
  <2> QED
    BY <1>1, <1>2, <1>3, <1>4, <2>2 DEF WritesOwn
<1>5. CASE Kind(p) = "delete"
  <2>1. pc[p] = "commit"
    BY <1>2, <1>5 DEF Inv, WellFormed, Serving
  <2>2. HasConn(p)
    BY <1>5, <2>1 DEF HasConn
  <2> QED
    BY <1>1, <1>5, <2>2 DEF PairPending, OwnKeys
<1>6. CASE Kind(p) \in WriteBack
  <2>1. ~Targeted(Target(p), {"delete"})
    BY <1>6 DEF Contended, Targeted
  <2> QED
    BY <1>1, <1>2, <1>6, <2>1 DEF WritesOwn
<1> QED
  BY <1>3, <1>4, <1>5, <1>6

\* A COMMIT that takes effect writes both rows or deletes both.
LEMMA CommitPairs ==
    ASSUME RowsInv, NEW p \in Req, CommitTx(p), Apply(p), ~Contended(Target(p))
    PROVE  RowsAgree(Target(p))'
<1> USE DEF RowsInv, RegistryInv, TablesInv
<1>1. PairPending(p)
  OBVIOUS
<1>2. Step(p) /\ Outcome(p) /\ UNCHANGED call
  BY StepOutcome, CallIsFixed DEF Step, Statement
<1>3. PICK t \in Ids : t = Target(p)
  BY ApplyEffect
<1>4. t \in CIds /\ loc[p].cid = t /\ Target(p)' = t
  BY <1>2, <1>3, WritesItsOwn DEF CIds, Target
<1>5. HasConn(p) /\ HasWritten(p)
  BY <1>2, ConnWrittenFollows
<1>6. aws'[t] = tx[p].aws[t] /\ (aws'[t] = NoRow <=> Kind(p) = "delete")
  BY <1>3, ApplyEffect
<1>7. Kind(p) # "delete" => aws'[t] = t
  BY <1>1, <1>3, <1>4, <1>5, <1>6 DEF PairPending
<1>8. tx[p].conns[t] # NoWrite /\ (tx[p].conns[t] = NoRow <=> Kind(p) = "delete")
  BY <1>1, <1>4, <1>5 DEF PairPending
<1>9. conns'[t] = tx[p].conns[t]
  BY <1>4, <1>8 DEF Apply, ConnsSeenBy, Overlay, Inv, TypeOK, StoreTypeOK
<1> QED
  BY <1>4, <1>6, <1>7, <1>8, <1>9 DEF RowsAgree

\* The tables stay paired.
LEMMA NextRowsPaired ==
    ASSUME RowsInv, NEW p \in Req, Start(p) \/ Step(p) \/ Crash(p)
    PROVE  RowsPaired'
<1> USE DEF RowsInv, RegistryInv, TablesInv
<1>1. \A i \in Ids : Contended(i) => Contended(i)'
  BY TargetedGrows DEF Contended, WriteBack
<1>2. ASSUME NEW i \in Ids, ~Contended(i)' PROVE RowsAgree(i)'
  <2>1. ~Contended(i) /\ RowsAgree(i)
    BY <1>1, <1>2 DEF RowsPaired
  <2>2. CASE aws'[i] = aws[i] /\ conns'[i] = conns[i]
    BY <2>1, <2>2 DEF RowsAgree
  <2>3. CASE aws'[i] # aws[i]
    <3>1. CommitTx(p) /\ i = Target(p)
      BY <2>3, StepEffect
    <3>2. Apply(p)
      BY <2>3, <3>1 DEF CommitTx, Commit, Rollback
    <3>3. Target(p)' = i
      BY <3>1, CallIsFixed DEF Step, Statement, Target
    <3> QED
      BY <2>1, <3>1, <3>2, <3>3, CommitPairs DEF RowsAgree
  <2>4. CASE conns'[i] # conns[i]
    <3>1. i \in CIds /\ i # ZeroId
      BY DomainAssumption DEF Ids, CIds
    <3>2. /\ UNCHANGED call /\ i = loc[p].cid
          /\ (CommitTx(p) /\ Apply(p)) \/ (SaveRow(p) /\ conns'[i] # NoRow)
      BY <2>4, <3>1, ConnsChange
    <3>3. i = Target(p) /\ Target(p)' = i
      BY <3>1, <3>2 DEF OwnKeys, Target
    <3>4. CASE CommitTx(p) /\ Apply(p)
      BY <2>1, <3>3, <3>4, CommitPairs DEF RowsAgree
    <3>5. CASE SaveRow(p) /\ conns'[i] # NoRow
      <4>1. Kind(p) # "delete" /\ UNCHANGED aws
        BY <3>5 DEF SaveRow, CanExecute, At, Inv, WellFormed, Serving
      <4>2. aws[i] # NoRow
        BY <2>1, <3>3, <3>5, <4>1, WritesItsOwn
      <4> QED
        BY <2>1, <3>5, <4>1, <4>2 DEF RowsAgree
    <3> QED
      BY <3>2, <3>4, <3>5
  <2> QED
    BY <2>2, <2>3, <2>4
<1>3. ASSUME conns'[ZeroId] # NoRow PROVE \E i \in Ids : Contended(i)'
  <2>1. CASE conns'[ZeroId] = conns[ZeroId]
    BY <1>1, <1>3, <2>1 DEF RowsPaired
  <2>2. CASE conns'[ZeroId] # conns[ZeroId]
    <3>1. ZeroId \in CIds /\ ZeroId \notin Ids
      BY DomainAssumption DEF Ids, CIds
    <3>2. ZeroId = loc[p].cid /\ (CommitTx(p) \/ SaveRow(p))
      BY <2>2, <3>1, ConnsChange
    <3>3. Target(p) \in Ids
      BY <3>2 DEF CommitTx, SaveRow, CanExecute, At, Inv, WellFormed
    <3>4. Contended(Target(p))
      BY <3>1, <3>2, <3>3, WritesItsOwn
    <3> QED
      BY <1>1, <3>3, <3>4
  <2> QED
    BY <2>1, <2>2
<1> QED
  BY <1>2, <1>3 DEF RowsPaired

\* The invariant of the rows.
LEMMA RowsInvHolds == Spec => []RowsInv
<1>1. Init /\ RegistryInv => RowsInv
  BY InitRows DEF RowsInv
<1>2. RowsInv /\ [Next]_vars /\ RegistryInv' => RowsInv'
  <2> SUFFICES ASSUME RowsInv, [Next]_vars, RegistryInv' PROVE RowsInv'
    OBVIOUS
  <2>1. CASE UNCHANGED vars
    <3>1. \A p \in Req : PairPending(p)' /\ WritesOwn(p)'
      BY <2>1 DEF vars, RowsInv, PairPending, WritesOwn, HasConn, HasWritten, Targeted, Kind, Target
    <3>2. OwnKeys' /\ RowsPaired'
      BY <2>1 DEF vars, RowsInv, OwnKeys, RowsPaired, RowsAgree, Contended, Targeted, Kind, Target
    <3> QED
      BY <3>1, <3>2 DEF RowsInv
  <2>2. ASSUME NEW p \in Req, Start(p) \/ Step(p) \/ Crash(p) PROVE RowsInv'
    BY <2>2, NextPairs, NextOwnKeys, NextWritesOwn, NextRowsPaired DEF RowsInv
  <2> QED
    BY <2>1, <2>2 DEF Next
<1> QED
  BY <1>1, <1>2, RegistryInvHolds, PTL DEF Spec

\* The generic connection and the aws_connections row appear and disappear
\* together, whatever fails and however requests interleave, unless a deleted
\* connection is also written back; and only then is there a row under the nil
\* UUID: the two DELETEs and the two INSERTs share a transaction, and Save
\* writes only rows that were read together.
THEOREM TablesArePaired == Spec => []RowsPaired
<1>1. RowsInv => RowsPaired
  BY DEF RowsInv
<1> QED
  BY <1>1, RowsInvHolds, PTL
-----------------------------------------------------------------------------
(***************************************************************************)
(* When the database and Vault disagree about a connection, a client knows *)
(* or a request is still at work.  As long as no writer of a connection    *)
(* has been told of an error, whatever is missing or left over has a       *)
(* request that will see to it.                                            *)
(***************************************************************************)

\* No writer of connection i has been told of an error.
Untroubled(i) ==
    \A p \in Req : Kind(p) \in Mutating /\ Target(p) = i => resp[p] \in {"none", "200"}

\* The POST of connection i is under way, or a DELETE of it about to commit.
Adding(i)   == \E p \in Req : Kind(p) = "add" /\ Target(p) = i /\ Active(p)
Deleting(i) == \E p \in Req : Kind(p) = "delete" /\ Target(p) = i /\ At(p, "commit")

\* An engine without a row is being made; an engine that is not whole, under a
\* row, is being deleted, or PATCHes still have to write what it lacks.
Explained(i) ==
    /\ ~(Targeted(i, {"update"}) /\ Targeted(i, {"delete"}))
        => (aws[i] = NoRow /\ engine[i].mounted => Adding(i))
    /\ ~Targeted(i, {"update"}) /\ aws[i] # NoRow => Complete(engine[i]) \/ Deleting(i)
    /\ ~Targeted(i, {"delete"}) /\ aws[i] # NoRow => Accounted(i)

DivergenceInv == \A i \in Ids : Untroubled(i) => Explained(i)

\* What is left to a step, if afterwards no writer has been told of an error.
LEMMA UntroubledStep ==
    ASSUME RegistryInv, NEW p \in Req, Start(p) \/ Step(p) \/ Crash(p),
           NEW i \in Ids, Untroubled(i)'
    PROVE  /\ Untroubled(i)
           /\ Kind(p) \in Mutating /\ Target(p) = i
                => ~Failed(p) /\ ~Crash(p) /\ (CommitTx(p) => Apply(p))
<1> USE DEF RegistryInv, TablesInv
<1>1. ASSUME NEW q \in Req, Kind(q) \in Mutating
      PROVE  Kind(q)' = Kind(q) /\ Target(q)' = Target(q)
  <2>1. CASE q = p
    <3>1. ~Start(p)
      BY <1>1, <2>1, NotSent DEF Start, At, Mutating
    <3> QED
      BY <2>1, <3>1, CallIsFixed DEF Kind, Target
  <2>2. CASE q # p
    BY <2>2, StepIsLocal DEF Others, Kind, Target
  <2> QED
    BY <2>1, <2>2
<1>2. \A q \in Req : resp'[q] = resp[q] \/ resp[q] = "none"
  BY AnswerEffect
<1>3. Untroubled(i)
  BY <1>1, <1>2 DEF Untroubled
<1>4. ASSUME Kind(p) \in Mutating, Target(p) = i
      PROVE  ~Failed(p) /\ ~Crash(p) /\ (CommitTx(p) => Apply(p))
  <2>1. resp'[p] \in {"none", "200"}
    BY <1>1, <1>4 DEF Untroubled
  <2>2. ~Failed(p)
    BY <2>1 DEF Failed, FailWith, Reply, Inv, TypeOK
  <2>3. ~Crash(p)
    BY <2>1 DEF Crash, FailWith, Reply, Inv, TypeOK
  <2>4. ASSUME CommitTx(p) PROVE Apply(p)
    <3>1. PICK ok \in BOOLEAN : Commit(p, ok) /\ Reply(p, IF ok THEN "200" ELSE ErrorCode(p))
      BY <2>4 DEF CommitTx
    <3>2. ok
      BY <2>1, <3>1 DEF Reply, ErrorCode, Inv, TypeOK
    <3> QED
      BY <3>1, <3>2 DEF Commit
  <2> QED
    BY <2>2, <2>3, <2>4
<1> QED
  BY <1>3, <1>4

\* A PATCH whose call succeeds accounts for what is left to write.
LEMMA CalledAccounted ==
    ASSUME Inv, NEW p \in Req, WriteVault(p), Called(p), Kind(p) = "update",
           NEW t \in Ids, t = Target(p), Accounted(t)
    PROVE  Accounted(t)'
<1> USE DEF Inv, TypeOK, VaultTypeOK, At
<1>1. Others(p)
  BY StepIsLocal DEF Step
<1>2. engine[t] \in Engine
  OBVIOUS
<1>3. Target(p)' = t /\ Kind(p)' = "update" /\ UNCHANGED resp /\ pc'[p] = NextCall(p)
  BY DEF Called, Target, Kind
<1>4. ASSUME NEW ok \in BOOLEAN, NEW next, Proceed(p, ok, next) PROVE ok
  BY <1>3, <1>4 DEF Proceed, Fail, FailWith, Reply, Goto, NextCall, Called, AddStages
<1>5. \A S \in SUBSET AddStages : pc'[p] \in S => Updating(t, S)'
  BY <1>3 DEF Updating
<1>6. ASSUME NEW S \in SUBSET AddStages, pc[p] \notin S, Updating(t, S)
      PROVE  Updating(t, S)'
  BY <1>1, <1>6, OthersKeepUpdating
<1>7. {{"enable"}, {"tune"}, {"tune", "root"}, {"tune", "root", "role"}}
          \subseteq SUBSET AddStages
  BY DEF AddStages
<1>8. CASE DisableAWSSecretsEngine(p)
  <2>1. engine'[t] = Unmounted
    BY <1>4, <1>8 DEF DisableAWSSecretsEngine, Disable, Call
  <2>2. pc'[p] = "enable"
    BY <1>3, <1>8 DEF NextCall, DisableAWSSecretsEngine
  <2> QED
    BY <1>5, <1>7, <2>1, <2>2 DEF Accounted, Unmounted
<1>9. CASE EnableAWSSecretsEngine(p)
  <2>1. engine'[t] = FreshMount
    BY <1>4, <1>9 DEF EnableAWSSecretsEngine, Enable, Call
  <2>2. pc'[p] = "tune"
    BY <1>3, <1>9 DEF NextCall, EnableAWSSecretsEngine
  <2> QED
    BY <1>5, <1>7, <2>1, <2>2 DEF Accounted, FreshMount, Unmounted
<1>10. CASE ConfigureAWSSecretsEngine(p)
  <2>1. engine'[t].mounted /\ engine'[t].tuned
    BY <1>2, <1>4, <1>10 DEF ConfigureAWSSecretsEngine, Tune, Call, Engine
  <2>2. pc'[p] = "root"
    BY <1>3, <1>10 DEF NextCall, ConfigureAWSSecretsEngine
  <2> QED
    BY <1>5, <1>7, <2>1, <2>2 DEF Accounted
<1>11. CASE ConfigureAWSRootCredentials(p)
  <2> DEFINE r == [access |-> loc[p].access, secret |-> loc[p].secret]
  <2>1. r # None
    <3>1. r \in [access : Keys \cup {Blank}, secret : Keys \cup {Blank}]
      BY DEF Local
    <3> QED
      BY <3>1, DomainAssumption
  <2>2. engine'[t] = [engine[t] EXCEPT !.root = r] /\ engine[t].mounted
    BY <1>4, <1>11 DEF ConfigureAWSRootCredentials, WriteRoot, Call
  <2>3. pc[p] = "root" /\ pc'[p] = "role"
    BY <1>3, <1>11 DEF NextCall, ConfigureAWSRootCredentials
  <2> HIDE DEF r
  <2>4. engine'[t].mounted /\ engine'[t].tuned = engine[t].tuned /\ engine'[t].root # None
    BY <1>2, <2>1, <2>2 DEF Engine
  <2>5. ~engine'[t].tuned => Updating(t, {"tune"})'
    BY <1>6, <1>7, <2>2, <2>3, <2>4 DEF Accounted
  <2> QED
    BY <1>5, <1>7, <2>3, <2>4, <2>5 DEF Accounted
<1>12. CASE ConfigureAWSIAMRole(p)
  <2> DEFINE r == [ctype |-> loc[p].ctype, arns |-> loc[p].arns]
  <2>1. /\ engine'[t] = [engine[t] EXCEPT !.role = r]
        /\ engine[t].mounted /\ loc[p].ctype # Blank
    BY <1>4, <1>12 DEF ConfigureAWSIAMRole, WriteRole, Call
  <2>2. r # None
    <3>1. r \in [ctype : CredentialTypes, arns : Policies \cup {Blank}]
      BY <2>1 DEF Local
    <3> QED
      BY <3>1, DomainAssumption
  <2>3. pc[p] = "role"
    BY <1>12 DEF ConfigureAWSIAMRole
  <2> HIDE DEF r
  <2>4. /\ engine'[t].mounted /\ engine'[t].tuned = engine[t].tuned
        /\ engine'[t].root = engine[t].root /\ engine'[t].role # None
    BY <1>2, <2>1, <2>2 DEF Engine
  <2>5. /\ ~engine'[t].tuned => Updating(t, {"tune"})'
        /\ engine'[t].root = None => Updating(t, {"tune", "root"})'
    BY <1>6, <1>7, <2>1, <2>3, <2>4 DEF Accounted
  <2> QED
    BY <2>4, <2>5 DEF Accounted
<1> QED
  BY <1>8, <1>9, <1>10, <1>11, <1>12 DEF WriteVault

\* A call to Vault under a connection that nobody has been told of.
LEMMA UntroubledCall ==
    ASSUME RegistryInv, NEW p \in Req, WriteVault(p), NEW i \in Ids, i = Target(p), Untroubled(i)'
    PROVE  /\ Called(p) /\ Kind(p) \in Mutating
           /\ Kind(p)' = Kind(p) /\ Target(p)' = i
           /\ pc[p] \in AddStages \cup {"disable"} /\ pc'[p] = NextCall(p)
           /\ Kind(p) = "delete" => pc'[p] = "commit" /\ engine'[i] \in {engine[i], Unmounted}
<1> USE DEF RegistryInv, TablesInv
<1>1. Step(p)
  BY DEF Step
<1>2. Kind(p) \in Mutating
  BY EngineEffect
<1>3. Called(p)
  BY <1>1, <1>2, UntroubledStep, CallOutcome
<1>4. Kind(p) = "delete" => pc[p] = "disable"
  BY <1>3 DEF Called, Inv, WellFormed, Serving
<1> QED
  BY <1>2, <1>3, <1>4, EngineEffect DEF Called, NextCall, Kind, Target
------------------------------------------------------------------------------
\* An engine without a row is being made.
LEMMA NextAdding ==
    ASSUME RowsInv, NEW p \in Req, Start(p) \/ Step(p) \/ Crash(p),
           NEW i \in Ids, Explained(i), Untroubled(i)',
           ~(Targeted(i, {"update"}) /\ Targeted(i, {"delete"}))',
           aws'[i] = NoRow, engine'[i].mounted
    PROVE  Adding(i)'
<1> USE DEF RowsInv, RegistryInv, TablesInv
<1>1. ~(Targeted(i, {"update"}) /\ Targeted(i, {"delete"}))
  BY UntargetedBefore
<1>2. CASE aws'[i] # aws[i]
  <2>1. CommitTx(p) /\ i = Target(p) /\ Kind(p) = "delete" /\ UNCHANGED engine
    BY <1>2, StepEffect
  <2>2. Undisturbed(p)
    BY <1>1, <2>1 DEF Undisturbed, Targeted
  <2> QED
    BY <2>1, <2>2, CommitAhead
<1>3. CASE aws'[i] = aws[i] /\ engine'[i] # engine[i]
  <2>1. WriteVault(p) /\ i = Target(p)
    BY <1>3, StepEffect
  <2>2. /\ Kind(p) \in Mutating /\ Kind(p)' = Kind(p) /\ Target(p)' = i
        /\ pc[p] \in AddStages \cup {"disable"} /\ pc'[p] = NextCall(p)
        /\ Kind(p) = "delete" => engine'[i] \in {engine[i], Unmounted}
    BY <2>1, UntroubledCall
  <2>3. Kind(p) # "delete"
    BY <1>3, <2>2 DEF Unmounted
  <2>4. CASE Kind(p) = "add"
    <3>1. Active(p)'
      BY <2>2 DEF Active, NextCall, AddStages
    <3> QED
      BY <2>2, <2>4, <3>1 DEF Adding
  <2>5. CASE Kind(p) = "update"
    <3>1. WritesOwn(p) /\ ~Targeted(i, {"delete"})
      BY <1>1, <2>1, <2>5 DEF Targeted
    <3>2. aws[i] # NoRow
      BY <2>1, <2>2, <2>5, <3>1 DEF WritesOwn, WriteBack, Unread, AddStages
    <3> QED
      BY <1>3, <3>2
  <2> QED
    BY <2>2, <2>3, <2>4, <2>5 DEF Mutating
<1>4. CASE aws'[i] = aws[i] /\ engine'[i] = engine[i]
  <2>1. PICK q \in Req : Kind(q) = "add" /\ Target(q) = i /\ Active(q)
    BY <1>1, <1>4 DEF Explained, Adding
  <2>2. CASE q # p
    <3>1. (Kind(q) = "add" /\ Target(q) = i /\ Active(q))'
      BY <2>1, <2>2, StepIsLocal DEF Others, Kind, Target, Active
    <3> QED
      BY <3>1 DEF Adding
  <2>3. CASE q = p
    <3>1. Outcome(p) /\ Kind(p)' = "add" /\ Target(p)' = i
      BY <2>1, <2>3, StartEffect, StepOutcome, CallIsFixed DEF Active, Kind, Target
    <3>2. ~Failed(p) /\ (CommitTx(p) => Apply(p))
      BY <2>1, <2>3, UntroubledStep DEF Mutating
    <3>3. ~CommitTx(p)
      BY <1>4, <2>1, <2>3, <3>2, ApplyEffect
    <3>4. ~Shown(p) /\ ~SaveRow(p)
      BY <2>1, <2>3 DEF Shown, SaveRow, CanExecute, At, Inv, WellFormed, Serving
    <3>5. pc'[p] \notin {"idle", "done"}
      BY <3>1, <3>2, <3>3, <3>4 DEF Outcome, Called, NextCall, Quiet, WroteConn, WroteAws,
         Early, ReadStages, AddStages
    <3> QED
      BY <3>1, <3>5 DEF Adding, Active
  <2> QED
    BY <2>2, <2>3
<1> QED
  BY <1>2, <1>3, <1>4

\* An engine that is not whole, of a connection that nobody patches, is being deleted.
LEMMA NextDeleting ==
    ASSUME RowsInv, NEW p \in Req, Start(p) \/ Step(p) \/ Crash(p),
           NEW i \in Ids, Explained(i), Untroubled(i)', ~Targeted(i, {"update"})', aws'[i] # NoRow
    PROVE  Complete(engine'[i]) \/ Deleting(i)'
<1> USE DEF RowsInv, RegistryInv, TablesInv
<1>1. ~Targeted(i, {"update"})
  BY UntargetedBefore
<1>2. CASE aws'[i] # aws[i]
  <2>1. CommitTx(p) /\ i = Target(p) /\ Kind(p) # "delete" /\ HasWritten(p) /\ UNCHANGED engine
    BY <1>2, StepEffect
  <2>2. Kind(p) = "add"
    BY <1>1, <2>1 DEF Targeted, HasWritten
  <2> QED
    BY <2>1, <2>2, CommitAhead DEF Undisturbed
<1>3. CASE aws'[i] = aws[i] /\ engine'[i] # engine[i]
  <2>1. WriteVault(p) /\ i = Target(p) /\ Kind(p) # "add"
    BY <1>3, StepEffect
  <2>2. /\ Kind(p) \in Mutating /\ Kind(p)' = Kind(p) /\ Target(p)' = i
        /\ Kind(p) = "delete" => pc'[p] = "commit"
    BY <2>1, UntroubledCall
  <2>3. Kind(p) = "delete"
    BY <1>1, <2>1, <2>2 DEF Targeted, Mutating
  <2> QED
    BY <2>2, <2>3 DEF Deleting, At
<1>4. CASE aws'[i] = aws[i] /\ engine'[i] = engine[i]
  <2>1. CASE Complete(engine[i])
    BY <1>4, <2>1
  <2>2. CASE ~Complete(engine[i])
    <3>1. PICK q \in Req : Kind(q) = "delete" /\ Target(q) = i /\ pc[q] = "commit"
      BY <1>1, <1>4, <2>2 DEF Explained, Deleting, At
    <3>2. q # p
      <4>1. SUFFICES ASSUME q = p PROVE FALSE
        OBVIOUS
      <4>2. Outcome(p)
        BY <3>1, <4>1, StartEffect, StepOutcome
      <4>3. ~Failed(p) /\ (CommitTx(p) => Apply(p))
        BY <3>1, <4>1, UntroubledStep DEF Mutating
      <4>4. CommitTx(p)
        BY <3>1, <4>1, <4>2, <4>3 DEF Outcome, Called, Quiet, Early, ReadStages, AddStages, Shown,
           WroteConn, WroteAws, SaveRow, CanExecute, At
      <4> QED
        BY <3>1, <4>1, <4>3, <4>4, ApplyEffect
    <3>3. (Kind(q) = "delete" /\ Target(q) = i /\ pc[q] = "commit")'
      BY <3>1, <3>2, StepIsLocal DEF Others, Kind, Target
    <3> QED
      BY <3>3 DEF Deleting, At
  <2> QED
    BY <2>1, <2>2
<1> QED
  BY <1>2, <1>3, <1>4

\* What the engine of a connection that nobody deletes lacks, PATCHes will write.
LEMMA NextAccounted ==
    ASSUME RowsInv, NEW p \in Req, Start(p) \/ Step(p) \/ Crash(p),
           NEW i \in Ids, Explained(i), Untroubled(i)', ~Targeted(i, {"delete"})', aws'[i] # NoRow
    PROVE  Accounted(i)'
<1> USE DEF RowsInv, RegistryInv, TablesInv
<1>1. ~Targeted(i, {"delete"})
  BY UntargetedBefore
<1>2. Others(p)
  BY StepIsLocal
<1>3. CASE WriteVault(p) /\ i = Target(p)
  <2>1. Called(p) /\ Kind(p) \in Mutating
    BY <1>3, UntroubledCall
  <2>2. UNCHANGED aws
    BY <2>1 DEF Called
  <2>3. Kind(p) # "add"
    <3>1. SUFFICES ASSUME Kind(p) = "add" PROVE FALSE
      OBVIOUS
    <3>2. pc[p] # "done" /\ p = i
      BY <1>3, <3>1, EngineEffect DEF Inv, WellFormed
    <3> QED
      BY <2>2, <3>1, <3>2 DEF UuidsAreNew, Over, Unknown
  <2>4. Kind(p) = "update"
    BY <1>1, <1>3, <2>1, <2>3 DEF Targeted, Mutating
  <2>5. Accounted(i)
    BY <1>1, <2>2 DEF Explained
  <2> QED
    BY <1>3, <2>1, <2>4, <2>5, CalledAccounted
<1>4. CASE ~(WriteVault(p) /\ i = Target(p))
  <2>1. engine'[i] = engine[i]
    BY <1>4, StepEffect
  <2>2. Kind(p) = "update" /\ Target(p) = i => pc[p] \notin AddStages
    <3>1. Kind(p) = "update" /\ Target(p) = i => ~Crash(p)
      BY UntroubledStep DEF Mutating
    <3> QED
      BY <1>4, <3>1, OnlyWriteVault DEF Step
  <2>3. ASSUME Accounted(i) PROVE Accounted(i)'
    <3>1. \A S \in SUBSET AddStages : Updating(i, S) => Updating(i, S)'
      BY <1>2, <2>2, OthersKeepUpdating
    <3>2. {{"enable"}, {"tune"}, {"tune", "root"}, {"tune", "root", "role"}}
          \subseteq SUBSET AddStages
      BY DEF AddStages
    <3> QED
      BY <2>1, <2>3, <3>1, <3>2 DEF Accounted
  <2>4. CASE aws[i] # NoRow
    BY <1>1, <2>3, <2>4 DEF Explained
  <2>5. CASE aws[i] = NoRow
    <3>1. CommitTx(p) /\ i = Target(p) /\ Kind(p) # "delete" /\ HasWritten(p)
      BY <2>5, StepEffect
    <3>2. Kind(p) # "update"
      <4>1. WritesOwn(p) /\ pc[p] = "commit"
        BY <3>1 DEF CommitTx, At
      <4> QED
        BY <1>1, <2>5, <3>1, <4>1 DEF WritesOwn, WriteBack, Unread
    <3>3. Complete(engine[i])
      BY <3>1, <3>2, CommitAhead DEF HasWritten, Undisturbed
    <3> QED
      BY <2>1, <3>3 DEF Accounted, Complete
  <2> QED
    BY <2>4, <2>5
<1> QED
  BY <1>3, <1>4

\* The invariant: as long as nobody has been told of an error, every difference
\* between the database and Vault has a request that is at work on it.
LEMMA DivergenceInvHolds == Spec => []DivergenceInv
<1>1. Init => DivergenceInv
  BY StartsWhole DEF DivergenceInv, Explained, Accounted, Complete
<1>2. RowsInv /\ DivergenceInv /\ [Next]_vars => DivergenceInv'
  <2> SUFFICES ASSUME RowsInv, DivergenceInv, [Next]_vars, NEW i \in Ids, Untroubled(i)'
               PROVE  Explained(i)'
    BY DEF DivergenceInv
  <2>1. CASE UNCHANGED vars
    <3>1. Untroubled(i)
      BY <2>1 DEF vars, Untroubled, Kind, Target
    <3> QED
      BY <2>1, <3>1 DEF vars, DivergenceInv, Explained, Accounted, Updating, Adding, Deleting,
         Targeted, Active, At, Kind, Target
  <2>2. ASSUME NEW p \in Req, Start(p) \/ Step(p) \/ Crash(p) PROVE Explained(i)'
    <3>1. Explained(i)
      BY <2>2, UntroubledStep DEF DivergenceInv, RowsInv
    <3> QED
      BY <2>2, <3>1, NextAdding, NextDeleting, NextAccounted DEF Explained
  <2> QED
    BY <2>1, <2>2 DEF Next
<1> QED
  BY <1>1, <1>2, RowsInvHolds, PTL DEF Spec

\* When all that were asked to change a connection have answered 200, and not
\* both a PATCH and a DELETE were among them, the database and Vault agree about
\* it: the row is there with a complete engine, or neither is.  So a divergence
\* is never silent, however requests interleave and whatever fails.
THEOREM NeverSilent == Spec => []NoSilentDivergence
<1>1. RowsInv /\ DivergenceInv => NoSilentDivergence
  <2> USE DEF RowsInv, RegistryInv, TablesInv
  <2> SUFFICES ASSUME RowsInv, DivergenceInv, NEW i \in Ids,
                      ~(Targeted(i, {"update"}) /\ Targeted(i, {"delete"})), Settled(i)
               PROVE  StoresAgree(i)
    BY DEF NoSilentDivergence
  <2>1. Explained(i)
    BY DEF DivergenceInv, Untroubled, Settled
  <2>2. \A p \in Req : Kind(p) \in Mutating /\ Target(p) = i => pc[p] = "done"
    BY DEF Settled, Answered
  <2>3. ~Adding(i) /\ ~Deleting(i)
    BY <2>2 DEF Adding, Deleting, Active, At, Mutating
  <2>4. \A S \in SUBSET AddStages : ~Updating(i, S)
    BY <2>2 DEF Updating, Mutating, AddStages
  <2>5. Accounted(i) => Complete(engine[i])
    <3>1. {{"enable"}, {"tune"}, {"tune", "root"}, {"tune", "root", "role"}}
          \subseteq SUBSET AddStages
      BY DEF AddStages
    <3> QED
      BY <2>4, <3>1 DEF Accounted, Complete
  <2> QED
    BY <2>1, <2>3, <2>5 DEF Explained, StoresAgree
<1> QED
  BY <1>1, RowsInvHolds, DivergenceInvHolds, PTL
-----------------------------------------------------------------------------
(***************************************************************************)
(* Deadlocks.  A request that holds a lock and waits is a PATCH at its     *)
(* second statement or a DELETE at its second, and they lock the two rows  *)
(* of a connection in opposite orders.                                     *)
(***************************************************************************)
\* The two that do.
Saving(p)  == Kind(p) = "update" /\ At(p, "save_aws")
Erasing(p) == Kind(p) = "delete" /\ At(p, "del_conn")

\* Whoever is waited for has a lock.
LEMMA OwnersHaveWritten ==
    ASSUME RowsInv, NEW p \in Req, NEW q \in WaitsFor(p)
    PROVE  q \in Req /\ q # p /\ Active(q) /\ (HasWritten(q) \/ HasConn(q))
<1> USE DEF RowsInv, RegistryInv, TablesInv
<1>1. q \in Req \ {p}
  BY DEF WaitsFor, ConnOwners, AwsOwners
<1>2. (\E k \in CIds : tx[q].conns[k] # NoWrite) \/ (\E i \in Ids : tx[q].aws[i] # NoWrite)
  <2>1. \/ q \in AwsOwners(p, Target(p)) /\ pc[p] # "idle"
        \/ \E r : q \in ConnOwners(p, loc[p].cid, r)
    BY DEF WaitsFor
  <2>2. loc[p].cid \in CIds /\ (pc[p] # "idle" => Target(p) \in Ids)
    BY DEF Inv, TypeOK, Local, WellFormed
  <2> QED
    BY <2>1, <2>2 DEF AwsOwners, ConnOwners
<1>3. HasWritten(q) \/ HasConn(q)
  BY <1>1, <1>2 DEF Pending, PairPending
<1> QED
  BY <1>1, <1>3 DEF HasWritten, HasConn, Active, AddStages

\* Only those two wait with a lock.
LEMMA WaitersWithLocks ==
    ASSUME RowsInv, NEW p \in Req, HasWritten(p) \/ HasConn(p), WaitsFor(p) # {}
    PROVE  Saving(p) \/ Erasing(p)
<1> USE DEF RowsInv, RegistryInv, TablesInv
<1>1. Saving(p) \/ Erasing(p) \/ (Kind(p) = "add" /\ At(p, "create_aws"))
  BY DEF Saving, Erasing, At, WaitsFor, HasWritten, HasConn, AddStages
<1>2. CASE Kind(p) = "add" /\ At(p, "create_aws")
  <2>1. PICK q \in Req \ {p} : tx[q].aws[Target(p)] # NoWrite
    BY <1>2 DEF WaitsFor, At, AwsOwners
  <2>2. Target(p) = p /\ p \in Ids
    BY <1>2 DEF Inv, WellFormed, At, Kind, Target
  <2>3. Target(q) = p
    BY <2>1, <2>2 DEF Pending
  <2>4. Unknown(p)
    BY <1>2 DEF UuidsAreNew, Over, At
  <2> QED
    BY <2>3, <2>4 DEF Unknown, Strange
<1> QED
  BY <1>1, <1>2

\* A PATCH waits there for a DELETE of its connection that has locked its row,
LEMMA SavingWaits ==
    ASSUME RowsInv, NEW p \in Req, Saving(p), NEW q \in WaitsFor(p), WaitsFor(q) # {}
    PROVE  Erasing(q) /\ Target(q) = Target(p)
<1> USE DEF RowsInv, RegistryInv, TablesInv
<1>1. q \in AwsOwners(p, Target(p)) /\ Target(p) \in Ids
  BY DEF Saving, At, WaitsFor, Inv, WellFormed
<1>2. q \in Req /\ HasWritten(q) /\ Target(q) = Target(p)
  BY <1>1 DEF AwsOwners, Pending
<1>3. Saving(q) \/ Erasing(q)
  BY <1>2, WaitersWithLocks
<1> QED
  BY <1>2, <1>3 DEF Saving, At, HasWritten

\* and a DELETE for a PATCH that has locked the row of its connection.
LEMMA DeletingWaits ==
    ASSUME RowsInv, NEW p \in Req, Erasing(p), NEW q \in WaitsFor(p), WaitsFor(q) # {}
    PROVE  Saving(q) /\ loc[q].cid = loc[p].cid
<1> USE DEF RowsInv, RegistryInv, TablesInv
<1>1. q \in ConnOwners(p, loc[p].cid, NoRow) /\ loc[p].cid \in CIds
  BY DEF Erasing, At, WaitsFor, Inv, TypeOK, Local
<1>2. q \in Req /\ HasConn(q) /\ loc[q].cid = loc[p].cid
  BY <1>1 DEF ConnOwners, PairPending
<1>3. Saving(q) \/ Erasing(q)
  BY <1>2, WaitersWithLocks
<1> QED
  BY <1>2, <1>3 DEF Erasing, At, HasConn

\* A PATCH waits for each DELETE of its connection that has locked the row,
LEMMA SavingWaitsFor ==
    ASSUME RowsInv, NEW p \in Req, NEW q \in Req, Saving(p), Erasing(q),
           Target(q) = Target(p)
    PROVE  q \in WaitsFor(p)
<1> USE DEF RowsInv, RegistryInv, TablesInv
<1>1. HasWritten(q) /\ Target(p) \in Ids /\ p # q
  BY DEF Erasing, Saving, At, HasWritten, Inv, WellFormed
<1>2. q \in AwsOwners(p, Target(p))
  BY <1>1 DEF AwsOwners, Pending
<1> QED
  BY <1>2 DEF WaitsFor, Saving, At

\* and a DELETE for each PATCH with the same row of connections.
LEMMA DeletingWaitsFor ==
    ASSUME RowsInv, NEW p \in Req, NEW q \in Req, Erasing(p), Saving(q),
           loc[q].cid = loc[p].cid
    PROVE  q \in WaitsFor(p)
<1> USE DEF RowsInv, RegistryInv, TablesInv
<1>1. HasConn(q) /\ loc[p].cid \in CIds /\ p # q
  BY DEF Erasing, Saving, At, HasConn, Inv, TypeOK, Local
<1>2. q \in ConnOwners(p, loc[p].cid, NoRow)
  BY <1>1 DEF ConnOwners, PairPending
<1> QED
  BY <1>2 DEF WaitsFor, Erasing, At

\* However many requests wait for each other, or for one that has ended, two of
\* them wait for each other directly, so that Postgres finds the deadlock and
\* aborts one: locks on the two tables are taken in opposite orders only by a PATCH
\* and a DELETE of one connection, or by those that fell back on the nil UUID; and
\* whoever has ended holds no lock.
THEOREM DeadlocksResolve == Spec => []DeadlocksArePairs
<1>1. RowsInv => DeadlocksArePairs
  <2> SUFFICES ASSUME RowsInv, NEW D \in (SUBSET Req) \ {{}}, Deadlocked(D)
               PROVE  \E p, q \in D : q \in WaitsFor(p) /\ p \in WaitsFor(q)
    BY DEF DeadlocksArePairs
  <2> USE DEF RowsInv, RegistryInv, TablesInv
  <2>1. ASSUME NEW p \in D PROVE \E q \in D : q \in WaitsFor(p) /\ WaitsFor(q) # {}
    BY OwnersHaveWritten DEF Deadlocked
  <2>2. ASSUME NEW p \in D, Saving(p)
        PROVE  \E q \in D : q \in WaitsFor(p) /\ Erasing(q) /\ Target(q) = Target(p)
    BY <2>1, <2>2, SavingWaits
  <2>3. ASSUME NEW p \in D, Erasing(p)
        PROVE  \E q \in D : q \in WaitsFor(p) /\ Saving(q) /\ loc[q].cid = loc[p].cid
    BY <2>1, <2>3, DeletingWaits
  \* So D has a DELETE s, which waits for t, which waits for u, which waits for v.
  <2>4. PICK s \in D : Erasing(s)
    <3>1. PICK p : p \in D
      OBVIOUS
    <3>2. PICK q \in D : q \in WaitsFor(p) /\ WaitsFor(q) # {}
      BY <2>1, <3>1
    <3>3. Saving(q) \/ Erasing(q)
      BY <3>1, <3>2, OwnersHaveWritten, WaitersWithLocks
    <3> QED
      BY <2>2, <3>3
  <2>5. PICK t \in D : t \in WaitsFor(s) /\ Saving(t) /\ loc[t].cid = loc[s].cid
    BY <2>3, <2>4
  <2>6. PICK u \in D : u \in WaitsFor(t) /\ Erasing(u) /\ Target(u) = Target(t)
    BY <2>2, <2>5
  <2>7. PICK v \in D : v \in WaitsFor(u) /\ Saving(v) /\ loc[v].cid = loc[u].cid
    BY <2>3, <2>6
  <2>8. CASE loc[u].cid = loc[t].cid
    BY <2>5, <2>6, <2>8, DeletingWaitsFor
  <2>9. CASE loc[u].cid # loc[t].cid
    <3>1. loc[u].cid # ZeroId => Target(v) = Target(u)
      BY <2>7 DEF OwnKeys
    <3>2. loc[u].cid = ZeroId => loc[t].cid = Target(t) /\ Target(s) = Target(t)
      BY <2>5, <2>9 DEF OwnKeys
    <3>3. CASE loc[u].cid # ZeroId
      BY <2>6, <2>7, <3>1, <3>3, SavingWaitsFor
    <3>4. CASE loc[u].cid = ZeroId
      BY <2>4, <2>5, <3>2, <3>4, SavingWaitsFor
    <3> QED
      BY <3>3, <3>4
  <2> QED
    BY <2>8, <2>9
<1> QED
  BY <1>1, RowsInvHolds, PTL
-----------------------------------------------------------------------------
(***************************************************************************)
(* EngineConverges.  It is almost inductive: what it lacks is how a PATCH  *)
(* can come to write a role without knowing the credential type.           *)
(***************************************************************************)
Refills == {"disable"} \cup AddStages

\* Another PATCH than p was sent for its connection.
Rivalled(p) == \E q \in Req \ {p} : Kind(q) = "update" /\ Target(q) = Target(p)

\* A PATCH of an existing connection that nobody deletes lacks the type only if
\* it does not name one, and another PATCH took the role away before it read it.
TypeKnown ==
    \A p \in Req :
        /\ Kind(p) = "update" /\ pc[p] \in {"remerge"} \cup Refills
        /\ loc[p].ctype = Blank
        /\ Target(p) \in Preloaded
        /\ ~Targeted(Target(p), {"delete"})
        => /\ Rivalled(p)
           /\ pc[p] \in Refills => call[p].body.ctype = Blank

ConvergenceInv == RegistryInv /\ TypeKnown /\ EngineConverges

\* Accounted, or a PATCH that lacked the type has been refused its role.
Converging(i) ==
    LET e == engine[i] IN
    /\ ~e.mounted => Updating(i, {"enable"})
    /\ e.mounted /\ ~e.tuned => Updating(i, {"tune"})
    /\ e.mounted /\ e.root = None => Updating(i, {"tune", "root"})
    /\ e.mounted /\ e.role = None => Updating(i, {"tune", "root", "role"}) \/ Untyped(i)

\* A request that was sent keeps its call.
LEMMA SentStays ==
    ASSUME RegistryInv, NEW p \in Req, Start(p) \/ Step(p) \/ Crash(p),
           NEW q \in Req, Kind(q) # "none"
    PROVE  call'[q] = call[q]
<1> USE DEF RegistryInv, TablesInv
<1>1. pc[q] # "idle"
  <2>1. NoCall.kind = "none"
    BY DEF NoCall
  <2> QED
    BY <2>1 DEF Fresh, Kind
<1>2. CASE Start(p)
  BY <1>1, <1>2, StepIsLocal DEF Others, Start, At
<1>3. CASE Step(p) \/ Crash(p)
  BY <1>3, CallIsFixed
<1> QED
  BY <1>2, <1>3

\* What has been answered stays answered.
LEMMA UntypedStays ==
    ASSUME RegistryInv, NEW p \in Req, Start(p) \/ Step(p) \/ Crash(p), NEW i, Untyped(i)
    PROVE  Untyped(i)'
<1>1. PICK r \in Req, q \in Req :
        /\ r # q
        /\ \A s \in {r, q} : Kind(s) = "update" /\ Target(s) = i
        /\ call[r].body.ctype = Blank
        /\ resp[r] = "500"
  BY DEF Untyped
<1>2. call'[r] = call[r] /\ call'[q] = call[q]
  BY <1>1, SentStays
<1>3. resp'[r] = "500"
  BY <1>1, AnswerEffect
<1>4. \A s \in {r, q} : Kind(s)' = "update" /\ Target(s)' = i
  BY <1>1, <1>2 DEF Kind, Target
<1> QED
  BY <1>1, <1>2, <1>3, <1>4 DEF Untyped

\* Two PATCHes stay two.
LEMMA RivalledStays ==
    ASSUME RegistryInv, NEW p \in Req, Start(p) \/ Step(p) \/ Crash(p),
           NEW q \in Req, Kind(q) = "update", Rivalled(q)
    PROVE  Rivalled(q)'
<1>1. PICK r \in Req \ {q} : Kind(r) = "update" /\ Target(r) = Target(q)
  BY DEF Rivalled
<1>2. call'[r] = call[r] /\ call'[q] = call[q]
  BY <1>1, SentStays
<1> QED
  BY <1>1, <1>2 DEF Rivalled, Kind, Target

\* How a PATCH comes to where it rebuilds the engine.
LEMMA RefillEffect ==
    ASSUME Inv, NEW p \in Req, Start(p) \/ Step(p) \/ Crash(p),
           Kind(p)' = "update", pc'[p] \in {"remerge"} \cup Refills
    PROVE  /\ UNCHANGED call
           /\ GetRole(p) \/ UpdateRemerge(p) \/ (pc[p] \in Refills /\ loc'[p] = loc[p])
<1> USE DEF At, Goto, Refills, AddStages, Inv, TypeOK
<1>1. ~Start(p)
  <2>1. ASSUME Start(p) PROVE pc'[p] \in {"validate", "read_conn", "read_aws"}
    <3>1. PICK kind \in AllKinds : pc'[p] = FirstStage(kind)
      BY <2>1, CallAssumption DEF Start
    <3> QED
      BY <3>1 DEF FirstStage, AllKinds
  <2> QED
    BY <2>1
<1>2. UNCHANGED call /\ Kind(p) = "update"
  BY <1>1, CallIsFixed DEF Kind
<1>3. ~Crash(p)
  BY DEF Crash, FailWith, Reply
<1>4. ~Read(p)
  BY <1>2 DEF Read, ReadAws, ReadConn, AfterRead, Fail, FailWith, Reply
<1>5. Memory(p) => UpdateRemerge(p)
  BY DEF Memory, AddValidate, UpdateMerge, AppendApp, RemoveApp, Fail, FailWith, Reply
<1>6. ReadVault(p) => GetRole(p)
  <2>1. ~AbandonRead(p)
    BY DEF AbandonRead, Fail, FailWith, Reply
  <2> QED
    BY <2>1 DEF ReadVault, GetConfig, GetLease, GetRoleName, VaultReadFails, TestCreds
<1>7. WriteVault(p) => pc[p] \in Refills /\ loc'[p] = loc[p]
  BY DEF WriteVault, EnableAWSSecretsEngine, ConfigureAWSSecretsEngine,
     ConfigureAWSRootCredentials, ConfigureAWSIAMRole, DisableAWSSecretsEngine, Proceed,
     Fail, FailWith, Reply
<1>8. ~Statement(p)
  <2>1. ~CreateAws(p) /\ ~DeleteConn(p)
    BY <1>2 DEF CreateAws, DeleteConn, CanExecute, WellFormed, Serving
  <2>2. ~CreateConn(p) /\ ~SaveConn(p) /\ ~SaveAws(p) /\ ~DeleteAws(p)
    BY DEF CreateConn, SaveConn, SaveAws, DeleteAws, Execute, Fail, FailWith, Reply
  <2>3. ~SaveRow(p) /\ ~CommitTx(p) /\ ~DbFails(p) /\ ~DeadlockVictim(p)
    BY DEF SaveRow, CommitTx, DbFails, DeadlockVictim, Fail, FailWith, Reply
  <2> QED
    BY <2>1, <2>2, <2>3 DEF Statement
<1> QED
  BY <1>1, <1>2, <1>3, <1>4, <1>5, <1>6, <1>7, <1>8 DEF Step

\* A PATCH that finds no role has a rival, which took it away and has still to
\* write it, or which has been there before.
LEMMA RolelessIsRivalled ==
    ASSUME RegistryInv, EngineConverges, "vault" \notin Faults,
           NEW p \in Req, GetRole(p), Kind(p) = "update", loc'[p].ctype = Blank,
           Target(p) \in Preloaded, ~Targeted(Target(p), {"delete"})
    PROVE  Rivalled(p)
<1> USE DEF RegistryInv, TablesInv, Inv
<1>1. PICK t \in Preloaded : t = Target(p)
  OBVIOUS
<1>2. ~HasRole(t)
  <2>1. SUFFICES ASSUME HasRole(t) PROVE FALSE
    OBVIOUS
  <2>2. engine[t].role.ctype \in CredentialTypes
    BY <1>1, <2>1, EngineParts DEF GetRole, At, Role
  <2>3. loc'[p].ctype = engine[t].role.ctype
    BY <1>1, <2>1 DEF GetRole, Flaky, TypeOK, Local
  <2> QED
    BY <2>2, <2>3 DEF CredentialTypes, Blank
<1>3. (\E S \in SUBSET AddStages : Updating(t, S)) \/ Untyped(t)
  BY <1>1, <1>2 DEF EngineConverges, HasRole, AddStages
<1>4. CASE \E S \in SUBSET AddStages : Updating(t, S)
  BY <1>1, <1>4 DEF Updating, GetRole, At, AddStages, Rivalled
<1>5. CASE Untyped(t)
  BY <1>1, <1>5 DEF Untyped, Rivalled
<1> QED
  BY <1>3, <1>4, <1>5

\* A PATCH that rebuilds an engine knows the type, or has a rival.
LEMMA NextTypeKnown ==
    ASSUME ConvergenceInv, "vault" \notin Faults,
           NEW p \in Req, Start(p) \/ Step(p) \/ Crash(p)
    PROVE  TypeKnown'
<1> USE DEF ConvergenceInv
<1> SUFFICES ASSUME NEW q \in Req, Kind(q)' = "update", pc'[q] \in {"remerge"} \cup Refills,
                    loc'[q].ctype = Blank, Target(q)' \in Preloaded,
                    ~Targeted(Target(q), {"delete"})'
             PROVE  Rivalled(q)' /\ (pc'[q] \in Refills => call'[q].body.ctype = Blank)
  BY DEF TypeKnown
<1>0. Inv /\ Others(p)
  BY StepIsLocal DEF RegistryInv, TablesInv
<1>1. CASE q # p
  <2>1. /\ Kind(q) = "update" /\ Target(q) = Target(q)' /\ call'[q] = call[q]
        /\ pc'[q] = pc[q] /\ loc'[q] = loc[q]
    BY <1>0, <1>1 DEF Others, Kind, Target
  <2>2. ~Targeted(Target(q), {"delete"})
    BY <2>1, UntargetedBefore DEF Targeted
  <2>3. Rivalled(q) /\ (pc[q] \in Refills => call[q].body.ctype = Blank)
    BY <2>1, <2>2 DEF TypeKnown
  <2> QED
    BY <2>1, <2>3, RivalledStays
<1>2. CASE q = p
  <2>1. UNCHANGED call
    BY <1>0, <1>2, RefillEffect
  <2>2. Kind(p) = "update" /\ Target(p) \in Preloaded
    BY <1>2, <2>1 DEF Kind, Target
  <2>3. ~Targeted(Target(p), {"delete"})
    BY <1>2, <2>1 DEF Targeted, Kind, Target
  <2>4. ASSUME Rivalled(p), pc'[p] \in Refills => call[p].body.ctype = Blank
        PROVE  Rivalled(q)' /\ (pc'[q] \in Refills => call'[q].body.ctype = Blank)
    BY <1>2, <2>1, <2>2, <2>4, RivalledStays
  <2>5. CASE GetRole(p)
    <3>1. pc'[p] = "remerge"
      BY <1>0, <2>2, <2>5 DEF GetRole, Goto, Inv, TypeOK
    <3>2. Rivalled(p)
      BY <1>2, <2>2, <2>3, <2>5, RolelessIsRivalled
    <3> QED
      BY <2>4, <3>1, <3>2 DEF Refills, AddStages
  <2>6. CASE UpdateRemerge(p)
    <3>1. loc[p] \in Local /\ call[p].body \in Body
      BY <1>0, Constants DEF Inv, TypeOK, Request
    <3>2. loc'[p].ctype = OrElse(call[p].body.ctype, loc[p].ctype)
      <4> DEFINE m == Merge(loc[p], call[p].body)
      <4>1. m \in Local
        BY <3>1, MergeType
      <4>2. m.ctype = OrElse(call[p].body.ctype, loc[p].ctype)
        BY <3>1 DEF Merge, Local
      <4>3. loc'[p] = [m EXCEPT !.row.tested = 0]
        BY <1>0, <2>6 DEF UpdateRemerge, Inv, TypeOK
      <4> HIDE DEF m
      <4> QED
        BY <4>1, <4>2, <4>3 DEF Local
    <3>3. call[p].body.ctype = Blank /\ loc[p].ctype = Blank
      BY <1>2, <3>2 DEF OrElse
    <3>4. Rivalled(p)
      BY <2>2, <2>3, <2>6, <3>3 DEF TypeKnown, UpdateRemerge, At
    <3> QED
      BY <2>4, <3>3, <3>4
  <2>7. CASE pc[p] \in Refills /\ loc'[p] = loc[p]
    BY <1>2, <2>2, <2>3, <2>4, <2>7 DEF TypeKnown
  <2> QED
    BY <1>0, <1>2, <2>5, <2>6, <2>7, RefillEffect
<1> QED
  BY <1>1, <1>2

\* A writing call when Vault answers: it succeeds if it can.
LEMMA ReliableCall ==
    ASSUME "vault" \notin Faults, VaultTypeOK, NEW i \in Ids, NEW e, NEW acceptable,
           NEW ok \in BOOLEAN, Call(i, acceptable, e, ok)
    PROVE  /\ ok <=> acceptable
           /\ ok => engine'[i] = e
           /\ ~ok => engine'[i] = engine[i]
  BY DEF Call, Flaky, VaultTypeOK

\* A writing call keeps EngineConverges: if it fails, the engine was unmounted,
\* and whoever unmounted it has everything still to write; or it is a role
\* without a type that is refused.
LEMMA WriteVaultConverges ==
    ASSUME ConvergenceInv, "vault" \notin Faults, NEW p \in Req, WriteVault(p)
    PROVE  EngineConverges'
<1> USE DEF ConvergenceInv, RegistryInv, TablesInv, Inv, TypeOK
<1>1. Others(p)
  BY StepIsLocal DEF Step
<1>2. UNCHANGED call /\ pc[p] # "idle"
  BY CallIsFixed DEF Step
<1>3. PICK t \in Ids : t = Target(p)
  BY <1>2, EngineParts
<1>4. engine[t] \in Engine /\ engine[t].mounted \in BOOLEAN
  BY <1>3, <1>2, EngineParts DEF Engine
<1>5. pc[p] \in {"disable"} \cup AddStages
  BY DEF WriteVault, EnableAWSSecretsEngine, ConfigureAWSSecretsEngine, At, AddStages,
     ConfigureAWSRootCredentials, ConfigureAWSIAMRole, DisableAWSSecretsEngine
<1>6. Kind(p) \in {"update", "delete"} \/ t \notin Preloaded
  <2>1. Kind(p) \in {"add", "update", "delete"}
    BY <1>5 DEF WellFormed, Serving
  <2>2. Kind(p) = "add" => t = p
    BY <1>3 DEF WellFormed
  <2> QED
    BY <2>1, <2>2, DomainAssumption
<1>7. \A j \in Ids \ {t} : engine'[j] = engine[j]
  BY <1>3 DEF WriteVault, EnableAWSSecretsEngine, ConfigureAWSSecretsEngine,
     ConfigureAWSRootCredentials, ConfigureAWSIAMRole, DisableAWSSecretsEngine,
     Enable, Disable, Tune, WriteRoot, WriteRole, Call, VaultTypeOK
<1>10. \A i : Untyped(i) => Untyped(i)'
  BY UntypedStays DEF Step
<1> DEFINE Undeleted(i) == ~Targeted(i, {"delete"})
<1>0. \A i : Undeleted(i)' => Undeleted(i)
  BY <1>2 DEF Targeted, Kind, Target
<1>8. ASSUME NEW i \in Preloaded, i # t, Undeleted(i)' PROVE Converging(i)'
  <2>1. Converging(i) /\ engine'[i] = engine[i]
    BY <1>0, <1>7, <1>8 DEF EngineConverges, Converging, Ids
  <2> QED
    BY <1>3, <1>1, <1>8, <1>10, <2>1, OthersKeepUpdating DEF Converging
<1>9. ASSUME t \in Preloaded, Undeleted(t)' PROVE Converging(t)'
  <2>0. Kind(p) # "delete"
    BY <1>0, <1>3, <1>9 DEF Targeted
  <2>1. Kind(p) = "update" /\ Kind(p)' = "update" /\ Target(p)' = t
    BY <1>3, <1>2, <1>6, <1>9, <2>0 DEF Kind, Target
  <2>2. Converging(t)
    BY <1>0, <1>9 DEF EngineConverges, Converging
  <2>3. \A S \in SUBSET AddStages : pc'[p] \in S => Updating(t, S)'
    BY <2>1 DEF Updating
  <2>4. ASSUME NEW S \in SUBSET AddStages, pc[p] \notin S, Updating(t, S)
        PROVE  Updating(t, S)'
    BY <1>1, <2>4, OthersKeepUpdating
  <2>5. {{"enable"}, {"tune"}, {"tune", "root"}, {"tune", "root", "role"}}
          \subseteq SUBSET AddStages
    BY DEF AddStages
  <2> USE DEF At
  <2>6. CASE DisableAWSSecretsEngine(p)
    <3>1. PICK ok \in BOOLEAN : Disable(t, ok) /\ Proceed(p, ok, "enable")
      BY <1>3, <2>1, <2>6 DEF DisableAWSSecretsEngine
    <3>2. ok /\ engine'[t] = Unmounted
      BY <3>1, ReliableCall DEF Disable
    <3>3. pc'[p] = "enable"
      BY <3>1, <3>2 DEF Proceed, Goto
    <3> QED
      BY <2>5, <2>3, <3>2, <3>3 DEF Converging, Unmounted
  <2>7. CASE EnableAWSSecretsEngine(p)
    <3>1. PICK ok \in BOOLEAN : Enable(t, ok) /\ Proceed(p, ok, "tune")
      BY <1>3, <2>7 DEF EnableAWSSecretsEngine
    <3>2. CASE ok
      <4>1. pc'[p] = "tune"
        BY <3>1, <3>2 DEF Proceed, Goto
      <4>2. engine'[t] = FreshMount
        BY <3>1, <3>2, ReliableCall DEF Enable
      <4> QED
        BY <2>5, <2>3, <4>1, <4>2 DEF Converging, FreshMount, Unmounted
    <3>3. CASE ~ok
      <4>1. engine[t].mounted /\ engine'[t] = engine[t]
        BY <3>1, <3>3, ReliableCall DEF Enable
      <4> QED
        BY <1>10, <2>5, <2>2, <2>4, <2>7, <4>1 DEF Converging, EnableAWSSecretsEngine
    <3> QED
      BY <3>2, <3>3
  <2>8. CASE ConfigureAWSSecretsEngine(p)
    <3>1. PICK ok \in BOOLEAN : Tune(t, ok) /\ Proceed(p, ok, "root")
      BY <1>3, <2>8 DEF ConfigureAWSSecretsEngine
    <3>2. CASE ok
      <4>1. pc'[p] = "root"
        BY <3>1, <3>2 DEF Proceed, Goto
      <4>2. engine'[t] = [engine[t] EXCEPT !.tuned = TRUE] /\ engine[t].mounted
        BY <3>1, <3>2, ReliableCall DEF Tune
      <4>3. engine'[t].mounted /\ engine'[t].tuned
        BY <1>4, <4>2 DEF Engine
      <4> QED
        BY <2>5, <2>3, <4>1, <4>3 DEF Converging
    <3>3. CASE ~ok
      <4>1. ~engine[t].mounted /\ engine'[t] = engine[t]
        BY <3>1, <3>3, ReliableCall DEF Tune
      <4> QED
        BY <1>10, <2>5, <2>2, <2>4, <2>8, <4>1 DEF Converging, ConfigureAWSSecretsEngine
    <3> QED
      BY <3>2, <3>3
  <2>9. CASE ConfigureAWSRootCredentials(p)
    <3> DEFINE r == [access |-> loc[p].access, secret |-> loc[p].secret]
    <3>1. PICK ok \in BOOLEAN :
            WriteRoot(t, loc[p].access, loc[p].secret, ok) /\ Proceed(p, ok, "role")
      BY <1>3, <2>9 DEF ConfigureAWSRootCredentials
    <3>2. CASE ok
      <4>1. pc'[p] = "role"
        BY <3>1, <3>2 DEF Proceed, Goto
      <4>2. r # None
        <5>1. r \in [access : Keys \cup {Blank}, secret : Keys \cup {Blank}]
          BY DEF Local
        <5> QED
          BY <5>1, DomainAssumption
      <4>3. engine'[t] = [engine[t] EXCEPT !.root = r] /\ engine[t].mounted
        BY <3>1, <3>2, ReliableCall DEF WriteRoot
      <4>4. engine'[t].mounted /\ engine'[t].tuned = engine[t].tuned /\ engine'[t].root # None
        BY <1>4, <4>2, <4>3 DEF Engine
      <4>5. ~engine'[t].tuned => Updating(t, {"tune"})'
        BY <1>10, <2>5, <2>2, <2>4, <2>9, <4>3, <4>4 DEF Converging, ConfigureAWSRootCredentials
      <4> HIDE DEF r
      <4> QED
        BY <2>5, <2>3, <4>1, <4>4, <4>5 DEF Converging
    <3>3. CASE ~ok
      <4>1. ~engine[t].mounted /\ engine'[t] = engine[t]
        BY <3>1, <3>3, ReliableCall DEF WriteRoot
      <4> QED
        BY <1>10, <2>5, <2>2, <2>4, <2>9, <4>1 DEF Converging, ConfigureAWSRootCredentials
    <3> QED
      BY <3>2, <3>3
  <2>10. CASE ConfigureAWSIAMRole(p)
    <3> DEFINE r == [ctype |-> loc[p].ctype, arns |-> loc[p].arns]
    <3>1. PICK ok \in BOOLEAN :
            WriteRole(t, loc[p].ctype, loc[p].arns, ok) /\ Proceed(p, ok, "save_conn")
      BY <1>3, <2>1, <2>10 DEF ConfigureAWSIAMRole
    <3>3. CASE ok
      <4>1. r # None
        <5>1. r \in [ctype : CredentialTypes, arns : Policies \cup {Blank}]
          BY <3>1, <3>3, ReliableCall DEF WriteRole, Local
        <5> QED
          BY <5>1, DomainAssumption
      <4>2. engine'[t] = [engine[t] EXCEPT !.role = r] /\ engine[t].mounted
        BY <3>1, <3>3, ReliableCall DEF WriteRole
      <4>3. /\ engine'[t].mounted /\ engine'[t].tuned = engine[t].tuned
            /\ engine'[t].root = engine[t].root /\ engine'[t].role # None
        BY <1>4, <4>1, <4>2 DEF Engine
      <4>4. /\ ~engine'[t].tuned => Updating(t, {"tune"})'
            /\ engine'[t].root = None => Updating(t, {"tune", "root"})'
        BY <1>10, <2>5, <2>2, <2>4, <2>10, <4>2, <4>3 DEF Converging, ConfigureAWSIAMRole
      <4> HIDE DEF r
      <4> QED
        BY <4>3, <4>4 DEF Converging
    <3>4. CASE ~ok
      <4>1. engine'[t] = engine[t] /\ (engine[t].mounted => loc[p].ctype = Blank)
        BY <3>1, <3>4 DEF WriteRole, Call, Flaky
      <4>2. CASE engine[t].mounted
        <5>1. Rivalled(p) /\ call[p].body.ctype = Blank
          BY <1>0, <1>3, <1>9, <2>1, <2>10, <4>1, <4>2
          DEF TypeKnown, ConfigureAWSIAMRole, Refills, AddStages
        <5>2. resp'[p] = "500"
          BY <2>1, <2>10, <3>1, <3>4
          DEF Proceed, Fail, ErrorCode, FailWith, Reply, ConfigureAWSIAMRole
        <5>3. Untyped(t)'
          BY <1>2, <1>3, <2>1, <5>1, <5>2 DEF Rivalled, Untyped, Kind, Target
        <5> QED
          BY <1>10, <2>5, <2>2, <2>4, <2>10, <4>1, <5>3 DEF Converging, ConfigureAWSIAMRole
      <4>3. CASE ~engine[t].mounted
        BY <2>5, <2>2, <2>4, <2>10, <4>1, <4>3 DEF Converging, ConfigureAWSIAMRole
      <4> QED
        BY <4>2, <4>3
    <3> QED
      BY <3>3, <3>4
  <2> QED
    BY <2>6, <2>7, <2>8, <2>9, <2>10 DEF WriteVault
<1> QED
  BY <1>8, <1>9 DEF EngineConverges, Converging

\* EngineConverges survives the steps that leave the engines alone.
LEMMA OtherStepsConverge ==
    ASSUME ConvergenceInv, NEW p \in Req, Start(p) \/ Step(p) \/ Crash(p),
           UNCHANGED engine, pc[p] \notin AddStages
    PROVE  EngineConverges'
<1> USE DEF ConvergenceInv, RegistryInv, TablesInv
<1>1. ASSUME NEW i \in Preloaded, NEW S \in SUBSET AddStages, Updating(i, S)
      PROVE  Updating(i, S)'
  BY <1>1, StepIsLocal, OthersKeepUpdating
<1>2. \A i \in Preloaded : Targeted(i, {"delete"}) => Targeted(i, {"delete"})'
  BY TargetedGrows
<1>3. \A i : Untyped(i) => Untyped(i)'
  BY UntypedStays
<1> QED
  BY <1>1, <1>2, <1>3 DEF EngineConverges, AddStages

\* As long as Vault answers and requests are not killed, whatever the engine of
\* an existing connection that nobody asks to delete lacks, some PATCH under
\* way still has to write, for any bodies, any number of concurrent requests, and
\* whatever the database does.  What may stay missing is the role, once a PATCH
\* without a credential type met another PATCH and was answered 500.
THEOREM EnginesConverge ==
    ASSUME "vault" \notin Faults, "crash" \notin Faults
    PROVE  Spec => []EngineConverges
<1>1. Init => TypeKnown /\ EngineConverges
  <2> SUFFICES ASSUME Init PROVE TypeKnown /\ EngineConverges
    OBVIOUS
  <2>1. TypeKnown
    BY DEF Init, TypeKnown, Refills, AddStages
  <2>2. EngineConverges
    BY StartsWhole DEF EngineConverges, Complete
  <2> QED
    BY <2>1, <2>2
<1>2. ConvergenceInv /\ RegistryInv' /\ [Next]_vars => (TypeKnown /\ EngineConverges)'
  <2> SUFFICES ASSUME ConvergenceInv, [Next]_vars PROVE (TypeKnown /\ EngineConverges)'
    OBVIOUS
  <2>1. CASE UNCHANGED vars
    BY <2>1
    DEF vars, ConvergenceInv, TypeKnown, Rivalled, EngineConverges, Targeted, Updating,
        Untyped, Kind, Target
  <2>2. ASSUME NEW p \in Req, Start(p) \/ Step(p) \/ Crash(p)
        PROVE  (TypeKnown /\ EngineConverges)'
    <3>1. TypeKnown'
      BY <2>2, NextTypeKnown
    <3>2. EngineConverges'
      <4>1. CASE WriteVault(p)
        BY <4>1, WriteVaultConverges
      <4>2. CASE Start(p) \/ Read(p) \/ Memory(p) \/ ReadVault(p) \/ Statement(p)
        BY <2>2, <4>2, OnlyWriteVault, OtherStepsConverge
        DEF ConvergenceInv, RegistryInv, TablesInv
      <4>3. ~Crash(p)
        BY DEF Crash
      <4> QED
        BY <2>2, <4>1, <4>2, <4>3 DEF Step
    <3> QED
      BY <3>1, <3>2
  <2> QED
    BY <2>1, <2>2 DEF Next
<1> QED
  BY <1>1, <1>2, RegistryInvHolds, PTL DEF Spec, ConvergenceInv
=============================================================================
