----------------------- MODULE RequestPipeline_proofs -----------------------
(***************************************************************************)
(* Theorems about RequestPipeline, for all bodies, parameters, bounds and  *)
(* ids that its assumptions allow.                                         *)
(***************************************************************************)
EXTENDS RequestPipeline, TLAPS

(***************************************************************************)
(* Request ids.                                                            *)
(***************************************************************************)
\* What a request's id is before SetupTraceAndLogger has run, and afterwards.
IdsInv ==
    /\ stage \in {"idle", "middleware", "handler", "done"}
    /\ stage # "done" => answer = NoAnswer
    /\ stage \in {"idle", "middleware"} => ids = {} /\ echoed = NoId
    /\ stage = "middleware" => header \in ClientIds \cup {NoId}
    /\ stage \in {"handler", "done"} => header # NoId
    /\ OneRequestId

\* The first call of SetupTraceAndLogger settles the id of the request.
LEMMA TracedFirst ==
    ASSUME IdsInv, stage = "middleware", SetupTraceAndLogger
    PROVE  /\ header' # NoId
           /\ ids' = {header'}
           /\ echoed' \in {NoId, header'}
           /\ header' \in ClientIds <=> echoed' = NoId
    BY PipelineAssumption DEF IdsInv, SetupTraceAndLogger, PrepareContext

\* The second one finds the id in the request and leaves it as it is.
LEMMA TracedAgain ==
    ASSUME IdsInv, stage = "handler", SetupTraceAndLogger
    PROVE  UNCHANGED <<header, ids, echoed>>
    BY DEF IdsInv, OneRequestId, SetupTraceAndLogger, PrepareContext

\* An answer has no id, or the request's.
LEMMA AnswerNamesRequest ==
    ASSUME NEW status, NEW id \in {NoId, header'}, NEW body, Finish(status, id, body)
    PROVE  stage' = "done" /\ answer'.id \in {NoId, header'}
    BY DEF Finish

\* A middleware passes the request on or answers it.
LEMMA MiddlewareKeepsIds ==
    ASSUME IdsInv, ListMiddleware \/ PostMiddleware \/ PatchMiddleware \/ GetMiddleware
    PROVE  IdsInv'
<1>1. stage = "middleware" /\ SetupTraceAndLogger
  BY DEF ListMiddleware, PostMiddleware, PatchMiddleware, GetMiddleware
<1>2. \/ stage' = "handler" /\ UNCHANGED answer
      \/ stage' = "done" /\ answer'.id \in {NoId, header'}
  BY AnswerNamesRequest DEF ListMiddleware, PostMiddleware, PatchMiddleware, GetMiddleware
<1> QED
  BY <1>1, <1>2, TracedFirst DEF IdsInv, OneRequestId, NoAnswer

\* A handler answers.
LEMMA HandlerKeepsIds ==
    ASSUME IdsInv,
           GetConnections \/ AddAWSConnection \/ GetAWSConnection \/ UpdateAWSConnection
    PROVE  IdsInv'
<1>1. stage = "handler" /\ SetupTraceAndLogger
  BY DEF GetConnections, AddAWSConnection, GetAWSConnection, UpdateAWSConnection
<1>2. ASSUME NEW c, Respond(c) PROVE stage' = "done" /\ answer'.id \in {NoId, header'}
  BY <1>2, AnswerNamesRequest DEF Respond
<1>3. stage' = "done" /\ answer'.id \in {NoId, header'}
  <2>1. CASE GetConnections  BY <2>1, AnswerNamesRequest DEF GetConnections
  <2>2. CASE AddAWSConnection
    BY <2>2, <1>2, AnswerNamesRequest DEF AddAWSConnection
  <2>3. CASE GetAWSConnection  BY <2>3, <1>2 DEF GetAWSConnection
  <2>4. CASE UpdateAWSConnection
    BY <2>4, <1>2, AnswerNamesRequest DEF UpdateAWSConnection
  <2> QED  BY <2>1, <2>2, <2>3, <2>4
<1> QED
  BY <1>1, <1>3, TracedAgain DEF IdsInv, OneRequestId

\* The ids stay in order.
LEMMA IdsStay ==
    IdsInv /\ [PipelineNext]_pipelineVars => IdsInv'
<1> SUFFICES ASSUME IdsInv, [PipelineNext]_pipelineVars PROVE IdsInv'
  OBVIOUS
<1>1. CASE Arrive  BY <1>1 DEF Arrive, IdsInv, OneRequestId
<1>2. CASE Leave  BY <1>2 DEF Leave, IdsInv, OneRequestId
<1>3. CASE UNCHANGED pipelineVars  BY <1>3 DEF pipelineVars, IdsInv, OneRequestId
<1> QED
  BY <1>1, <1>2, <1>3, MiddlewareKeepsIds, HandlerKeepsIds DEF PipelineNext

\* The middleware and the handler of a request use one id, and the answer names
\* no other.
THEOREM OneRequestIdHolds == PipelineSpec => []OneRequestId
<1>1. PipelineInit => IdsInv
  BY DEF PipelineInit, IdsInv, OneRequestId
<1>2. IdsInv => OneRequestId
  BY DEF IdsInv
<1> QED
  BY <1>1, <1>2, IdsStay, PTL DEF PipelineSpec
-----------------------------------------------------------------------------
(***************************************************************************)
(* Pages.                                                                  *)
(***************************************************************************)
\* What an effective limit and skip can be.
Pages == [limit : 2 .. MaxResults, skip : 0 .. MaxSkip]

\* A parameter is absent, a number, or text.
ParamOK(x) == x \in Int \cup {Absent, NotANumber}

\* A request that follows a page asks for what a client makes of it, and only
\* valid parameters come to the handler.
PagesInv ==
    /\ page = NoConn \/ page \in Pages
    /\ req.kind = "list" =>
         /\ ParamOK(req.limit) /\ ParamOK(req.skip)
         /\ req.after # NoConn =>
              /\ req.after \in Pages
              /\ req.limit \in {Absent, req.after.limit}
              /\ req.skip = req.after.skip + req.after.limit
         /\ stage = "handler" =>
              /\ ValidQueryParam(req.limit, 1, TRUE)
              /\ ValidQueryParam(req.skip, 0, FALSE)
    /\ PagesAdvance

\* The limit of a valid list is no smaller than 2.
LEMMA LimitInRange ==
    ASSUME NEW x, ParamOK(x), ValidQueryParam(x, 1, TRUE)
    PROVE  ParseQueryParam(x, ListLimit, MaxResults) \in 2 .. MaxResults
    BY PipelineAssumption DEF ParamOK, ValidQueryParam, ParseQueryParam

\* The skip of a valid list is what was asked for, or its bound.
LEMMA SkipInRange ==
    ASSUME NEW x, ParamOK(x), ValidQueryParam(x, 0, FALSE)
    PROVE  /\ ParseQueryParam(x, 0, MaxSkip) \in 0 .. MaxSkip
           /\ x \in Int => ParseQueryParam(x, 0, MaxSkip) \in {x, MaxSkip}
    BY PipelineAssumption DEF ParamOK, ValidQueryParam, ParseQueryParam

\* A list that is asked for is for parameters, or for what follows the page.
LEMMA ArriveKeepsPages ==
    ASSUME PagesInv, Arrive
    PROVE  PagesInv'
<1>1. stage' = "middleware" /\ page' = page /\ req' \in Requests
  BY DEF Arrive
<1>2. ASSUME req'.kind = "list"
      PROVE  \E l \in ListRequests :
                /\ req'.limit = l.limit /\ req'.skip = l.skip /\ req'.after = l.after
  BY <1>1, <1>2 DEF Requests
<1>3. ASSUME NEW l \in ListRequests
      PROVE  /\ ParamOK(l.limit) /\ ParamOK(l.skip)
             /\ l.after # NoConn =>
                  /\ l.after \in Pages
                  /\ l.limit \in {Absent, l.after.limit}
                  /\ l.skip = l.after.skip + l.after.limit
  <2>1. CASE l \in [limit : Params, skip : Params, after : {NoConn}]
    BY <2>1, PipelineAssumption DEF ParamOK
  <2>2. CASE /\ page # NoConn
             /\ l \in {[limit |-> x, skip |-> page.skip + page.limit, after |-> page]
                         : x \in {Absent, page.limit}}
    <3>1. page \in Pages  BY <2>2 DEF PagesInv
    <3>2. page.skip + page.limit \in Int /\ page.limit \in Int
      BY <3>1, PipelineAssumption DEF Pages
    <3> QED  BY <2>2, <3>1, <3>2 DEF ParamOK
  <2> QED  BY <2>1, <2>2 DEF ListRequests
<1> QED  BY <1>1, <1>2, <1>3 DEF PagesInv, PagesAdvance

\* What follows a page is not refused.
LEMMA ListMiddlewareKeepsPages ==
    ASSUME PagesInv, ListMiddleware
    PROVE  PagesInv'
<1>1. stage = "middleware" /\ req.kind = "list" /\ UNCHANGED <<req, page>>
  BY DEF ListMiddleware
<1>2. \/ /\ stage' = "handler"
         /\ ValidQueryParam(req.limit, 1, TRUE) /\ ValidQueryParam(req.skip, 0, FALSE)
      \/ /\ stage' = "done"
         /\ ~(ValidQueryParam(req.limit, 1, TRUE) /\ ValidQueryParam(req.skip, 0, FALSE))
  BY DEF ListMiddleware, Finish
<1>3. ASSUME req.after # NoConn
      PROVE  ValidQueryParam(req.limit, 1, TRUE) /\ ValidQueryParam(req.skip, 0, FALSE)
  <2>1. /\ req.after \in Pages
        /\ req.limit \in {Absent, req.after.limit}
        /\ req.skip = req.after.skip + req.after.limit
    BY <1>1, <1>3 DEF PagesInv
  <2> QED  BY <2>1, PipelineAssumption DEF Pages, ValidQueryParam
<1> QED  BY <1>1, <1>2, <1>3 DEF PagesInv, PagesAdvance

\* The handler's page is in range and lies behind the one it follows.
LEMMA GetConnectionsKeepsPages ==
    ASSUME PagesInv, GetConnections
    PROVE  PagesInv'
<1>1. /\ stage = "handler" /\ req.kind = "list" /\ UNCHANGED req
      /\ page' = ListPage(req.limit, req.skip)
      /\ stage' = "done" /\ answer'.status = "200"
  BY DEF GetConnections, Finish
<1>2. /\ page'.limit = ParseQueryParam(req.limit, ListLimit, MaxResults)
      /\ page'.skip = ParseQueryParam(req.skip, 0, MaxSkip)
      /\ page' \in Pages
  BY <1>1, LimitInRange, SkipInRange DEF PagesInv, ListPage, Pages
<1>3. ASSUME req.after # NoConn
      PROVE  page'.limit > 0 /\ page'.skip \in {req.after.skip + req.after.limit, MaxSkip}
  <2>1. req.after \in Pages /\ req.skip = req.after.skip + req.after.limit
    BY <1>1, <1>3 DEF PagesInv
  <2>2. req.skip \in Int  BY <2>1, PipelineAssumption DEF Pages
  <2>3. page'.skip \in {req.skip, MaxSkip}
    BY <1>1, <1>2, <2>2, SkipInRange DEF PagesInv
  <2>4. page'.limit > 0  BY <1>2, PipelineAssumption DEF Pages
  <2> QED  BY <2>1, <2>3, <2>4
<1> QED  BY <1>1, <1>2, <1>3 DEF PagesInv, PagesAdvance

\* Pages stay in range.
LEMMA PagesStay ==
    PagesInv /\ [PipelineNext]_pipelineVars => PagesInv'
<1> SUFFICES ASSUME PagesInv, [PipelineNext]_pipelineVars PROVE PagesInv'
  OBVIOUS
<1>1. CASE PostMiddleware \/ PatchMiddleware \/ GetMiddleware
  <2>1. UNCHANGED <<req, page>> /\ req.kind # "list"
    BY <1>1 DEF PostMiddleware, PatchMiddleware, GetMiddleware
  <2> QED  BY <2>1 DEF PagesInv, PagesAdvance
<1>2. CASE AddAWSConnection \/ GetAWSConnection \/ UpdateAWSConnection
  <2>1. UNCHANGED req /\ page' = NoConn /\ req.kind # "list"
    BY <1>2 DEF AddAWSConnection, GetAWSConnection, UpdateAWSConnection
  <2> QED  BY <2>1 DEF PagesInv, PagesAdvance
<1>3. CASE Leave
  BY <1>3 DEF Leave, NoRequest, PagesInv, PagesAdvance
<1>4. CASE UNCHANGED pipelineVars
  BY <1>4 DEF pipelineVars, PagesInv, PagesAdvance
<1> QED
  BY <1>1, <1>2, <1>3, <1>4, ArriveKeepsPages, ListMiddlewareKeepsPages,
     GetConnectionsKeepsPages DEF PipelineNext

\* A client that asks for what follows a page gets further, or is at the bound.
THEOREM PagesAdvanceHolds == PipelineSpec => []PagesAdvance
<1>1. PipelineInit => PagesInv
  BY DEF PipelineInit, NoRequest, PagesInv, PagesAdvance
<1>2. PagesInv => PagesAdvance
  BY DEF PagesInv
<1> QED
  BY <1>1, <1>2, PagesStay, PTL DEF PipelineSpec
-----------------------------------------------------------------------------
(***************************************************************************)
(* Bodies.  First, what CopyMatchingFields does for the pairs of types     *)
(* that occur.                                                             *)
(***************************************************************************)
\* A field of the same type is set.
LEMMA CopySameType ==
    ASSUME NEW type, NEW new, new # Nil, NEW old
    PROVE  CopyField(Plain(type), Plain(type), new, old) = new
    BY DEF CopyField, Skipped, Plain

\* A pointer's field is set to what it points to, unless it is nil.
LEMMA CopyPointer ==
    ASSUME NEW new, NEW old
    PROVE  CopyField(Ptr("string"), Plain("string"), new, old) = IF new = Nil THEN old ELSE new
<1>1. CASE new = Nil  BY <1>1 DEF CopyField
<1>2. CASE new # Nil
  <2>1. ~Skipped(Ptr("string"), Plain("string"), new)
    BY DEF Skipped, Ptr, Plain, IsStruct, KindOf
  <2>2. Ptr("string").base = Plain("string").base /\ Ptr("string").ptr
    BY DEF Ptr, Plain
  <2> QED  BY <1>2, <2>1, <2>2 DEF CopyField
<1> QED  BY <1>1, <1>2

\* A struct that is not the one the target has is left out.
LEMMA CopyOtherStruct ==
    ASSUME NEW new, NEW old
    PROVE  /\ CopyField(Plain("ConnectionPostWrapper"), Plain("Connection"), new, old) = old
           /\ CopyField(Ptr("ConnectionPatchWrapper"), Plain("Connection"), new, old) = old
    BY DEF CopyField, Skipped, IsStruct, KindOf, Plain, Ptr

\* CopyMatchingFields, field by field.
LEMMA CopiedFields ==
    ASSUME NEW S, NEW T, NEW src, NEW tgt, tgt # Panic
    PROVE  /\ CopyMatchingFields(S, T, src, tgt) =
                [f \in DOMAIN T |-> CopyMatchingFields(S, T, src, tgt)[f]]
           /\ \A f \in DOMAIN T :
                CopyMatchingFields(S, T, src, tgt)[f] =
                    IF f \in DOMAIN S THEN CopyField(S[f], T[f], src[f], tgt[f]) ELSE tgt[f]
    BY DEF CopyMatchingFields

\* The attributes of an AWS connection that its response shows, apart from Connection.
Attributes == VaultFields \cup {"RoleName", "PolicyARNs"}

\* The response has the fields of an AWS connection, but for two.
LEMMA ResponseType ==
    /\ DOMAIN AWSConnectionResponseWrapper =
         Attributes \cup {"ID", "ConnectionID", "CreatedAt", "UpdatedAt", "Connection"}
    /\ DOMAIN AWSConnection =
         DOMAIN AWSConnectionResponseWrapper \cup {"VaultPath", "SecretAccessKey"}
    /\ \A f \in DOMAIN AWSConnectionResponseWrapper :
         /\ AWSConnection[f] = AWSConnectionResponseWrapper[f]
         /\ \E type : AWSConnection[f] = Plain(type)
    /\ AWSConnection.Connection = Plain("Connection")
    /\ \A f \in VaultFields \cup {"RoleName", "SecretAccessKey"} :
         AWSConnection[f] = Plain("string")
    /\ AWSConnection.PolicyARNs = Plain("[]string")
<1> DEFINE R == AWSConnectionResponseWrapper
           Rest == {"VaultPath", "SecretAccessKey"}
<1>1. DOMAIN R = Attributes \cup {"ID", "ConnectionID", "CreatedAt", "UpdatedAt", "Connection"}
  BY DEF AWSConnectionResponseWrapper, Extended, All, Attributes, VaultFields
<1>2. /\ \A f \in VaultFields \cup {"RoleName"} : R[f] = Plain("string")
      /\ R.Connection = Plain("Connection") /\ R.PolicyARNs = Plain("[]string")
  BY DEF AWSConnectionResponseWrapper, Extended, All, VaultFields, Leases
<1>5. /\ R.ID = Plain("uuid.UUID") /\ R.ConnectionID = Plain("uuid.UUID")
      /\ R.CreatedAt = Plain("time.Time") /\ R.UpdatedAt = Plain("time.Time")
  BY DEF AWSConnectionResponseWrapper, Extended, All
<1>6. \A f \in DOMAIN R : \E type : R[f] = Plain(type)
  BY <1>1, <1>2, <1>5 DEF Attributes
<1>3. /\ DOMAIN AWSConnection = DOMAIN R \cup Rest
      /\ \A f \in Rest : AWSConnection[f] = Plain("string")
      /\ \A f \in DOMAIN R : f \notin Rest => AWSConnection[f] = R[f]
  BY DEF AWSConnection, Extended, All
<1>4. DOMAIN R \cap Rest = {}
  BY <1>1 DEF Attributes, VaultFields, Leases
<1> QED  BY <1>1, <1>2, <1>3, <1>4, <1>6 DEF Attributes

\* The body of a POST has attributes of the same types.
LEMMA PostType ==
    /\ DOMAIN AWSConnectionPostWrapper = Attributes \cup {"SecretAccessKey", "Connection"}
    /\ \A f \in VaultFields \cup {"RoleName", "SecretAccessKey"} :
         AWSConnectionPostWrapper[f] = Plain("string")
    /\ AWSConnectionPostWrapper.PolicyARNs = Plain("[]string")
    /\ AWSConnectionPostWrapper.Connection = Plain("ConnectionPostWrapper")
    BY DEF AWSConnectionPostWrapper, Extended, All, Plain, Attributes, VaultFields, Leases

\* The body of a PATCH has pointers to them, but for the slice.
LEMMA PatchType ==
    /\ DOMAIN AWSConnectionPatchWrapper =
         VaultFields \cup {"SecretAccessKey", "PolicyARNs", "Connection"}
    /\ \A f \in VaultFields \cup {"SecretAccessKey"} :
         AWSConnectionPatchWrapper[f] = Ptr("string")
    /\ AWSConnectionPatchWrapper.PolicyARNs = Plain("[]string")
    /\ AWSConnectionPatchWrapper.Connection = Ptr("ConnectionPatchWrapper")
    BY DEF AWSConnectionPatchWrapper, Extended, All, Plain, Ptr, VaultFields, Leases

\* What the connection of a body has in common with a connection.
LEMMA ConnectionTypes ==
    /\ DOMAIN Connection =
         DOMAIN ConnectionPostWrapper
            \cup {"ID", "CreatedAt", "UpdatedAt", "ConnectionType", "Applications"}
    /\ DOMAIN ConnectionPostWrapper =
         {"Name", "Description", "TestSuccessful"} \cup TestFields
    /\ \A f \in DOMAIN ConnectionPostWrapper :
         /\ Connection[f] = ConnectionPostWrapper[f]
         /\ \E type : Connection[f] = Plain(type)
    /\ DOMAIN ConnectionPatchWrapper = {"Name", "Description"}
    /\ \A f \in DOMAIN ConnectionPatchWrapper :
         ConnectionPatchWrapper[f] = Ptr("string") /\ Connection[f] = Plain("string")
<1> DEFINE P == ConnectionPostWrapper
           Rest == {"ID", "CreatedAt", "UpdatedAt", "ConnectionType", "Applications"}
<1>1. /\ DOMAIN P = {"Name", "Description", "TestSuccessful"} \cup TestFields
      /\ \A f \in DOMAIN P : f # "TestSuccessful" => P[f] = Plain("string")
      /\ P.TestSuccessful = Plain("int")
  BY DEF ConnectionPostWrapper, Extended, All
<1>2. /\ DOMAIN Connection = DOMAIN P \cup Rest
      /\ \A f \in DOMAIN P \ Rest : Connection[f] = P[f]
  BY DEF Connection, Extended
<1>3. DOMAIN P \cap Rest = {}
  BY <1>1 DEF TestFields
<1>4. /\ DOMAIN ConnectionPatchWrapper = {"Name", "Description"}
      /\ \A f \in DOMAIN ConnectionPatchWrapper : ConnectionPatchWrapper[f] = Ptr("string")
  BY DEF ConnectionPatchWrapper, All
<1>5. \A f \in DOMAIN P : \E type : P[f] = Plain(type)
  BY <1>1
<1> QED  BY <1>1, <1>2, <1>3, <1>4, <1>5

\* What becomes of each field of a POST's body.
LEMMA PostField ==
    /\ \A f \in DOMAIN AWSConnectionPostWrapper : f # "Connection" =>
         /\ f \in DOMAIN AWSConnection
         /\ \A new, old : new # Nil =>
              CopyField(AWSConnectionPostWrapper[f], AWSConnection[f], new, old) = new
    /\ \A new, old :
         CopyField(AWSConnectionPostWrapper.Connection, AWSConnection.Connection, new, old) = old
<1>1. ASSUME NEW f \in DOMAIN AWSConnectionPostWrapper, f # "Connection"
      PROVE  /\ f \in DOMAIN AWSConnection
             /\ \A new, old : new # Nil =>
                  CopyField(AWSConnectionPostWrapper[f], AWSConnection[f], new, old) = new
  <2>1. f \in Attributes \cup {"SecretAccessKey"}
    BY <1>1, PostType
  <2>2. f \in DOMAIN AWSConnection
    BY <2>1, ResponseType
  <2>3. PICK t : Plain(t) = AWSConnectionPostWrapper[f] /\ Plain(t) = AWSConnection[f]
    BY <2>1, ResponseType, PostType DEF Attributes
  <2> QED  BY <2>2, <2>3, CopySameType
<1> QED  BY <1>1, CopyOtherStruct, ResponseType, PostType

\* What becomes of each field of a PATCH's body.
LEMMA PatchField ==
    /\ \A f \in DOMAIN AWSConnectionPatchWrapper : f # "Connection" =>
         /\ f \in DOMAIN AWSConnection
         /\ \A new, old :
              /\ new # Nil =>
                   CopyField(AWSConnectionPatchWrapper[f], AWSConnection[f], new, old) = new
              /\ new = Nil =>
                   CopyField(AWSConnectionPatchWrapper[f], AWSConnection[f], new, old) = old
    /\ \A new, old :
         CopyField(AWSConnectionPatchWrapper.Connection, AWSConnection.Connection, new, old) = old
<1>1. ASSUME NEW f \in DOMAIN AWSConnectionPatchWrapper, f # "Connection", NEW new, NEW old
      PROVE  /\ f \in DOMAIN AWSConnection
             /\ new # Nil =>
                  CopyField(AWSConnectionPatchWrapper[f], AWSConnection[f], new, old) = new
             /\ new = Nil =>
                  CopyField(AWSConnectionPatchWrapper[f], AWSConnection[f], new, old) = old
  <2>1. f \in DOMAIN AWSConnection
    BY <1>1, PatchType, ResponseType DEF Attributes
  <2>2. CASE f \in VaultFields \cup {"SecretAccessKey"}
    <3>1. AWSConnectionPatchWrapper[f] = Ptr("string") /\ AWSConnection[f] = Plain("string")
      BY <2>2, PatchType, ResponseType
    <3> QED  BY <2>1, <3>1, CopyPointer
  <2>3. CASE f = "PolicyARNs"
    <3>1. AWSConnectionPatchWrapper[f] = Plain("[]string") /\ AWSConnection[f] = Plain("[]string")
      BY <2>3, PatchType, ResponseType
    <3> QED  BY <2>1, <3>1, CopySameType DEF CopyField
  <2> QED  BY <1>1, <2>2, <2>3, PatchType
<1> QED  BY <1>1, CopyOtherStruct, ResponseType, PatchType
-----------------------------------------------------------------------------
(***************************************************************************)
(* The copies that the handlers make, and that none of them panics.        *)
(***************************************************************************)
Connections == [DOMAIN Connection -> Values]

AWSConnections ==
    {c \in [DOMAIN AWSConnection -> Values \cup Connections] :
        /\ c.Connection \in Connections
        /\ \A f \in DOMAIN AWSConnection \ {"Connection"} : c[f] \in Values}

\* Values and structs are not nil, nor lost to a panic.
LEMMA NotLost ==
    /\ \A v \in Values \cup Connections : v # Nil /\ v # Panic
    /\ \A c \in AWSConnections : c # Panic
    /\ ZeroOf(AWSConnectionResponseWrapper) # Panic
<1>1. /\ \A c \in [DOMAIN Connection -> Values \cup Connections] : c # Nil /\ c # Panic
      /\ \A c \in [DOMAIN AWSConnection -> Values \cup Connections] : c # Panic
      /\ \A c \in [DOMAIN AWSConnectionResponseWrapper -> Values \cup Connections] : c # Panic
  BY BodiesAssumption DEF Connections
<1>2. Connections \subseteq [DOMAIN Connection -> Values \cup Connections]
  BY DEF Connections
<1>3. ZeroOf(AWSConnectionResponseWrapper)
        \in [DOMAIN AWSConnectionResponseWrapper -> Values \cup Connections]
  BY BodiesAssumption DEF ZeroOf
<1> QED  BY <1>1, <1>2, <1>3, BodiesAssumption DEF AWSConnections

\* A connection of the right type makes no panic.
LEMMA NoPanic ==
    ASSUME NEW c \in AWSConnections
    PROVE  ~Panicked(c)
    BY NotLost DEF Panicked, AWSConnections, Connections

\* The body of a POST, over an AWS connection: all its attributes, but for Connection.
LEMMA PostCopied ==
    ASSUME NEW b \in Posts, NEW c \in AWSConnections,
           NEW r, r = CopyMatchingFields(AWSConnectionPostWrapper, AWSConnection, b, c)
    PROVE  /\ r \in AWSConnections
           /\ r.Connection = c.Connection
           /\ \A f \in Attributes : r[f] = b[f]
<1>1. IsOfType(b, AWSConnectionPostWrapper, [DOMAIN ConnectionPostWrapper -> Values], Values)
  BY BodiesAssumption
<1>2. /\ r = [f \in DOMAIN AWSConnection |-> r[f]]
      /\ \A f \in DOMAIN AWSConnection :
           r[f] = IF f \in DOMAIN AWSConnectionPostWrapper
                  THEN CopyField(AWSConnectionPostWrapper[f], AWSConnection[f], b[f], c[f])
                  ELSE c[f]
  BY NotLost, CopiedFields
<1>3. ASSUME NEW f \in DOMAIN AWSConnectionPostWrapper, f # "Connection"
      PROVE  r[f] = b[f] /\ b[f] \in Values
  <2>1. b[f] \in Values  BY <1>1, <1>3 DEF IsOfType
  <2> QED  BY <1>2, <1>3, <2>1, NotLost, PostField
<1>4. r.Connection = c.Connection
  BY <1>2, PostField, PostType, ResponseType
<1>5. \A f \in DOMAIN AWSConnection \ {"Connection"} : r[f] \in Values
  BY <1>2, <1>3 DEF AWSConnections
<1>6. c.Connection \in Connections
  BY DEF AWSConnections
<1>7. r \in AWSConnections
  BY <1>2, <1>4, <1>5, <1>6 DEF AWSConnections
<1>8. \A f \in Attributes : f \in DOMAIN AWSConnectionPostWrapper /\ f # "Connection"
  BY PostType DEF Attributes, VaultFields, Leases
<1> QED  BY <1>3, <1>4, <1>7, <1>8

\* The body of a PATCH: the attributes that it gives, and the slice.
LEMMA PatchCopied ==
    ASSUME NEW p \in Patches, NEW c \in AWSConnections, NEW r, r = MergePatch(p, c)
    PROVE  /\ r \in AWSConnections
           /\ r.Connection = c.Connection
           /\ \A f \in Attributes :
                r[f] = IF f \in DOMAIN p /\ p[f] # Nil THEN p[f] ELSE c[f]
<1>1. /\ DOMAIN p = DOMAIN AWSConnectionPatchWrapper
      /\ \A f \in DOMAIN p \ {"Connection"} : p[f] \in Values \cup {Nil}
      /\ p.PolicyARNs # Nil
  BY BodiesAssumption DEF IsOfType
<1>2. /\ r = [f \in DOMAIN AWSConnection |-> r[f]]
      /\ \A f \in DOMAIN AWSConnection :
           r[f] = IF f \in DOMAIN p
                  THEN CopyField(AWSConnectionPatchWrapper[f], AWSConnection[f], p[f], c[f])
                  ELSE c[f]
  BY <1>1, NotLost, CopiedFields DEF MergePatch
<1>3. ASSUME NEW f \in DOMAIN AWSConnection, f # "Connection"
      PROVE  r[f] = IF f \in DOMAIN p /\ p[f] # Nil THEN p[f] ELSE c[f]
  <2>1. CASE f \in DOMAIN p /\ p[f] # Nil  BY <1>1, <1>2, <1>3, <2>1, PatchField
  <2>2. CASE f \in DOMAIN p /\ p[f] = Nil  BY <1>1, <1>2, <1>3, <2>2, PatchField
  <2>3. CASE f \notin DOMAIN p  BY <1>2, <2>3
  <2> QED  BY <2>1, <2>2, <2>3
<1>4. r.Connection = c.Connection
  BY <1>1, <1>2, PatchField, PatchType, ResponseType
<1>5. \A f \in DOMAIN AWSConnection \ {"Connection"} : r[f] \in Values
  BY <1>1, <1>3 DEF AWSConnections
<1>6. c.Connection \in Connections
  BY DEF AWSConnections
<1>7. r \in AWSConnections
  BY <1>2, <1>4, <1>5, <1>6 DEF AWSConnections
<1>8. \A f \in Attributes : f \in DOMAIN AWSConnection /\ f # "Connection"
  BY ResponseType DEF Attributes, VaultFields, Leases
<1> QED  BY <1>3, <1>4, <1>7, <1>8

\* Only the attribute Connection is exchanged.
LEMMA ConnectionExchanged ==
    ASSUME NEW c \in AWSConnections, NEW conn \in Connections,
           NEW r, r = [c EXCEPT !.Connection = conn]
    PROVE  /\ r \in AWSConnections
           /\ r.Connection = conn
           /\ \A f \in DOMAIN AWSConnection \ {"Connection"} : r[f] = c[f]
    BY ResponseType DEF AWSConnections

\* The connection of a POST, over that of an AWS connection: all it has.
LEMMA PostConnectionCopied ==
    ASSUME NEW b \in Posts, NEW c \in AWSConnections,
           NEW r, r = CopyConnection(ConnectionPostWrapper, b, c)
    PROVE  /\ r \in AWSConnections
           /\ \A f \in DOMAIN AWSConnection \ {"Connection"} : r[f] = c[f]
           /\ \A g \in DOMAIN ConnectionPostWrapper : r.Connection[g] = b.Connection[g]
           /\ r.Connection.ConnectionType = c.Connection.ConnectionType
<1> DEFINE conn == CopyMatchingFields(ConnectionPostWrapper, Connection, b.Connection, c.Connection)
<1>1. b.Connection \in [DOMAIN ConnectionPostWrapper -> Values]
  BY BodiesAssumption, PostType DEF IsOfType
<1>2. c.Connection \in Connections /\ c.Connection # Panic
  BY NotLost DEF AWSConnections
<1>3. /\ conn = [g \in DOMAIN Connection |-> conn[g]]
      /\ \A g \in DOMAIN Connection :
           conn[g] = IF g \in DOMAIN ConnectionPostWrapper
                     THEN CopyField(ConnectionPostWrapper[g], Connection[g],
                                    b.Connection[g], c.Connection[g])
                     ELSE c.Connection[g]
  BY <1>2, CopiedFields
<1>4. ASSUME NEW g \in DOMAIN ConnectionPostWrapper PROVE conn[g] = b.Connection[g]
  <2>1. b.Connection[g] # Nil  BY <1>1, NotLost
  <2>2. PICK t : /\ g \in DOMAIN Connection
                 /\ Connection[g] = Plain(t) /\ ConnectionPostWrapper[g] = Plain(t)
    BY ConnectionTypes
  <2>3. conn[g] = CopyField(ConnectionPostWrapper[g], Connection[g],
                            b.Connection[g], c.Connection[g])
    BY <1>3, <2>2
  <2> HIDE DEF conn
  <2> QED  BY <2>1, <2>2, <2>3, CopySameType
<1>5. conn \in Connections
  BY <1>1, <1>2, <1>3, <1>4 DEF Connections
<1>6. conn.ConnectionType = c.Connection.ConnectionType
  BY <1>3, ConnectionTypes DEF TestFields
<1>7. r = [c EXCEPT !.Connection = conn]
  BY DEF CopyConnection
<1> HIDE DEF conn
<1> QED  BY <1>4, <1>5, <1>6, <1>7, ConnectionExchanged

\* The connection of a PATCH: the name and the description that it gives.
LEMMA PatchConnectionCopied ==
    ASSUME NEW p \in Patches, p.Connection # Nil, NEW c \in AWSConnections,
           NEW r, r = CopyConnection(ConnectionPatchWrapper, p, c)
    PROVE  /\ r \in AWSConnections
           /\ \A f \in DOMAIN AWSConnection \ {"Connection"} : r[f] = c[f]
           /\ DOMAIN p.Connection = DOMAIN ConnectionPatchWrapper
           /\ \A g \in DOMAIN Connection :
                r.Connection[g] = IF g \in DOMAIN p.Connection /\ p.Connection[g] # Nil
                                  THEN p.Connection[g] ELSE c.Connection[g]
<1> DEFINE conn == CopyMatchingFields(ConnectionPatchWrapper, Connection, p.Connection,
                                      c.Connection)
<1>1. p.Connection \in [DOMAIN ConnectionPatchWrapper -> Values \cup {Nil}]
  BY BodiesAssumption, PatchType DEF IsOfType
<1>2. c.Connection \in Connections /\ c.Connection # Panic
  BY NotLost DEF AWSConnections
<1>3. /\ conn = [g \in DOMAIN Connection |-> conn[g]]
      /\ \A g \in DOMAIN Connection :
           conn[g] = IF g \in DOMAIN ConnectionPatchWrapper
                     THEN CopyField(ConnectionPatchWrapper[g], Connection[g],
                                    p.Connection[g], c.Connection[g])
                     ELSE c.Connection[g]
  BY <1>2, CopiedFields
<1>4. \A g \in DOMAIN Connection :
        conn[g] = IF g \in DOMAIN ConnectionPatchWrapper /\ p.Connection[g] # Nil
                  THEN p.Connection[g] ELSE c.Connection[g]
  <2> SUFFICES ASSUME NEW g \in DOMAIN Connection
               PROVE  conn[g] = IF g \in DOMAIN ConnectionPatchWrapper /\ p.Connection[g] # Nil
                                THEN p.Connection[g] ELSE c.Connection[g]
    OBVIOUS
  <2> HIDE DEF conn
  <2>1. CASE g \in DOMAIN ConnectionPatchWrapper
    <3>1. ConnectionPatchWrapper[g] = Ptr("string") /\ Connection[g] = Plain("string")
      BY <2>1, ConnectionTypes
    <3>2. conn[g] = CopyField(Ptr("string"), Plain("string"), p.Connection[g], c.Connection[g])
      BY <1>3, <2>1, <3>1
    <3> QED  BY <2>1, <3>2, CopyPointer
  <2>2. CASE g \notin DOMAIN ConnectionPatchWrapper  BY <1>3, <2>2
  <2> QED  BY <2>1, <2>2
<1>5. conn \in Connections
  BY <1>1, <1>2, <1>3, <1>4 DEF Connections
<1>6. r = [c EXCEPT !.Connection = conn]
  BY DEF CopyConnection
<1> HIDE DEF conn
<1> QED  BY <1>1, <1>4, <1>5, <1>6, ConnectionExchanged
-----------------------------------------------------------------------------
(***************************************************************************)
(* What is shown and kept is what was given.                               *)
(***************************************************************************)
\* AWS connection c has the attributes of g, what the client gave, up to the unit
\* of a lease and to the policies that a PATCH erased (e), and it is of the type
\* that POST gives it.
Matches(c, g, e) ==
    /\ DOMAIN g = DOMAIN AWSConnectionPostWrapper
    /\ DOMAIN g.Connection = DOMAIN ConnectionPostWrapper
    /\ \A f \in Attributes :
         \/ c[f] = g[f]
         \/ f \in Leases /\ Seconds[c[f]] = Seconds[g[f]]
         \/ f = "PolicyARNs" /\ e /\ c[f] = Empty
    /\ \A f \in DOMAIN ConnectionPostWrapper : c.Connection[f] = g.Connection[f]
    /\ c.Connection.ConnectionType = "AWSConnectionType"

\* Bodies that reach a handler are valid, a connection that is read or patched is
\* there, and it matches what was given.
BodiesInv ==
    /\ stage # "done" => answer = NoAnswer
    /\ stage = "middleware" =>
         /\ req.kind = "post" => req.body \in Posts \cup {Garbled}
         /\ req.kind = "patch" => req.body \in Patches \cup {Garbled}
    /\ stage = "handler" =>
         /\ req.kind = "post" => req.body \in Posts
         /\ req.kind = "patch" => req.body \in Patches
    /\ stage \in {"middleware", "handler"} /\ req.kind \in {"get", "patch"} => stored # NoConn
    /\ stored # NoConn => stored \in AWSConnections /\ Matches(stored, given, erased)
    /\ NeverPanics
    /\ ShownIsGiven

\* An answer that matches shows what was given.
LEMMA MatchingIsShown ==
    ASSUME NEW c \in AWSConnections, Respond(c), Matches(c, given', erased')
    PROVE  NeverPanics' /\ ShownIsGiven' /\ stage' = "done"
<1> DEFINE R == AWSConnectionResponseWrapper
           body == CopyMatchingFields(AWSConnection, R, c, ZeroOf(R))
<1>1. /\ stage' = "done"
      /\ answer' = [status |-> "200", id |-> NoId, body |-> body]
  BY NoPanic DEF Respond, Finish
<1>2. /\ DOMAIN body = DOMAIN R
      /\ \A f \in DOMAIN R : body[f] = c[f]
  <2>1. /\ body = [f \in DOMAIN R |-> body[f]]
        /\ \A f \in DOMAIN R :
             body[f] = IF f \in DOMAIN AWSConnection
                       THEN CopyField(AWSConnection[f], R[f], c[f], ZeroOf(R)[f])
                       ELSE ZeroOf(R)[f]
    BY NotLost, CopiedFields
  <2> HIDE DEF body
  <2>2. ASSUME NEW f \in DOMAIN R PROVE body[f] = c[f]
    <3>1. f \in DOMAIN AWSConnection  BY ResponseType
    <3>2. c[f] # Nil  BY <3>1, NotLost DEF AWSConnections
    <3>3. PICK type : AWSConnection[f] = Plain(type) /\ R[f] = Plain(type)
      BY ResponseType
    <3> QED  BY <2>1, <3>1, <3>2, <3>3, CopySameType
  <2> QED  BY <2>1, <2>2
<1> HIDE DEF body
<1>3. answer'.body = body /\ answer'.status # "panic"
  BY <1>1
<1>4. (DOMAIN body \cap DOMAIN given') \ {"Connection"} \subseteq Attributes
  BY <1>2, ResponseType, PostType DEF Matches
<1>5. body.Connection = c.Connection /\ \A f \in Attributes : body[f] = c[f]
  BY <1>2, ResponseType
<1>6. TypeOfName[TypeName["AWSConnectionType"]] = "AWSConnectionType"
  BY DEF TypeOfName, TypeName
<1>7. /\ \A f \in (DOMAIN body \cap DOMAIN given') \ {"Connection"} :
           \/ body[f] = given'[f]
           \/ f \in Leases /\ Seconds[body[f]] = Seconds[given'[f]]
           \/ f = "PolicyARNs" /\ erased' /\ body[f] = Empty
      /\ \A f \in DOMAIN given'.Connection : body.Connection[f] = given'.Connection[f]
      /\ TypeOfName[TypeName[body.Connection.ConnectionType]] = "AWSConnectionType"
  BY <1>4, <1>5, <1>6 DEF Matches
<1> QED  BY <1>1, <1>3, <1>7 DEF NeverPanics, ShownIsGiven

\* Vault keeps what matches.
LEMMA MatchingIsKept ==
    ASSUME NEW c \in AWSConnections, NEW g, NEW e, Matches(c, g, e)
    PROVE  AsKept(c) \in AWSConnections /\ Matches(AsKept(c), g, e)
<1>1. /\ AsKept(c) = [f \in DOMAIN AWSConnection |-> AsKept(c)[f]]
      /\ \A f \in DOMAIN AWSConnection :
           AsKept(c)[f] = IF f \in Leases THEN Seconds[c[f]] ELSE c[f]
  BY DEF AsKept, AWSConnections
<1>2. \A f \in Leases : f \in DOMAIN AWSConnection /\ c[f] \in Values
  BY ResponseType DEF AWSConnections, Attributes, VaultFields, Leases
<1>3. \A v \in Values : Seconds[v] \in Values /\ Seconds[Seconds[v]] = Seconds[v]
  BY BodiesAssumption
<1>4. AsKept(c).Connection = c.Connection
  BY <1>1, ResponseType DEF Leases
<1>5. \A f \in DOMAIN AWSConnection \ {"Connection"} : AsKept(c)[f] \in Values
  BY <1>1, <1>2, <1>3 DEF AWSConnections
<1>6. c.Connection \in Connections
  BY DEF AWSConnections
<1>7. AsKept(c) \in AWSConnections
  BY <1>1, <1>4, <1>5, <1>6 DEF AWSConnections
<1>8. ASSUME NEW f \in Attributes
      PROVE  \/ AsKept(c)[f] = g[f]
             \/ f \in Leases /\ Seconds[AsKept(c)[f]] = Seconds[g[f]]
             \/ f = "PolicyARNs" /\ e /\ AsKept(c)[f] = Empty
  <2>1. f \in DOMAIN AWSConnection  BY ResponseType
  <2>2. \/ c[f] = g[f]
        \/ f \in Leases /\ Seconds[c[f]] = Seconds[g[f]]
        \/ f = "PolicyARNs" /\ e /\ c[f] = Empty
    BY DEF Matches
  <2> QED  BY <1>1, <1>2, <1>3, <2>1, <2>2 DEF Leases
<1> QED  BY <1>4, <1>7, <1>8 DEF Matches

\* A request whose result matches what it gave leaves the invariant.
LEMMA MatchingAnswer ==
    ASSUME BodiesInv, NEW c \in AWSConnections, NEW gave, NEW without, Matches(c, gave, without),
           Respond(c), Store(c, gave, without)
    PROVE  BodiesInv'
<1>1. stored' = AsKept(c) /\ given' = gave /\ erased' = without
  BY NoPanic DEF Store
<1> QED  BY <1>1, MatchingIsShown, MatchingIsKept DEF BodiesInv

\* What a POST makes of its body.
LEMMA PostMatches ==
    ASSUME NEW b \in Posts
    PROVE  LET c == CopyConnection(ConnectionPostWrapper, b,
                        CopyMatchingFields(AWSConnectionPostWrapper, AWSConnection, b,
                                           NewAWSConnection))
           IN c \in AWSConnections /\ Matches(c, b, FALSE)
<1> DEFINE m == CopyMatchingFields(AWSConnectionPostWrapper, AWSConnection, b, NewAWSConnection)
           c == CopyConnection(ConnectionPostWrapper, b, m)
           conn == Extended(ZeroOf(Connection),
                            [ID |-> "new", ConnectionType |-> "AWSConnectionType"])
<1>1. conn \in Connections /\ conn.ConnectionType = "AWSConnectionType"
  BY BodiesAssumption, ConnectionTypes DEF Extended, ZeroOf, Connections
<1>2. NewAWSConnection \in AWSConnections /\ NewAWSConnection.Connection = conn
  <2> HIDE DEF conn
  <2>1. NewAWSConnection = Extended(ZeroOf(AWSConnection),
             [ID |-> "new", ConnectionID |-> "new", VaultPath |-> "aws_new", Connection |-> conn])
    BY DEF NewAWSConnection, conn
  <2>2. {"ID", "ConnectionID", "VaultPath", "Connection"} \subseteq DOMAIN AWSConnection
    BY ResponseType
  <2>3. /\ NewAWSConnection = [f \in DOMAIN AWSConnection |-> NewAWSConnection[f]]
        /\ NewAWSConnection.Connection = conn
        /\ \A f \in DOMAIN AWSConnection \ {"Connection"} :
             NewAWSConnection[f] \in {Empty, "new", "aws_new"}
    <3> DEFINE more == [ID |-> "new", ConnectionID |-> "new", VaultPath |-> "aws_new",
                        Connection |-> conn]
    <3>1. /\ DOMAIN more = {"ID", "ConnectionID", "VaultPath", "Connection"}
          /\ more.Connection = conn
          /\ \A f \in DOMAIN more : f # "Connection" => more[f] \in {"new", "aws_new"}
      OBVIOUS
    <3> HIDE DEF more
    <3>2. NewAWSConnection = [f \in DOMAIN AWSConnection |->
                               IF f \in DOMAIN more THEN more[f] ELSE Empty]
      BY <2>1, <2>2, <3>1 DEF Extended, ZeroOf, more
    <3> QED  BY <2>2, <3>1, <3>2
  <2> QED  BY <1>1, <2>3, BodiesAssumption DEF AWSConnections
<1>3. /\ m \in AWSConnections
      /\ m.Connection.ConnectionType = "AWSConnectionType"
      /\ \A f \in Attributes : m[f] = b[f]
  BY <1>1, <1>2, PostCopied
<1> HIDE DEF m
<1>4. /\ c \in AWSConnections
      /\ \A f \in DOMAIN AWSConnection \ {"Connection"} : c[f] = m[f]
      /\ \A g \in DOMAIN ConnectionPostWrapper : c.Connection[g] = b.Connection[g]
      /\ c.Connection.ConnectionType = m.Connection.ConnectionType
  BY <1>3, PostConnectionCopied
<1> HIDE DEF c
<1>5. /\ DOMAIN b = DOMAIN AWSConnectionPostWrapper
      /\ DOMAIN b.Connection = DOMAIN ConnectionPostWrapper
  BY BodiesAssumption, PostType DEF IsOfType
<1>6. \A f \in Attributes : f \in DOMAIN AWSConnection /\ f # "Connection"
  BY ResponseType DEF Attributes, VaultFields, Leases
<1>7. c \in AWSConnections /\ Matches(c, b, FALSE)
  BY <1>3, <1>4, <1>5, <1>6 DEF Matches
<1> QED  BY <1>7 DEF c, m

\* What a GET reads: the rows, and what Vault keeps but for the secret.
LEMMA ReadBack ==
    ASSUME stored \in AWSConnections
    PROVE  /\ FromTables \in AWSConnections
           /\ FromTables.Connection = stored.Connection
           /\ \A c \in AWSConnections :
                /\ FromVault(c) \in AWSConnections
                /\ FromVault(c).Connection = c.Connection
                /\ \A f \in Attributes : FromVault(c)[f] = stored[f]
<1>1. \A f \in EngineFields : f \in DOMAIN AWSConnection /\ f # "Connection"
  BY ResponseType DEF EngineFields, Attributes, VaultFields, Leases
<1>2. /\ FromTables = [f \in DOMAIN AWSConnection |-> FromTables[f]]
      /\ \A f \in DOMAIN AWSConnection :
           FromTables[f] = IF f \in EngineFields THEN Empty ELSE stored[f]
  BY DEF FromTables, AWSConnections
<1>3. FromTables \in AWSConnections /\ FromTables.Connection = stored.Connection
  <2>1. FromTables.Connection = stored.Connection
    BY <1>1, <1>2, ResponseType
  <2>2. stored.Connection \in Connections
    BY DEF AWSConnections
  <2>3. \A f \in DOMAIN AWSConnection \ {"Connection"} : FromTables[f] \in Values
    BY <1>2, BodiesAssumption DEF AWSConnections
  <2> QED  BY <1>2, <2>1, <2>2, <2>3 DEF AWSConnections
<1>4. ASSUME NEW c \in AWSConnections
      PROVE  /\ FromVault(c) \in AWSConnections
             /\ FromVault(c).Connection = c.Connection
             /\ \A f \in Attributes : FromVault(c)[f] = stored[f]
  <2>1. /\ FromVault(c) = [f \in DOMAIN AWSConnection |-> FromVault(c)[f]]
        /\ \A f \in DOMAIN AWSConnection :
             FromVault(c)[f] = IF f \in EngineFields \ {"SecretAccessKey"} THEN stored[f] ELSE c[f]
    BY DEF FromVault, AWSConnections
  <2>2. FromVault(c) \in AWSConnections /\ FromVault(c).Connection = c.Connection
    BY <1>1, <2>1, ResponseType DEF AWSConnections
  <2>3. \A f \in Attributes : f \in EngineFields \ {"SecretAccessKey"} /\ f \in DOMAIN AWSConnection
    BY ResponseType DEF EngineFields, Attributes, VaultFields, Leases
  <2> QED  BY <2>1, <2>2, <2>3
<1> QED  BY <1>3, <1>4

\* ResetTestStatus changes two fields of the connection.
LEMMA ResetFields ==
    ASSUME NEW c \in AWSConnections
    PROVE  /\ Reset(c) \in AWSConnections
           /\ \A f \in DOMAIN AWSConnection \ {"Connection"} : Reset(c)[f] = c[f]
           /\ \A g \in DOMAIN Connection :
                Reset(c).Connection[g] = IF g \in {"TestSuccessful", "TestError"} THEN Empty
                                         ELSE c.Connection[g]
<1> DEFINE conn == [c.Connection EXCEPT !.TestSuccessful = Empty, !.TestError = Empty]
<1>1. c.Connection \in Connections
  BY DEF AWSConnections
<1>2. /\ conn \in Connections
      /\ \A g \in DOMAIN Connection :
           conn[g] = IF g \in {"TestSuccessful", "TestError"} THEN Empty ELSE c.Connection[g]
  BY <1>1, BodiesAssumption DEF Connections
<1>3. Reset(c) = [c EXCEPT !.Connection = conn]
  BY ResponseType DEF Reset, AWSConnections
<1> HIDE DEF conn
<1> QED  BY <1>2, <1>3, ConnectionExchanged

\* What a PATCH makes of its body, the rows and what Vault keeps.
LEMMA PatchMatches ==
    ASSUME stored \in AWSConnections, Matches(stored, given, erased),
           NEW p \in Patches, p.Connection # Nil
    PROVE  LET c == CopyConnection(ConnectionPatchWrapper, p, MergePatch(p, FromTables))
           IN /\ Patched(p, c) \in AWSConnections
              /\ Matches(Patched(p, c), GivenBy(p), p.PolicyARNs = Empty)
<1> DEFINE m == MergePatch(p, FromTables)
           c == CopyConnection(ConnectionPatchWrapper, p, m)
           v == FromVault(c)
           w == CopyConnection(ConnectionPatchWrapper, p, v)
           x == MergePatch(p, w)
           d == Reset(x)
<1>1. m \in AWSConnections /\ m.Connection = stored.Connection
  BY ReadBack, PatchCopied
<1> HIDE DEF m
<1>2. /\ c \in AWSConnections
      /\ DOMAIN p.Connection = DOMAIN ConnectionPatchWrapper
      /\ \A g \in DOMAIN Connection :
           c.Connection[g] = IF g \in DOMAIN p.Connection /\ p.Connection[g] # Nil
                             THEN p.Connection[g] ELSE stored.Connection[g]
  BY <1>1, PatchConnectionCopied
<1> HIDE DEF c
<1>3. /\ v \in AWSConnections /\ v.Connection = c.Connection
      /\ \A f \in Attributes : v[f] = stored[f]
  BY <1>2, ReadBack
<1> HIDE DEF v
<1>4. /\ w \in AWSConnections
      /\ \A f \in DOMAIN AWSConnection \ {"Connection"} : w[f] = v[f]
      /\ \A g \in DOMAIN Connection :
           w.Connection[g] = IF g \in DOMAIN p.Connection /\ p.Connection[g] # Nil
                             THEN p.Connection[g] ELSE c.Connection[g]
  BY <1>3, PatchConnectionCopied
<1> HIDE DEF w
<1>5. /\ x \in AWSConnections /\ x.Connection = w.Connection
      /\ \A f \in Attributes : x[f] = IF f \in DOMAIN p /\ p[f] # Nil THEN p[f] ELSE w[f]
  BY <1>4, PatchCopied
<1> HIDE DEF x
<1>6. /\ d \in AWSConnections
      /\ \A f \in DOMAIN AWSConnection \ {"Connection"} : d[f] = x[f]
      /\ \A g \in DOMAIN Connection :
           d.Connection[g] = IF g \in {"TestSuccessful", "TestError"} THEN Empty
                             ELSE x.Connection[g]
  BY <1>5, ResetFields
<1> HIDE DEF d
<1>7. \A f \in Attributes : f \in DOMAIN AWSConnection /\ f # "Connection"
  BY ResponseType DEF Attributes, VaultFields, Leases
<1>8. /\ DOMAIN given = DOMAIN AWSConnectionPostWrapper
      /\ DOMAIN given.Connection = DOMAIN ConnectionPostWrapper
      /\ \A f \in DOMAIN ConnectionPostWrapper : stored.Connection[f] = given.Connection[f]
  BY DEF Matches
<1>9. /\ DOMAIN GivenBy(p) = DOMAIN given
      /\ \A f \in DOMAIN given : f # "Connection" =>
           GivenBy(p)[f] = IF f \in DOMAIN p /\ p[f] # Omitted(f) THEN p[f] ELSE given[f]
  BY DEF GivenBy
<1>10. /\ DOMAIN GivenBy(p).Connection = DOMAIN given.Connection
       /\ \A g \in DOMAIN given.Connection :
            GivenBy(p).Connection[g] =
                IF g \in {"TestSuccessful", "TestError"} THEN Empty
                ELSE IF g \in DOMAIN p.Connection /\ p.Connection[g] # Nil
                THEN p.Connection[g] ELSE given.Connection[g]
  BY <1>8, PostType DEF GivenBy
<1>11. ASSUME NEW f \in Attributes
       PROVE  \/ d[f] = GivenBy(p)[f]
              \/ f \in Leases /\ Seconds[d[f]] = Seconds[GivenBy(p)[f]]
              \/ f = "PolicyARNs" /\ p.PolicyARNs = Empty /\ d[f] = Empty
  <2>1. d[f] = IF f \in DOMAIN p /\ p[f] # Nil THEN p[f] ELSE stored[f]
    BY <1>3, <1>4, <1>5, <1>6, <1>7
  <2>2. GivenBy(p)[f] = IF f \in DOMAIN p /\ p[f] # Omitted(f) THEN p[f] ELSE given[f]
    BY <1>7, <1>8, <1>9, PostType
  <2>3. CASE f = "PolicyARNs"
    <3>1. f \in DOMAIN p /\ p[f] # Nil
      BY <2>3, BodiesAssumption, PatchType DEF IsOfType
    <3> QED  BY <2>1, <2>2, <2>3, <3>1 DEF Omitted
  <2>4. CASE f # "PolicyARNs"
    BY <2>1, <2>2, <2>4 DEF Matches, Omitted
  <2> QED  BY <2>3, <2>4
<1>12. ASSUME NEW g \in DOMAIN ConnectionPostWrapper
       PROVE  d.Connection[g] = GivenBy(p).Connection[g]
  <2>1. g \in DOMAIN Connection /\ g \in DOMAIN given.Connection
    BY <1>8, ConnectionTypes
  <2>2. stored.Connection[g] = given.Connection[g]
    BY <1>8
  <2>3. d.Connection[g] =
            IF g \in {"TestSuccessful", "TestError"} THEN Empty
            ELSE IF g \in DOMAIN p.Connection /\ p.Connection[g] # Nil
            THEN p.Connection[g] ELSE given.Connection[g]
    BY <1>2, <1>4, <1>5, <1>6, <2>1, <2>2
  <2> QED  BY <1>10, <2>1, <2>3
<1>13. d.Connection.ConnectionType = "AWSConnectionType"
  <2>1. /\ "ConnectionType" \in DOMAIN Connection
        /\ "ConnectionType" \notin DOMAIN p.Connection
    BY <1>2, ConnectionTypes
  <2>2. stored.Connection.ConnectionType = "AWSConnectionType"
    BY DEF Matches
  <2> QED  BY <1>2, <1>4, <1>5, <1>6, <2>1, <2>2
<1>14. Matches(d, GivenBy(p), p.PolicyARNs = Empty)
  BY <1>8, <1>9, <1>10, <1>11, <1>12, <1>13 DEF Matches
<1>15. Patched(p, c) = d
  BY DEF Patched, d, x, w, v
<1> QED  BY <1>6, <1>14, <1>15 DEF c, m

\* The handlers that store and show.
LEMMA HandlerKeepsBodies ==
    ASSUME BodiesInv, AddAWSConnection \/ GetAWSConnection \/ UpdateAWSConnection
    PROVE  BodiesInv'
<1>1. ASSUME NEW status \in {"400", "500"}, Finish(status, header', NoConn),
             UNCHANGED <<stored, given, erased>>
      PROVE  BodiesInv'
  <2>1. /\ stage' = "done" /\ UNCHANGED <<stored, given, erased>>
        /\ answer'.status # "panic" /\ answer'.body = NoConn
    BY <1>1 DEF Finish
  <2> QED  BY <2>1 DEF BodiesInv, Matches, NeverPanics, ShownIsGiven
<1>2. CASE AddAWSConnection
  <2>1. req.body \in Posts
    BY <1>2 DEF AddAWSConnection, BodiesInv
  <2> DEFINE b == req.body
             c == CopyConnection(ConnectionPostWrapper, b,
                      CopyMatchingFields(AWSConnectionPostWrapper, AWSConnection, b,
                                         NewAWSConnection))
  <2>2. \/ Finish("400", header', NoConn) /\ UNCHANGED <<stored, given, erased>>
        \/ Respond(c) /\ Store(c, b, FALSE)
    BY <1>2 DEF AddAWSConnection
  <2>3. c \in AWSConnections /\ Matches(c, b, FALSE)
    BY <2>1, PostMatches
  <2> HIDE DEF b, c
  <2> QED  BY <1>1, <2>2, <2>3, MatchingAnswer
<1>3. CASE GetAWSConnection
  <2>1. stored \in AWSConnections /\ Matches(stored, given, erased)
    BY <1>3 DEF GetAWSConnection, BodiesInv
  <2> DEFINE c == FromVault(FromTables)
  <2>2. c \in AWSConnections /\ Matches(c, given, erased)
    BY <2>1, ReadBack DEF Matches
  <2>3. Respond(c) /\ UNCHANGED <<stored, given, erased>>
    BY <1>3 DEF GetAWSConnection
  <2> HIDE DEF c
  <2>4. Matches(c, given', erased')
    BY <2>2, <2>3
  <2> QED  BY <2>1, <2>2, <2>3, <2>4, MatchingIsShown DEF BodiesInv
<1>4. CASE UpdateAWSConnection
  <2> DEFINE p == req.body
             c == CopyConnection(ConnectionPatchWrapper, p, MergePatch(p, FromTables))
  <2>1. p \in Patches /\ stored \in AWSConnections /\ Matches(stored, given, erased)
    BY <1>4 DEF UpdateAWSConnection, BodiesInv
  <2>2. \/ Finish("500", header', NoConn) /\ UNCHANGED <<stored, given, erased>>
        \/ Finish("400", header', NoConn) /\ UNCHANGED <<stored, given, erased>>
        \/ /\ p.Connection # Nil
           /\ Respond(Patched(p, c)) /\ Store(Patched(p, c), GivenBy(p), p.PolicyARNs = Empty)
    BY <1>4 DEF UpdateAWSConnection, Omitted
  <2>3. ASSUME p.Connection # Nil
        PROVE  /\ Patched(p, c) \in AWSConnections
               /\ Matches(Patched(p, c), GivenBy(p), p.PolicyARNs = Empty)
    BY <2>1, <2>3, PatchMatches
  <2> HIDE DEF p, c
  <2> QED  BY <1>1, <2>2, <2>3, MatchingAnswer
<1> QED  BY <1>2, <1>3, <1>4

\* A middleware lets valid bodies through.
LEMMA MiddlewareKeepsBodies ==
    ASSUME BodiesInv, ListMiddleware \/ PostMiddleware \/ PatchMiddleware \/ GetMiddleware
    PROVE  BodiesInv'
<1>1. stage = "middleware" /\ UNCHANGED <<req, stored, given, erased>>
  BY DEF ListMiddleware, PostMiddleware, PatchMiddleware, GetMiddleware
<1>2. \/ /\ stage' = "handler" /\ answer' = answer
         /\ req.kind = "post" => req.body # Garbled
         /\ req.kind = "patch" => req.body # Garbled
      \/ stage' = "done" /\ answer'.status = "400" /\ answer'.body = NoConn
  <2>1. ASSUME NEW id, Finish("400", id, NoConn)
        PROVE  stage' = "done" /\ answer'.status = "400" /\ answer'.body = NoConn
    BY <2>1 DEF Finish
  <2>2. CASE ListMiddleware  BY <2>1, <2>2 DEF ListMiddleware
  <2>3. CASE PostMiddleware  BY <2>1, <2>3 DEF PostMiddleware, PostIsValid
  <2>4. CASE PatchMiddleware  BY <2>1, <2>4 DEF PatchMiddleware, PatchIsValid
  <2>5. CASE GetMiddleware  BY <2>5 DEF GetMiddleware
  <2> QED  BY <2>2, <2>3, <2>4, <2>5
<1> QED  BY <1>1, <1>2 DEF BodiesInv, Matches, NeverPanics, ShownIsGiven

\* Requests ask for what is there, and answers show what was given.
LEMMA BodiesStay ==
    BodiesInv /\ [PipelineNext]_pipelineVars => BodiesInv'
<1> SUFFICES ASSUME BodiesInv, [PipelineNext]_pipelineVars PROVE BodiesInv'
  OBVIOUS
<1>1. CASE Arrive
  <2>1. /\ stage' = "middleware" /\ req' \in Requests
        /\ stage = "idle" /\ UNCHANGED <<answer, stored, given, erased>>
    BY <1>1 DEF Arrive
  <2>2. /\ req'.kind = "post" => req'.body \in Posts \cup {Garbled}
        /\ req'.kind = "patch" => req'.body \in Patches \cup {Garbled}
        /\ req'.kind \in {"get", "patch"} => stored # NoConn
    BY <2>1 DEF Requests
  <2> QED  BY <2>1, <2>2 DEF BodiesInv, Matches, NeverPanics, ShownIsGiven
<1>2. CASE Leave
  BY <1>2 DEF Leave, NoAnswer, BodiesInv, Matches, NeverPanics, ShownIsGiven
<1>3. CASE GetConnections
  <2>1. /\ stage' = "done" /\ answer'.status = "200" /\ answer'.body = NoConn
        /\ UNCHANGED <<stored, given, erased>>
    BY <1>3 DEF GetConnections, Finish
  <2> QED  BY <2>1 DEF BodiesInv, Matches, NeverPanics, ShownIsGiven
<1>4. CASE UNCHANGED pipelineVars
  BY <1>4 DEF pipelineVars, BodiesInv, Matches, NeverPanics, ShownIsGiven
<1> QED
  BY <1>1, <1>2, <1>3, <1>4, HandlerKeepsBodies, MiddlewareKeepsBodies DEF PipelineNext

\* The invariant holds.
LEMMA BodiesInvHolds == PipelineSpec => []BodiesInv
<1>1. PipelineInit => BodiesInv
  BY DEF PipelineInit, NoRequest, NoAnswer, BodiesInv, Matches, NeverPanics, ShownIsGiven
<1> QED
  BY <1>1, BodiesStay, PTL DEF PipelineSpec

\* No request makes CopyMatchingFields set a field to a value of another type.
THEOREM NeverPanicsHolds == PipelineSpec => []NeverPanics
<1>1. BodiesInv => NeverPanics
  BY DEF BodiesInv
<1> QED  BY <1>1, BodiesInvHolds, PTL

\* What an answer shows is what the client last gave, in whatever order it posts,
\* patches and reads; only policies that the last PATCH left out are gone.
THEOREM ShownIsGivenHolds == PipelineSpec => []ShownIsGiven
<1>1. BodiesInv => ShownIsGiven
  BY DEF BodiesInv
<1> QED  BY <1>1, BodiesInvHolds, PTL
=============================================================================
