-------------------------- MODULE RequestPipeline --------------------------
(***************************************************************************)
(* One request's way through a route: its middleware, which gives it an id *)
(* and validates its parameters or its body, and its handler, which parses *)
(* the parameters, or copies the body into an AWSConnection and that into  *)
(* the response.  The client sends one request after the other and the     *)
(* stores accept what they are given: ConnectionManager is about the rest. *)
(***************************************************************************)
EXTENDS Payloads, Integers

CONSTANTS
    ClientIds,  \* values that clients put into X-Request-Id
    FreshIds,   \* UUIDs that PrepareContext mints
    NoId,       \* no X-Request-Id, or an empty requestID
    ListLimit,  \* Server.ListLimit of the configuration
    MaxResults, \* DataLayer.MaxResults of the configuration
    MaxSkip,    \* math.MaxInt32, or a smaller bound for TLC
    Params,     \* values of the parameters limit and skip
    Absent,     \* a parameter that is not there
    NotANumber, \* a parameter that Atoi refuses
    Values,     \* what an attribute can hold: strings, lists, numbers, ids, times
    Posts,      \* bodies of POST
    Patches,    \* bodies of PATCH
    Garbled,    \* a body that is not the JSON asked for
    Seconds,    \* [Values -> Values] how Vault shows a lease TTL it was given
    NoConn      \* nothing: no connection, no page, no answer

ASSUME PipelineAssumption ==
    /\ NoId \notin ClientIds \cup FreshIds
    /\ ClientIds \cap FreshIds = {}
    \* the configuration shipped has 10 and 10000; were it 1, a client that asks
    \* for the limit it was shown would be refused
    /\ ListLimit \in 2 .. MaxResults
    /\ MaxResults \in 2 .. MaxSkip
    /\ MaxSkip \in Nat
    /\ Params \subseteq Int \cup {Absent, NotANumber}
    /\ Absent \notin Int /\ NotANumber \notin Int

\* s is a struct of type T; of the fields that are structs only Connection has
\* attributes of its own.
IsOfType(s, T, connections, values) ==
    /\ DOMAIN s = DOMAIN T
    /\ \A f \in DOMAIN T : s[f] \in IF f = "Connection" THEN connections ELSE values

ASSUME BodiesAssumption ==
    /\ {Empty, "new", "aws_new", "AWSConnectionType"} \subseteq Values
    \* nil and a panic are neither values nor structs
    /\ {Nil, Panic} \cap Values = {}
    /\ \A T \in {Connection, AWSConnection, AWSConnectionResponseWrapper} :
          {Nil, Panic} \cap [DOMAIN T -> Values \cup [DOMAIN Connection -> Values]] = {}
    \* decoding leaves a field at its zero value if the body does not have it
    /\ \A b \in Posts : IsOfType(b, AWSConnectionPostWrapper,
                                 [DOMAIN ConnectionPostWrapper -> Values], Values)
    \* which is nil for a pointer
    /\ \A p \in Patches :
          /\ IsOfType(p, AWSConnectionPatchWrapper,
                      [DOMAIN ConnectionPatchWrapper -> Values \cup {Nil}] \cup {Nil},
                      Values \cup {Nil})
          /\ p.PolicyARNs # Nil
    \* Vault shows the seconds that it was given as they are
    /\ Seconds \in [Values -> Values]
    /\ \A v \in Values : Seconds[Seconds[v]] = Seconds[v]

VARIABLES
    stage,   \* "idle", "middleware", "handler" or "done"
    req,     \* the request: kind, id, limit, skip, body, and the page it follows
    header,  \* X-Request-Id of the request, which PrepareContext sets
    echoed,  \* X-Request-Id of the response
    ids,     \* history: what PrepareContext returned for this request
    page,    \* the effective limit and skip of a list
    answer,  \* status and requestID of the answer, and the AWSConnection shown
    stored,  \* the connection, as the tables have it and as Vault shows it
    given,   \* history: the last value that the client gave each attribute
    erased   \* history: the PATCH that made the connection what it is had no policies

pipelineVars == <<stage, req, header, echoed, ids, page, answer, stored, given, erased>>

NoAnswer == [status |-> "none", id |-> NoId, body |-> NoConn]

NoRequest == [kind |-> "none", limit |-> Absent, skip |-> Absent, after |-> NoConn, body |-> NoConn]

\* A list is asked for with parameters of its own, or for what follows a page,
\* whose limit and skip the client knows from the answer.
ListRequests ==
    [limit : Params, skip : Params, after : {NoConn}]
    \cup IF page = NoConn THEN {}
         ELSE {[limit |-> l, skip |-> page.skip + page.limit, after |-> page]
                 : l \in {Absent, page.limit}}

Requests ==
    {[kind |-> "list", limit |-> l.limit, skip |-> l.skip, after |-> l.after, body |-> NoConn]
       : l \in ListRequests}
    \cup [kind : {"post"}, limit : {Absent}, skip : {Absent}, after : {NoConn},
          body : Posts \cup {Garbled}]
    \cup IF stored = NoConn THEN {}
         ELSE [kind : {"get"}, limit : {Absent}, skip : {Absent}, after : {NoConn}, body : {NoConn}]
              \cup [kind : {"patch"}, limit : {Absent}, skip : {Absent}, after : {NoConn},
                    body : Patches \cup {Garbled}]

Arrive ==
    /\ stage = "idle"
    /\ req' \in Requests
    /\ header' \in ClientIds \cup {NoId}
    /\ stage' = "middleware"
    /\ UNCHANGED <<echoed, ids, page, answer, stored, given, erased>>
------------------------------------------------------------------------------
(***************************************************************************)
(* Request ids.                                                            *)
(***************************************************************************)
\* Mutant of PrepareContext: the minted id is not put into the request.
PrepareContextForgotten(id) ==
    /\ UNCHANGED header
    /\ echoed' = IF header = NoId THEN id ELSE echoed
    /\ ids' = ids \cup {IF header = NoId THEN id ELSE header}

\* Only an id that is minted goes into the response's header.
PrepareContext(id) ==
    /\ header' = IF header = NoId THEN id ELSE header
    /\ echoed' = IF header = NoId THEN id ELSE echoed
    /\ ids' = ids \cup {IF header = NoId THEN id ELSE header}

\* A call of SetupTraceAndLogger, by the middleware and by the handler.
SetupTraceAndLogger == \E id \in FreshIds \ ids : PrepareContext(id)

Finish(status, id, body) ==
    /\ stage' = "done"
    /\ answer' = [status |-> status, id |-> id, body |-> body]
------------------------------------------------------------------------------
(***************************************************************************)
(* The parameters of a list.                                               *)
(***************************************************************************)
\* ValidateQueryParam.
ValidQueryParam(param, minValue, strictGreaterThan) ==
    \/ param = Absent
    \/ /\ param # NotANumber
       /\ IF strictGreaterThan THEN param > minValue ELSE param >= minValue

ParseQueryParam(param, defaultValue, maxValue) ==
    IF param \in {Absent, NotANumber} \/ param < 0 THEN defaultValue
    ELSE IF param < maxValue THEN param ELSE maxValue

\* Mutant of ListPage: skip has the bound of limit.
ListPageClamped(limit, skip) ==
    [limit |-> ParseQueryParam(limit, ListLimit, MaxResults),
     skip  |-> ParseQueryParam(skip, 0, MaxResults)]

ListPage(limit, skip) ==
    [limit |-> ParseQueryParam(limit, ListLimit, MaxResults),
     skip  |-> ParseQueryParam(skip, 0, MaxSkip)]

\* MiddlewareValidateAWSConnectionsGet and MiddlewareValidateConnectionsGet.
ListMiddleware ==
    /\ stage = "middleware" /\ req.kind = "list"
    /\ SetupTraceAndLogger
    /\ IF ValidQueryParam(req.limit, 1, TRUE) /\ ValidQueryParam(req.skip, 0, FALSE)
       THEN stage' = "handler" /\ UNCHANGED answer
       ELSE Finish("400", header', NoConn)
    /\ UNCHANGED <<req, page, stored, given, erased>>

GetConnections ==
    /\ stage = "handler" /\ req.kind = "list"
    /\ SetupTraceAndLogger
    /\ page' = ListPage(req.limit, req.skip)
    /\ Finish("200", NoId, NoConn)
    /\ UNCHANGED <<req, stored, given, erased>>
------------------------------------------------------------------------------
(***************************************************************************)
(* Bodies.                                                                 *)
(***************************************************************************)
Types == {"iam_user", "session_token"}

\* The tags "required" and "oneof" of AWSConnectionPostWrapper.
PostIsValid(b) ==
    /\ b # Garbled
    /\ Empty \notin {b.AccessKey, b.SecretAccessKey, b.RoleName, b.Connection.Name}
    /\ b.CredentialType \in Types

PatchIsValid(b) == b # Garbled /\ b.CredentialType \in Types \cup {Nil}

\* DecodeAndValidate reports its errors without a request id.
PostMiddleware ==
    /\ stage = "middleware" /\ req.kind = "post"
    /\ SetupTraceAndLogger
    /\ IF PostIsValid(req.body)
       THEN stage' = "handler" /\ UNCHANGED answer
       ELSE Finish("400", NoId, NoConn)
    /\ UNCHANGED <<req, page, stored, given, erased>>

\* MiddlewareValidateAWSConnectionUpdate, with ValidateAndWrapPayload.
PatchMiddleware ==
    /\ stage = "middleware" /\ req.kind = "patch"
    /\ SetupTraceAndLogger
    /\ IF PatchIsValid(req.body)
       THEN stage' = "handler" /\ UNCHANGED answer
       ELSE Finish("400", header', NoConn)
    /\ UNCHANGED <<req, page, stored, given, erased>>

\* MiddlewareValidateAWSConnection: the route matches only if there is an id.
GetMiddleware ==
    /\ stage = "middleware" /\ req.kind = "get"
    /\ SetupTraceAndLogger
    /\ stage' = "handler"
    /\ UNCHANGED <<req, page, answer, stored, given, erased>>

\* validateAWSConnection.
Invalid(c) ==
    \/ c.CredentialType = "iam_user" /\ c.PolicyARNs = Empty
    \/ c.CredentialType = "session_token" /\ \E f \in Leases : c[f] # Empty

\* p.Connection into c.Connection, by a call of its own.
CopyConnection(S, p, c) ==
    [c EXCEPT !.Connection = CopyMatchingFields(S, Connection, p.Connection, @)]

Panicked(c) ==
    \/ \E f \in DOMAIN c : c[f] = Panic
    \/ \E f \in DOMAIN c.Connection : c.Connection[f] = Panic

\* A panic ends the request: net/http drops it without an answer.
Respond(c) ==
    IF Panicked(c)
    THEN Finish("panic", NoId, NoConn)
    ELSE Finish("200", NoId, CopyMatchingFields(AWSConnection, AWSConnectionResponseWrapper,
                                                c, ZeroOf(AWSConnectionResponseWrapper)))

\* Vault shows a lease in seconds, its default if none was given.
AsKept(c) == [f \in DOMAIN c |-> IF f \in Leases THEN Seconds[c[f]] ELSE c[f]]

\* The tables and Vault take c, made from what the client has given by now.
Store(c, gave, withoutPolicies) ==
    IF Panicked(c)
    THEN UNCHANGED <<stored, given, erased>>
    ELSE stored' = AsKept(c) /\ given' = gave /\ erased' = withoutPolicies

\* The columns with gorm:"-", which only Vault keeps.
EngineFields == VaultFields \cup {"SecretAccessKey", "RoleName", "PolicyARNs"}

\* The rows, read back; and GetAWSSecretsEngine, which cannot read the secret.
FromTables == [f \in DOMAIN stored |-> IF f \in EngineFields THEN Empty ELSE stored[f]]

FromVault(c) ==
    [f \in DOMAIN c |-> IF f \in EngineFields \ {"SecretAccessKey"} THEN stored[f] ELSE c[f]]

\* NewAWSConnection.
NewAWSConnection ==
    Extended(ZeroOf(AWSConnection),
             [ID |-> "new", ConnectionID |-> "new", VaultPath |-> "aws_new",
              Connection |-> Extended(ZeroOf(Connection),
                                      [ID |-> "new", ConnectionType |-> "AWSConnectionType"])])

AddAWSConnection ==
    /\ stage = "handler" /\ req.kind = "post"
    /\ SetupTraceAndLogger
    /\ LET b == req.body
           c == CopyConnection(ConnectionPostWrapper, b,
                    CopyMatchingFields(AWSConnectionPostWrapper, AWSConnection, b,
                                       NewAWSConnection))
       IN IF Invalid(c)
          THEN Finish("400", header', NoConn) /\ UNCHANGED <<stored, given, erased>>
          ELSE Respond(c) /\ Store(c, b, FALSE)
    /\ page' = NoConn
    /\ UNCHANGED req

GetAWSConnection ==
    /\ stage = "handler" /\ req.kind = "get"
    /\ SetupTraceAndLogger
    /\ Respond(FromVault(FromTables))
    /\ page' = NoConn
    /\ UNCHANGED <<req, stored, given, erased>>

MergePatch(p, c) == CopyMatchingFields(AWSConnectionPatchWrapper, AWSConnection, p, c)

\* ResetTestStatus.
Reset(c) == [c EXCEPT !.Connection.TestSuccessful = Empty, !.Connection.TestError = Empty]

\* Mutant of Patched: the second merge, over what Vault had, is missing.
PatchedOnce(p, c) == Reset(FromVault(c))

\* c is what the first merge made of the rows.
Patched(p, c) ==
    Reset(MergePatch(p, CopyConnection(ConnectionPatchWrapper, p, FromVault(c))))

\* What a PATCH without attribute f is decoded into: a nil pointer, or no slice.
Omitted(f) == IF f = "PolicyARNs" THEN Empty ELSE Nil

\* What the client has given after a PATCH: an attribute that it leaves out is what
\* it was; only the test's results are reset.
GivenBy(p) ==
    [f \in DOMAIN given |->
        IF f = "Connection"
        THEN [g \in DOMAIN given.Connection |->
                IF g \in {"TestSuccessful", "TestError"} THEN Empty
                ELSE IF g \in DOMAIN p.Connection /\ p.Connection[g] # Nil
                THEN p.Connection[g] ELSE given.Connection[g]]
        ELSE IF f \in DOMAIN p /\ p[f] # Omitted(f) THEN p[f] ELSE given[f]]

\* A PATCH without a connection object fails on its nil pointer.
UpdateAWSConnection ==
    /\ stage = "handler" /\ req.kind = "patch"
    /\ SetupTraceAndLogger
    /\ LET p == req.body IN
       IF p.Connection = Nil
       THEN Finish("500", header', NoConn) /\ UNCHANGED <<stored, given, erased>>
       ELSE LET c == CopyConnection(ConnectionPatchWrapper, p, MergePatch(p, FromTables))
                d == Patched(p, c)
            IN IF Invalid(c)
               THEN Finish("400", header', NoConn) /\ UNCHANGED <<stored, given, erased>>
               ELSE Respond(d) /\ Store(d, GivenBy(p), p.PolicyARNs = Empty)
    /\ page' = NoConn
    /\ UNCHANGED req
------------------------------------------------------------------------------
\* The client has read the answer, and remembers the page if it is one.
Leave ==
    /\ stage = "done"
    /\ stage' = "idle"
    /\ req' = NoRequest
    /\ header' = NoId
    /\ echoed' = NoId
    /\ ids' = {}
    /\ page' = IF answer.status = "200" THEN page ELSE NoConn
    /\ answer' = NoAnswer
    /\ UNCHANGED <<stored, given, erased>>

PipelineInit ==
    /\ stage = "idle"
    /\ req = NoRequest
    /\ header = NoId
    /\ echoed = NoId
    /\ ids = {}
    /\ page = NoConn
    /\ answer = NoAnswer
    /\ stored = NoConn
    /\ given = NoConn
    /\ erased = FALSE

PipelineNext ==
    \/ Arrive \/ Leave
    \/ ListMiddleware \/ PostMiddleware \/ PatchMiddleware \/ GetMiddleware
    \/ GetConnections \/ AddAWSConnection \/ GetAWSConnection \/ UpdateAWSConnection

PipelineSpec == PipelineInit /\ [][PipelineNext]_pipelineVars
------------------------------------------------------------------------------
\* The middleware and the handler of a request use one id; it is the client's if
\* there is one, else it is fresh and the response's header has it, and an error
\* that names an id names this one.
OneRequestId ==
    stage \in {"handler", "done"} =>
        /\ ids = {header}
        /\ echoed \in {NoId, header}
        /\ header \in ClientIds <=> echoed = NoId
        /\ answer.id \in {NoId, header}

\* A client that asks for what follows a page is not refused and gets further,
\* until skip has reached its bound.
PagesAdvance ==
    stage = "done" /\ req.kind = "list" /\ req.after # NoConn
        => /\ answer.status = "200"
           /\ page.limit > 0
           /\ \/ page.skip = req.after.skip + req.after.limit
              \/ page.skip = MaxSkip

\* No request makes CopyMatchingFields set a field to a value of another type.
NeverPanics == answer.status # "panic"

\* What an answer shows is what the client last gave, an attribute that a PATCH
\* leaves out included, and the connection's type reads back.  A lease may be shown
\* in another unit; and the policies are gone, if the last PATCH had none.
ShownIsGiven ==
    LET b == answer.body
        Same(f, x, y) == \/ x = y
                         \/ f \in Leases /\ Seconds[x] = Seconds[y]
                         \/ f = "PolicyARNs" /\ erased /\ x = Empty
    IN stage = "done" /\ b # NoConn =>
        /\ \A f \in (DOMAIN b \cap DOMAIN given) \ {"Connection"} : Same(f, b[f], given[f])
        /\ \A f \in DOMAIN given.Connection : b.Connection[f] = given.Connection[f]
        /\ TypeOfName[TypeName[b.Connection.ConnectionType]] = "AWSConnectionType"
=============================================================================
