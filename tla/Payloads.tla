------------------------------ MODULE Payloads ------------------------------
(***************************************************************************)
(* The Go structs that requests and responses are made of, and the copying *)
(* between them: CopyMatchingFields looks a field up by its name and       *)
(* decides by reflection, from the types of both sides, what to do with    *)
(* it.  A type is the type a value has or, with ptr, that it points to.    *)
(***************************************************************************)
CONSTANTS
    Empty,  \* the zero value of a string, a slice or a number
    Nil,    \* a nil pointer: a field the client left out
    Panic   \* reflect's Set panics: the types do not agree

ASSUME PayloadAssumption == Empty # Nil /\ Nil # Panic /\ Empty # Panic

Plain(type) == [base |-> type, ptr |-> FALSE]
Ptr(type)   == [base |-> type, ptr |-> TRUE]

\* reflect.Kind.
KindOf(type) ==
    CASE type = "uuid.UUID" -> "array"
      [] type \in {"[]string", "JSONStringArray"} -> "slice"
      [] type = "ConnectionTypeEnum" -> "int"
      [] type \in {"string", "int"} -> type
      [] OTHER -> "struct"

IsStruct(t) == KindOf(t.base) = "struct"

All(names, type) == [f \in names |-> type]

Extended(fields, more) ==
    [f \in DOMAIN fields \cup DOMAIN more |->
        IF f \in DOMAIN more THEN more[f] ELSE fields[f]]

TestFields  == {"TestError", "TestedOn", "LastSuccessfulTest"}
Leases      == {"DefaultLeaseTTL", "MaxLeaseTTL"}
VaultFields == Leases \cup {"AccessKey", "DefaultRegion", "CredentialType"}

ConnectionPostWrapper ==
    Extended(All({"Name", "Description"} \cup TestFields, Plain("string")),
             [TestSuccessful |-> Plain("int")])

ConnectionPatchWrapper == All({"Name", "Description"}, Ptr("string"))

Connection ==
    Extended(ConnectionPostWrapper,
             [ID |-> Plain("uuid.UUID"), CreatedAt |-> Plain("time.Time"),
              UpdatedAt |-> Plain("time.Time"),
              ConnectionType |-> Plain("ConnectionTypeEnum"),
              Applications |-> Plain("JSONStringArray")])

AWSConnectionPostWrapper ==
    Extended(All(VaultFields \cup {"SecretAccessKey", "RoleName"}, Plain("string")),
             [Connection |-> Plain("ConnectionPostWrapper"),
              PolicyARNs |-> Plain("[]string")])

AWSConnectionPatchWrapper ==
    Extended(All(VaultFields \cup {"SecretAccessKey"}, Ptr("string")),
             [Connection |-> Ptr("ConnectionPatchWrapper"),
              PolicyARNs |-> Plain("[]string")])

AWSConnectionResponseWrapper ==
    Extended(All(VaultFields \cup {"RoleName"}, Plain("string")),
             [ID |-> Plain("uuid.UUID"), ConnectionID |-> Plain("uuid.UUID"),
              CreatedAt |-> Plain("time.Time"), UpdatedAt |-> Plain("time.Time"),
              Connection |-> Plain("Connection"), PolicyARNs |-> Plain("[]string")])

AWSConnection ==
    Extended(AWSConnectionResponseWrapper,
             All({"VaultPath", "SecretAccessKey"}, Plain("string")))
------------------------------------------------------------------------------
\* The branch for structs ends the field, with a message on standard output, when
\* it is not the struct that the target has; a nil pointer ends it as well.
Skipped(s, t, new) ==
    /\ IsStruct(s)
    /\ \/ new = Nil
       \/ s.base # t.base /\ ~(s.ptr /\ t.ptr)

\* Mutant of CopyField: the branch for structs, without its "continue".
CopyFieldOn(s, t, new, old) ==
    IF new = Nil THEN old
    ELSE IF s.base = t.base /\ (s.ptr \/ ~t.ptr \/ IsStruct(s)) THEN new
    ELSE IF ~s.ptr /\ (t.ptr \/ KindOf(s.base) # KindOf(t.base)) THEN old
    ELSE Panic

\* One field of CopyMatchingFields: new is the source's value, old the target's.
\* A plain value is set when the kinds agree, which is not enough for Set, and a
\* pointer's whatever the target is.
CopyField(s, t, new, old) ==
    IF new = Nil \/ Skipped(s, t, new) THEN old
    ELSE IF s.base = t.base /\ (s.ptr \/ ~t.ptr \/ IsStruct(s)) THEN new
    ELSE IF ~s.ptr /\ (t.ptr \/ KindOf(s.base) # KindOf(t.base)) THEN old
    ELSE Panic

\* From a source of type S into a target of type T, unless it was lost to a panic.
CopyMatchingFields(S, T, src, tgt) ==
    IF tgt = Panic THEN Panic ELSE
    [f \in DOMAIN T |-> IF f \in DOMAIN S THEN CopyField(S[f], T[f], src[f], tgt[f])
                                          ELSE tgt[f]]

ZeroOf(T) == [f \in DOMAIN T |-> Empty]
------------------------------------------------------------------------------
(***************************************************************************)
(* ConnectionTypeEnum in JSON, in both directions.                         *)
(***************************************************************************)
\* operation_toString, in lower case.
TypeName == [NoConnectionType |-> "noconnectiontype", AWSConnectionType |-> "awsconnectiontype"]

\* operation_toID knows one name more, the empty one; MarshalJSON never writes it.
TypeOfName ==
    [name \in {"", "noconnectiontype", "awsconnectiontype"} |->
        IF name = "awsconnectiontype" THEN "AWSConnectionType" ELSE "NoConnectionType"]
=============================================================================
