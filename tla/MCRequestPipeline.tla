------------------------- MODULE MCRequestPipeline -------------------------
(***************************************************************************)
(* Parameters on both sides of every bound; bodies that give, leave out or *)
(* invalidate each kind of attribute.                                      *)
(***************************************************************************)
EXTENDS RequestPipeline

MCParams == {Absent, NotANumber} \cup -1 .. MaxSkip + 1

MCValues == {Empty, "1", "new", "aws_new", "AWSConnectionType", "n1", "n2", "k1", "k2", "s1",
             "r1", "role", "a1", "a2", "1h", "3600s", "2764800s", "other"} \cup Types

MCSeconds == [v \in MCValues |-> CASE v = Empty -> "2764800s" [] v = "1h" -> "3600s"
                                   [] OTHER -> v]

Row(name, tested) ==
    Extended(ZeroOf(ConnectionPostWrapper), [Name |-> name, TestSuccessful |-> tested])

\* A lease is given for both bounds, or for none.
MCPosts ==
    { [Connection |-> Row(name, tested), AccessKey |-> "k1", SecretAccessKey |-> secret,
       DefaultRegion |-> "r1", DefaultLeaseTTL |-> ttl, MaxLeaseTTL |-> ttl,
       RoleName |-> "role", CredentialType |-> ctype, PolicyARNs |-> arns]
        : name \in {"n1", Empty}, tested \in {Empty, "1"}, secret \in {"s1", Empty},
          ttl \in {"1h", Empty}, ctype \in Types \cup {"other"}, arns \in {"a1", Empty} }

MCPatches ==
    { [Connection |-> conn, AccessKey |-> key, SecretAccessKey |-> Nil,
       DefaultRegion |-> key, DefaultLeaseTTL |-> ttl, MaxLeaseTTL |-> Nil,
       CredentialType |-> ctype, PolicyARNs |-> arns]
        : conn \in [{"Name", "Description"} -> {Nil, "n2"}] \cup {Nil}, key \in {Nil, "k2"},
          ttl \in {Nil, "1h"}, ctype \in {"session_token", Nil, "other"}, arns \in {"a2", Empty} }
=============================================================================
