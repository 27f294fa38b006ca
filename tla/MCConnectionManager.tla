------------------------- MODULE MCConnectionManager -------------------------
(***************************************************************************)
(* Small instances of the connection manager for TLC: one connection "a"   *)
(* is there at the start, with one name, key and policy list; clients may  *)
(* bring another of each.                                                  *)
(***************************************************************************)
EXTENDS ConnectionManager, TLC

CONSTANTS p1, p2, p3, a

MCNames    == {"n0", "n1"}
MCKeys     == {"k0", "k1"}
MCPolicies == {"arn"}

Seeded(name, tested) ==
    [row |-> [name |-> name, tested |-> tested, apps |-> {}],
     access |-> "k0", secret |-> "k0", ctype |-> "iam_user", arns |-> "arn"]

SeedOne == (a :> Seeded("n0", 0))

Post(name) ==
    [part |-> TRUE, name |-> name, tested |-> 0, ttl |-> FALSE,
     access |-> "k1", secret |-> "k1", ctype |-> "iam_user", arns |-> "arn"]

\* A good POST, one whose name is the existing connection's, one without the
\* policies that iam_user needs, and one with the lease that session_token bars.
PostGood    == {Post("n1")}
PostTaken   == {Post("n1"), Post("n0")}
PostInvalid == {[Post("n1") EXCEPT !.arns = Blank],
                [Post("n1") EXCEPT !.ctype = "session_token", !.ttl = TRUE]}
PostAll     == PostTaken \cup PostInvalid

NoPatches == {}
NoPosts   == {}

\* All fields; name and key only, as testdata/patch_awsconnection.json has it;
\* all fields but the connection.
PatchFull    == [Post("n1") EXCEPT !.access = "k1"]
PatchPartial == [NoBody EXCEPT !.part = TRUE, !.name = "n1", !.access = "k1"]
PatchNoPart  == [PatchFull EXCEPT !.part = FALSE, !.name = Blank]

PatchesFull    == {PatchFull, [PatchFull EXCEPT !.name = Blank, !.access = "k0", !.secret = "k0"]}
PatchesPartial == {PatchPartial}
PatchesAll     == {PatchPartial, PatchNoPart, [PatchFull EXCEPT !.arns = Blank]}

Symmetry == Permutations(Req)
==============================================================================
