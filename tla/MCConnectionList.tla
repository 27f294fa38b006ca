--------------------------- MODULE MCConnectionList ---------------------------
(***************************************************************************)
(* Three connections on pages of two; new names sort between and after     *)
(* those that are there.                                                   *)
(***************************************************************************)
EXTENDS ConnectionList, MCConnectionManager

CONSTANTS a2, a3

SeedThree == a :> Seeded("n0", 0) @@ a2 :> Seeded("n2", 0) @@ a3 :> Seeded("n3", 0)

ListNames == {"n0", "n1", "n2", "n3", "n0_Patched"}
ListRank  == [n \in ListNames |-> CASE n = "n0" -> 0 [] n = "n1" -> 1 [] n = "n2" -> 2
                                    [] n = "n3" -> 3 [] n = "n0_Patched" -> 4]

PatchesList == {[PatchFull EXCEPT !.name = "n1"]}

\* The load test appends to the name of what it was shown.  Its names end in a
\* number, and ..._1_Patched sorts after ..._10 to ..._19.
PatchesSuffix == {[PatchFull EXCEPT !.name = "n0_Patched"]}
===============================================================================
