------------------------- MODULE ConnectionRegistry -------------------------
(***************************************************************************)
(* What the connection manager promises to its clients.  There is a set of *)
(* listed connections, each backed by a secrets engine of its own.  A      *)
(* request works on one connection, and may work on its engine as long as  *)
(* it is not answered; it changes the list at most once, at the moment it  *)
(* is answered, and only for its own connection.  What is listed by a POST *)
(* is whole, what a DELETE takes off the list has no engine left.          *)
(***************************************************************************)
CONSTANTS
    Req,       \* requests
    Ids,       \* connections
    Preloaded  \* those listed at the start

VARIABLES
    listed,    \* SUBSET Ids
    stage,     \* [Ids -> {"none", "part", "whole"}] how far its engine is built
    asked,     \* [Req -> {"none"} \cup kinds] the kind of the request, once sent
    subject,   \* [Req -> Ids] the connection it works on, once sent
    answer     \* [Req -> {"none"} \cup codes]

vars == <<listed, stage, asked, subject, answer>>

InFlight(p) == asked[p] # "none" /\ answer[p] = "none"

\* Nobody was asked to patch connection i.
Unpatched(i) == \A p \in Req : asked[p] = "update" => subject[p] # i

Init ==
    /\ listed = Preloaded
    /\ stage = [i \in Ids |-> IF i \in Preloaded THEN "whole" ELSE "none"]
    /\ asked = [p \in Req |-> "none"]
    /\ answer = [p \in Req |-> "none"]

\* A POST works on a connection nobody has heard of, nor will as long as it
\* is not answered.
Ask(p) ==
    /\ asked[p] = "none"
    /\ asked'[p] # "none"
    /\ subject'[p] \in Ids
    /\ asked'[p] = "add" => subject'[p] \notin listed
    /\ \A q \in Req \ {p} :
          asked[q] # "none" /\ subject[q] = subject'[p]
              => ~InFlight(q) \/ "add" \notin {asked[q], asked'[p]}
    /\ \A q \in Req \ {p} : asked'[q] = asked[q] /\ subject'[q] = subject[q]
    /\ UNCHANGED <<listed, stage, answer>>

\* A POST and a PATCH build the engine up, a PATCH and a DELETE pull it down.
Work(p) ==
    /\ InFlight(p)
    /\ \A i \in Ids : stage'[i] # stage[i] =>
          /\ i = subject[p]
          /\ asked[p] \in {"add", "update", "delete"}
          /\ asked[p] = "add" => stage'[i] # "none"
          /\ asked[p] = "delete" => stage'[i] = "none"
    /\ UNCHANGED <<listed, asked, subject>>

\* No other request was asked to change the engine of connection i.
Alone(p, i) ==
    \A q \in Req \ {p} : asked[q] \in {"update", "delete"} => subject[q] # i

List(p, i) ==
    /\ listed' = listed \cup {i}
    /\ \/ asked[p] = "add" /\ i \notin listed /\ stage[i] = "whole"
       \/ asked[p] = "update" /\ (Alone(p, i) => stage[i] = "whole")

Withdraw(p, i) ==
    /\ i \in listed
    /\ listed' = listed \ {i}
    /\ asked[p] = "delete"
    /\ Unpatched(i) => stage[i] = "none"

\* An answer of 200 to a POST, PATCH or DELETE says that it took effect; any other
\* says nothing.
Answer(p) ==
    /\ InFlight(p)
    /\ answer'[p] # "none"
    /\ \A q \in Req \ {p} : answer'[q] = answer[q]
    /\ \/ List(p, subject[p])
       \/ Withdraw(p, subject[p])
       \/ /\ UNCHANGED listed
          /\ asked[p] \in {"add", "update", "delete"} => answer'[p] # "200"
    /\ UNCHANGED <<asked, subject, stage>>

\* A call to Vault whose failure is reported at once: work and answer in one.
WorkAndFail(p) ==
    /\ Work(p)
    /\ answer'[p] \notin {"none", "200"}
    /\ \A q \in Req \ {p} : answer'[q] = answer[q]

Next == \E p \in Req : \/ Ask(p)
                       \/ Work(p) /\ UNCHANGED answer
                       \/ Answer(p)
                       \/ WorkAndFail(p)

Spec == Init /\ [][Next]_vars
=============================================================================
