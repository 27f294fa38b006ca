-------------------------------- MODULE Vault --------------------------------
(***************************************************************************)
(* The AWS secrets engines mounted in Vault, one per AWS connection, as    *)
(* vaulthandler.go drives them: an engine is mounted, tuned, given root    *)
(* credentials and given one role, by four separate HTTP calls, and        *)
(* removed by a fifth.  Vault itself is outside the repository; what it    *)
(* answers is taken from what the code sends and which status it expects.  *)
(* A call that Vault accepts may still be reported as failed (Flaky): the  *)
(* login before it failed, or the connection broke after it took effect.   *)
(***************************************************************************)
EXTENDS Domain

VARIABLE engine   \* [Ids -> Engine]

Root == [access : Keys \cup {Blank}, secret : Keys \cup {Blank}]
Role == [ctype : CredentialTypes, arns : Policies \cup {Blank}]

Engine == [mounted : BOOLEAN, tuned : BOOLEAN,
           root : Root \cup {None}, role : Role \cup {None}]

Unmounted  == [mounted |-> FALSE, tuned |-> FALSE, root |-> None, role |-> None]
FreshMount == [Unmounted EXCEPT !.mounted = TRUE]

Complete(e) == e.mounted /\ e.tuned /\ e.root # None /\ e.role # None

\* Vault can ask AWS for credentials: every secret it was given is there.
Usable(e) == /\ Complete(e)
             /\ e.root.access # Blank
             /\ e.root.secret # Blank
             /\ e.role.ctype = "iam_user" => e.role.arns # Blank

Flaky == "vault" \in Faults

\* A writing call on engine i.  Vault applies it when it is acceptable, and
\* the handler sees ok; a failed call was refused, or its answer was lost.
Call(i, acceptable, e, ok) ==
    \/ ok /\ acceptable /\ engine' = [engine EXCEPT ![i] = e]
    \/ ~ok /\ (acceptable => Flaky) /\ UNCHANGED engine
    \/ ~ok /\ acceptable /\ Flaky /\ engine' = [engine EXCEPT ![i] = e]

\* POST sys/mounts/<path>: a path that is in use is refused.
Enable(i, ok) == Call(i, ~engine[i].mounted, FreshMount, ok)

\* DELETE sys/mounts/<path>: answers 204 for a path that is not mounted too.
Disable(i, ok) == Call(i, TRUE, Unmounted, ok)

\* POST sys/mounts/<path>/tune, <path>/config/root and <path>/roles/<role>
\* need the mount; a role needs a credential type.
Tune(i, ok) ==
    Call(i, engine[i].mounted, [engine[i] EXCEPT !.tuned = TRUE], ok)

WriteRoot(i, access, secret, ok) ==
    Call(i, engine[i].mounted,
         [engine[i] EXCEPT !.root = [access |-> access, secret |-> secret]], ok)

WriteRole(i, ctype, arns, ok) ==
    Call(i, engine[i].mounted /\ ctype # Blank,
         [engine[i] EXCEPT !.role = [ctype |-> ctype, arns |-> arns]], ok)

\* What the reading calls find in the engine when they are answered.
HasRoot(i) == engine[i].root # None
HasRole(i) == engine[i].role # None

VaultTypeOK == engine \in [Ids -> Engine]

VaultInit ==
    engine = [i \in Ids |->
        IF i \in Preloaded
        THEN [mounted |-> TRUE, tuned |-> TRUE,
              root |-> [access |-> Seed[i].access, secret |-> Seed[i].secret],
              role |-> [ctype |-> Seed[i].ctype, arns |-> Seed[i].arns]]
        ELSE Unmounted]
=============================================================================
