-------------------------- MODULE MultiThreadedFunc --------------------------
(***************************************************************************)
(* utilities.CallMultiThreadedFunc: count operations shared out among      *)
(* threads goroutines, a wait group, one more goroutine that closes the    *)
(* channel done, and the caller, which receives from done once.  done is   *)
(* unbuffered: a goroutine that sends on it stays until it is received     *)
(* from.  f is the end-to-end tests' load function, one step an operation. *)
(***************************************************************************)
EXTENDS Integers

CONSTANTS MaxThreads, MaxCount

\* With threads = 0 the division below panics; no caller passes it.
ASSUME SizeAssumption == MaxThreads \in Nat \ {0} /\ MaxCount \in Nat

VARIABLES
    threads, count,  \* the arguments
    left,            \* [1..threads -> Nat] operations each goroutine has still to do
    worker,          \* [1..threads -> {"running", "sent", "exited"}]
    wg,              \* the counter of the wait group
    closed,          \* channel done is closed
    returned         \* CallMultiThreadedFunc has returned to its caller

vars == <<threads, count, left, worker, wg, closed, returned>>

Workers == 1..threads

Init ==
    /\ threads \in 1..MaxThreads
    /\ count \in 0..MaxCount
    /\ left = [i \in 1..threads |-> count \div threads]
    /\ worker = [i \in 1..threads |-> "running"]
    /\ wg = threads
    /\ closed = FALSE
    /\ returned = FALSE

Operation(i) ==
    /\ left[i] > 0
    /\ left' = [left EXCEPT ![i] = @ - 1]
    /\ UNCHANGED <<threads, count, worker, wg, closed, returned>>

\* Mutant of Signal: the caller itself waits for the group before it receives.
SignalAfterWait(i) ==
    /\ worker[i] = "running" /\ left[i] = 0
    /\ ~returned
    /\ wg = 0
    /\ worker' = [worker EXCEPT ![i] = "sent"]
    /\ returned' = TRUE
    /\ UNCHANGED <<threads, count, left, wg, closed>>

\* done <- struct{}{} meets the caller's <-done, and the caller returns.
Signal(i) ==
    /\ worker[i] = "running" /\ left[i] = 0
    /\ ~returned
    /\ worker' = [worker EXCEPT ![i] = "sent"]
    /\ returned' = TRUE
    /\ UNCHANGED <<threads, count, left, wg, closed>>

\* Mutant of Exit: wg.Done comes before the send.
EarlyExit(i) ==
    /\ worker[i] = "running" /\ left[i] = 0
    /\ wg > 0
    /\ wg' = wg - 1
    /\ UNCHANGED <<threads, count, left, worker, closed, returned>>

\* The deferred wg.Done.
Exit(i) ==
    /\ worker[i] = "sent"
    /\ worker' = [worker EXCEPT ![i] = "exited"]
    /\ wg' = wg - 1
    /\ UNCHANGED <<threads, count, left, closed, returned>>

\* The goroutine that waits for the group and closes done: too late for the
\* caller to receive from the closed channel, as a first send lets it return.
Close ==
    /\ wg = 0
    /\ ~closed
    /\ closed' = TRUE
    /\ UNCHANGED <<threads, count, left, worker, wg, returned>>

Next == \/ \E i \in Workers : Operation(i) \/ Signal(i) \/ Exit(i)
        \/ Close

\* The Go scheduler runs every goroutine that is not blocked.
Spec == Init /\ [][Next]_vars /\ WF_vars(Next)
------------------------------------------------------------------------------
\* Sending on a closed channel panics: done is closed only when every
\* goroutine has sent, whatever the order of sends and wg.Done calls.
NoSendOnClosed == closed => \A i \in Workers : worker[i] # "running"

\* The caller gets on, for every count, even one smaller than threads.
CallerReturns == <>returned
==============================================================================
