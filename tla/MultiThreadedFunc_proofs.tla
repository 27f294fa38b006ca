---------------------- MODULE MultiThreadedFunc_proofs ----------------------
(***************************************************************************)
(* The channel is closed once, after every send, for any number of         *)
(* goroutines: the wait group counts those that have not run wg.Done.      *)
(***************************************************************************)
EXTENDS MultiThreadedFunc, FiniteSetTheorems, TLAPS

Unfinished == {i \in Workers : worker[i] # "exited"}

GroupInv ==
    /\ threads \in Nat
    /\ worker \in [Workers -> {"running", "sent", "exited"}]
    /\ wg = Cardinality(Unfinished)
    /\ closed => Unfinished = {}

\* The goroutines are finitely many.
LEMMA FiniteWorkers == ASSUME threads \in Nat PROVE IsFiniteSet(Unfinished)
<1>1. IsFiniteSet(1..threads)
  BY FS_Interval
<1> QED
  BY <1>1, FS_Subset DEF Unfinished, Workers

\* The wait group counts the goroutines that are not through.
LEMMA GroupInvHolds == Spec => []GroupInv
<1>1. Init => GroupInv
  <2> SUFFICES ASSUME Init PROVE GroupInv
    OBVIOUS
  <2>1. threads \in Nat \ {0} /\ Unfinished = 1..threads
    BY SizeAssumption DEF Init, Unfinished, Workers
  <2>2. Cardinality(1..threads) = threads
    BY <2>1, FS_Interval
  <2> QED
    BY <2>1, <2>2 DEF Init, GroupInv, Workers
<1>2. GroupInv /\ [Next]_vars => GroupInv'
  <2> SUFFICES ASSUME GroupInv, [Next]_vars PROVE GroupInv'
    OBVIOUS
  <2> USE DEF GroupInv, Workers
  <2>1. CASE UNCHANGED <<threads, worker, wg, closed>>
    BY <2>1 DEF Unfinished
  <2>2. ASSUME NEW i \in Workers, Signal(i) PROVE GroupInv'
    <3>1. Unfinished' = Unfinished
      BY <2>2 DEF Signal, Unfinished
    <3> QED
      BY <2>2, <3>1 DEF Signal
  <2>3. ASSUME NEW i \in Workers, Exit(i) PROVE GroupInv'
    <3>1. i \in Unfinished /\ Unfinished' = Unfinished \ {i}
      BY <2>3 DEF Exit, Unfinished
    <3>2. Cardinality(Unfinished \ {i}) = Cardinality(Unfinished) - 1
      BY <3>1, FiniteWorkers, FS_RemoveElement
    <3> QED
      BY <2>3, <3>1, <3>2 DEF Exit
  <2>4. CASE Close
    <3>1. Unfinished = {}
      BY <2>4, FiniteWorkers, FS_EmptySet DEF Close
    <3>2. Unfinished' = Unfinished
      BY <2>4 DEF Close, Unfinished
    <3> QED
      BY <2>4, <3>1, <3>2 DEF Close
  <2> QED
    BY <2>1, <2>2, <2>3, <2>4 DEF Next, Operation, vars
<1> QED
  BY <1>1, <1>2, PTL DEF Spec

\* done is closed only when every goroutine has sent, however many goroutines
\* and operations there are: a send on a closed channel would panic.
THEOREM ClosedAfterSends == Spec => []NoSendOnClosed
<1>1. GroupInv => NoSendOnClosed
  BY DEF GroupInv, Unfinished, NoSendOnClosed
<1> QED
  BY <1>1, GroupInvHolds, PTL
=============================================================================
