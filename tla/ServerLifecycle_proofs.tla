----------------------- MODULE ServerLifecycle_proofs -----------------------
(***************************************************************************)
(* The order of main's last steps: Shutdown closes the listener before it  *)
(* waits for the handlers, the batcher stops after that, and is emptied    *)
(* before main returns.                                                    *)
(***************************************************************************)
EXTENDS ServerLifecycle, TLAPS

Steps == {Order[n] : n \in 1..14}

\* The listener is closed before the drain, and nobody is served after it, but
\* for those that the time limit gave up.
DrainInv ==
    /\ main \in Steps \cup Ended
    /\ req \in [Requests -> {"none", "active", "ended"}]
    /\ main \in {"drain", "stop_batcher", "export_rest", "returned"} => listener = "closed"
    /\ main \in {"stop_batcher", "export_rest", "returned"} /\ ~timedOut => Drained

\* The span of a request that ended is with the batcher until it is exported or
\* lost.  The batcher stops after the drain, and is empty when main returns.
TraceInv ==
    /\ span \in [Requests -> Fate]
    /\ \A r \in Requests : req[r] = "ended" => span[r] # "none"
    /\ stopped => main \in {"export_rest"} \cup Ended
    /\ main = "returned" => Queued = {}
    /\ \A r \in Requests : span[r] = "late" => timedOut

LifecycleInv == DrainInv /\ TraceInv

\* What follows a step of main.
LEMMA Follows ==
    /\ main \in Steps \ {"shutdown", "drain", "stop_batcher", "export_rest"}
         => Follow \in Steps \ {"drain", "stop_batcher", "export_rest"}
    /\ main = "shutdown" => Follow = "drain"
    /\ main = "drain" => Follow = "stop_batcher"
    /\ main = "stop_batcher" => Follow = "export_rest"
<1>1. ASSUME NEW n \in 1..14 PROVE Index(Order[n]) = n
  BY DEF Index, Order
<1>2. \A n \in 1..13 : main = Order[n] => Follow = Order[n + 1]
  BY <1>1 DEF Follow
<1>3. /\ Order[11] = "shutdown" /\ Order[12] = "drain"
      /\ Order[13] = "stop_batcher" /\ Order[14] = "export_rest"
      /\ \A n \in 1..11 : Order[n] \notin {"drain", "stop_batcher", "export_rest"}
  BY DEF Order
<1> QED
  BY <1>2, <1>3 DEF Steps

\* The invariant of the end of the process.
LEMMA LifecycleInvHolds == Spec => []LifecycleInv
<1>1. Init => LifecycleInv
  <2>1. "config" \in Steps
    BY DEF Steps, Order
  <2> QED
    BY <2>1 DEF Init, LifecycleInv, DrainInv, TraceInv, Fate
<1>2. LifecycleInv /\ [Next]_vars => LifecycleInv'
  <2> SUFFICES ASSUME LifecycleInv, [Next]_vars PROVE LifecycleInv'
    OBVIOUS
  <2> USE DEF LifecycleInv, DrainInv, TraceInv, process, serving, traces, history
  <2>1. {"config", "notify_context", "otlp", "datasource", "migrate", "handlers", "listen",
         "notify_int", "notify_term", "receive", "shutdown", "drain", "stop_batcher",
         "export_rest"} \subseteq Steps
    BY DEF Steps, Order
  <2>2. CASE UNCHANGED vars
    BY <2>2 DEF vars, traces, Drained, Queued
  <2>3. Steps \cap Ended = {}
    BY DEF Steps, Order, Ended
  <2>4. CASE SetUp \/ Listen \/ Receive
    <3>1. /\ main' \in Steps \ {"drain", "stop_batcher", "export_rest"}
          /\ main \in Steps \ {"export_rest"}
          /\ UNCHANGED <<req, stopped, span, timedOut>>
      BY <2>1, <2>4, Follows DEF SetUp, Listen, Receive
    <3> QED
      BY <2>3, <3>1 DEF Drained, Queued, Ended
  <2>5. CASE SetUpFails
    BY <2>5 DEF SetUpFails, Fallible, Ended, Queued
  <2>6. CASE Shutdown
    BY <2>1, <2>6, Follows DEF Shutdown, Ended
  <2>7. CASE Drain
    <3>1. main' = "stop_batcher" /\ ~stopped
      BY <2>7, Follows DEF Drain, Ended
    <3> QED
      BY <2>1, <2>7, <3>1 DEF Drain, Drained
  <2>8. CASE StopBatcher
    <3>1. main' = "export_rest"
      BY <2>8, Follows DEF StopBatcher
    <3> QED
      BY <2>1, <2>8, <3>1 DEF StopBatcher, Drained
  <2>9. ASSUME Export
        PROVE  /\ span' \in [Requests -> Fate]
               /\ Queued' = {}
               /\ \A r \in Requests : /\ span'[r] = "none" => span[r] = "none"
                                      /\ span'[r] = "late" => span[r] = "late"
    BY <2>9 DEF Export, Queued, Fate
  <2>10. CASE ExportRest
    <3>1. /\ Export /\ main = "export_rest" /\ main' = "returned"
          /\ UNCHANGED <<req, listener, timedOut, stopped>>
      BY <2>10 DEF ExportRest
    <3>2. DrainInv'
      BY <3>1 DEF Ended, Drained
    <3>3. TraceInv'
      BY <2>9, <3>1 DEF Ended
    <3> QED
      BY <3>2, <3>3
  <2>11. CASE ListenAndServe
    BY <2>11 DEF ListenAndServe, Drained, Queued
  <2>12. CASE ExportBatch
    <3>1. Export /\ UNCHANGED <<main, req, listener, timedOut, stopped>>
      BY <2>12 DEF ExportBatch
    <3>2. DrainInv'
      BY <3>1 DEF Drained
    <3>3. TraceInv'
      BY <2>9, <3>1
    <3> QED
      BY <3>2, <3>3
  <2>13. ASSUME NEW sig \in {"INT", "TERM"}, Signal(sig) PROVE LifecycleInv'
    BY <2>13 DEF Signal, Ended, Drained, Queued
  <2>14. ASSUME NEW r \in Requests, Accept(r) PROVE LifecycleInv'
    BY <2>14 DEF Accept, Over, Ended, Queued
  <2>15. ASSUME NEW r \in Requests, Respond(r) PROVE LifecycleInv'
    <3>1. Enqueued \in {"queued", "overflow", "late"} /\ (Enqueued = "late" => stopped)
      BY DEF Enqueued
    <3>2. /\ ~Over /\ req[r] = "active"
          /\ req' = [req EXCEPT ![r] = "ended"]
          /\ span' = [span EXCEPT ![r] = Enqueued]
          /\ UNCHANGED <<main, listener, stopped, timedOut>>
      BY <2>15 DEF Respond
    <3>3. stopped => timedOut
      BY <3>2 DEF Over, Ended, Drained
    <3>4. DrainInv'
      BY <3>2 DEF Over, Ended, Drained
    <3> QED
      BY <3>1, <3>2, <3>3, <3>4 DEF Over, Ended, Fate
  <2> QED
    BY <2>2, <2>4, <2>5, <2>6, <2>7, <2>8, <2>10, <2>11, <2>12, <2>13, <2>14, <2>15
       DEF Next, Main
<1> QED
  BY <1>1, <1>2, PTL DEF Spec

\* When main returns and Shutdown's time limit has not passed, every request that
\* was accepted has got its answer, for any number of requests and signals.
THEOREM ServedAreAnswered == Spec => []NobodyCutOff
<1>1. LifecycleInv => NobodyCutOff
  BY DEF LifecycleInv, DrainInv, NobodyCutOff, Drained
<1> QED
  BY <1>1, LifecycleInvHolds, PTL

\* When main returns, the batcher holds no trace, and one that came too late for it is
\* of a handler that Shutdown's time limit gave up: the deferred shutdown of the
\* provider runs after the drain, and waits for the export.
THEOREM TracesHandedOverHolds == Spec => []TracesHandedOver
<1>1. LifecycleInv => TracesHandedOver
  BY DEF LifecycleInv, DrainInv, TraceInv, TracesHandedOver, Queued, Fate
<1> QED
  BY <1>1, LifecycleInvHolds, PTL
=============================================================================
