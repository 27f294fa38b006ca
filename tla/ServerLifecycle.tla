--------------------------- MODULE ServerLifecycle ---------------------------
(***************************************************************************)
(* The life of one process of the connection manager, as main.go lays it   *)
(* out: set-up, serving, the signals that end it, the drain with its time  *)
(* limit, and the deferred shutdown of the trace provider.  Signals arrive *)
(* at any time; what one does depends on who has registered for it.        *)
(***************************************************************************)
EXTENDS Naturals, Sequences, FiniteSets

CONSTANTS
    Requests,   \* what clients send to this process
    MaxSignals, \* bound on the signals sent to it
    QueueSize   \* of the trace batcher

ASSUME LifecycleAssumption == MaxSignals \in Nat /\ QueueSize \in Nat \ {0}

VARIABLES
    main,      \* where main is: a member of Order, or how it ended
    ctxDone,   \* the context of NotifyContext is cancelled
    sigChan,   \* the signals in the channel sigChan
    listener,  \* the goroutine that runs ListenAndServe
    req,       \* [Requests -> {"none", "active", "ended"}]
    timedOut,  \* Shutdown has given up waiting
    stopped,   \* the batcher takes no more spans
    span,      \* [Requests -> Fate] what became of a request's span
    sent,      \* the number of signals so far
    told       \* history: a signal came that sigChan was registered for

process == <<main, ctxDone, sigChan, timedOut>>
serving == <<listener, req>>
traces  == <<stopped, span>>
history == <<sent, told>>
vars == <<process, serving, traces, history>>

\* The steps of main.  One that is in Fallible may end it with os.Exit(2).
Order == <<"config", "notify_context", "otlp", "datasource", "migrate", "handlers",
           "listen", "notify_int", "notify_term", "receive", "shutdown", "drain",
           "stop_batcher", "export_rest">>

Fallible == {"config", "otlp", "datasource", "migrate", "handlers"}

Ended == {"returned", "exit2", "killed"}

Over == main \in Ended

\* A span is queued when its request ends.  Then it is exported, or refused by
\* the collector; one that finds the queue full or the batcher stopped is dropped.
Fate == {"none", "queued", "exported", "refused", "overflow", "late"}

Index(step) == CHOOSE n \in DOMAIN Order : Order[n] = step

Past(step) == ~Over /\ Index(main) > Index(step)

Follow == Order[Index(main) + 1]

\* Set-up: one that is handed the cancelled context fails, in the exporter.
SetUp ==
    /\ main \in {"config", "notify_context", "otlp", "datasource", "migrate", "handlers",
                 "notify_int", "notify_term"}
    /\ main = "otlp" => ~ctxDone
    /\ main' = Follow
    /\ UNCHANGED <<ctxDone, sigChan, timedOut, serving, traces, history>>

SetUpFails ==
    /\ main \in Fallible
    /\ main' = "exit2"
    /\ UNCHANGED <<ctxDone, sigChan, timedOut, serving, traces, history>>

Listen ==
    /\ main = "listen"
    /\ main' = Follow
    /\ listener' = "starting"
    /\ UNCHANGED <<ctxDone, sigChan, timedOut, req, traces, history>>

\* ListenAndServe; its error is only logged, and main does not hear of it.
ListenAndServe ==
    /\ ~Over
    /\ listener = "starting"
    /\ listener' \in {"listening", "failed"}
    /\ UNCHANGED <<process, req, traces, history>>

\* Mutant of Capacity: an unbuffered sigChan.
Unbuffered == 0
Capacity == 1

Registered(sig) == IF sig = "INT" THEN Past("notify_int") ELSE Past("notify_term")

Caught(sig) == Registered(sig) \/ (sig = "INT" /\ Past("notify_context"))

\* A receiver that already waits takes a signal from an unbuffered channel too.
Room == Len(sigChan) < Capacity \/ main = "receive"

\* Delivery: Notify drops a signal when its channel is full.  One that nobody
\* has registered for kills the process.
Signal(sig) ==
    /\ ~Over
    /\ sent < MaxSignals
    /\ sent' = sent + 1
    /\ main' = IF Caught(sig) THEN main ELSE "killed"
    /\ ctxDone' = (ctxDone \/ (sig = "INT" /\ Past("notify_context")))
    /\ sigChan' = IF Registered(sig) /\ Room THEN Append(sigChan, sig) ELSE sigChan
    /\ told' = (told \/ Registered(sig))
    /\ UNCHANGED <<timedOut, serving, traces>>

Receive ==
    /\ main = "receive"
    /\ sigChan # << >>
    /\ sigChan' = Tail(sigChan)
    /\ main' = Follow
    /\ UNCHANGED <<ctxDone, timedOut, serving, traces, history>>

\* Shutdown closes the listener, also one that has not started yet,
Shutdown ==
    /\ main = "shutdown"
    /\ main' = Follow
    /\ listener' = "closed"
    /\ UNCHANGED <<ctxDone, sigChan, timedOut, req, traces, history>>

\* Mutant of Drained: Close in the place of Shutdown.
NotDrained == TRUE
Drained == \A r \in Requests : req[r] # "active"

\* and waits for the requests under way, or for its context to expire.
Drain ==
    /\ main = "drain"
    /\ main' = Follow
    /\ \/ Drained /\ UNCHANGED timedOut
       \/ ~Drained /\ timedOut' = TRUE
    /\ UNCHANGED <<ctxDone, sigChan, serving, traces, history>>

Queued == {r \in Requests : span[r] = "queued"}

\* The batcher sends what it has to the collector.  A failed export is reported
\* to the error handler and not repeated.
Export ==
    \E outcome \in {"exported", "refused"} :
        span' = [r \in Requests |-> IF r \in Queued THEN outcome ELSE span[r]]

\* Mutant of StopBatcher: main ends with os.Exit, which runs nothing deferred.
ExitOnly ==
    /\ main = "stop_batcher"
    /\ main' = "returned"
    /\ UNCHANGED <<ctxDone, sigChan, timedOut, serving, traces, history>>

\* The deferred otelShutdown, run when main returns, stops the batcher,
StopBatcher ==
    /\ main = "stop_batcher"
    /\ main' = Follow
    /\ stopped' = TRUE
    /\ UNCHANGED <<ctxDone, sigChan, timedOut, serving, span, history>>

\* and waits until it has sent its queue; main drops the error.
ExportRest ==
    /\ main = "export_rest"
    /\ main' = "returned"
    /\ Export
    /\ UNCHANGED <<ctxDone, sigChan, timedOut, serving, stopped, history>>

Accept(r) ==
    /\ ~Over
    /\ listener = "listening"
    /\ req[r] = "none"
    /\ req' = [req EXCEPT ![r] = "active"]
    /\ UNCHANGED <<process, listener, traces, history>>

\* What the batcher does with a span that ends.
Enqueued == IF stopped THEN "late"
            ELSE IF Cardinality(Queued) < QueueSize THEN "queued"
            ELSE "overflow"

\* A handler returns and otelhttp ends its span.
Respond(r) ==
    /\ ~Over
    /\ req[r] = "active"
    /\ req' = [req EXCEPT ![r] = "ended"]
    /\ span' = [span EXCEPT ![r] = Enqueued]
    /\ UNCHANGED <<process, listener, stopped, history>>

\* The batch timer, or a full batch.
ExportBatch ==
    /\ ~Over
    /\ ~stopped
    /\ Queued # {}
    /\ Export
    /\ UNCHANGED <<process, serving, stopped, history>>

Init ==
    /\ main = "config"
    /\ ctxDone = FALSE
    /\ sigChan = << >>
    /\ listener = "none"
    /\ req = [r \in Requests |-> "none"]
    /\ timedOut = FALSE
    /\ stopped = FALSE
    /\ span = [r \in Requests |-> "none"]
    /\ sent = 0
    /\ told = FALSE

Main == \/ SetUp \/ SetUpFails \/ Listen \/ Receive
        \/ Shutdown \/ Drain \/ StopBatcher \/ ExportRest

Next == \/ Main
        \/ ListenAndServe
        \/ ExportBatch
        \/ \E sig \in {"INT", "TERM"} : Signal(sig)
        \/ \E r \in Requests : Accept(r) \/ Respond(r)

\* The scheduler runs main, its timer fires, and an export has a time limit.
\* Handlers may take for ever.
Spec == Init /\ [][Next]_vars /\ WF_vars(Main)
------------------------------------------------------------------------------
\* A signal that comes once main has registered its channel ends the process,
\* also between the registration and the receive, when several come, when the
\* listener has failed, and when a handler never returns.
StopsWhenTold == told ~> Over

\* Whoever was being served when the process was told to stop gets an answer, if
\* it takes no longer than the time limit.
NobodyCutOff ==
    main = "returned" /\ ~timedOut => \A r \in Requests : req[r] # "active"

\* The drain comes before the batcher is stopped, and that before main returns:
\* no trace is left behind in the batcher, and none comes too late for it but of a
\* handler that outlived Shutdown's time limit.  What else is lost the collector
\* refused, or the full queue.
TracesHandedOver ==
    main = "returned" =>
        \A r \in Requests : req[r] = "ended" =>
            \/ span[r] \in {"exported", "refused", "overflow"}
            \/ span[r] = "late" /\ timedOut

\* "Handle SIGINT (CTRL+C) gracefully." (main.go:87): a process that has caught
\* an interrupt ends.
InterruptStops == ctxDone ~> Over
=============================================================================
