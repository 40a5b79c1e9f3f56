--------------------------- MODULE CompilerWorker ---------------------------
(***************************************************************************)
(* The compiler plugin of the Node bridge: compiler.dev, compiler.build    *)
(* and compiler.stop (plugins/compiler.ts), the client that runs each      *)
(* compilation in a process of its own (compiler-worker-client.ts) and     *)
(* that process (workers/compiler-worker.ts).  The bridge handles requests *)
(* concurrently, so they interleave at every await; the two module-level   *)
(* variables of the plugin are shared by all of them.                      *)
(*                                                                         *)
(* The worker of a compilation is named by the request it runs.  The       *)
(* channel between a worker and the bridge is first in, first out, and the *)
(* end of the channel and of the process is seen after what was sent.      *)
(*                                                                         *)
(* Abstracted: what is compiled, the adapters, the captured output, every  *)
(* event but event.shutdown.                                               *)
(***************************************************************************)
EXTENDS FiniteSets, Naturals, Sequences

CONSTANTS
    Dev,   \* requests for compiler.dev
    Build, \* for compiler.build, which may watch
    Stop,  \* for compiler.stop
    None   \* no request

Compile  == Dev \cup Build
Requests == Compile \cup Stop

ASSUME WorkerAssumption ==
    /\ IsFiniteSet(Requests)
    /\ Dev \cap Build = {}
    /\ Stop \cap Compile = {}
    /\ None \notin Requests

VARIABLES
    pc,             \* where the handler of each request is
    answer,         \* what it was answered
    activeCompiler, \* the worker compiler.stop will stop
    activeEmit,     \* the dev request that will be told of it
    taken,          \* the worker each stop took
    takenEmit,      \* and the dev request
    told,           \* event.shutdown sent to each dev request
    worker,         \* each worker process
    compiler,       \* the compiler in it
    tell,           \* stop messages it has not read
    said,           \* messages of it the bridge has not read
    connected,      \* the bridge's end of the channel is open
    resultMessage   \* it has sent a result and will exit

handlers == <<pc, answer, activeCompiler, activeEmit, taken, takenEmit, told>>
workers  == <<worker, compiler, tell>>
channel  == <<said, connected, resultMessage>>
vars     == <<handlers, workers, channel>>

Init ==
    /\ pc = [r \in Requests |-> "idle"]
    /\ answer = [r \in Requests |-> "none"]
    /\ activeCompiler = None
    /\ activeEmit = None
    /\ taken = [s \in Stop |-> None]
    /\ takenEmit = [s \in Stop |-> None]
    /\ told = [d \in Dev |-> 0]
    /\ worker = [w \in Compile |-> "none"]
    /\ compiler = [w \in Compile |-> "none"]
    /\ tell = [w \in Compile |-> 0]
    /\ said = [w \in Compile |-> <<>>]
    /\ connected = [w \in Compile |-> FALSE]
    /\ resultMessage = [w \in Compile |-> FALSE]

-----------------------------------------------------------------------------
(* The plugin: starting a compilation.                                     *)

\* handleDev forgets whom to tell before it awaits anything.
HandleDev(d) ==
    /\ pc[d] = "idle"
    /\ pc' = [pc EXCEPT ![d] = "preparing"]
    /\ activeEmit' = None
    /\ UNCHANGED <<answer, activeCompiler, taken, takenEmit, told, workers,
                   channel>>

HandleBuild(b) ==
    /\ pc[b] = "idle"
    /\ pc' = [pc EXCEPT ![b] = "preparing"]
    /\ UNCHANGED <<answer, activeCompiler, activeEmit, taken, takenEmit, told,
                   workers, channel>>

\* r is answered a; the events of what it answers are left out.
Answer(r, a) ==
    /\ pc' = [pc EXCEPT ![r] = "done"]
    /\ answer' = [answer EXCEPT ![r] = a]

\* No free port, an unreadable configuration, or a worker that cannot be
\* spawned: the handler swallows the error and answers a fallback.
PrepareFails(r) ==
    /\ pc[r] = "preparing"
    /\ Answer(r, "fallback")
    /\ UNCHANGED <<activeCompiler, activeEmit, taken, takenEmit, told, workers,
                   channel>>

\* runCompilerInWorker: a process, the listeners, and `run`.
Spawn(r) ==
    /\ pc[r] = "preparing"
    /\ pc' = [pc EXCEPT ![r] = "working"]
    /\ worker' = [worker EXCEPT ![r] = "running"]
    /\ connected' = [connected EXCEPT ![r] = TRUE]
    /\ UNCHANGED <<answer, activeCompiler, activeEmit, taken, takenEmit, told,
                   compiler, tell, said, resultMessage>>

-----------------------------------------------------------------------------
(* The worker process.                                                     *)

Send(w, messages) == said' = [said EXCEPT ![w] = @ \o messages]

Exits(w, messages) ==
    /\ worker' = [worker EXCEPT ![w] = "gone"]
    /\ tell' = [tell EXCEPT ![w] = 0]
    /\ Send(w, Append(messages, "exit"))

\* handleRun: a dev server, or a build that watches, keeps the worker alive.
RunKeepsAlive(w) ==
    /\ worker[w] = "running"
    /\ worker' = [worker EXCEPT ![w] = "held"]
    /\ compiler' = [compiler EXCEPT ![w] = "open"]
    /\ Send(w, <<"keepAlive">>)
    /\ UNCHANGED <<handlers, tell, connected, resultMessage>>

\* handleRun: a result or an error, after which the worker exits.
RunEnds(w) ==
    /\ worker[w] = "running"
    /\ \E m \in {"result", "error"} : Exits(w, <<m>>)
    /\ UNCHANGED <<handlers, compiler, connected, resultMessage>>

\* handleStop: the compiler is forgotten, then awaited.  Another stop would find
\* none, and the worker exit at once.
HandleStop(w) ==
    /\ tell[w] > 0
    /\ IF worker[w] = "held"
       THEN /\ worker' = [worker EXCEPT ![w] = "closing"]
            /\ tell' = [tell EXCEPT ![w] = @ - 1]
            /\ UNCHANGED <<compiler, said>>
       ELSE /\ compiler' = [compiler EXCEPT ![w] = IF @ = "open" THEN "cut" ELSE @]
            /\ Exits(w, <<"stopped">>)
    /\ UNCHANGED <<handlers, connected, resultMessage>>

\* compiler.stop() of the adapter has returned.
Closed(w) ==
    /\ worker[w] = "closing"
    /\ compiler' = [compiler EXCEPT ![w] = "closed"]
    /\ Exits(w, <<"stopped">>)
    /\ UNCHANGED <<handlers, connected, resultMessage>>

\* The worker is killed, runs out of memory, or throws where nobody catches,
\* compiler.stop() included.
Crash(w) ==
    /\ worker[w] \in {"running", "held", "closing"}
    /\ compiler' = [compiler EXCEPT ![w] = IF @ = "open" THEN "lost" ELSE @]
    /\ Exits(w, <<>>)
    /\ UNCHANGED <<handlers, connected, resultMessage>>

-----------------------------------------------------------------------------
(* The bridge reads what a worker has sent.                                *)

Reads(w, m) ==
    /\ said[w] # <<>>
    /\ Head(said[w]) = m
    /\ said' = [said EXCEPT ![w] = Tail(@)]

\* The stops that wait for w.
Awaiting(w) == {s \in Stop : pc[s] = "stopping" /\ taken[s] = w}

\* stopCompiler after its await: the dev request is told, the stop answered.
FinishStops(S) ==
    /\ pc' = [r \in Requests |-> IF r \in S THEN "done" ELSE pc[r]]
    /\ answer' = [r \in Requests |-> IF r \in S THEN "stopped" ELSE answer[r]]
    /\ told' = [d \in Dev |->
                   told[d] + Cardinality({s \in S : takenEmit[s] = d})]

\* A result with keepAlive settles the promise; the handler goes on in the same
\* turn and makes its compiler the active one, whichever it replaces.
ReadKeepAlive(w) ==
    /\ Reads(w, "keepAlive")
    /\ pc[w] = "working"
    /\ Answer(w, "ok")
    /\ activeCompiler' = w
    /\ activeEmit' = IF w \in Dev THEN w ELSE activeEmit
    /\ UNCHANGED <<taken, takenEmit, told, workers, connected, resultMessage>>

\* Any other result waits for the process to exit.
ReadResult(w) ==
    /\ Reads(w, "result")
    /\ resultMessage' = [resultMessage EXCEPT ![w] = TRUE]
    /\ UNCHANGED <<handlers, workers, connected>>

ReadError(w) ==
    /\ Reads(w, "error")
    /\ pc[w] = "working"
    /\ Answer(w, "fallback")
    /\ UNCHANGED <<activeCompiler, activeEmit, taken, takenEmit, told, workers,
                   connected, resultMessage>>

ReadStopped(w) ==
    /\ Reads(w, "stopped")
    /\ FinishStops(Awaiting(w))
    /\ UNCHANGED <<activeCompiler, activeEmit, taken, takenEmit, workers,
                   connected, resultMessage>>

\* Mutant: the exit matters only to a worker that left no result.
ReadExitUnsettled(w) ==
    /\ Reads(w, "exit")
    /\ connected' = [connected EXCEPT ![w] = FALSE]
    /\ IF pc[w] = "working" /\ ~resultMessage[w]
       THEN /\ Answer(w, "fallback")
            /\ UNCHANGED told
       ELSE FinishStops(Awaiting(w))
    /\ UNCHANGED <<activeCompiler, activeEmit, taken, takenEmit, workers,
                   resultMessage>>

\* The channel is closed and the process over: a promise not yet settled is
\* settled by the result it left, or else by a fallback; a stop that waits for
\* it is over.
ReadExit(w) ==
    /\ Reads(w, "exit")
    /\ connected' = [connected EXCEPT ![w] = FALSE]
    /\ IF pc[w] = "working"
       THEN /\ Answer(w, IF resultMessage[w] THEN "ok" ELSE "fallback")
            /\ UNCHANGED told
       ELSE FinishStops(Awaiting(w))
    /\ UNCHANGED <<activeCompiler, activeEmit, taken, takenEmit, workers,
                   resultMessage>>

-----------------------------------------------------------------------------
(* compiler.stop.                                                          *)

\* Mutant: they are cleared, but not before the await; the stop that is waiting
\* leaves them to the next.
TakesActiveLate(s) ==
    /\ taken' = [taken EXCEPT ![s] = activeCompiler]
    /\ takenEmit' = [takenEmit EXCEPT ![s] = activeEmit]
    /\ UNCHANGED <<activeCompiler, activeEmit>>

\* Mutant: the dev request is not forgotten.
TakesActiveRemembered(s) ==
    /\ taken' = [taken EXCEPT ![s] = activeCompiler]
    /\ takenEmit' = [takenEmit EXCEPT ![s] = activeEmit]
    /\ activeCompiler' = None
    /\ UNCHANGED activeEmit

\* stopCompiler takes both variables before it awaits anything.
TakesActive(s) ==
    /\ taken' = [taken EXCEPT ![s] = activeCompiler]
    /\ takenEmit' = [takenEmit EXCEPT ![s] = activeEmit]
    /\ activeCompiler' = None
    /\ activeEmit' = None

\* No compiler, or a worker whose channel is known to be closed: no await.
StopNothing(s) ==
    /\ pc[s] = "idle"
    /\ activeCompiler # None => ~connected[activeCompiler]
    /\ TakesActive(s)
    /\ Answer(s, "stopped")
    /\ told' = [d \in Dev |-> IF d = activeEmit THEN told[d] + 1 ELSE told[d]]
    /\ UNCHANGED <<workers, channel>>

StopWorker(s) ==
    /\ pc[s] = "idle"
    /\ activeCompiler # None
    /\ connected[activeCompiler]
    /\ worker[activeCompiler] # "gone"
    /\ TakesActive(s)
    /\ pc' = [pc EXCEPT ![s] = "stopping"]
    /\ tell' = [tell EXCEPT ![activeCompiler] = @ + 1]
    /\ UNCHANGED <<answer, told, worker, compiler, channel>>

\* The worker is gone and the bridge does not know yet: sending fails, and
\* so does the request; nobody is told.
StopFails(s) ==
    /\ pc[s] = "idle"
    /\ activeCompiler # None
    /\ connected[activeCompiler]
    /\ worker[activeCompiler] = "gone"
    /\ TakesActive(s)
    /\ Answer(s, "error")
    /\ UNCHANGED <<told, workers, channel>>

-----------------------------------------------------------------------------
Reading(w) ==
    \/ ReadKeepAlive(w)  \/ ReadResult(w)     \/ ReadError(w)
    \/ ReadStopped(w)    \/ ReadExit(w)

Working(w) ==
    RunKeepsAlive(w) \/ RunEnds(w) \/ HandleStop(w) \/ Closed(w)

Next ==
    \/ \E d \in Dev : HandleDev(d)
    \/ \E b \in Build : HandleBuild(b)
    \/ \E w \in Compile :
          PrepareFails(w) \/ Spawn(w) \/ Working(w) \/ Crash(w) \/ Reading(w)
    \/ \E s \in Stop : StopNothing(s) \/ StopWorker(s) \/ StopFails(s)

\* The event loop of the bridge goes on, and adapters return: nothing in the
\* code limits how long they take.
Fairness ==
    \A w \in Compile :
        WF_vars(PrepareFails(w) \/ Spawn(w) \/ Working(w) \/ Reading(w))

Spec == Init /\ [][Next]_vars /\ Fairness

-----------------------------------------------------------------------------
(* Properties.                                                             *)

\* The values each variable takes; a worker is never sent two stops, and what
\* it says ends within three messages.
TypeOK ==
    /\ pc \in [Requests -> {"idle", "preparing", "working", "stopping", "done"}]
    /\ answer \in [Requests -> {"none", "ok", "fallback", "stopped", "error"}]
    /\ activeCompiler \in Compile \cup {None}
    /\ activeEmit \in Dev \cup {None}
    /\ taken \in [Stop -> Compile \cup {None}]
    /\ takenEmit \in [Stop -> Dev \cup {None}]
    /\ told \in [Dev -> Nat]
    /\ worker \in [Compile -> {"none", "running", "held", "closing", "gone"}]
    /\ compiler \in [Compile -> {"none", "open", "closed", "cut", "lost"}]
    /\ tell \in [Compile -> {0, 1}]
    /\ \A w \in Compile :
          /\ Len(said[w]) <= 3
          /\ \A i \in 1..Len(said[w]) :
                said[w][i] \in {"keepAlive", "result", "error", "stopped", "exit"}
    /\ connected \in [Compile -> BOOLEAN]
    /\ resultMessage \in [Compile -> BOOLEAN]

\* compiler.stop answers `stopped` only when the compiler it took has closed
\* itself, or its process died of itself, before or while it closed: two stops
\* at a time never cut a compiler short while it closes (compiler.ts, stopCompiler).
StoppedCompilerIsClosed ==
    \A s \in Stop :
        (answer[s] = "stopped" /\ taken[s] # None)
            => compiler[taken[s]] \in {"closed", "lost"}

\* A dev request is told of the shutdown once, however many stops there are; and
\* it is told, when its compiler was stopped and no other dev request was made
\* (compiler.ts, stopCompiler and handleDev on activeEmit).
ShutdownToldOnce ==
    \A d \in Dev :
        /\ told[d] <= 1
        /\ (/\ \E s \in Stop : taken[s] = d /\ answer[s] = "stopped"
            /\ \A e \in Dev \ {d} : pc[e] = "idle")
           => told[d] = 1

\* A request the bridge has begun is answered, whether its worker answers,
\* exits or dies, and whatever other requests do meanwhile.
RequestsEnd == \A r \in Requests : pc[r] # "idle" ~> pc[r] = "done"
=============================================================================
