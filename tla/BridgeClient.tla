---------------------------- MODULE BridgeClient ----------------------------
(***************************************************************************)
(* The client half of the node bridge (lania-node-bridge): open_call on    *)
(* the callers' threads, the reader thread of each bridge process, respawn *)
(* and shutdown, with the callers of lania-host: dispatch_bridge_request   *)
(* (a timeout and retries), a dev command (stream, Ctrl-C, compiler.stop)  *)
(* and call_async (neither).  The bridge process is the loop of stdio.ts.  *)
(*                                                                         *)
(* A process and the tables of its reader are one generation; a respawn    *)
(* starts the next and leaves the old reader running.  The state mutex is  *)
(* held through open_call, so it has a variable; the mutex of a pending    *)
(* table outlives a step only while its reader waits in blocking_send.     *)
(*                                                                         *)
(* Abstracted: payloads, metrics, the broadcast of global events, a full   *)
(* stdin pipe, passthrough of stderr, a compiler.stop that is refused.     *)
(***************************************************************************)
EXTENDS Naturals, Sequences, FiniteSets

CONSTANTS
    Callers,    \* one command each
    Dev,        \* those that run compiler.dev
    Direct,     \* those that use call_async, without timeout or retry
    Quit,       \* those of them that are shutdown_async
    NoCaller,
    Retries,    \* ExecutionPolicy.retry_attempts
    MaxPending, \* BridgeClientConfig.max_pending_requests
    Capacity,   \* BridgeClientConfig.event_buffer_capacity
    Faults,     \* what bridge processes may do besides answering
    MaxGens,    \* bound: processes spawned
    MaxEvents   \* bound: events and host requests sent, over all processes

ASSUME CallersAssumption ==
    /\ Dev \subseteq Callers
    /\ Direct \subseteq Callers
    /\ Quit \subseteq Direct
    /\ Dev \cap Direct = {}
    /\ NoCaller \notin Callers
    /\ IsFiniteSet(Callers)

ASSUME BoundsAssumption ==
    /\ Retries \in Nat
    /\ MaxPending \in Nat
    /\ Capacity \in Nat \ {0}
    /\ Faults \subseteq {"exit", "pollute", "silence", "host"}
    /\ MaxGens \in Nat
    /\ MaxEvents \in Nat

Gens == 1..MaxGens

\* Request ids: a retry sends the same id again.
Ids == (Callers \X {"main"}) \cup (Dev \X {"stop"})

VARIABLES
    lock,       \* who holds the state mutex
    gen,        \* the process in BridgeState.process, 0 for None
    gens,       \* processes spawned so far
    child,      \* each process: none, alive, exited
    stale,      \* its last heartbeat is older than heartbeat_timeout
    inbox,      \* requests it has not answered yet
    running,    \* dev requests whose compiler is active in it
    out,        \* its stdout
    eventsLeft, \* what is left of MaxEvents
    reader,     \* its reader: none, reading, sending, hosting, broken, ended
    pending,    \* pending table: the registered attempt of each id, 0 for none
    keepAlive,  \* the ids whose entry is marked keep_alive
    pc,         \* where each caller is
    method,     \* the request it is making
    tries,      \* attempt of dispatch_bridge_request
    fallback,   \* the open_call is the one inside call_async
    outcome,    \* how the command ended
    att,        \* the attempt whose channels are the latest of each id
    sentOn,     \* the process that attempt was registered with
    open,       \* its BridgeActiveCall has not been dropped
    buf,        \* events in its channel
    resp        \* what its oneshot holds

lockVars   == <<lock, gen, gens>>
childVars  == <<child, stale, inbox, running, out, eventsLeft>>
tableVars  == <<pending, keepAlive>>
callerVars == <<pc, method, tries, fallback, outcome>>
chanVars   == <<att, sentOn, open, buf, resp>>
vars == <<lockVars, childVars, reader, tableVars, callerVars, chanVars>>

NoResp == [kind |-> "none", gen |-> 0]
Oneshot(kind, g) == [kind |-> kind, gen |-> g]

Request(id, n) == [id |-> id, att |-> n]
Msg(kind, id, ok) == [kind |-> kind, id |-> id, ok |-> ok]
GlobalMsg(kind) == [kind |-> kind]

Init ==
    /\ lock = NoCaller
    /\ gen = 0
    /\ gens = 0
    /\ child = [g \in Gens |-> "none"]
    /\ stale = [g \in Gens |-> FALSE]
    /\ inbox = [g \in Gens |-> {}]
    /\ running = [g \in Gens |-> {}]
    /\ out = [g \in Gens |-> <<>>]
    /\ eventsLeft = MaxEvents
    /\ reader = [g \in Gens |-> "none"]
    /\ pending = [g \in Gens |-> [id \in Ids |-> 0]]
    /\ keepAlive = [g \in Gens |-> {}]
    /\ pc = [c \in Callers |-> "open"]
    /\ method = [c \in Callers |-> "main"]
    /\ tries = [c \in Callers |-> 1]
    /\ fallback = [c \in Callers |-> c \in Direct]
    /\ outcome = [c \in Callers |-> "none"]
    /\ att = [id \in Ids |-> 0]
    /\ sentOn = [id \in Ids |-> 0]
    /\ open = [id \in Ids |-> FALSE]
    /\ buf = [id \in Ids |-> 0]
    /\ resp = [id \in Ids |-> NoResp]

Id(c) == <<c, method[c]>>

Goto(c, where) == pc' = [pc EXCEPT ![c] = where]

Registered(g) == {id \in Ids : pending[g][id] # 0}

\* The reader of a process waits in blocking_send inside
\* `if let Some(request) = pending.lock()...`: the guard is still alive.
PendingFree(g) == reader[g] # "sending"

-----------------------------------------------------------------------------
(* A command's end, its retries and the fallback of call_async.            *)

\* The command goes on after its request ended: a dev command streams until
\* Ctrl-C; after compiler.stop it drains; shutdown takes the process.
After(c, kind) ==
    IF c \in Quit THEN "take"
    ELSE IF method[c] = "stop" /\ kind # "timeout" THEN "draining"
    ELSE IF method[c] = "main" /\ c \in Dev /\ kind \in {"ok", "mock"}
         THEN "streaming"
    ELSE "done"

\* The call of the request is dropped, unless a dev command keeps it to
\* stream from; a command that fails drops all it holds.
Dropped(c, kind) ==
    IF After(c, kind) = "done" THEN {id \in Ids : id[1] = c}
    ELSE IF After(c, kind) = "streaming" /\ kind = "ok" /\ ~fallback[c] THEN {}
    ELSE {Id(c)}

Drop(ids) ==
    /\ open' = [id \in Ids |-> open[id] /\ id \notin ids]
    /\ buf' = [id \in Ids |-> IF id \in ids THEN 0 ELSE buf[id]]

EndRequest(c, kind) ==
    /\ Goto(c, After(c, kind))
    /\ outcome' = [outcome EXCEPT ![c] = kind]
    /\ Drop(Dropped(c, kind))
    /\ UNCHANGED <<method, tries, fallback, att, sentOn, resp>>

\* Mutant: one retry too many.
MayTryAgainOnceMore(c) == c \notin Direct /\ tries[c] <= Retries + 1

MayTryAgain(c) == c \notin Direct /\ tries[c] <= Retries

TryAgainOrEnd(c, kind) ==
    IF MayTryAgain(c)
    THEN /\ Goto(c, "open")
         /\ tries' = [tries EXCEPT ![c] = @ + 1]
         /\ fallback' = [fallback EXCEPT ![c] = FALSE]
         /\ Drop({Id(c)})
         /\ UNCHANGED <<method, outcome, att, sentOn, resp>>
    ELSE EndRequest(c, kind)

\* An error of open_call: dispatch_bridge_request turns to call_async, which
\* opens again and, if that fails too, answers from the mock.
FallBack(c) ==
    IF fallback[c]
    THEN EndRequest(c, "mock")
    ELSE /\ Goto(c, "open")
         /\ fallback' = [fallback EXCEPT ![c] = TRUE]
         /\ Drop({Id(c)})
         /\ UNCHANGED <<method, tries, outcome, att, sentOn, resp>>

\* Mutant: the error path forgets to unlock.
FailOpenLocked(c) == UNCHANGED lock /\ FallBack(c)

FailOpen(c) == lock' = NoCaller /\ FallBack(c)

-----------------------------------------------------------------------------
(* open_call: everything below happens under the state mutex.              *)

\* Mutant: a process that is alive is not trusted.
AlwaysSpawn == TRUE

\* ensure_process_locked; both bridges ask for the reconnect strategy.
NeedsSpawn == gen = 0 \/ child[gen] = "exited" \/ stale[gen]

Acquire(c) ==
    /\ pc[c] = "open"
    /\ lock = NoCaller
    /\ lock' = c
    /\ Goto(c, IF NeedsSpawn THEN "spawn" ELSE "count")
    /\ UNCHANGED <<gen, gens, childVars, reader, tableVars, method, tries,
                   fallback, outcome, chanVars>>

\* The process is spawned and has answered the handshake.
Spawn(c) ==
    /\ pc[c] = "spawn"
    /\ gens < MaxGens
    /\ gens' = gens + 1
    /\ gen' = gens + 1
    /\ child' = [child EXCEPT ![gens + 1] = "alive"]
    /\ reader' = [reader EXCEPT ![gens + 1] = "reading"]
    /\ Goto(c, "count")
    /\ UNCHANGED <<lock, stale, inbox, running, out, eventsLeft, tableVars,
                   method, tries, fallback, outcome, chanVars>>

\* BridgeState.process stays what it was.
SpawnFails(c) ==
    /\ pc[c] = "spawn"
    /\ FailOpen(c)
    /\ UNCHANGED <<gen, gens, childVars, reader, tableVars>>

\* Mutant: off by one.
FullOneLater(g) == Cardinality(Registered(g)) > MaxPending

Full(g) == Cardinality(Registered(g)) >= MaxPending

\* Backpressure.
Count(c) ==
    /\ pc[c] = "count"
    /\ PendingFree(gen)
    /\ \/ Full(gen) /\ FailOpen(c)
       \/ /\ ~Full(gen)
          /\ Goto(c, "insert")
          /\ UNCHANGED <<lock, method, tries, fallback, outcome, chanVars>>
    /\ UNCHANGED <<gen, gens, childVars, reader, tableVars>>

\* Register before sending.  An entry of the same id is replaced.
Insert(c) ==
    /\ pc[c] = "insert"
    /\ PendingFree(gen)
    /\ pending' = [pending EXCEPT ![gen][Id(c)] = att[Id(c)] + 1]
    /\ keepAlive' = [keepAlive EXCEPT ![gen] = @ \ {Id(c)}]
    /\ att' = [att EXCEPT ![Id(c)] = @ + 1]
    /\ sentOn' = [sentOn EXCEPT ![Id(c)] = gen]
    /\ open' = [open EXCEPT ![Id(c)] = TRUE]
    /\ buf' = [buf EXCEPT ![Id(c)] = 0]
    /\ resp' = [resp EXCEPT ![Id(c)] = NoResp]
    /\ Goto(c, "write")
    /\ UNCHANGED <<lockVars, childVars, reader, method, tries, fallback,
                   outcome>>

Write(c) ==
    /\ pc[c] = "write"
    /\ IF child[gen] = "alive"
       THEN /\ inbox' = [inbox EXCEPT
                            ![gen] = @ \cup {Request(Id(c), att[Id(c)])}]
            /\ lock' = NoCaller
            /\ Goto(c, "waiting")
       ELSE Goto(c, "cleanup") /\ UNCHANGED <<inbox, lock>>
    /\ UNCHANGED <<gen, gens, child, stale, running, out, eventsLeft, reader,
                   tableVars, method, tries, fallback, outcome, chanVars>>

\* Mutant: the entry of a request that could not be written stays.
KeepEntry(g, id) == UNCHANGED tableVars

RemoveEntry(g, id) ==
    /\ pending' = [pending EXCEPT ![g][id] = 0]
    /\ keepAlive' = [keepAlive EXCEPT ![g] = @ \ {id}]

Cleanup(c) ==
    /\ pc[c] = "cleanup"
    /\ PendingFree(gen)
    /\ RemoveEntry(gen, Id(c))
    /\ FailOpen(c)
    /\ UNCHANGED <<gen, gens, childVars, reader>>

OpenStep(c) ==
    Acquire(c) \/ Spawn(c) \/ SpawnFails(c) \/ Count(c) \/ Insert(c)
        \/ Write(c) \/ Cleanup(c)

-----------------------------------------------------------------------------
(* A caller with an open call.                                             *)

\* recv() on the event channel.  While compiler.stop is awaited nobody
\* receives the events of the dev request.
TakeEvent(c) ==
    /\ \E id \in Ids :
        /\ id = IF pc[c] = "waiting" THEN Id(c) ELSE <<c, "main">>
        /\ buf[id] > 0
        /\ buf' = [buf EXCEPT ![id] = @ - 1]
    /\ pc[c] \in {"waiting", "streaming", "draining"}
    /\ UNCHANGED <<lockVars, childVars, reader, tableVars, callerVars, att,
                   sentOn, open, resp>>

\* A response with an error - the child's, or E_BRIDGE_CLOSED - is retried.
TakeResponse(c) ==
    /\ pc[c] = "waiting"
    /\ \/ resp[Id(c)].kind = "ok" /\ EndRequest(c, "ok")
       \/ resp[Id(c)].kind \in {"error", "closed"} /\ TryAgainOrEnd(c, "error")
    /\ UNCHANGED <<lockVars, childVars, reader, tableVars>>

\* tokio::time::timeout around the wait; open_call itself is not cut short.
Timeout(c) ==
    /\ pc[c] = "waiting"
    /\ c \notin Direct
    /\ TryAgainOrEnd(c, "timeout")
    /\ UNCHANGED <<lockVars, childVars, reader, tableVars>>

\* Ctrl-C ends the streaming: compiler.stop is dispatched.
Interrupt(c) ==
    /\ pc[c] = "streaming"
    /\ Goto(c, "open")
    /\ method' = [method EXCEPT ![c] = "stop"]
    /\ tries' = [tries EXCEPT ![c] = 1]
    /\ fallback' = [fallback EXCEPT ![c] = FALSE]
    /\ UNCHANGED <<lockVars, childVars, reader, tableVars, outcome, chanVars>>

\* The channel of the dev request is closed, or two seconds are over.
DrainEnds(c) ==
    /\ pc[c] = "draining"
    /\ Goto(c, "done")
    /\ Drop({id \in Ids : id[1] = c})
    /\ UNCHANGED <<lockVars, childVars, reader, tableVars, method, tries,
                   fallback, outcome, att, sentOn, resp>>

-----------------------------------------------------------------------------
(* The process: it handles requests concurrently and writes the events and *)
(* then the response of each.                                              *)

Say(g, msgs) == out' = [out EXCEPT ![g] = @ \o msgs]

\* What a request can still emit for; the event.shutdown of bridge.shutdown is
\* one of these events.
InHand(g) == {r.id : r \in inbox[g]} \cup running[g]

Emit(g, id) ==
    /\ child[g] = "alive"
    /\ id \in InHand(g)
    /\ eventsLeft > 0
    /\ eventsLeft' = eventsLeft - 1
    /\ Say(g, <<Msg("event", id, TRUE)>>)
    /\ UNCHANGED <<lockVars, child, stale, inbox, running, reader, tableVars,
                   callerVars, chanVars>>

\* A handler asks the host for something.
AskHost(g) ==
    /\ child[g] = "alive"
    /\ "host" \in Faults
    /\ inbox[g] # {}
    /\ eventsLeft > 0
    /\ eventsLeft' = eventsLeft - 1
    /\ Say(g, <<GlobalMsg("host_request")>>)
    /\ UNCHANGED <<lockVars, child, stale, inbox, running, reader, tableVars,
                   callerVars, chanVars>>

\* A dev request that succeeds leaves a compiler running.
Answer(g, r, ok) ==
    /\ child[g] = "alive"
    /\ r \in inbox[g]
    /\ r.id[2] = "main"
    /\ inbox' = [inbox EXCEPT ![g] = @ \ {r}]
    /\ running' = [running EXCEPT ![g] =
                      IF ok /\ r.id[1] \in Dev THEN @ \cup {r.id} ELSE @]
    /\ Say(g, <<Msg("response", r.id, ok)>>)
    /\ UNCHANGED <<lockVars, child, stale, eventsLeft, reader, tableVars,
                   callerVars, chanVars>>

\* stopCompiler: event.shutdown goes to the dev request if there is one, else
\* to compiler.stop itself; then the response.
AnswerStop(g, r) ==
    /\ child[g] = "alive"
    /\ r \in inbox[g]
    /\ r.id[2] = "stop"
    /\ inbox' = [inbox EXCEPT ![g] = @ \ {r}]
    /\ \E id \in IF running[g] = {} THEN {r.id} ELSE running[g] :
        /\ running' = [running EXCEPT ![g] = @ \ {id}]
        /\ Say(g, <<Msg("shutdown", id, TRUE),
                             Msg("response", r.id, TRUE)>>)
    /\ UNCHANGED <<lockVars, child, stale, eventsLeft, reader, tableVars,
                   callerVars, chanVars>>

\* The heartbeat interval elapses; it is told again only when that matters.
Heartbeat(g) ==
    /\ child[g] = "alive"
    /\ stale[g]
    /\ GlobalMsg("heartbeat") \notin {out[g][i] : i \in 1..Len(out[g])}
    /\ Say(g, <<GlobalMsg("heartbeat")>>)
    /\ UNCHANGED <<lockVars, child, stale, inbox, running, eventsLeft, reader,
                   tableVars, callerVars, chanVars>>

\* heartbeat_timeout passes without a heartbeat reaching the reader.
Silence(g) ==
    /\ child[g] = "alive"
    /\ "silence" \in Faults
    /\ stale' = [stale EXCEPT ![g] = TRUE]
    /\ UNCHANGED <<lockVars, child, inbox, running, out, eventsLeft, reader,
                   tableVars, callerVars, chanVars>>

\* A console.log of user code lands in stdout.
Pollute(g) ==
    /\ child[g] = "alive"
    /\ "pollute" \in Faults
    /\ reader[g] # "broken"
    /\ GlobalMsg("garbage") \notin {out[g][i] : i \in 1..Len(out[g])}
    /\ Say(g, <<GlobalMsg("garbage")>>)
    /\ UNCHANGED <<lockVars, child, stale, inbox, running, eventsLeft, reader,
                   tableVars, callerVars, chanVars>>

\* The process ends: what it had written can still be read.
Exited(g) ==
    /\ child' = [child EXCEPT ![g] = "exited"]
    /\ inbox' = [inbox EXCEPT ![g] = {}]
    /\ running' = [running EXCEPT ![g] = {}]
    /\ UNCHANGED <<stale, out, eventsLeft>>

Exit(g) ==
    /\ child[g] = "alive"
    /\ "exit" \in Faults
    /\ Exited(g)
    /\ UNCHANGED <<lockVars, reader, tableVars, callerVars, chanVars>>

Child(g) ==
    \/ \E id \in Ids : Emit(g, id)
    \/ AskHost(g)
    \/ \E r \in inbox[g], ok \in BOOLEAN : Answer(g, r, ok)
    \/ \E r \in inbox[g] : AnswerStop(g, r)
    \/ Heartbeat(g)
    \/ Silence(g)
    \/ Pollute(g)
    \/ Exit(g)

-----------------------------------------------------------------------------
(* The reader thread of a process: pump_process_events.                    *)

\* Mutant: the table is looked up in the state, not owned by the process.
CurrentTable(g) == IF gen = 0 THEN g ELSE gen

\* Each reader owns the table of its own process.
TableOf(g) == g

\* The channels the table's entry of an id belongs to still have a receiver.
HasReceiver(g, id) ==
    open[id] /\ sentOn[id] = g /\ att[id] = pending[g][id]

NextMsg(g) == Head(out[g])

Consume(g) == out' = [out EXCEPT ![g] = Tail(@)]

Reading(g, kinds) ==
    /\ reader[g] = "reading"
    /\ out[g] # <<>>
    /\ NextMsg(g).kind \in kinds

\* Mutant: the E_BRIDGE_CLOSED responses are not sent.
DropPending(t, g) ==
    /\ pending' = [pending EXCEPT ![t] = [id \in Ids |-> 0]]
    /\ keepAlive' = [keepAlive EXCEPT ![t] = {}]
    /\ UNCHANGED resp

\* fail_pending_requests on behalf of process g: drain table t and answer each
\* oneshot that waits.
FailPending(t, g) ==
    /\ pending' = [pending EXCEPT ![t] = [id \in Ids |-> 0]]
    /\ keepAlive' = [keepAlive EXCEPT ![t] = {}]
    /\ resp' = [id \in Ids |->
                   IF HasReceiver(t, id) /\ id \notin keepAlive[t]
                   THEN Oneshot("closed", g) ELSE resp[id]]

ReadHeartbeat(g) ==
    /\ Reading(g, {"heartbeat"})
    /\ stale' = [stale EXCEPT ![g] = FALSE]
    /\ Consume(g)
    /\ UNCHANGED <<lockVars, child, inbox, running, eventsLeft, reader,
                   tableVars, callerVars, chanVars>>

\* The event reaches the channel if somebody listens; event.shutdown then
\* ends the entry of a long-running request.
Deliver(g) ==
    LET t == TableOf(g)
        id == NextMsg(g).id
    IN  /\ buf' = IF HasReceiver(t, id) THEN [buf EXCEPT ![id] = @ + 1] ELSE buf
        /\ IF NextMsg(g).kind = "shutdown" /\ id \in keepAlive[t]
           THEN RemoveEntry(t, id)
           ELSE UNCHANGED tableVars
        /\ reader' = [reader EXCEPT ![g] = "reading"]
        /\ Consume(g)
        /\ UNCHANGED <<lockVars, child, stale, inbox, running, eventsLeft,
                       callerVars, att, sentOn, open, resp>>

MustWait(g) ==
    LET id == NextMsg(g).id
    IN  HasReceiver(TableOf(g), id) /\ buf[id] = Capacity

ReadEvent(g) ==
    /\ Reading(g, {"event", "shutdown"})
    /\ ~MustWait(g)
    /\ Deliver(g)

\* blocking_send on a full channel, under the lock of the table.
BlockOnEvent(g) ==
    /\ Reading(g, {"event", "shutdown"})
    /\ MustWait(g)
    /\ reader' = [reader EXCEPT ![g] = "sending"]
    /\ UNCHANGED <<lockVars, childVars, tableVars, callerVars, chanVars>>

Unblock(g) ==
    /\ reader[g] = "sending"
    /\ ~MustWait(g)
    /\ Deliver(g)

\* Mutant: a dev request that failed counts as long-running.
IsLongWhateverResult(m) == m.id \in Dev \X {"main"}

\* is_long_running_response
IsLong(m) == m.ok /\ m.id \in Dev \X {"main"}

\* Mutant: compiler.stop clears the whole table.
ForgetAll(t, id) ==
    IF id[2] = "stop" THEN Ids ELSE {id}

\* The entries a response ends besides reinserting its own: compiler.stop
\* ends every long-running one.
EndedBy(t, id) ==
    IF id[2] = "stop" THEN {id} \cup keepAlive[t] ELSE {id}

ReadResponse(g) ==
    /\ Reading(g, {"response"})
    /\ LET t == TableOf(g)
           m == NextMsg(g)
       IN  IF pending[t][m.id] = 0
           THEN UNCHANGED <<tableVars, resp>>
           ELSE /\ resp' =
                     IF HasReceiver(t, m.id) /\ m.id \notin keepAlive[t]
                     THEN [resp EXCEPT ![m.id] =
                              Oneshot(IF m.ok THEN "ok" ELSE "error", g)]
                     ELSE resp
                /\ IF IsLong(m)
                   THEN /\ keepAlive' = [keepAlive EXCEPT ![t] = @ \cup {m.id}]
                        /\ UNCHANGED pending
                   ELSE /\ pending' = [pending EXCEPT ![t] =
                              [id \in Ids |-> IF id \in EndedBy(t, m.id)
                                              THEN 0 ELSE @[id]]]
                        /\ keepAlive' = [keepAlive EXCEPT
                                            ![t] = @ \ EndedBy(t, m.id)]
    /\ Consume(g)
    /\ UNCHANGED <<lockVars, child, stale, inbox, running, eventsLeft, reader,
                   callerVars, att, sentOn, open, buf>>

ReaderEnds(g, how) ==
    /\ FailPending(TableOf(g), g)
    /\ reader' = [reader EXCEPT ![g] = how]
    /\ UNCHANGED <<lockVars, child, stale, inbox, running, eventsLeft,
                   callerVars, att, sentOn, open, buf>>

\* A line that is no envelope, or the end of stdout.
ReadError(g) ==
    \/ Reading(g, {"garbage"}) /\ Consume(g) /\ ReaderEnds(g, "broken")
    \/ /\ reader[g] = "reading"
       /\ child[g] = "exited"
       /\ out[g] = <<>>
       /\ ReaderEnds(g, "ended")
       /\ UNCHANGED out

\* The handler runs on this thread, without a lock.
ReadHostRequest(g) ==
    /\ Reading(g, {"host_request"})
    /\ Consume(g)
    /\ reader' = [reader EXCEPT ![g] = "hosting"]
    /\ UNCHANGED <<lockVars, child, stale, inbox, running, eventsLeft,
                   tableVars, callerVars, chanVars>>

\* Its answer is written to the process, if there still is one.
HostDone(g) ==
    /\ reader[g] = "hosting"
    /\ \/ child[g] = "exited" /\ ReaderEnds(g, "ended")
       \/ /\ child[g] = "alive"
          /\ reader' = [reader EXCEPT ![g] = "reading"]
          /\ UNCHANGED <<lockVars, child, stale, inbox, running, eventsLeft,
                         tableVars, callerVars, chanVars>>
    /\ UNCHANGED out

Reader(g) ==
    \/ ReadHeartbeat(g)
    \/ ReadEvent(g)
    \/ BlockOnEvent(g)
    \/ Unblock(g)
    \/ ReadResponse(g)
    \/ ReadError(g)
    \/ ReadHostRequest(g)
    \/ HostDone(g)

-----------------------------------------------------------------------------
\* shutdown_async after its request: take the process, fail what is pending,
\* kill it.
Take(c) ==
    /\ pc[c] = "take"
    /\ lock = NoCaller
    /\ IF gen = 0
       THEN UNCHANGED <<childVars, tableVars, resp>>
       ELSE /\ PendingFree(gen)
            /\ FailPending(gen, gen)
            /\ Exited(gen)
    /\ gen' = 0
    /\ Goto(c, "done")
    /\ UNCHANGED <<lock, gens, reader, method, tries, fallback, outcome, att,
                   sentOn, open, buf>>

CallStep(c) ==
    TakeEvent(c) \/ TakeResponse(c) \/ DrainEnds(c) \/ Take(c)

Next ==
    \/ \E c \in Callers :
          OpenStep(c) \/ CallStep(c) \/ Timeout(c) \/ Interrupt(c)
    \/ \E g \in Gens : Child(g) \/ Reader(g)

Spec == Init /\ [][Next]_vars

(***************************************************************************)
(* Threads are scheduled: each reader moves when it can, and so does each  *)
(* caller; a host handler returns and a spawn succeeds or fails.  The      *)
(* timer of a dispatched request fires.  Nothing obliges a user to press   *)
(* Ctrl-C or a process to go wrong; ChildrenAnswer adds that a process     *)
(* answers what it was sent.                                               *)
(***************************************************************************)
CodeFairness ==
    /\ \A c \in Callers : /\ WF_vars(OpenStep(c))
                          /\ WF_vars(CallStep(c))
                          /\ WF_vars(Timeout(c))
    /\ \A g \in Gens : WF_vars(Reader(g))

ChildrenAnswer ==
    \A g \in Gens :
        WF_vars(\E r \in inbox[g] :
                    AnswerStop(g, r) \/ \E ok \in BOOLEAN : Answer(g, r, ok))

FairSpec == Spec /\ CodeFairness
AnsweredSpec == FairSpec /\ ChildrenAnswer

-----------------------------------------------------------------------------
(* Properties.                                                             *)

Opening == {"spawn", "count", "insert", "write", "cleanup"}
PCs == {"open", "waiting", "streaming", "draining", "take", "done"} \cup Opening
Outcomes == {"none", "ok", "error", "timeout", "mock"}
Msgs ==
    [kind : {"event", "shutdown", "response"}, id : Ids, ok : BOOLEAN]
        \cup [kind : {"heartbeat", "garbage", "host_request"}]

\* Every variable has the type its Rust or TypeScript counterpart has.
TypeOK ==
    /\ lock \in Callers \cup {NoCaller}
    /\ gen \in 0..MaxGens
    /\ gens \in 0..MaxGens
    /\ child \in [Gens -> {"none", "alive", "exited"}]
    /\ stale \in [Gens -> BOOLEAN]
    /\ inbox \in [Gens -> SUBSET [id : Ids, att : Nat]]
    /\ running \in [Gens -> SUBSET Ids]
    /\ out \in [Gens -> Seq(Msgs)]
    /\ eventsLeft \in 0..MaxEvents
    /\ reader \in [Gens -> {"none", "reading", "sending", "hosting", "broken",
                        "ended"}]
    /\ pending \in [Gens -> [Ids -> Nat]]
    /\ keepAlive \in [Gens -> SUBSET Ids]
    /\ pc \in [Callers -> PCs]
    /\ method \in [Callers -> {"main", "stop"}]
    /\ tries \in [Callers -> 1..(Retries + 1)]
    /\ fallback \in [Callers -> BOOLEAN]
    /\ outcome \in [Callers -> Outcomes]
    /\ att \in [Ids -> Nat]
    /\ sentOn \in [Ids -> 0..MaxGens]
    /\ open \in [Ids -> BOOLEAN]
    /\ buf \in [Ids -> 0..Capacity]
    /\ resp \in [Ids -> [kind : {"none", "ok", "error", "closed"},
                         gen : 0..MaxGens]]

\* Backpressure: no process ever has more than max_pending_requests registered,
\* although they are counted and inserted in two separate critical sections of
\* the table and the reader reinserts long-running entries.
PendingBounded == \A g \in Gens : Cardinality(Registered(g)) <= MaxPending

\* A caller that waits is registered with the process it wrote to, or its
\* answer is in its oneshot: no answer, respawn, shutdown, retry of the same id
\* or compiler.stop of another command makes it forgotten.
WaiterIsRegistered ==
    \A c \in Callers : pc[c] = "waiting" =>
        \/ resp[Id(c)].kind # "none"
        \/ pending[sentOn[Id(c)]][Id(c)] = att[Id(c)]

\* Once a process is gone and its reader has ended for it, its table is empty,
\* but for a call that is about to find out: who waited was answered, and nobody
\* can register and wait for a reader that is not there.
GoneProcessIsEmpty ==
    \A g \in Gens : reader[g] = "ended" =>
        \A id \in Registered(g) :
            g = gen /\ pc[id[1]] \in {"write", "cleanup"} /\ Id(id[1]) = id

\* What is registered with a live process is owed by it: a call being opened, a
\* request it has not answered, an answer or event.shutdown it has written, or
\* a compiler it runs.  Entries of callers that gave up are freed that way, so
\* backpressure is never the trace of a request that is over.
EveryEntryIsOwed ==
    \A g \in Gens : child[g] = "alive" =>
        \A id \in Registered(g) :
            \/ pc[id[1]] = "write" /\ Id(id[1]) = id
            \/ \E r \in inbox[g] : r.id = id
            \/ \E i \in 1..Len(out[g]) :
                  /\ out[g][i].kind \in {"response", "shutdown"}
                  /\ out[g][i].id = id
            \/ id \in running[g]

\* Two processes are never mixed up: an answer reaches a call only from the
\* process the call was registered with, however long an old process and its
\* reader live on beside the new one.
GenerationsApart ==
    \A id \in Ids : (open[id] /\ resp[id].kind # "none")
                        => resp[id].gen = sentOn[id]

\* A dev command that ended well has stopped its compiler.
StoppedDevRunsNoMore ==
    \A c \in Dev : (pc[c] = "done" /\ outcome[c] = "ok")
                        => \A g \in Gens : <<c, "main">> \notin running[g]

\* A dispatched command ends, whatever its process does.
DispatchEnds == \A c \in Callers \ (Direct \cup Dev) : <>(pc[c] = "done")

NoReaderBroken == \A g \in Gens : reader[g] # "broken"

\* A call without timeout ends, too, and so does shutdown_async, if processes
\* answer what they are sent and write nothing but envelopes to stdout: neither
\* an exit, a failed respawn, backpressure nor a host request leaves it waiting.
DirectEnds ==
    (ChildrenAnswer /\ []NoReaderBroken)
        => \A c \in Direct : <>(pc[c] = "done")

\* What the comment in shutdown_async promises: a shutdown request that fails
\* does not keep the program from ending.
ShutdownEnds == \A c \in Quit : <>(pc[c] = "done")

\* What the comment in pump_process_stderr says of the whole file: no lock is
\* held while sending, so whoever opens a call is not held up by one.
OpenCallReturns ==
    \A c \in Callers : pc[c] \in Opening ~> pc[c] \notin Opening
=============================================================================
