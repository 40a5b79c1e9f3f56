------------------------- MODULE BridgeClientProofs -------------------------
(***************************************************************************)
(* Theorems about BridgeClient, for every set of callers, any number of    *)
(* bridge processes, and whatever these do besides answering.              *)
(***************************************************************************)
EXTENDS BridgeClient, SequenceTheorems, FiniteSetTheorems, TLAPS

-----------------------------------------------------------------------------
(* The inductive invariant.                                                *)

\* The state mutex is held from the look at the process until the request is
\* written, and there is a process from the end of the first of these steps on.
LockStage ==
    \A c \in Callers :
        /\ pc[c] \in Opening <=> lock = c
        /\ pc[c] \in Opening \ {"spawn"} => gen # 0
        /\ method[c] = "stop" \/ pc[c] = "streaming" => c \in Dev

\* Nothing is known of a process that was not spawned; one that is gone handles
\* nothing.
SpawnStage ==
    /\ gen <= gens
    /\ \A g \in Gens :
          /\ child[g] = "none" <=> g > gens
          /\ reader[g] = "none" <=> g > gens
          /\ child[g] # "alive" => inbox[g] = {} /\ running[g] = {}
          /\ child[g] = "none" => out[g] = <<>> /\ Registered(g) = {} /\ keepAlive[g] = {}

\* A reader waits in blocking_send for the event that is still the next message,
\* and ends for a process that has ended.
ReaderStage ==
    \A g \in Gens :
        /\ reader[g] = "sending" =>
               out[g] # <<>> /\ NextMsg(g).kind \in {"event", "shutdown"}
        /\ reader[g] = "ended" => child[g] = "exited"

\* Who was counted in finds the table as it was counted.
TableStage ==
    /\ PendingBounded
    /\ \A c \in Callers : pc[c] = "insert" => Cardinality(Registered(gen)) < MaxPending

\* From the registration on, a call is registered with its process or answered.
WaitStage ==
    \A c \in Callers : pc[c] \in {"write", "waiting"} =>
        /\ open[Id(c)] /\ sentOn[Id(c)] \in Gens
        /\ pc[c] = "write" => sentOn[Id(c)] = gen
        /\ \/ resp[Id(c)].kind # "none"
           \/ pending[sentOn[Id(c)]][Id(c)] = att[Id(c)]

\* What is kept alive is a dev request that has its answer.
KeepStage ==
    \A g \in Gens : \A id \in keepAlive[g] :
        /\ id \in Dev \X {"main"} /\ pending[g][id] # 0
        /\ HasReceiver(g, id) => resp[id].kind # "none"

\* Somewhere in what a process has written there is a message about a request.
Written(g, kind, id) ==
    \E i \in 1..Len(out[g]) : out[g][i].kind = kind /\ out[g][i].id = id

\* The call is about to be written to the process.
AboutToWrite(g, id) == pc[id[1]] = "write" /\ Id(id[1]) = id /\ g = gen

Asked(g, id) == \E r \in inbox[g] : r.id = id

\* What is owed to an entry: its response as long as it is not kept alive, then
\* the event.shutdown that ends it, which is to come as long as its compiler runs.
OwedBy(g) ==
    /\ \A id \in Registered(g) \ keepAlive[g] :
          AboutToWrite(g, id) \/ Asked(g, id) \/ Written(g, "response", id)
    /\ \A id \in keepAlive[g] : id \in running[g] \/ Written(g, "shutdown", id)
    /\ \A i \in 1..Len(out[g]) :
          out[g][i].kind = "response" /\ IsLong(out[g][i]) =>
              \/ out[g][i].id \in running[g]
              \/ \E j \in (i + 1)..Len(out[g]) :
                    out[g][j].kind = "shutdown" /\ out[g][j].id = out[g][i].id

OwedStage == \A g \in Gens : child[g] = "alive" => OwedBy(g)

\* An answer is of the process its call was registered with.
ApartStage == \A id \in Ids : resp[id].kind # "none" => resp[id].gen = sentOn[id]

IInv ==
    /\ TypeOK
    /\ LockStage
    /\ SpawnStage
    /\ ReaderStage
    /\ TableStage
    /\ WaitStage
    /\ KeepStage
    /\ GoneProcessIsEmpty
    /\ OwedStage
    /\ ApartStage


-----------------------------------------------------------------------------
(* Request ids.                                                            *)

\* The id of a request names its caller, and there are finitely many.
LEMMA IdsOfCallers ==
    /\ IsFiniteSet(Ids)
    /\ \A id \in Ids : id[1] \in Callers /\ id = <<id[1], id[2]>>
    /\ IInv => \A c \in Callers : Id(c) \in Ids /\ Id(c)[1] = c /\ Id(c)[2] = method[c]
<1>1. IsFiniteSet(Ids)
  <2>1. IsFiniteSet(Callers) /\ IsFiniteSet(Dev)
    BY CallersAssumption, FS_Subset
  <2>2. IsFiniteSet({"main"}) /\ IsFiniteSet({"stop"})
    BY FS_Singleton
  <2>3. IsFiniteSet(Callers \X {"main"}) /\ IsFiniteSet(Dev \X {"stop"})
    BY <2>1, <2>2, FS_Product
  <2> QED
    BY <2>3, FS_Union DEF Ids
<1>2. \A id \in Ids : id[1] \in Callers /\ id = <<id[1], id[2]>>
  BY CallersAssumption DEF Ids
<1>3. ASSUME IInv, NEW c \in Callers
      PROVE  Id(c) \in Ids /\ Id(c)[1] = c /\ Id(c)[2] = method[c]
  <2>1. \/ method[c] = "main"
        \/ method[c] = "stop" /\ c \in Dev
    BY <1>3 DEF IInv, TypeOK, LockStage
  <2> QED
    BY <2>1 DEF Id, Ids
<1> QED
  BY <1>1, <1>2, <1>3

-----------------------------------------------------------------------------
(* The steps of a caller that leave the process and its table alone.       *)

\* A caller moves to another place, takes or leaves the state mutex with it, and
\* drops calls of its own.
LEMMA CallerStep ==
    ASSUME IInv, NEW c \in Callers, NEW p \in PCs,
           UNCHANGED <<gen, gens, childVars, reader, tableVars, att, sentOn, resp>>,
           pc' = [pc EXCEPT ![c] = p],
           pc[c] \notin {"write", "cleanup"}, p \notin {"write", "cleanup"},
           p = "waiting" => pc[c] = "waiting" /\ method'[c] = method[c],
           p = "insert" => Cardinality(Registered(gen)) < MaxPending,
           p \in Opening => lock \in {c, NoCaller} /\ lock' = c,
           p \notin Opening => lock' = IF lock = c THEN NoCaller ELSE lock,
           p \in Opening \ {"spawn"} => gen # 0,
           method'[c] = "stop" \/ p = "streaming" => c \in Dev,
           method' \in [Callers -> {"main", "stop"}],
           \A b \in Callers : b # c => method'[b] = method[b],
           tries' \in [Callers -> 1..(Retries + 1)],
           fallback' \in [Callers -> BOOLEAN],
           outcome' \in [Callers -> Outcomes],
           open' \in [Ids -> BOOLEAN], buf' \in [Ids -> 0..Capacity],
           \A id \in Ids : open'[id] => open[id],
           \A id \in Ids : id[1] # c \/ p = "waiting" => open'[id] = open[id]
    PROVE  IInv'
<1>1. /\ pc \in [Callers -> PCs] /\ pc' \in [Callers -> PCs]
      /\ pc'[c] = p /\ \A b \in Callers : b # c => pc'[b] = pc[b]
  BY DEF IInv, TypeOK
<1>2. /\ \A id \in Ids : id[1] \in Callers
      /\ \A b \in Callers : Id(b) \in Ids /\ Id(b)[1] = b
      /\ \A b \in Callers : b # c => Id(b)' = Id(b)
  BY IdsOfCallers DEF Id
<1>3. \A g \in Gens : /\ Registered(g)' = Registered(g)
                      /\ \A id : HasReceiver(g, id)' /\ id \in Ids => HasReceiver(g, id)
  BY DEF Registered, HasReceiver, tableVars
<1>4. UNCHANGED <<child, stale, inbox, running, out, eventsLeft, pending, keepAlive>>
  BY DEF childVars, tableVars
<1>5. lock \in Callers \cup {NoCaller} /\ NoCaller \notin Callers
  BY CallersAssumption DEF IInv, TypeOK
<1>6. TypeOK'
  BY <1>1, <1>4, <1>5 DEF IInv, TypeOK
<1>7. LockStage'
  <2> SUFFICES ASSUME NEW b \in Callers
               PROVE  /\ pc'[b] \in Opening <=> lock' = b
                      /\ pc'[b] \in Opening \ {"spawn"} => gen' # 0
                      /\ method'[b] = "stop" \/ pc'[b] = "streaming" => b \in Dev
    BY DEF LockStage
  <2>1. CASE b = c
    BY <1>1, <1>5, <2>1
  <2>2. CASE b # c
    <3>1. /\ pc[b] \in Opening <=> lock = b
          /\ pc[b] \in Opening \ {"spawn"} => gen # 0
          /\ method[b] = "stop" \/ pc[b] = "streaming" => b \in Dev
      BY DEF IInv, LockStage
    <3>2. lock' = b <=> lock = b
      BY <1>5, <2>2
    <3> QED
      BY <1>1, <2>2, <3>1, <3>2
  <2> QED
    BY <2>1, <2>2
<1>8. SpawnStage' /\ ReaderStage'
  BY <1>3, <1>4 DEF IInv, SpawnStage, ReaderStage, NextMsg
<1>9. TableStage'
  <2>1. PendingBounded'
    BY <1>3 DEF IInv, TableStage, PendingBounded
  <2>2. Registered(gen)' = Registered(gen)
    BY DEF Registered, tableVars
  <2> QED
    BY <1>1, <2>1, <2>2 DEF IInv, TableStage
<1>10. WaitStage'
  <2> SUFFICES ASSUME NEW b \in Callers, pc'[b] \in {"write", "waiting"}
               PROVE  /\ open'[Id(b)'] /\ sentOn'[Id(b)'] \in Gens
                      /\ pc'[b] = "write" => sentOn'[Id(b)'] = gen'
                      /\ \/ resp'[Id(b)'].kind # "none"
                         \/ pending'[sentOn'[Id(b)']][Id(b)'] = att'[Id(b)']
    BY DEF WaitStage
  <2>1. pc'[b] = pc[b] /\ Id(b)' = Id(b) /\ open'[Id(b)] = open[Id(b)]
    BY <1>1, <1>2 DEF Id
  <2> QED
    BY <1>4, <2>1 DEF IInv, WaitStage
<1>11. KeepStage'
  <2>1. \A g \in Gens : keepAlive[g] \subseteq Ids
    BY DEF IInv, TypeOK
  <2> QED
    BY <1>3, <1>4, <2>1 DEF IInv, KeepStage
<1>12. \A id \in Ids : pc[id[1]] \in {"write", "cleanup"} /\ Id(id[1]) = id =>
           pc'[id[1]] = pc[id[1]] /\ Id(id[1])' = id
  BY <1>1, <1>2
<1>13. GoneProcessIsEmpty'
  <2>1. \A g \in Gens : Registered(g) \subseteq Ids
    BY DEF Registered
  <2> QED
    BY <1>3, <1>12, <2>1 DEF IInv, GoneProcessIsEmpty
<1>14. OwedStage'
  <2>1. \A g \in Gens, id \in Ids : AboutToWrite(g, id) => AboutToWrite(g, id)'
    BY <1>12 DEF AboutToWrite
  <2>2. \A g, id, kind : /\ Asked(g, id)' <=> Asked(g, id)
                         /\ Written(g, kind, id)' <=> Written(g, kind, id)
    BY <1>4 DEF Asked, Written
  <2>3. \A g \in Gens : Registered(g) \subseteq Ids
    BY DEF Registered
  <2> SUFFICES ASSUME NEW g \in Gens, child'[g] = "alive"
               PROVE  OwedBy(g)'
    BY DEF OwedStage
  <2>4. OwedBy(g)
    BY <1>4 DEF IInv, OwedStage
  <2>5. \A i \in 1..Len(out'[g]) :
            out'[g][i].kind = "response" /\ IsLong(out'[g][i]) =>
                \/ out'[g][i].id \in running'[g]
                \/ \E j \in (i + 1)..Len(out'[g]) :
                      out'[g][j].kind = "shutdown" /\ out'[g][j].id = out'[g][i].id
    BY ZenonT(40), <1>4, <2>4 DEF OwedBy
  <2> QED
    BY <1>3, <1>4, <2>1, <2>2, <2>3, <2>4, <2>5 DEF OwedBy
<1>15. ApartStage'
  BY DEF IInv, ApartStage
<1> QED
  BY <1>6, <1>7, <1>8, <1>9, <1>10, <1>11, <1>13, <1>14, <1>15 DEF IInv


\* What Drop and the retries leave: only calls of the caller are dropped.
LEMMA DropKeeps ==
    ASSUME IInv, NEW ids \in SUBSET Ids, Drop(ids)
    PROVE  /\ open' \in [Ids -> BOOLEAN] /\ buf' \in [Ids -> 0..Capacity]
           /\ \A id \in Ids : open'[id] => open[id]
           /\ \A id \in Ids : id \notin ids => open'[id] = open[id]
<1>1. open \in [Ids -> BOOLEAN] /\ buf \in [Ids -> 0..Capacity] /\ 0 \in 0..Capacity
  BY BoundsAssumption DEF IInv, TypeOK
<1> QED
  BY <1>1 DEF Drop

\* A request that ends, is tried again or falls back: where the caller goes, and
\* what it drops.
LEMMA RequestEnds ==
    ASSUME IInv, NEW c \in Callers, NEW kind \in Outcomes,
           EndRequest(c, kind) \/ TryAgainOrEnd(c, kind) \/ (kind = "mock" /\ FallBack(c))
    PROVE  /\ UNCHANGED <<method, att, sentOn, resp>>
           /\ \E p \in {"open", "take", "draining", "streaming", "done"} :
                 pc' = [pc EXCEPT ![c] = p] /\ (p = "streaming" => c \in Dev)
           /\ tries' \in [Callers -> 1..(Retries + 1)]
           /\ fallback' \in [Callers -> BOOLEAN]
           /\ outcome' \in [Callers -> Outcomes]
           /\ open' \in [Ids -> BOOLEAN] /\ buf' \in [Ids -> 0..Capacity]
           /\ \A id \in Ids : open'[id] => open[id]
           /\ \A id \in Ids : id[1] # c => open'[id] = open[id]
<1>1. /\ Id(c) \in Ids /\ Id(c)[1] = c
      /\ tries \in [Callers -> 1..(Retries + 1)] /\ Retries \in Nat
      /\ fallback \in [Callers -> BOOLEAN] /\ outcome \in [Callers -> Outcomes]
  BY IdsOfCallers, BoundsAssumption DEF IInv, TypeOK
<1>2. ASSUME NEW k \in Outcomes, EndRequest(c, k)
      PROVE  /\ UNCHANGED <<method, tries, fallback, att, sentOn, resp>>
             /\ \E p \in {"open", "take", "draining", "streaming", "done"} :
                   pc' = [pc EXCEPT ![c] = p] /\ (p = "streaming" => c \in Dev)
             /\ outcome' \in [Callers -> Outcomes]
             /\ \E ids \in SUBSET Ids : Drop(ids) /\ \A id \in ids : id[1] = c
  <2>1. Dropped(c, k) \in SUBSET Ids /\ \A id \in Dropped(c, k) : id[1] = c
    BY <1>1 DEF Dropped
  <2>2. After(c, k) \in {"open", "take", "draining", "streaming", "done"}
        /\ (After(c, k) = "streaming" => c \in Dev)
    BY DEF After
  <2> QED
    BY <1>1, <1>2, <2>1, <2>2 DEF EndRequest, Goto
<1>3. ASSUME Goto(c, "open") /\ Drop({Id(c)})
      PROVE  /\ \E p \in {"open", "take", "draining", "streaming", "done"} :
                   pc' = [pc EXCEPT ![c] = p] /\ (p = "streaming" => c \in Dev)
             /\ \E ids \in SUBSET Ids : Drop(ids) /\ \A id \in ids : id[1] = c
  <2>1. {Id(c)} \in SUBSET Ids /\ \A id \in {Id(c)} : id[1] = c
    BY <1>1
  <2> QED
    BY <1>3, <2>1 DEF Goto
<1>4. /\ UNCHANGED <<method, att, sentOn, resp>>
      /\ \E p \in {"open", "take", "draining", "streaming", "done"} :
            pc' = [pc EXCEPT ![c] = p] /\ (p = "streaming" => c \in Dev)
      /\ tries' \in [Callers -> 1..(Retries + 1)]
      /\ fallback' \in [Callers -> BOOLEAN]
      /\ outcome' \in [Callers -> Outcomes]
      /\ \E ids \in SUBSET Ids : Drop(ids) /\ \A id \in ids : id[1] = c
  <2>1. CASE EndRequest(c, kind)
    BY <1>1, <1>2, <2>1
  <2>2. CASE TryAgainOrEnd(c, kind)
    <3>1. CASE MayTryAgain(c)
      <4>1. /\ Goto(c, "open") /\ Drop({Id(c)})
            /\ tries' = [tries EXCEPT ![c] = @ + 1]
            /\ fallback' = [fallback EXCEPT ![c] = FALSE]
            /\ UNCHANGED <<method, outcome, att, sentOn, resp>>
        BY <2>2, <3>1 DEF TryAgainOrEnd
      <4>2. tries[c] + 1 \in 1..(Retries + 1)
        BY <1>1, <3>1 DEF MayTryAgain
      <4> QED
        BY <1>1, <1>3, <4>1, <4>2
    <3>2. CASE ~MayTryAgain(c)
      <4>1. EndRequest(c, kind)
        BY <2>2, <3>2 DEF TryAgainOrEnd
      <4> QED
        BY <1>1, <1>2, <4>1
    <3> QED
      BY <3>1, <3>2
  <2>3. CASE kind = "mock" /\ FallBack(c)
    <3>1. CASE fallback[c]
      <4>1. EndRequest(c, "mock") /\ "mock" \in Outcomes
        BY <2>3, <3>1 DEF FallBack, Outcomes
      <4> QED
        BY <1>1, <1>2, <4>1
    <3>2. CASE ~fallback[c]
      <4>1. /\ Goto(c, "open") /\ Drop({Id(c)})
            /\ fallback' = [fallback EXCEPT ![c] = TRUE]
            /\ UNCHANGED <<method, tries, outcome, att, sentOn, resp>>
        BY <2>3, <3>2 DEF FallBack
      <4> QED
        BY <1>1, <1>3, <4>1
    <3> QED
      BY <3>1, <3>2
  <2> QED
    BY <2>1, <2>2, <2>3
<1>5. PICK ids \in SUBSET Ids : Drop(ids) /\ \A id \in ids : id[1] = c
  BY <1>4
<1> QED
  BY <1>4, <1>5, DropKeeps

\* A request that ended lets go of the mutex if the caller had it.
LEMMA RequestEndsStep ==
    ASSUME IInv, NEW c \in Callers, NEW kind \in Outcomes,
           EndRequest(c, kind) \/ TryAgainOrEnd(c, kind) \/ (kind = "mock" /\ FallBack(c)),
           UNCHANGED <<gen, gens, childVars, reader, tableVars>>,
           pc[c] \notin {"write", "cleanup"},
           lock' = IF lock = c THEN NoCaller ELSE lock
    PROVE  IInv'
<1>1. /\ UNCHANGED <<method, att, sentOn, resp>>
      /\ tries' \in [Callers -> 1..(Retries + 1)]
      /\ fallback' \in [Callers -> BOOLEAN]
      /\ outcome' \in [Callers -> Outcomes]
      /\ open' \in [Ids -> BOOLEAN] /\ buf' \in [Ids -> 0..Capacity]
      /\ \A id \in Ids : open'[id] => open[id]
      /\ \A id \in Ids : id[1] # c => open'[id] = open[id]
  BY RequestEnds
<1>2. PICK p \in {"open", "take", "draining", "streaming", "done"} :
          pc' = [pc EXCEPT ![c] = p] /\ (p = "streaming" => c \in Dev)
  BY RequestEnds
<1>3. p \in PCs /\ p \notin Opening /\ p # "waiting" /\ p \notin {"write", "cleanup"}
      /\ p # "insert"
  BY DEF PCs, Opening
<1>4. /\ method \in [Callers -> {"main", "stop"}]
      /\ method'[c] = "stop" \/ p = "streaming" => c \in Dev
  BY <1>1, <1>2 DEF IInv, TypeOK, LockStage
<1>5. /\ p = "waiting" => pc[c] = "waiting" /\ method'[c] = method[c]
      /\ p = "insert" => Cardinality(Registered(gen)) < MaxPending
      /\ p \in Opening => lock \in {c, NoCaller} /\ lock' = c
      /\ p \notin Opening => lock' = IF lock = c THEN NoCaller ELSE lock
      /\ p \in Opening \ {"spawn"} => gen # 0
  BY <1>3
<1>6. /\ method' \in [Callers -> {"main", "stop"}]
      /\ \A b \in Callers : b # c => method'[b] = method[b]
      /\ \A id \in Ids : id[1] # c \/ p = "waiting" => open'[id] = open[id]
  BY <1>1, <1>3, <1>4
<1>7. UNCHANGED <<gen, gens, childVars, reader, tableVars, att, sentOn, resp>>
  BY <1>1
<1> QED
  BY ZenonT(40), <1>1, <1>2, <1>3, <1>4, <1>5, <1>6, <1>7, CallerStep

\* The steps of open_call before the registration.
LEMMA OpenSteps ==
    ASSUME IInv, NEW c \in Callers, Acquire(c) \/ SpawnFails(c) \/ Count(c)
    PROVE  IInv'
<1>1. /\ lock \in Callers \cup {NoCaller} /\ NoCaller \notin Callers
      /\ \A b \in Callers : pc[b] \in Opening <=> lock = b
      /\ method \in [Callers -> {"main", "stop"}]
      /\ method[c] = "stop" => c \in Dev
      /\ tries \in [Callers -> 1..(Retries + 1)]
      /\ fallback \in [Callers -> BOOLEAN] /\ outcome \in [Callers -> Outcomes]
      /\ open \in [Ids -> BOOLEAN] /\ buf \in [Ids -> 0..Capacity]
  BY CallersAssumption DEF IInv, TypeOK, LockStage
<1>2. {"spawn", "count", "insert", "write", "cleanup"} \subseteq Opening
      /\ "spawn" \in PCs /\ "count" \in PCs /\ "insert" \in PCs
  BY DEF PCs, Opening
<1>3. CASE Acquire(c)
  <2>1. /\ pc[c] = "open" /\ lock = NoCaller /\ lock' = c
        /\ UNCHANGED <<gen, gens, childVars, reader, tableVars, method, tries,
                       fallback, outcome, chanVars>>
    BY <1>3 DEF Acquire
  <2>2. PICK p \in {"spawn", "count"} :
            pc' = [pc EXCEPT ![c] = p] /\ (p = "count" => gen # 0)
    BY <1>3 DEF Acquire, Goto, NeedsSpawn
  <2>3. UNCHANGED <<open, buf, att, sentOn, resp>>
    BY <2>1 DEF chanVars
  <2> QED
    BY <1>1, <1>2, <2>1, <2>2, <2>3, CallerStep
<1>4. CASE SpawnFails(c) \/ (Count(c) /\ FailOpen(c))
  <2>1. /\ pc[c] \in {"spawn", "count"} /\ lock' = NoCaller /\ FallBack(c)
        /\ UNCHANGED <<gen, gens, childVars, reader, tableVars>>
    BY <1>4 DEF SpawnFails, Count, FailOpen
  <2>2. lock = c
    BY <1>1, <1>2, <2>1
  <2>3. "mock" \in Outcomes
    BY DEF Outcomes
  <2> QED
    BY <2>1, <2>2, <2>3, RequestEndsStep
<1>5. CASE Count(c) /\ ~FailOpen(c)
  <2>1. /\ pc[c] = "count" /\ pc' = [pc EXCEPT ![c] = "insert"] /\ ~Full(gen)
        /\ UNCHANGED <<lock, method, tries, fallback, outcome, chanVars>>
        /\ UNCHANGED <<gen, gens, childVars, reader, tableVars>>
    BY <1>5 DEF Count, Goto
  <2>2. lock = c /\ gen # 0
    BY <1>1, <1>2, <2>1 DEF IInv, LockStage
  <2>3. Cardinality(Registered(gen)) < MaxPending
    <3>1. Registered(gen) \in SUBSET Ids
      BY DEF Registered
    <3>2. Cardinality(Registered(gen)) \in Nat
      BY <3>1, IdsOfCallers, FS_Subset, FS_CardinalityType
    <3> QED
      BY <2>1, <3>2, BoundsAssumption DEF Full
  <2>4. UNCHANGED <<open, buf, att, sentOn, resp>>
    BY <2>1 DEF chanVars
  <2> QED
    BY <1>1, <1>2, <2>1, <2>2, <2>3, <2>4, CallerStep
<1> QED
  BY <1>3, <1>4, <1>5

\* The steps of a caller with an open call.
LEMMA CallSteps ==
    ASSUME IInv, NEW c \in Callers,
           TakeEvent(c) \/ TakeResponse(c) \/ Timeout(c) \/ Interrupt(c) \/ DrainEnds(c)
    PROVE  IInv'
<1>1. /\ lock \in Callers \cup {NoCaller} /\ NoCaller \notin Callers
      /\ \A b \in Callers : pc[b] \in Opening <=> lock = b
      /\ method \in [Callers -> {"main", "stop"}]
      /\ method[c] = "stop" \/ pc[c] = "streaming" => c \in Dev
      /\ tries \in [Callers -> 1..(Retries + 1)] /\ 1 \in 1..(Retries + 1)
      /\ fallback \in [Callers -> BOOLEAN] /\ outcome \in [Callers -> Outcomes]
      /\ open \in [Ids -> BOOLEAN] /\ buf \in [Ids -> 0..Capacity]
      /\ pc \in [Callers -> PCs]
  BY CallersAssumption, BoundsAssumption DEF IInv, TypeOK, LockStage
<1>2. /\ {"open", "waiting", "streaming", "draining", "done"} \cap Opening = {}
      /\ {"open", "waiting", "streaming", "draining", "done"} \subseteq PCs
      /\ "write" \in Opening /\ "cleanup" \in Opening
      /\ {"ok", "error", "timeout"} \subseteq Outcomes
  BY DEF PCs, Opening, Outcomes
<1>3. /\ pc[c] \in {"waiting", "streaming", "draining"}
      /\ UNCHANGED <<lockVars, childVars, reader, tableVars>>
  BY DEF TakeEvent, TakeResponse, Timeout, Interrupt, DrainEnds
<1>4. /\ pc[c] \notin Opening /\ lock # c /\ pc[c] \notin {"write", "cleanup"}
      /\ UNCHANGED <<lock, gen, gens>>
      /\ lock' = IF lock = c THEN NoCaller ELSE lock
  BY <1>1, <1>2, <1>3 DEF lockVars
<1>5. CASE TakeEvent(c)
  <2>1. /\ UNCHANGED <<pc, method, tries, fallback, outcome, att, sentOn, open, resp>>
        /\ \E id \in Ids : buf[id] > 0 /\ buf' = [buf EXCEPT ![id] = @ - 1]
    BY <1>5 DEF TakeEvent, callerVars
  <2>2. buf' \in [Ids -> 0..Capacity]
    BY <1>1, <2>1, BoundsAssumption
  <2>3. pc' = [pc EXCEPT ![c] = pc[c]] /\ pc[c] \in PCs
    BY <1>1, <2>1
  <2>4. pc[c] # "insert"
    BY <1>3
  <2> QED
    BY <1>1, <1>3, <1>4, <2>1, <2>2, <2>3, <2>4, CallerStep
<1>6. CASE TakeResponse(c) \/ Timeout(c)
  <2>1. PICK kind \in {"ok", "error", "timeout"} :
            EndRequest(c, kind) \/ TryAgainOrEnd(c, kind)
    BY <1>6 DEF TakeResponse, Timeout
  <2> QED
    BY <1>2, <1>3, <1>4, <2>1, RequestEndsStep
<1>7. CASE Interrupt(c)
  <2>1. /\ pc[c] = "streaming" /\ pc' = [pc EXCEPT ![c] = "open"]
        /\ method' = [method EXCEPT ![c] = "stop"]
        /\ tries' = [tries EXCEPT ![c] = 1]
        /\ fallback' = [fallback EXCEPT ![c] = FALSE]
        /\ UNCHANGED <<outcome, open, buf, att, sentOn, resp>>
    BY <1>7 DEF Interrupt, Goto, chanVars
  <2>2. /\ method' \in [Callers -> {"main", "stop"}]
        /\ \A b \in Callers : b # c => method'[b] = method[b]
        /\ tries' \in [Callers -> 1..(Retries + 1)]
        /\ fallback' \in [Callers -> BOOLEAN]
        /\ c \in Dev
    BY <1>1, <2>1
  <2> QED
    BY ZenonT(40), <1>1, <1>2, <1>3, <1>4, <2>1, <2>2, CallerStep
<1>8. CASE DrainEnds(c)
  <2> DEFINE ids == {id \in Ids : id[1] = c}
  <2>1. /\ pc[c] = "draining" /\ pc' = [pc EXCEPT ![c] = "done"] /\ Drop(ids)
        /\ UNCHANGED <<method, tries, fallback, outcome, att, sentOn, resp>>
    BY <1>8 DEF DrainEnds, Goto
  <2>2. ids \in SUBSET Ids
    OBVIOUS
  <2>3. /\ open' \in [Ids -> BOOLEAN] /\ buf' \in [Ids -> 0..Capacity]
        /\ \A id \in Ids : open'[id] => open[id]
        /\ \A id \in Ids : id \notin ids => open'[id] = open[id]
    BY <2>1, <2>2, DropKeeps
  <2>4. \A id \in Ids : id[1] # c => open'[id] = open[id]
    BY <2>3
  <2> HIDE DEF ids
  <2> DEFINE p == "done"
  <2>5. /\ p \in PCs /\ pc' = [pc EXCEPT ![c] = p]
        /\ pc[c] \notin {"write", "cleanup"} /\ p \notin {"write", "cleanup"}
        /\ p = "waiting" => pc[c] = "waiting" /\ method'[c] = method[c]
        /\ p = "insert" => Cardinality(Registered(gen)) < MaxPending
        /\ p \in Opening => lock \in {c, NoCaller} /\ lock' = c
        /\ p \notin Opening => lock' = IF lock = c THEN NoCaller ELSE lock
        /\ p \in Opening \ {"spawn"} => gen # 0
        /\ method'[c] = "stop" \/ p = "streaming" => c \in Dev
        /\ \A id \in Ids : id[1] # c \/ p = "waiting" => open'[id] = open[id]
    BY <1>1, <1>2, <1>4, <2>1, <2>4
  <2>6. /\ method' \in [Callers -> {"main", "stop"}]
        /\ \A b \in Callers : b # c => method'[b] = method[b]
        /\ tries' \in [Callers -> 1..(Retries + 1)]
        /\ fallback' \in [Callers -> BOOLEAN] /\ outcome' \in [Callers -> Outcomes]
        /\ UNCHANGED <<gen, gens, childVars, reader, tableVars, att, sentOn, resp>>
    BY <1>1, <1>3, <1>4, <2>1
  <2> HIDE DEF p
  <2> QED
    BY <2>3, <2>5, <2>6, CallerStep
<1> QED
  BY <1>5, <1>6, <1>7, <1>8


-----------------------------------------------------------------------------
(* open_call from the spawn to the write.                                  *)

\* Who holds the mutex is alone in open_call.
LEMMA Alone ==
    ASSUME IInv, NEW c \in Callers, pc[c] \in Opening
    PROVE  /\ lock = c
           /\ \A b \in Callers : b # c => pc[b] \notin Opening
           /\ pc[c] # "spawn" => gen \in Gens /\ child[gen] # "none"
<1>1. lock = c /\ \A b \in Callers : b # c => pc[b] \notin Opening
  BY DEF IInv, LockStage
<1>2. ASSUME pc[c] # "spawn"
      PROVE  gen \in Gens /\ child[gen] # "none"
  <2>1. gen \in 0..MaxGens /\ gens \in 0..MaxGens /\ gen # 0 /\ gen <= gens /\ MaxGens \in Nat
    BY <1>2, BoundsAssumption DEF IInv, TypeOK, LockStage, SpawnStage
  <2>2. gen \in Gens
    BY <2>1 DEF Gens
  <2> QED
    BY <2>1, <2>2 DEF IInv, SpawnStage
<1> QED
  BY <1>1, <1>2

\* A process is spawned: nothing is known of it yet.
LEMMA SpawnStep ==
    ASSUME IInv, NEW c \in Callers, Spawn(c)
    PROVE  IInv'
<1> DEFINE n == gens + 1
<1>1. /\ pc[c] = "spawn" /\ gens < MaxGens /\ gens' = n /\ gen' = n
      /\ child' = [child EXCEPT ![n] = "alive"]
      /\ reader' = [reader EXCEPT ![n] = "reading"]
      /\ pc' = [pc EXCEPT ![c] = "count"]
      /\ UNCHANGED <<lock, stale, inbox, running, out, eventsLeft, pending, keepAlive,
                     method, tries, fallback, outcome, att, sentOn, open, buf, resp>>
  BY DEF Spawn, Goto, tableVars, chanVars
<1>2. /\ gens \in Nat /\ MaxGens \in Nat /\ n \in Gens /\ n \in 1..MaxGens
      /\ \A g \in Gens : g \in Nat
      /\ child \in [Gens -> {"none", "alive", "exited"}]
      /\ reader \in [Gens -> {"none", "reading", "sending", "hosting", "broken", "ended"}]
      /\ pc \in [Callers -> PCs]
      /\ child[n] = "none"
      /\ gen <= gens /\ gen \in Nat
  <2>1. gens \in 0..MaxGens /\ MaxGens \in Nat /\ gen \in 0..MaxGens
    BY BoundsAssumption DEF IInv, TypeOK
  <2>2. n \in Gens /\ n > gens /\ n \in 1..MaxGens
    BY <1>1, <2>1 DEF Gens
  <2> QED
    BY <2>1, <2>2 DEF IInv, TypeOK, SpawnStage, Gens
<1>3. /\ child'[n] = "alive" /\ \A g \in Gens : g # n => child'[g] = child[g]
      /\ reader'[n] = "reading" /\ \A g \in Gens : g # n => reader'[g] = reader[g]
      /\ pc'[c] = "count" /\ \A b \in Callers : b # c => pc'[b] = pc[b]
  BY <1>1, <1>2
<1>4. "count" \in PCs /\ "count" \in Opening /\ "spawn" \in Opening
  BY DEF PCs, Opening
<1>5. /\ out[n] = <<>> /\ inbox[n] = {} /\ running[n] = {} /\ Registered(n) = {}
      /\ keepAlive[n] = {}
  BY <1>2 DEF IInv, SpawnStage
<1>6. lock = c /\ \A b \in Callers : b # c => pc[b] \notin Opening
  BY <1>1, <1>4, Alone
<1>7. \A g : Registered(g)' = Registered(g)
  BY <1>1 DEF Registered
<1> HIDE DEF n
<1>8. TypeOK'
  <2>1. gen' \in 0..MaxGens /\ gens' \in 0..MaxGens
    BY <1>1, <1>2
  <2>2. /\ child' \in [Gens -> {"none", "alive", "exited"}]
        /\ reader' \in [Gens -> {"none", "reading", "sending", "hosting", "broken", "ended"}]
        /\ pc' \in [Callers -> PCs]
    BY <1>1, <1>2, <1>4
  <2> QED
    BY <1>1, <2>1, <2>2 DEF IInv, TypeOK
<1>9. LockStage'
  <2>1. n # 0
    BY <1>2
  <2> QED
    BY <1>1, <1>3, <1>4, <1>6, <2>1 DEF IInv, LockStage
<1>10. SpawnStage'
  <2> SUFFICES ASSUME NEW g \in Gens
               PROVE  /\ child'[g] = "none" <=> g > gens'
                      /\ reader'[g] = "none" <=> g > gens'
                      /\ child'[g] # "alive" => inbox'[g] = {} /\ running'[g] = {}
                      /\ child'[g] = "none" =>
                            out'[g] = <<>> /\ Registered(g)' = {} /\ keepAlive'[g] = {}
    BY <1>1, <1>2 DEF SpawnStage
  <2>1. CASE g = n
    BY <1>1, <1>2, <1>3, <2>1
  <2>2. CASE g # n
    <3>1. g > gens' <=> g > gens
      BY <1>1, <1>2, <2>2 DEF n
    <3> QED
      BY <1>1, <1>3, <1>7, <2>2, <3>1 DEF IInv, SpawnStage
  <2> QED
    BY <2>1, <2>2
<1>11. ReaderStage'
  BY <1>1, <1>3, <1>5 DEF IInv, ReaderStage, NextMsg
<1>12. TableStage'
  <2>1. PendingBounded'
    BY <1>7 DEF IInv, TableStage, PendingBounded
  <2>2. \A b \in Callers : pc'[b] # "insert"
    BY <1>3, <1>6 DEF Opening
  <2> QED
    BY <2>1, <2>2 DEF TableStage
<1>13. WaitStage'
  <2>1. \A b \in Callers : Id(b)' = Id(b)
    BY <1>1 DEF Id
  <2>2. \A b \in Callers : pc'[b] # "write"
    BY <1>3, <1>6 DEF Opening
  <2>3. \A b \in Callers : pc'[b] = "waiting" => pc[b] = "waiting"
    BY <1>3
  <2> QED
    BY <1>1, <2>1, <2>2, <2>3 DEF IInv, WaitStage
<1>14. KeepStage'
  BY <1>1 DEF IInv, KeepStage, HasReceiver
<1>15. GoneProcessIsEmpty'
  <2>1. \A id \in Ids : pc[id[1]] \notin {"write", "cleanup"}
    BY <1>1, <1>6, IdsOfCallers DEF Opening
  <2>2. \A g \in Gens : Registered(g) \subseteq Ids
    BY DEF Registered
  <2>3. \A g \in Gens : reader'[g] = "ended" => reader[g] = "ended"
    BY <1>3
  <2> QED
    BY <1>7, <2>1, <2>2, <2>3 DEF IInv, GoneProcessIsEmpty
<1>16. OwedStage'
  <2> SUFFICES ASSUME NEW g \in Gens, child'[g] = "alive"
               PROVE  OwedBy(g)'
    BY DEF OwedStage
  <2>1. CASE g = n
    BY <1>1, <1>5, <1>7, <2>1 DEF OwedBy
  <2>2. CASE g # n
    <3>1. OwedBy(g)
      BY <1>3, <2>2 DEF IInv, OwedStage
    <3>2. \A id \in Ids : ~AboutToWrite(g, id)
      BY <1>1, <1>6, IdsOfCallers DEF Opening, AboutToWrite
    <3>3. \A id, kind : /\ Asked(g, id)' <=> Asked(g, id)
                        /\ Written(g, kind, id)' <=> Written(g, kind, id)
      BY <1>1 DEF Asked, Written
    <3>4. Registered(g) \subseteq Ids
      BY DEF Registered
    <3>5. \A i \in 1..Len(out'[g]) :
            out'[g][i].kind = "response" /\ IsLong(out'[g][i]) =>
                \/ out'[g][i].id \in running'[g]
                \/ \E j \in (i + 1)..Len(out'[g]) :
                      out'[g][j].kind = "shutdown" /\ out'[g][j].id = out'[g][i].id
      BY <1>1, <3>1 DEF OwedBy
    <3> QED
      BY <1>1, <1>7, <3>1, <3>2, <3>3, <3>4, <3>5 DEF OwedBy
  <2> QED
    BY <2>1, <2>2
<1>17. ApartStage'
  BY <1>1 DEF IInv, ApartStage
<1> QED
  BY <1>8, <1>9, <1>10, <1>11, <1>12, <1>13, <1>14, <1>15, <1>16, <1>17 DEF IInv


\* The call is registered with the process it will be written to: there was room,
\* and no reader of another process can take it for its own.
LEMMA InsertStep ==
    ASSUME IInv, NEW c \in Callers, Insert(c)
    PROVE  IInv'
<1> DEFINE i == Id(c)
           a == att[i] + 1
<1>1. /\ pc[c] = "insert" /\ pc' = [pc EXCEPT ![c] = "write"]
      /\ pending' = [pending EXCEPT ![gen][i] = a]
      /\ keepAlive' = [keepAlive EXCEPT ![gen] = @ \ {i}]
      /\ att' = [att EXCEPT ![i] = a]
      /\ sentOn' = [sentOn EXCEPT ![i] = gen]
      /\ open' = [open EXCEPT ![i] = TRUE]
      /\ buf' = [buf EXCEPT ![i] = 0]
      /\ resp' = [resp EXCEPT ![i] = NoResp]
      /\ UNCHANGED <<lock, gen, gens, child, stale, inbox, running, out, eventsLeft,
                     reader, method, tries, fallback, outcome>>
  <2>1. att' = [att EXCEPT ![i] = a]
    BY DEF Insert, IInv, TypeOK
  <2> QED
    BY <2>1 DEF Insert, Goto, lockVars, childVars
<1>2. i \in Ids /\ i[1] = c /\ \A b \in Callers : b # c => Id(b) # i /\ Id(b)[1] = b
  BY IdsOfCallers
<1>3. /\ lock = c /\ \A b \in Callers : b # c => pc[b] \notin Opening
      /\ gen \in Gens /\ child[gen] # "none" /\ gen \in 0..MaxGens
  BY <1>1, Alone DEF Opening, IInv, TypeOK
<1>4. {"insert", "write", "cleanup"} \subseteq Opening /\ "write" \in PCs /\ "waiting" \notin Opening
  BY DEF PCs, Opening
<1>5. /\ att \in [Ids -> Nat] /\ pending \in [Gens -> [Ids -> Nat]]
      /\ keepAlive \in [Gens -> SUBSET Ids] /\ sentOn \in [Ids -> 0..MaxGens]
      /\ open \in [Ids -> BOOLEAN] /\ buf \in [Ids -> 0..Capacity]
      /\ resp \in [Ids -> [kind : {"none", "ok", "error", "closed"}, gen : 0..MaxGens]]
      /\ pc \in [Callers -> PCs]
      /\ a \in Nat /\ a # 0 /\ 0 \in 0..Capacity /\ 0 \in 0..MaxGens
  <2>1. att \in [Ids -> Nat]
    BY DEF IInv, TypeOK
  <2>2. a \in Nat /\ a # 0
    BY <1>2, <2>1
  <2> QED
    BY <2>2, BoundsAssumption DEF IInv, TypeOK
<1>6. NoResp \in [kind : {"none", "ok", "error", "closed"}, gen : 0..MaxGens]
  BY <1>5 DEF NoResp
<1>7. /\ \A b \in Callers : Id(b)' = Id(b)
      /\ \A b \in Callers : b # c => pc'[b] = pc[b]
      /\ pc'[c] = "write"
  BY <1>1, <1>5 DEF Id
<1> HIDE DEF i, a
<1>8. /\ \A g \in Gens, id \in Ids : g # gen \/ id # i =>
             pending'[g][id] = pending[g][id]
      /\ pending'[gen][i] = a
      /\ \A g \in Gens : g # gen => keepAlive'[g] = keepAlive[g]
      /\ keepAlive'[gen] = keepAlive[gen] \ {i}
      /\ \A id \in Ids : id # i => /\ att'[id] = att[id] /\ sentOn'[id] = sentOn[id]
                                   /\ open'[id] = open[id] /\ resp'[id] = resp[id]
      /\ att'[i] = a /\ sentOn'[i] = gen /\ open'[i] /\ resp'[i] = NoResp
  BY <1>1, <1>2, <1>3, <1>5
<1>9. /\ \A g \in Gens : g # gen => Registered(g)' = Registered(g)
      /\ \A s : s = gen => Registered(s)' = Registered(s) \cup {i}
  <2>1. \A s \in Gens : Registered(s)' = {id \in Ids : pending'[s][id] # 0}
    BY DEF Registered
  <2>2. \A s \in Gens, id \in Ids : pending'[s][id] # 0 <=>
            (pending[s][id] # 0 \/ (s = gen /\ id = i))
    BY <1>2, <1>3, <1>5, <1>8
  <2>3. \A s \in Gens : s # gen => Registered(s)' = Registered(s)
    BY <2>1, <2>2 DEF Registered
  <2>4. \A s \in Gens : s = gen => Registered(s)' = Registered(s) \cup {i}
    BY <1>2, <2>1, <2>2 DEF Registered
  <2> QED
    BY <1>3, <2>3, <2>4
<1>10. \A g \in Gens, id \in Ids : HasReceiver(g, id)' /\ (g # gen \/ id # i) => HasReceiver(g, id)
  BY <1>8, <1>3 DEF HasReceiver
<1>11. TypeOK'
  <2>1. /\ pending' \in [Gens -> [Ids -> Nat]] /\ keepAlive' \in [Gens -> SUBSET Ids]
        /\ att' \in [Ids -> Nat] /\ sentOn' \in [Ids -> 0..MaxGens]
    BY <1>1, <1>2, <1>3, <1>5
  <2>2. /\ open' \in [Ids -> BOOLEAN] /\ buf' \in [Ids -> 0..Capacity]
        /\ resp' \in [Ids -> [kind : {"none", "ok", "error", "closed"}, gen : 0..MaxGens]]
        /\ pc' \in [Callers -> PCs]
    BY <1>1, <1>2, <1>4, <1>5, <1>6
  <2> QED
    BY <1>1, <2>1, <2>2 DEF IInv, TypeOK
<1>12. LockStage'
  <2> SUFFICES ASSUME NEW b \in Callers
               PROVE  /\ pc'[b] \in Opening <=> lock' = b
                      /\ pc'[b] \in Opening \ {"spawn"} => gen' # 0
                      /\ method'[b] = "stop" \/ pc'[b] = "streaming" => b \in Dev
    BY DEF LockStage
  <2>1. /\ pc[b] \in Opening <=> lock = b
        /\ pc[b] \in Opening \ {"spawn"} => gen # 0
        /\ method[b] = "stop" \/ pc[b] = "streaming" => b \in Dev
    BY DEF IInv, LockStage
  <2>2. CASE b = c
    BY <1>1, <1>3, <1>4, <1>7, <2>1, <2>2
  <2>3. CASE b # c
    BY <1>1, <1>7, <2>1, <2>3
  <2> QED
    BY <2>2, <2>3
<1>13. SpawnStage' /\ ReaderStage'
  <2>1. \A g \in Gens : child[g] = "none" => Registered(g)' = Registered(g) /\ keepAlive'[g] = keepAlive[g]
    BY <1>3, <1>8, <1>9
  <2> QED
    BY <1>1, <2>1 DEF IInv, SpawnStage, ReaderStage, NextMsg
<1>14. TableStage'
  <2>1. Cardinality(Registered(gen)) < MaxPending
    BY <1>1 DEF IInv, TableStage
  <2>2. /\ IsFiniteSet(Registered(gen)) /\ Cardinality(Registered(gen)) \in Nat
    <3>1. Registered(gen) \subseteq Ids
      BY DEF Registered
    <3> QED
      BY <3>1, IdsOfCallers, FS_Subset, FS_CardinalityType
  <2>3. Cardinality(Registered(gen) \cup {i}) <= MaxPending
    <3>1. \/ Cardinality(Registered(gen) \cup {i}) = Cardinality(Registered(gen))
          \/ Cardinality(Registered(gen) \cup {i}) = Cardinality(Registered(gen)) + 1
      BY <2>2, FS_AddElement
    <3> QED
      BY <2>1, <2>2, <3>1, BoundsAssumption
  <2>4. PendingBounded'
    BY <1>9, <2>3 DEF IInv, TableStage, PendingBounded
  <2>5. \A b \in Callers : pc'[b] # "insert"
    BY <1>3, <1>4, <1>7
  <2> QED
    BY <2>4, <2>5 DEF TableStage
<1>15. WaitStage'
  <2> SUFFICES ASSUME NEW b \in Callers, pc'[b] \in {"write", "waiting"}
               PROVE  /\ open'[Id(b)] /\ sentOn'[Id(b)] \in Gens
                      /\ pc'[b] = "write" => sentOn'[Id(b)] = gen'
                      /\ \/ resp'[Id(b)].kind # "none"
                         \/ pending'[sentOn'[Id(b)]][Id(b)] = att'[Id(b)]
    BY <1>7 DEF WaitStage
  <2>1. CASE b = c
    BY <1>1, <1>3, <1>8, <2>1 DEF i
  <2>2. CASE b # c
    <3>1. /\ pc[b] = "waiting" /\ Id(b) \in Ids /\ Id(b) # i
      BY <1>2, <1>3, <1>4, <1>7, <2>2, IdsOfCallers
    <3>2. /\ open[Id(b)] /\ sentOn[Id(b)] \in Gens
          /\ \/ resp[Id(b)].kind # "none"
             \/ pending[sentOn[Id(b)]][Id(b)] = att[Id(b)]
      BY <3>1 DEF IInv, WaitStage
    <3>3. pc'[b] # "write"
      BY <1>7, <2>2, <3>1
    <3> QED
      BY <1>8, <3>1, <3>2, <3>3
  <2> QED
    BY <2>1, <2>2
<1>16. KeepStage'
  <2> SUFFICES ASSUME NEW g \in Gens, NEW id \in keepAlive'[g]
               PROVE  /\ id \in Dev \X {"main"} /\ pending'[g][id] # 0
                      /\ HasReceiver(g, id)' => resp'[id].kind # "none"
    BY DEF KeepStage
  <2>1. id \in keepAlive[g] /\ id \in Ids /\ (g # gen \/ id # i)
    BY <1>5, <1>8
  <2>2. /\ id \in Dev \X {"main"} /\ pending[g][id] # 0
        /\ HasReceiver(g, id) => resp[id].kind # "none"
    BY <2>1 DEF IInv, KeepStage
  <2>3. CASE id # i
    BY <1>8, <1>10, <2>1, <2>2, <2>3
  <2>4. CASE id = i
    <3>1. ~HasReceiver(g, id)'
      BY <1>8, <2>1, <2>4 DEF HasReceiver
    <3> QED
      BY <1>8, <2>1, <2>2, <2>4, <3>1
  <2> QED
    BY <2>3, <2>4
<1>17. \A id \in Ids : pc[id[1]] \notin {"write", "cleanup"}
  BY <1>1, <1>3, <1>4, IdsOfCallers
<1>18. GoneProcessIsEmpty'
  <2> SUFFICES ASSUME NEW g \in Gens, reader'[g] = "ended", NEW id \in Registered(g)'
               PROVE  g = gen' /\ pc'[id[1]] \in {"write", "cleanup"} /\ Id(id[1])' = id
    BY DEF GoneProcessIsEmpty
  <2>1. id \notin Registered(g)
    <3>1. Registered(g) \subseteq Ids
      BY DEF Registered
    <3> QED
      BY <1>1, <1>17, <3>1 DEF IInv, GoneProcessIsEmpty
  <2>2. g = gen /\ id = i
    BY <1>9, <2>1
  <2> QED
    BY <1>1, <1>2, <1>7, <2>2 DEF i
<1>19. OwedStage'
  <2> SUFFICES ASSUME NEW g \in Gens, child'[g] = "alive"
               PROVE  OwedBy(g)'
    BY DEF OwedStage
  <2>1. OwedBy(g)
    BY <1>1 DEF IInv, OwedStage
  <2>2. \A id, kind : /\ Asked(g, id)' <=> Asked(g, id)
                      /\ Written(g, kind, id)' <=> Written(g, kind, id)
    BY <1>1 DEF Asked, Written
  <2>3. keepAlive'[g] \subseteq keepAlive[g]
    BY <1>8
  <2>4. ASSUME NEW id \in Registered(g)' \ keepAlive'[g]
        PROVE  AboutToWrite(g, id)' \/ Asked(g, id)' \/ Written(g, "response", id)'
    <3>1. CASE g = gen /\ id = i
      BY <1>1, <1>2, <1>7, <3>1 DEF AboutToWrite, i
    <3>2. CASE ~(g = gen /\ id = i)
      <4>1. id \in Registered(g) \ keepAlive[g]
        BY <1>8, <1>9, <2>4, <3>2
      <4>2. id \in Ids
        BY <4>1 DEF Registered
      <4> QED
        BY <1>17, <2>1, <2>2, <4>1, <4>2 DEF OwedBy, AboutToWrite
    <3> QED
      BY <3>1, <3>2
  <2>5. \A id \in keepAlive'[g] : id \in running'[g] \/ Written(g, "shutdown", id)'
    BY <1>1, <2>1, <2>2, <2>3 DEF OwedBy
  <2>6. \A k \in 1..Len(out'[g]) :
            out'[g][k].kind = "response" /\ IsLong(out'[g][k]) =>
                \/ out'[g][k].id \in running'[g]
                \/ \E j \in (k + 1)..Len(out'[g]) :
                      out'[g][j].kind = "shutdown" /\ out'[g][j].id = out'[g][k].id
    BY <1>1, <2>1 DEF OwedBy
  <2> QED
    BY <2>4, <2>5, <2>6 DEF OwedBy
<1>20. ApartStage'
  <2>1. NoResp.kind = "none"
    BY DEF NoResp
  <2> QED
    BY <1>8, <2>1 DEF IInv, ApartStage
<1> QED
  BY <1>11, <1>12, <1>13, <1>14, <1>15, <1>16, <1>18, <1>19, <1>20 DEF IInv


\* The request is written, or the caller finds out that the process is gone.
LEMMA WriteStep ==
    ASSUME IInv, NEW c \in Callers, Write(c)
    PROVE  IInv'
<1>1. /\ pc[c] = "write"
      /\ \/ /\ child[gen] = "alive"
            /\ inbox' = [inbox EXCEPT ![gen] = @ \cup {Request(Id(c), att[Id(c)])}]
            /\ lock' = NoCaller
            /\ pc' = [pc EXCEPT ![c] = "waiting"]
         \/ /\ child[gen] # "alive"
            /\ pc' = [pc EXCEPT ![c] = "cleanup"]
            /\ UNCHANGED <<inbox, lock>>
      /\ UNCHANGED <<gen, gens, child, stale, running, out, eventsLeft, reader, pending,
                     keepAlive, method, tries, fallback, outcome, att, sentOn, open, buf,
                     resp>>
  BY DEF Write, Goto, tableVars, chanVars
<1>2. /\ lock = c /\ \A b \in Callers : b # c => pc[b] \notin Opening
      /\ gen \in Gens /\ NoCaller \notin Callers
  BY <1>1, Alone, CallersAssumption DEF Opening
<1>3. /\ {"write", "cleanup"} \subseteq Opening /\ "cleanup" \in PCs /\ "waiting" \in PCs
      /\ "waiting" \notin Opening /\ "insert" \in Opening
  BY DEF PCs, Opening
<1>4. /\ Id(c) \in Ids /\ Id(c)[1] = c
      /\ \A b \in Callers : Id(b)' = Id(b)
      /\ \A id \in Ids : id[1] \in Callers
  BY <1>1, IdsOfCallers DEF Id
<1>5. /\ pc \in [Callers -> PCs] /\ pc' \in [Callers -> PCs]
      /\ pc'[c] = IF child[gen] = "alive" THEN "waiting" ELSE "cleanup"
      /\ \A b \in Callers : b # c => pc'[b] = pc[b]
  BY ZenonT(40), <1>1, <1>3 DEF IInv, TypeOK
<1>6. /\ inbox' \in [Gens -> SUBSET [id : Ids, att : Nat]]
      /\ \A g \in Gens : inbox[g] \subseteq inbox'[g]
      /\ \A g \in Gens : child[g] # "alive" => inbox'[g] = inbox[g]
      /\ child[gen] = "alive" => \E r \in inbox'[gen] : r.id = Id(c)
  <2>1. /\ inbox \in [Gens -> SUBSET [id : Ids, att : Nat]] /\ att \in [Ids -> Nat]
        /\ Request(Id(c), att[Id(c)]) \in [id : Ids, att : Nat]
        /\ Request(Id(c), att[Id(c)]).id = Id(c)
    BY <1>4 DEF IInv, TypeOK, Request
  <2> QED
    BY <1>1, <1>2, <2>1
<1>7. \A g : Registered(g)' = Registered(g) /\ \A id : HasReceiver(g, id)' <=> HasReceiver(g, id)
  BY <1>1 DEF Registered, HasReceiver
<1>8. lock' = IF child[gen] = "alive" THEN NoCaller ELSE c
  BY <1>1, <1>2
<1>9. TypeOK'
  <2>1. lock' \in Callers \cup {NoCaller}
    BY <1>8
  <2> QED
    BY <1>1, <1>5, <1>6, <2>1 DEF IInv, TypeOK
<1>10. LockStage'
  <2> SUFFICES ASSUME NEW b \in Callers
               PROVE  /\ pc'[b] \in Opening <=> lock' = b
                      /\ pc'[b] \in Opening \ {"spawn"} => gen' # 0
                      /\ method'[b] = "stop" \/ pc'[b] = "streaming" => b \in Dev
    BY DEF LockStage
  <2>1. /\ pc[b] \in Opening \ {"spawn"} => gen # 0
        /\ method[b] = "stop" \/ pc[b] = "streaming" => b \in Dev
    BY DEF IInv, LockStage
  <2>2. CASE b = c
    <3>1. gen # 0
      BY <1>1, <1>3, <2>1, <2>2
    <3> QED
      BY <1>1, <1>2, <1>3, <1>5, <1>8, <2>1, <2>2, <3>1
  <2>3. CASE b # c
    BY <1>1, <1>2, <1>5, <1>8, <2>1, <2>3
  <2> QED
    BY <2>2, <2>3
<1>11. SpawnStage' /\ ReaderStage'
  BY <1>1, <1>6, <1>7 DEF IInv, SpawnStage, ReaderStage, NextMsg
<1>12. TableStage'
  <2>1. PendingBounded'
    BY <1>7 DEF IInv, TableStage, PendingBounded
  <2>2. \A b \in Callers : pc'[b] # "insert"
    BY <1>2, <1>3, <1>5
  <2> QED
    BY <2>1, <2>2 DEF TableStage
<1>13. WaitStage'
  <2>1. \A b \in Callers : pc'[b] \in {"write", "waiting"} =>
            pc[b] \in {"write", "waiting"} /\ (pc'[b] = "write" => pc[b] = "write")
    BY <1>1, <1>5
  <2> QED
    BY <1>1, <1>4, <2>1 DEF IInv, WaitStage
<1>14. KeepStage' /\ ApartStage'
  BY <1>1, <1>7 DEF IInv, KeepStage, ApartStage
<1>15. GoneProcessIsEmpty'
  <2> SUFFICES ASSUME NEW g \in Gens, reader'[g] = "ended", NEW id \in Registered(g)'
               PROVE  g = gen' /\ pc'[id[1]] \in {"write", "cleanup"} /\ Id(id[1])' = id
    BY DEF GoneProcessIsEmpty
  <2>1. id \in Registered(g) /\ id \in Ids /\ reader[g] = "ended"
    BY <1>1, <1>7 DEF Registered
  <2>2. g = gen /\ pc[id[1]] \in {"write", "cleanup"} /\ Id(id[1]) = id
    BY <2>1 DEF IInv, GoneProcessIsEmpty
  <2>3. child[g] = "exited"
    BY <2>1 DEF IInv, ReaderStage
  <2>4. id[1] = c
    BY <1>2, <1>3, <1>4, <2>1, <2>2
  <2> QED
    BY <1>1, <1>4, <1>5, <2>2, <2>3, <2>4
<1>16. OwedStage'
  <2> SUFFICES ASSUME NEW g \in Gens, child'[g] = "alive"
               PROVE  OwedBy(g)'
    BY DEF OwedStage
  <2>1. OwedBy(g)
    BY <1>1 DEF IInv, OwedStage
  <2>2. \A id, kind : /\ Asked(g, id) => Asked(g, id)'
                      /\ Written(g, kind, id)' <=> Written(g, kind, id)
    BY <1>1, <1>6 DEF Asked, Written
  <2>3. \A id \in Ids : AboutToWrite(g, id) => Asked(g, id)'
    <3> SUFFICES ASSUME NEW id \in Ids, AboutToWrite(g, id)
                 PROVE  Asked(g, id)'
      OBVIOUS
    <3>1. pc[id[1]] = "write" /\ Id(id[1]) = id /\ g = gen
      BY DEF AboutToWrite
    <3>2. id[1] = c
      BY <1>2, <1>3, <1>4, <3>1
    <3> QED
      BY <1>1, <1>6, <3>1, <3>2 DEF Asked
  <2>4. Registered(g) \subseteq Ids
    BY DEF Registered
  <2>5. \A k \in 1..Len(out'[g]) :
            out'[g][k].kind = "response" /\ IsLong(out'[g][k]) =>
                \/ out'[g][k].id \in running'[g]
                \/ \E j \in (k + 1)..Len(out'[g]) :
                      out'[g][j].kind = "shutdown" /\ out'[g][j].id = out'[g][k].id
    BY <1>1, <2>1 DEF OwedBy
  <2> QED
    BY <1>1, <1>7, <2>1, <2>2, <2>3, <2>4, <2>5 DEF OwedBy
<1> QED
  BY <1>9, <1>10, <1>11, <1>12, <1>13, <1>14, <1>15, <1>16 DEF IInv

\* A request that could not be written is taken out of the table again.
LEMMA CleanupStep ==
    ASSUME IInv, NEW c \in Callers, Cleanup(c)
    PROVE  IInv'
<1> DEFINE i == Id(c)
<1>1. /\ pc[c] = "cleanup" /\ FallBack(c) /\ lock' = NoCaller
      /\ pending' = [pending EXCEPT ![gen][i] = 0]
      /\ keepAlive' = [keepAlive EXCEPT ![gen] = @ \ {i}]
      /\ UNCHANGED <<gen, gens, child, stale, inbox, running, out, eventsLeft, reader>>
  BY DEF Cleanup, FailOpen, RemoveEntry, childVars
<1>2. "mock" \in Outcomes /\ {"open", "take", "draining", "streaming", "done"} \subseteq PCs
      /\ {"open", "take", "draining", "streaming", "done"} \cap Opening = {}
      /\ {"write", "cleanup", "insert"} \subseteq Opening
      /\ "waiting" \notin Opening
  BY DEF Outcomes, PCs, Opening
<1>3. /\ UNCHANGED <<method, att, sentOn, resp>>
      /\ tries' \in [Callers -> 1..(Retries + 1)]
      /\ fallback' \in [Callers -> BOOLEAN]
      /\ outcome' \in [Callers -> Outcomes]
      /\ open' \in [Ids -> BOOLEAN] /\ buf' \in [Ids -> 0..Capacity]
      /\ \A id \in Ids : open'[id] => open[id]
      /\ \A id \in Ids : id[1] # c => open'[id] = open[id]
  BY <1>1, <1>2, RequestEnds
<1>4. PICK p \in {"open", "take", "draining", "streaming", "done"} :
          pc' = [pc EXCEPT ![c] = p] /\ (p = "streaming" => c \in Dev)
  BY <1>1, <1>2, RequestEnds
<1>5. /\ lock = c /\ \A b \in Callers : b # c => pc[b] \notin Opening
      /\ gen \in Gens /\ child[gen] # "none" /\ NoCaller \notin Callers
  BY <1>1, Alone, CallersAssumption DEF Opening
<1>6. /\ i \in Ids /\ i[1] = c
      /\ \A b \in Callers : Id(b)' = Id(b) /\ Id(b) \in Ids /\ Id(b)[1] = b
      /\ \A id \in Ids : id[1] \in Callers
  BY <1>3, IdsOfCallers DEF Id
<1> HIDE DEF i
<1>7. /\ pc \in [Callers -> PCs] /\ pc' \in [Callers -> PCs]
      /\ pc'[c] = p /\ \A b \in Callers : b # c => pc'[b] = pc[b]
      /\ p \notin Opening /\ p # "waiting"
  <2>1. p \in PCs /\ p \notin Opening /\ p # "waiting"
    BY <1>2, <1>4
  <2>2. pc \in [Callers -> PCs]
    BY DEF IInv, TypeOK
  <2> QED
    BY <1>4, <2>1, <2>2
<1>8. /\ pending \in [Gens -> [Ids -> Nat]] /\ keepAlive \in [Gens -> SUBSET Ids]
      /\ pending' \in [Gens -> [Ids -> Nat]] /\ keepAlive' \in [Gens -> SUBSET Ids]
      /\ \A g \in Gens, id \in Ids :
            pending'[g][id] = IF g = gen /\ id = i THEN 0 ELSE pending[g][id]
      /\ \A g \in Gens : keepAlive'[g] = IF g = gen THEN keepAlive[g] \ {i} ELSE keepAlive[g]
  <2>1. pending \in [Gens -> [Ids -> Nat]] /\ keepAlive \in [Gens -> SUBSET Ids]
    BY DEF IInv, TypeOK
  <2> QED
    BY <1>1, <1>5, <1>6, <2>1
<1>9. \A g \in Gens : /\ Registered(g)' \subseteq Registered(g)
                      /\ g = gen => i \notin Registered(g)'
                      /\ keepAlive'[g] \subseteq keepAlive[g] /\ Registered(g) \subseteq Ids
                      /\ Registered(g)' \ keepAlive'[g] \subseteq Registered(g) \ keepAlive[g]
  <2>1. \A g \in Gens : Registered(g)' = {id \in Ids : pending'[g][id] # 0}
    BY DEF Registered
  <2> QED
    BY <1>8, <2>1 DEF Registered
<1>10. TypeOK'
  BY <1>1, <1>3, <1>7, <1>8 DEF IInv, TypeOK
<1>11. LockStage'
  <2> SUFFICES ASSUME NEW b \in Callers
               PROVE  /\ pc'[b] \in Opening <=> lock' = b
                      /\ pc'[b] \in Opening \ {"spawn"} => gen' # 0
                      /\ method'[b] = "stop" \/ pc'[b] = "streaming" => b \in Dev
    BY DEF LockStage
  <2>1. method[b] = "stop" \/ pc[b] = "streaming" => b \in Dev
    BY DEF IInv, LockStage
  <2>2. pc'[b] \notin Opening /\ lock' # b
    BY <1>1, <1>5, <1>7
  <2> QED
    BY <1>3, <1>4, <1>7, <2>1, <2>2
<1>12. SpawnStage' /\ ReaderStage'
  <2>1. \A g \in Gens : child[g] = "none" => Registered(g)' = {} /\ keepAlive'[g] = {}
    BY <1>9 DEF IInv, SpawnStage
  <2> QED
    BY <1>1, <2>1 DEF IInv, SpawnStage, ReaderStage, NextMsg
<1>13. TableStage'
  <2>1. \A g \in Gens : Cardinality(Registered(g)') <= Cardinality(Registered(g))
                        /\ Cardinality(Registered(g)') \in Nat
                        /\ Cardinality(Registered(g)) \in Nat
    BY <1>9, IdsOfCallers, FS_Subset, FS_CardinalityType
  <2>2. PendingBounded'
    BY <2>1, BoundsAssumption DEF IInv, TableStage, PendingBounded
  <2>3. \A b \in Callers : pc'[b] # "insert"
    BY <1>2, <1>5, <1>7
  <2> QED
    BY <2>2, <2>3 DEF TableStage
<1>14. WaitStage'
  <2> SUFFICES ASSUME NEW b \in Callers, pc'[b] \in {"write", "waiting"}
               PROVE  /\ open'[Id(b)] /\ sentOn'[Id(b)] \in Gens
                      /\ pc'[b] = "write" => sentOn'[Id(b)] = gen'
                      /\ \/ resp'[Id(b)].kind # "none"
                         \/ pending'[sentOn'[Id(b)]][Id(b)] = att'[Id(b)]
    BY <1>6 DEF WaitStage
  <2>1. b # c /\ pc[b] = "waiting" /\ pc'[b] = "waiting"
    BY <1>2, <1>5, <1>7
  <2>2. /\ open[Id(b)] /\ sentOn[Id(b)] \in Gens
        /\ \/ resp[Id(b)].kind # "none"
           \/ pending[sentOn[Id(b)]][Id(b)] = att[Id(b)]
    BY <2>1 DEF IInv, WaitStage
  <2>3. Id(b) # i /\ Id(b) \in Ids /\ open'[Id(b)] = open[Id(b)]
    BY <1>3, <1>6, <2>1
  <2> QED
    BY <1>3, <1>8, <2>1, <2>2, <2>3
<1>15. KeepStage'
  <2> SUFFICES ASSUME NEW g \in Gens, NEW id \in keepAlive'[g]
               PROVE  /\ id \in Dev \X {"main"} /\ pending'[g][id] # 0
                      /\ HasReceiver(g, id)' => resp'[id].kind # "none"
    BY DEF KeepStage
  <2>1. id \in keepAlive[g] /\ id \in Ids /\ pending'[g][id] = pending[g][id]
    BY <1>8
  <2>2. HasReceiver(g, id)' => HasReceiver(g, id)
    BY <1>3, <2>1 DEF HasReceiver
  <2> QED
    BY <1>3, <2>1, <2>2 DEF IInv, KeepStage
<1>16. \A g \in Gens : \A id \in Registered(g)' :
           pc[id[1]] \in {"write", "cleanup"} /\ Id(id[1]) = id => g # gen
  <2>1. \A id \in Ids : pc[id[1]] \in {"write", "cleanup"} => id[1] = c
    BY <1>2, <1>5, <1>6
  <2> QED
    BY <1>9, <2>1 DEF i
<1>17. GoneProcessIsEmpty'
  BY <1>1, <1>9, <1>16 DEF IInv, GoneProcessIsEmpty
<1>18. OwedStage'
  <2> SUFFICES ASSUME NEW g \in Gens, child'[g] = "alive"
               PROVE  OwedBy(g)'
    BY DEF OwedStage
  <2>1. OwedBy(g)
    BY <1>1 DEF IInv, OwedStage
  <2>2. \A id, kind : /\ Asked(g, id)' <=> Asked(g, id)
                      /\ Written(g, kind, id)' <=> Written(g, kind, id)
    BY <1>1 DEF Asked, Written
  <2>3. \A id \in Registered(g)' : ~AboutToWrite(g, id)
    BY <1>16 DEF AboutToWrite
  <2>4. \A k \in 1..Len(out'[g]) :
            out'[g][k].kind = "response" /\ IsLong(out'[g][k]) =>
                \/ out'[g][k].id \in running'[g]
                \/ \E j \in (k + 1)..Len(out'[g]) :
                      out'[g][j].kind = "shutdown" /\ out'[g][j].id = out'[g][k].id
    BY <1>1, <2>1 DEF OwedBy
  <2> QED
    BY <1>1, <1>9, <2>1, <2>2, <2>3, <2>4 DEF OwedBy
<1>19. ApartStage'
  BY <1>3 DEF IInv, ApartStage
<1> QED
  BY <1>10, <1>11, <1>12, <1>13, <1>14, <1>15, <1>17, <1>18, <1>19 DEF IInv


-----------------------------------------------------------------------------
(* The steps of a process.                                                 *)

\* What a process does to itself: only what is owed by it is in question.
LEMMA ChildStep ==
    ASSUME IInv, NEW g \in Gens, child[g] = "alive",
           UNCHANGED <<lockVars, reader, tableVars, callerVars, chanVars>>,
           child' \in [Gens -> {"none", "alive", "exited"}],
           stale' \in [Gens -> BOOLEAN],
           inbox' \in [Gens -> SUBSET [id : Ids, att : Nat]],
           running' \in [Gens -> SUBSET Ids],
           out' \in [Gens -> Seq(Msgs)],
           eventsLeft' \in 0..MaxEvents,
           \A h \in Gens : h # g => /\ child'[h] = child[h] /\ out'[h] = out[h]
                                    /\ inbox'[h] = inbox[h] /\ running'[h] = running[h],
           child'[g] # "none",
           child'[g] # "alive" => inbox'[g] = {} /\ running'[g] = {},
           out[g] # <<>> => out'[g] # <<>> /\ Head(out'[g]) = Head(out[g]),
           reader[g] = "ended" => child'[g] = "exited",
           child'[g] = "alive" => OwedBy(g)'
    PROVE  IInv'
<1>1. UNCHANGED <<lock, gen, gens, reader, pending, keepAlive, pc, method, tries, fallback,
                  outcome, att, sentOn, open, buf, resp>>
  BY DEF lockVars, tableVars, callerVars, chanVars
<1>2. /\ \A h : /\ Registered(h)' = Registered(h)
                /\ \A id : /\ HasReceiver(h, id)' <=> HasReceiver(h, id)
                           /\ AboutToWrite(h, id)' <=> AboutToWrite(h, id)
      /\ \A b : Id(b)' = Id(b)
  BY <1>1 DEF Registered, HasReceiver, AboutToWrite, Id
<1>3. TypeOK'
  BY <1>1 DEF IInv, TypeOK
<1>4. LockStage' /\ WaitStage' /\ KeepStage' /\ GoneProcessIsEmpty' /\ ApartStage'
  BY <1>1, <1>2 DEF IInv, LockStage, WaitStage, KeepStage, GoneProcessIsEmpty, ApartStage
<1>5. TableStage'
  BY <1>1, <1>2 DEF IInv, TableStage, PendingBounded
<1>6. SpawnStage'
  <2>1. \A h \in Gens : child'[h] = "none" => h # g /\ child[h] = "none" /\ out'[h] = out[h]
    OBVIOUS
  <2>2. \A h \in Gens : child'[h] = "none" <=> child[h] = "none"
    OBVIOUS
  <2>3. \A h \in Gens : child'[h] # "alive" => inbox'[h] = {} /\ running'[h] = {}
    BY DEF IInv, SpawnStage
  <2>4. gen' <= gens' /\ \A h \in Gens : (child'[h] = "none" <=> h > gens')
    BY <1>1, <2>2 DEF IInv, SpawnStage
  <2>5. \A h \in Gens : (reader'[h] = "none" <=> h > gens')
    BY <1>1 DEF IInv, SpawnStage
  <2>6. \A h \in Gens : child'[h] = "none" =>
            out'[h] = <<>> /\ Registered(h)' = {} /\ keepAlive'[h] = {}
    BY <1>1, <1>2, <2>1 DEF IInv, SpawnStage
  <2> QED
    BY Zenon, <2>3, <2>4, <2>5, <2>6 DEF SpawnStage
<1>7. ReaderStage'
  BY <1>1 DEF IInv, ReaderStage, NextMsg
<1>8. OwedStage'
  <2> SUFFICES ASSUME NEW h \in Gens, h # g, child'[h] = "alive"
               PROVE  OwedBy(h)'
    BY DEF OwedStage
  <2>1. OwedBy(h)
    BY DEF IInv, OwedStage
  <2>2. \A id, kind : /\ Asked(h, id)' <=> Asked(h, id)
                      /\ Written(h, kind, id)' <=> Written(h, kind, id)
    BY DEF Asked, Written
  <2>3. \A k \in 1..Len(out'[h]) :
            out'[h][k].kind = "response" /\ IsLong(out'[h][k]) =>
                \/ out'[h][k].id \in running'[h]
                \/ \E j \in (k + 1)..Len(out'[h]) :
                      out'[h][j].kind = "shutdown" /\ out'[h][j].id = out'[h][k].id
    <3>1. out'[h] = out[h] /\ running'[h] = running[h]
      OBVIOUS
    <3>2. \A k \in 1..Len(out[h]) :
              out[h][k].kind = "response" /\ IsLong(out[h][k]) =>
                  \/ out[h][k].id \in running[h]
                  \/ \E j \in (k + 1)..Len(out[h]) :
                        out[h][j].kind = "shutdown" /\ out[h][j].id = out[h][k].id
      BY <2>1 DEF OwedBy
    <3> QED
      BY <3>1, <3>2
  <2> QED
    BY <1>1, <1>2, <2>1, <2>2, <2>3 DEF OwedBy
<1> QED
  BY <1>3, <1>4, <1>5, <1>6, <1>7, <1>8 DEF IInv

\* What is owed by a process when it has said more: who is no longer asked for has
\* its response now, and whose compiler no longer runs has its event.shutdown.
LEMMA SayOwes ==
    ASSUME IInv, NEW g \in Gens, child[g] = "alive", NEW msgs \in Seq(Msgs),
           out'[g] = out[g] \o msgs,
           UNCHANGED <<lockVars, tableVars, callerVars>>,
           \A id : Asked(g, id) =>
               \/ Asked(g, id)'
               \/ \E i \in 1..Len(msgs) : msgs[i].kind = "response" /\ msgs[i].id = id,
           \A id \in running[g] :
               \/ id \in running'[g]
               \/ \E i \in 1..Len(msgs) : msgs[i].kind = "shutdown" /\ msgs[i].id = id,
           \A i \in 1..Len(msgs) :
               msgs[i].kind = "response" /\ IsLong(msgs[i]) => msgs[i].id \in running'[g]
    PROVE  OwedBy(g)'
<1> DEFINE old == out[g]
           new == out'[g]
<1>1. /\ old \in Seq(Msgs) /\ Len(old) \in Nat /\ Len(msgs) \in Nat
      /\ new = old \o msgs /\ Len(new) = Len(old) + Len(msgs)
      /\ \A i \in 1..Len(old) : i \in 1..Len(new) /\ new[i] = old[i]
      /\ \A i \in 1..Len(msgs) : /\ Len(old) + i \in (Len(old) + 1)..Len(new)
                                 /\ new[Len(old) + i] = msgs[i]
      /\ \A i \in (Len(old) + 1)..Len(new) : /\ i - Len(old) \in 1..Len(msgs)
                                             /\ new[i] = msgs[i - Len(old)]
  <2>1. old \in Seq(Msgs) /\ new = old \o msgs
    BY DEF IInv, TypeOK
  <2> HIDE DEF old, new
  <2>2. /\ Len(old) \in Nat /\ Len(msgs) \in Nat
        /\ Len(old \o msgs) = Len(old) + Len(msgs)
        /\ \A i \in 1..(Len(old) + Len(msgs)) :
              (old \o msgs)[i] = IF i <= Len(old) THEN old[i] ELSE msgs[i - Len(old)]
    BY <2>1, ConcatProperties, LenProperties
  <2> QED
    BY <2>1, <2>2
<1>2. OwedBy(g) /\ UNCHANGED <<pending, keepAlive, pc, method, gen>>
  BY DEF IInv, OwedStage, lockVars, tableVars, callerVars
<1>3. /\ Registered(g)' = Registered(g)
      /\ \A id : AboutToWrite(g, id)' <=> AboutToWrite(g, id)
  BY <1>2 DEF Registered, AboutToWrite, Id
<1>4. \A id, kind : /\ Written(g, kind, id)' <=> \E i \in 1..Len(new) : new[i].kind = kind /\ new[i].id = id
                    /\ Written(g, kind, id) <=> \E i \in 1..Len(old) : old[i].kind = kind /\ old[i].id = id
  BY DEF Written
<1>5. \A i \in 1..Len(old) :
          old[i].kind = "response" /\ IsLong(old[i]) =>
              \/ old[i].id \in running[g]
              \/ \E j \in (i + 1)..Len(old) : old[j].kind = "shutdown" /\ old[j].id = old[i].id
  BY <1>2 DEF OwedBy
<1> HIDE DEF old, new
<1>7. \A id, kind : /\ Written(g, kind, id) => Written(g, kind, id)'
                    /\ (\E i \in 1..Len(msgs) : msgs[i].kind = kind /\ msgs[i].id = id)
                          => Written(g, kind, id)'
  <2> SUFFICES ASSUME NEW id, NEW kind
               PROVE  /\ Written(g, kind, id) => Written(g, kind, id)'
                      /\ (\E i \in 1..Len(msgs) : msgs[i].kind = kind /\ msgs[i].id = id)
                            => Written(g, kind, id)'
    OBVIOUS
  <2>1. ASSUME Written(g, kind, id)
        PROVE  Written(g, kind, id)'
    <3>1. PICK i \in 1..Len(old) : old[i].kind = kind /\ old[i].id = id
      BY <1>4, <2>1
    <3>2. i \in 1..Len(new) /\ new[i].kind = kind /\ new[i].id = id
      BY <1>1, <3>1
    <3> QED
      BY <1>4, <3>2
  <2>2. ASSUME NEW i \in 1..Len(msgs), msgs[i].kind = kind, msgs[i].id = id
        PROVE  Written(g, kind, id)'
    <3>1. Len(old) + i \in 1..Len(new) /\ new[Len(old) + i] = msgs[i]
      BY <1>1
    <3> QED
      BY <1>4, <2>2, <3>1
  <2> QED
    BY <2>1, <2>2
<1>8. ASSUME NEW i \in 1..Len(new), new[i].kind = "response", IsLong(new[i])
      PROVE  \/ new[i].id \in running'[g]
             \/ \E j \in (i + 1)..Len(new) : new[j].kind = "shutdown" /\ new[j].id = new[i].id
  <2>1. CASE i \in 1..Len(old)
    <3>1. new[i] = old[i]
      BY <1>1, <2>1
    <3>2. CASE \E j \in (i + 1)..Len(old) : old[j].kind = "shutdown" /\ old[j].id = old[i].id
      <4>1. PICK j \in (i + 1)..Len(old) : old[j].kind = "shutdown" /\ old[j].id = old[i].id
        BY <3>2
      <4>2. j \in 1..Len(old) /\ j \in (i + 1)..Len(new)
        BY <1>1, <2>1
      <4> QED
        BY <1>1, <3>1, <4>1, <4>2
    <3>3. CASE old[i].id \in running[g] /\ old[i].id \notin running'[g]
      <4>1. PICK k \in 1..Len(msgs) : msgs[k].kind = "shutdown" /\ msgs[k].id = old[i].id
        BY <3>3
      <4>2. Len(old) + k \in (i + 1)..Len(new) /\ new[Len(old) + k] = msgs[k]
        BY <1>1, <2>1
      <4> QED
        BY <3>1, <4>1, <4>2
    <3> QED
      BY <1>5, <1>8, <2>1, <3>1, <3>2, <3>3
  <2>2. CASE i \notin 1..Len(old)
    <3>1. i \in (Len(old) + 1)..Len(new)
      BY <1>1, <2>2
    <3>2. i - Len(old) \in 1..Len(msgs) /\ new[i] = msgs[i - Len(old)]
      BY <1>1, <3>1
    <3> QED
      BY <1>8, <3>2
  <2> QED
    BY <2>1, <2>2
<1>9. \A id \in Registered(g)' \ keepAlive'[g] :
          AboutToWrite(g, id)' \/ Asked(g, id)' \/ Written(g, "response", id)'
  BY <1>2, <1>3, <1>7 DEF OwedBy
<1>10. \A id \in keepAlive'[g] : id \in running'[g] \/ Written(g, "shutdown", id)'
  BY <1>2, <1>7 DEF OwedBy
<1> QED
  BY <1>8, <1>9, <1>10 DEF OwedBy, new


\* Whatever a process does keeps the invariant.
LEMMA ChildSteps ==
    ASSUME IInv, NEW g \in Gens, Child(g)
    PROVE  IInv'
<1>1. /\ child[g] = "alive"
      /\ UNCHANGED <<lockVars, reader, tableVars, callerVars, chanVars>>
  BY DEF Child, Emit, AskHost, Answer, AnswerStop, Heartbeat, Silence, Pollute, Exit
<1>2. /\ child \in [Gens -> {"none", "alive", "exited"}] /\ stale \in [Gens -> BOOLEAN]
      /\ inbox \in [Gens -> SUBSET [id : Ids, att : Nat]]
      /\ running \in [Gens -> SUBSET Ids]
      /\ out \in [Gens -> Seq(Msgs)]
      /\ eventsLeft \in 0..MaxEvents /\ MaxEvents \in Nat
  BY BoundsAssumption DEF IInv, TypeOK
<1>3. reader[g] # "ended"
  BY <1>1 DEF IInv, ReaderStage
<1>4. ASSUME NEW msgs \in Seq(Msgs), out' = [out EXCEPT ![g] = @ \o msgs]
      PROVE  /\ out' \in [Gens -> Seq(Msgs)] /\ out'[g] = out[g] \o msgs
             /\ \A h \in Gens : h # g => out'[h] = out[h]
             /\ out[g] # <<>> => out'[g] # <<>> /\ Head(out'[g]) = Head(out[g])
  <2>1. out[g] \in Seq(Msgs) /\ out[g] \o msgs \in Seq(Msgs)
    BY <1>2, <1>4
  <2>2. out[g] # <<>> => out[g] \o msgs # <<>> /\ Head(out[g] \o msgs) = Head(out[g])
    <3>1. SUFFICES ASSUME out[g] # <<>>
                   PROVE  out[g] \o msgs # <<>> /\ Head(out[g] \o msgs) = Head(out[g])
      OBVIOUS
    <3>2. Len(out[g]) \in Nat /\ Len(out[g]) # 0 /\ Len(msgs) \in Nat
      BY <2>1, <3>1, EmptySeq, LenProperties
    <3>3. /\ Len(out[g] \o msgs) = Len(out[g]) + Len(msgs)
          /\ (out[g] \o msgs)[1] = out[g][1]
      BY <2>1, <3>2, ConcatProperties
    <3>4. out[g] \o msgs # <<>>
      BY <3>2, <3>3
    <3> QED
      BY <2>1, <3>1, <3>3, <3>4, HeadTailProperties
  <2> QED
    BY <1>2, <1>4, <2>1, <2>2
<1>5. ASSUME NEW m \in Msgs, Say(g, <<m>>), m.kind # "response",
             UNCHANGED <<child, stale, inbox, running>>, eventsLeft' \in 0..MaxEvents
      PROVE  IInv'
  <2>1. <<m>> \in Seq(Msgs) /\ Len(<<m>>) = 1 /\ \A i \in 1..Len(<<m>>) : <<m>>[i] = m
    OBVIOUS
  <2>2. out' = [out EXCEPT ![g] = @ \o <<m>>]
    BY <1>5 DEF Say
  <2>3. OwedBy(g)'
    <3>1. \A id : Asked(g, id) => Asked(g, id)'
      BY <1>5 DEF Asked
    <3>2. \A id \in running[g] : id \in running'[g]
      BY <1>5
    <3>3. \A i \in 1..Len(<<m>>) : <<m>>[i].kind # "response"
      BY <1>5, <2>1
    <3> QED
      BY <1>1, <1>4, <2>1, <2>2, <3>1, <3>2, <3>3, SayOwes
  <2> QED
    BY <1>1, <1>2, <1>3, <1>4, <1>5, <2>1, <2>2, <2>3, ChildStep
<1>6. CASE \E id \in Ids : Emit(g, id)
  <2>1. PICK id \in Ids : Emit(g, id)
    BY <1>6
  <2>2. Msg("event", id, TRUE) \in Msgs /\ Msg("event", id, TRUE).kind # "response"
    BY DEF Msgs, Msg
  <2>3. /\ Say(g, <<Msg("event", id, TRUE)>>)
        /\ UNCHANGED <<child, stale, inbox, running>> /\ eventsLeft' \in 0..MaxEvents
    BY <1>2, <2>1 DEF Emit
  <2> QED
    BY <1>5, <2>2, <2>3
<1>7. CASE AskHost(g) \/ Heartbeat(g) \/ Pollute(g)
  <2>1. PICK kind \in {"heartbeat", "garbage", "host_request"} :
            /\ Say(g, <<GlobalMsg(kind)>>)
            /\ UNCHANGED <<child, stale, inbox, running>> /\ eventsLeft' \in 0..MaxEvents
    BY <1>2, <1>7 DEF AskHost, Heartbeat, Pollute
  <2>2. GlobalMsg(kind) \in Msgs /\ GlobalMsg(kind).kind # "response"
    BY DEF Msgs, GlobalMsg
  <2> QED
    BY <1>5, <2>1, <2>2
<1>8. CASE \E r \in inbox[g], ok \in BOOLEAN : Answer(g, r, ok)
  <2>1. PICK r \in inbox[g], ok \in BOOLEAN : Answer(g, r, ok)
    BY <1>8
  <2> DEFINE m == Msg("response", r.id, ok)
  <2>2. /\ inbox' = [inbox EXCEPT ![g] = @ \ {r}]
        /\ running' = [running EXCEPT ![g] = IF ok /\ r.id[1] \in Dev THEN @ \cup {r.id} ELSE @]
        /\ out' = [out EXCEPT ![g] = @ \o <<m>>]
        /\ UNCHANGED <<child, stale, eventsLeft>> /\ r.id[2] = "main"
    BY <2>1 DEF Answer, Say
  <2>3. r.id \in Ids /\ m \in Msgs /\ m.kind = "response" /\ m.id = r.id /\ m.ok = ok
    <3>1. r \in [id : Ids, att : Nat]
      BY <1>2
    <3> QED
      BY <3>1 DEF Msgs, Msg
  <2>4. <<m>> \in Seq(Msgs) /\ Len(<<m>>) = 1 /\ \A i \in 1..Len(<<m>>) : <<m>>[i] = m
    BY <2>3
  <2>5. /\ inbox' \in [Gens -> SUBSET [id : Ids, att : Nat]] /\ inbox'[g] = inbox[g] \ {r}
        /\ running' \in [Gens -> SUBSET Ids] /\ running[g] \subseteq running'[g]
        /\ ok /\ r.id[1] \in Dev => r.id \in running'[g]
        /\ \A h \in Gens : h # g => inbox'[h] = inbox[h] /\ running'[h] = running[h]
    BY <1>2, <2>2, <2>3
  <2> HIDE DEF m
  <2>6. OwedBy(g)'
    <3>1. \A id : Asked(g, id) =>
              Asked(g, id)' \/ \E i \in 1..Len(<<m>>) : <<m>>[i].kind = "response" /\ <<m>>[i].id = id
      <4>1. \A id : Asked(g, id) => Asked(g, id)' \/ id = r.id
        BY <2>5 DEF Asked
      <4>2. 1 \in 1..Len(<<m>>) /\ <<m>>[1].kind = "response" /\ <<m>>[1].id = r.id
        BY <2>3, <2>4
      <4> QED
        BY <4>1, <4>2
    <3>2. \A i \in 1..Len(<<m>>) :
              <<m>>[i].kind = "response" /\ IsLong(<<m>>[i]) => <<m>>[i].id \in running'[g]
      <4>1. IsLong(m) => ok /\ r.id[1] \in Dev
        BY <2>3 DEF IsLong
      <4> QED
        BY <2>3, <2>4, <2>5, <4>1
    <3> QED
      BY <1>1, <1>4, <2>2, <2>4, <2>5, <3>1, <3>2, SayOwes
  <2> QED
    BY <1>1, <1>2, <1>3, <1>4, <2>2, <2>4, <2>5, <2>6, ChildStep
<1>9. CASE \E r \in inbox[g] : AnswerStop(g, r)
  <2>1. PICK r \in inbox[g] : AnswerStop(g, r)
    BY <1>9
  <2>2. PICK id \in IF running[g] = {} THEN {r.id} ELSE running[g] :
            /\ running' = [running EXCEPT ![g] = @ \ {id}]
            /\ Say(g, <<Msg("shutdown", id, TRUE), Msg("response", r.id, TRUE)>>)
    BY <2>1 DEF AnswerStop
  <2> DEFINE m == Msg("shutdown", id, TRUE)
             n == Msg("response", r.id, TRUE)
             msgs == <<m, n>>
  <2>3. /\ inbox' = [inbox EXCEPT ![g] = @ \ {r}]
        /\ UNCHANGED <<child, stale, eventsLeft>> /\ r.id[2] = "stop"
        /\ out' = [out EXCEPT ![g] = @ \o msgs]
    BY <2>1, <2>2 DEF AnswerStop, Say
  <2>4. r.id \in Ids /\ id \in Ids
    <3>1. r \in [id : Ids, att : Nat] /\ running[g] \subseteq Ids
      BY <1>2
    <3> QED
      BY <2>2, <3>1
  <2>5. /\ m \in Msgs /\ m.kind = "shutdown" /\ m.id = id
        /\ n \in Msgs /\ n.kind = "response" /\ n.id = r.id
    BY <2>4 DEF Msgs, Msg
  <2>6. /\ msgs \in Seq(Msgs) /\ Len(msgs) = 2 /\ msgs[1] = m /\ msgs[2] = n
        /\ \A i \in 1..Len(msgs) : i = 1 \/ i = 2
    <3> HIDE DEF m, n
    <3>1. msgs \in Seq(Msgs) /\ Len(msgs) = 2 /\ msgs[1] = m /\ msgs[2] = n
      BY <2>5
    <3>2. \A i \in 1..2 : i = 1 \/ i = 2
      OBVIOUS
    <3> HIDE DEF msgs
    <3> QED
      BY <3>1, <3>2
  <2>7. /\ inbox' \in [Gens -> SUBSET [id : Ids, att : Nat]] /\ inbox'[g] = inbox[g] \ {r}
        /\ running' \in [Gens -> SUBSET Ids] /\ running'[g] = running[g] \ {id}
        /\ \A h \in Gens : h # g => inbox'[h] = inbox[h] /\ running'[h] = running[h]
    BY <1>2, <2>2, <2>3
  <2> HIDE DEF m, n, msgs
  <2>8. OwedBy(g)'
    <3>1. 1 \in 1..Len(msgs) /\ 2 \in 1..Len(msgs)
      BY <2>6
    <3>2. \A x : Asked(g, x) =>
              Asked(g, x)' \/ \E i \in 1..Len(msgs) : msgs[i].kind = "response" /\ msgs[i].id = x
      <4>1. \A x : Asked(g, x) => Asked(g, x)' \/ x = r.id
        BY <2>7 DEF Asked
      <4> QED
        BY <2>5, <2>6, <3>1, <4>1
    <3>3. \A x \in running[g] :
              x \in running'[g] \/ \E i \in 1..Len(msgs) : msgs[i].kind = "shutdown" /\ msgs[i].id = x
      BY <2>5, <2>6, <2>7, <3>1
    <3>4. \A i \in 1..Len(msgs) :
              msgs[i].kind = "response" /\ IsLong(msgs[i]) => msgs[i].id \in running'[g]
      <4>1. ~IsLong(n)
        BY <2>3, <2>5 DEF IsLong
      <4> QED
        BY <2>5, <2>6, <4>1
    <3> QED
      BY <1>1, <1>4, <2>3, <2>6, <3>2, <3>3, <3>4, SayOwes
  <2> QED
    BY <1>1, <1>2, <1>3, <1>4, <2>3, <2>6, <2>7, <2>8, ChildStep
<1>10. CASE Silence(g)
  <2>1. /\ stale' = [stale EXCEPT ![g] = TRUE]
        /\ UNCHANGED <<child, inbox, running, out, eventsLeft>>
    BY <1>10 DEF Silence
  <2>2. OwedBy(g)'
    <3>1. OwedBy(g) /\ UNCHANGED <<pending, keepAlive, pc, method, gen>>
      BY <1>1 DEF IInv, OwedStage, lockVars, tableVars, callerVars
    <3> QED
      BY <2>1, <3>1 DEF OwedBy, Registered, AboutToWrite, Id, Asked, Written
  <2>3. stale' \in [Gens -> BOOLEAN]
    BY <1>2, <2>1
  <2> QED
    BY <1>1, <1>2, <1>3, <2>1, <2>2, <2>3, ChildStep
<1>11. CASE Exit(g)
  <2>1. /\ child' = [child EXCEPT ![g] = "exited"]
        /\ inbox' = [inbox EXCEPT ![g] = {}]
        /\ running' = [running EXCEPT ![g] = {}]
        /\ UNCHANGED <<stale, out, eventsLeft>>
    BY <1>11 DEF Exit, Exited
  <2>2. /\ child' \in [Gens -> {"none", "alive", "exited"}] /\ child'[g] = "exited"
        /\ inbox' \in [Gens -> SUBSET [id : Ids, att : Nat]] /\ inbox'[g] = {}
        /\ running' \in [Gens -> SUBSET Ids] /\ running'[g] = {}
        /\ \A h \in Gens : h # g => /\ child'[h] = child[h] /\ inbox'[h] = inbox[h]
                                    /\ running'[h] = running[h]
    BY <1>2, <2>1
  <2> QED
    BY <1>1, <1>2, <1>3, <2>1, <2>2, ChildStep
<1> QED
  BY <1>6, <1>7, <1>8, <1>9, <1>10, <1>11 DEF Child


-----------------------------------------------------------------------------
(* The steps of a reader.                                                  *)

\* A reader works on the table of its own process and answers calls that are
\* registered there; it takes out no entry of a call without answering it.
LEMMA ReaderStep ==
    ASSUME IInv, NEW g \in Gens, reader[g] # "none",
           UNCHANGED <<lockVars, child, inbox, running, eventsLeft, callerVars,
                       att, sentOn, open>>,
           stale' \in [Gens -> BOOLEAN],
           out' \in [Gens -> Seq(Msgs)],
           reader' \in [Gens -> {"none", "reading", "sending", "hosting", "broken", "ended"}],
           pending' \in [Gens -> [Ids -> Nat]],
           keepAlive' \in [Gens -> SUBSET Ids],
           buf' \in [Ids -> 0..Capacity],
           resp' \in [Ids -> [kind : {"none", "ok", "error", "closed"}, gen : 0..MaxGens]],
           \A h \in Gens : h # g => /\ out'[h] = out[h] /\ reader'[h] = reader[h]
                                    /\ pending'[h] = pending[h] /\ keepAlive'[h] = keepAlive[h],
           reader'[g] # "none",
           reader'[g] = "sending" =>
               out'[g] # <<>> /\ Head(out'[g]).kind \in {"event", "shutdown"},
           reader'[g] = "ended" =>
               child[g] = "exited" /\ \A id \in Ids : pending'[g][id] = 0,
           \A id \in Ids : pending'[g][id] \in {0, pending[g][id]},
           \A id \in Ids : \/ resp'[id] = resp[id]
                           \/ HasReceiver(g, id) /\ resp'[id].kind # "none" /\ resp'[id].gen = g,
           \A id \in Ids : HasReceiver(g, id) /\ pending'[g][id] # pending[g][id] =>
                               resp'[id].kind # "none",
           \A id \in keepAlive'[g] :
               /\ id \in Dev \X {"main"} /\ pending'[g][id] # 0
               /\ HasReceiver(g, id) => resp'[id].kind # "none",
           child[g] = "alive" => OwedBy(g)'
    PROVE  IInv'
<1>1. UNCHANGED <<lock, gen, gens, pc, method, tries, fallback, outcome>>
  BY DEF lockVars, callerVars
<1>2. /\ \A b : Id(b)' = Id(b)
      /\ \A h \in Gens : h # g =>
            /\ Registered(h)' = Registered(h)
            /\ \A id : /\ HasReceiver(h, id)' <=> HasReceiver(h, id)
      /\ \A h, id : AboutToWrite(h, id)' <=> AboutToWrite(h, id)
  BY <1>1 DEF Registered, HasReceiver, AboutToWrite, Id
<1>3. /\ \A h \in Gens : /\ Registered(h)' \subseteq Registered(h)
                         /\ Registered(h) \subseteq Ids
      /\ \A s \in Gens : s = g => Registered(s)' = {id \in Ids : pending'[g][id] # 0}
  <2>1. \A h \in Gens : Registered(h)' = {id \in Ids : pending'[h][id] # 0}
    BY DEF Registered
  <2>2. \A h \in Gens, id \in Ids : pending'[h][id] \in {0, pending[h][id]}
    BY DEF IInv, TypeOK
  <2> QED
    BY <2>1, <2>2 DEF Registered
<1>4. TypeOK'
  BY <1>1 DEF IInv, TypeOK
<1>5. LockStage'
  BY <1>1 DEF IInv, LockStage
<1>6. SpawnStage'
  <2>1. child[g] # "none" /\ (reader'[g] = "none" <=> reader[g] = "none")
    BY DEF IInv, SpawnStage
  <2> SUFFICES ASSUME NEW h \in Gens
               PROVE  /\ child'[h] = "none" <=> h > gens'
                      /\ reader'[h] = "none" <=> h > gens'
                      /\ child'[h] # "alive" => inbox'[h] = {} /\ running'[h] = {}
                      /\ child'[h] = "none" =>
                            out'[h] = <<>> /\ Registered(h)' = {} /\ keepAlive'[h] = {}
    BY <1>1 DEF IInv, SpawnStage
  <2>2. /\ child[h] = "none" <=> h > gens
        /\ reader[h] = "none" <=> h > gens
        /\ child[h] # "alive" => inbox[h] = {} /\ running[h] = {}
        /\ child[h] = "none" => out[h] = <<>> /\ Registered(h) = {} /\ keepAlive[h] = {}
    BY DEF IInv, SpawnStage
  <2> QED
    BY <1>1, <1>2, <2>1, <2>2
<1>7. ReaderStage'
  BY DEF IInv, ReaderStage, NextMsg
<1>8. TableStage'
  <2>1. \A h \in Gens : /\ Cardinality(Registered(h)') <= Cardinality(Registered(h))
                        /\ Cardinality(Registered(h)') \in Nat
                        /\ Cardinality(Registered(h)) \in Nat
    BY <1>3, IdsOfCallers, FS_Subset, FS_CardinalityType
  <2>2. PendingBounded'
    BY <2>1, BoundsAssumption DEF IInv, TableStage, PendingBounded
  <2>3. \A b \in Callers : pc'[b] = "insert" => Cardinality(Registered(gen)') < MaxPending
    <3> SUFFICES ASSUME NEW b \in Callers, pc[b] = "insert"
                 PROVE  Cardinality(Registered(gen)') < MaxPending
      BY <1>1
    <3>1. gen \in Gens
      BY Alone DEF Opening
    <3>2. Cardinality(Registered(gen)) < MaxPending
      BY DEF IInv, TableStage
    <3>3. \A s \in Gens : s = gen => Cardinality(Registered(s)') < MaxPending
      BY <2>1, <3>1, <3>2, BoundsAssumption
    <3> QED
      BY <1>1, <3>1, <3>3
  <2> QED
    BY <2>2, <2>3 DEF TableStage
<1>9. WaitStage'
  <2> SUFFICES ASSUME NEW b \in Callers, pc'[b] \in {"write", "waiting"}
               PROVE  /\ open'[Id(b)] /\ sentOn'[Id(b)] \in Gens
                      /\ pc'[b] = "write" => sentOn'[Id(b)] = gen'
                      /\ \/ resp'[Id(b)].kind # "none"
                         \/ pending'[sentOn'[Id(b)]][Id(b)] = att'[Id(b)]
    BY <1>2 DEF WaitStage
  <2>1. /\ open[Id(b)] /\ sentOn[Id(b)] \in Gens /\ Id(b) \in Ids
        /\ pc[b] = "write" => sentOn[Id(b)] = gen
        /\ \/ resp[Id(b)].kind # "none"
           \/ pending[sentOn[Id(b)]][Id(b)] = att[Id(b)]
    BY <1>1, IdsOfCallers DEF IInv, WaitStage
  <2>2. CASE resp[Id(b)].kind # "none"
    BY <1>1, <2>1, <2>2
  <2>3. CASE resp[Id(b)].kind = "none"
    <3>1. pending[sentOn[Id(b)]][Id(b)] = att[Id(b)]
      BY <2>1, <2>3
    <3>2. CASE sentOn[Id(b)] = g
      <4>1. HasReceiver(g, Id(b))
        BY <2>1, <3>1, <3>2 DEF HasReceiver
      <4> QED
        BY <1>1, <2>1, <3>1, <3>2, <4>1
    <3>3. CASE sentOn[Id(b)] # g
      BY <1>1, <2>1, <3>1, <3>3
    <3> QED
      BY <3>2, <3>3
  <2> QED
    BY <2>2, <2>3
<1>10. KeepStage'
  <2> SUFFICES ASSUME NEW h \in Gens, NEW id \in keepAlive'[h]
               PROVE  /\ id \in Dev \X {"main"} /\ pending'[h][id] # 0
                      /\ HasReceiver(h, id)' => resp'[id].kind # "none"
    BY DEF KeepStage
  <2>1. id \in Ids
    OBVIOUS
  <2>2. CASE h = g
    <3>1. pending'[g][id] # 0 /\ pending'[g][id] \in {0, pending[g][id]}
      BY <2>1, <2>2
    <3>2. HasReceiver(h, id)' => HasReceiver(g, id)
      BY <2>2, <3>1 DEF HasReceiver
    <3> QED
      BY <2>2, <3>2
  <2>3. CASE h # g
    <3>1. id \in keepAlive[h] /\ pending'[h] = pending[h]
      BY <2>3
    <3>2. /\ id \in Dev \X {"main"} /\ pending[h][id] # 0
          /\ HasReceiver(h, id) => resp[id].kind # "none"
      BY <3>1 DEF IInv, KeepStage
    <3>3. resp[id].kind # "none" => resp'[id].kind # "none"
      BY <2>1
    <3> QED
      BY <1>2, <2>3, <3>1, <3>2, <3>3
  <2> QED
    BY <2>2, <2>3
<1>11. GoneProcessIsEmpty'
  <2> SUFFICES ASSUME NEW h \in Gens, reader'[h] = "ended", NEW id \in Registered(h)'
               PROVE  h = gen' /\ pc'[id[1]] \in {"write", "cleanup"} /\ Id(id[1])' = id
    BY DEF GoneProcessIsEmpty
  <2>1. h # g
    BY <1>3
  <2>2. reader[h] = "ended" /\ id \in Registered(h)
    BY <1>2, <2>1
  <2>3. h = gen /\ pc[id[1]] \in {"write", "cleanup"} /\ Id(id[1]) = id
    BY <2>2 DEF IInv, GoneProcessIsEmpty
  <2> QED
    BY <1>1, <1>2, <2>3
<1>12. OwedStage'
  <2> SUFFICES ASSUME NEW h \in Gens, h # g, child'[h] = "alive"
               PROVE  OwedBy(h)'
    BY DEF OwedStage
  <2>1. OwedBy(h)
    BY DEF IInv, OwedStage
  <2>2. out'[h] = out[h] /\ running'[h] = running[h] /\ inbox'[h] = inbox[h]
        /\ keepAlive'[h] = keepAlive[h]
    OBVIOUS
  <2>3. \A id, kind : /\ Asked(h, id)' <=> Asked(h, id)
                      /\ Written(h, kind, id)' <=> Written(h, kind, id)
    BY <2>2 DEF Asked, Written
  <2>4. \A k \in 1..Len(out[h]) :
            out[h][k].kind = "response" /\ IsLong(out[h][k]) =>
                \/ out[h][k].id \in running[h]
                \/ \E j \in (k + 1)..Len(out[h]) :
                      out[h][j].kind = "shutdown" /\ out[h][j].id = out[h][k].id
    BY <2>1 DEF OwedBy
  <2> QED
    BY <1>2, <2>1, <2>2, <2>3, <2>4 DEF OwedBy
<1>13. ApartStage'
  <2> SUFFICES ASSUME NEW id \in Ids, resp'[id].kind # "none"
               PROVE  resp'[id].gen = sentOn[id]
    BY DEF ApartStage
  <2>1. CASE resp'[id] = resp[id]
    BY <2>1 DEF IInv, ApartStage
  <2>2. CASE HasReceiver(g, id) /\ resp'[id].gen = g
    BY <2>2 DEF HasReceiver
  <2> QED
    BY <2>1, <2>2
<1> QED
  BY <1>4, <1>5, <1>6, <1>7, <1>8, <1>9, <1>10, <1>11, <1>12, <1>13 DEF IInv

\* The next message is taken.
LEMMA Consumed ==
    ASSUME IInv, NEW g \in Gens, out[g] # <<>>, Consume(g)
    PROVE  /\ out' \in [Gens -> Seq(Msgs)]
           /\ \A h \in Gens : h # g => out'[h] = out[h]
           /\ NextMsg(g) \in Msgs /\ NextMsg(g) = out[g][1]
           /\ Len(out[g]) \in Nat \ {0} /\ Len(out'[g]) = Len(out[g]) - 1
           /\ \A i \in 1..Len(out'[g]) : out'[g][i] = out[g][i + 1]
<1>1. out \in [Gens -> Seq(Msgs)] /\ out' = [out EXCEPT ![g] = Tail(out[g])]
  BY DEF IInv, TypeOK, Consume
<1>2. out[g] \in Seq(Msgs) /\ out'[g] = Tail(out[g])
  BY <1>1
<1>3. /\ Head(out[g]) \in Msgs /\ Tail(out[g]) \in Seq(Msgs)
      /\ Len(out[g]) \in Nat \ {0} /\ Len(Tail(out[g])) = Len(out[g]) - 1
      /\ \A i \in 1..Len(Tail(out[g])) : Tail(out[g])[i] = out[g][i + 1]
      /\ Head(out[g]) = out[g][1]
  BY <1>2, HeadTailProperties, EmptySeq, LenProperties
<1> QED
  BY <1>1, <1>2, <1>3 DEF NextMsg

\* What is owed by a process when its reader has taken a message: a response has
\* ended its entry or marked it, an event.shutdown has ended a marked one.
LEMMA ConsumeOwes ==
    ASSUME IInv, NEW g \in Gens, child[g] = "alive", out[g] # <<>>, Consume(g),
           UNCHANGED <<lockVars, callerVars, inbox, running>>,
           \A id \in Registered(g)' \ keepAlive'[g] :
               /\ id \in Registered(g) \ keepAlive[g]
               /\ ~(NextMsg(g).kind = "response" /\ NextMsg(g).id = id),
           \A id \in keepAlive'[g] :
               \/ /\ id \in keepAlive[g]
                  /\ ~(NextMsg(g).kind = "shutdown" /\ NextMsg(g).id = id)
               \/ NextMsg(g).kind = "response" /\ IsLong(NextMsg(g)) /\ NextMsg(g).id = id
    PROVE  OwedBy(g)'
<1> DEFINE old == out[g]
           new == out'[g]
           m == NextMsg(g)
<1>1. /\ OwedBy(g)
      /\ \A id : /\ AboutToWrite(g, id)' <=> AboutToWrite(g, id)
                 /\ Asked(g, id)' <=> Asked(g, id)
      /\ running'[g] = running[g]
  BY DEF IInv, OwedStage, lockVars, callerVars, AboutToWrite, Id, Asked
<1>2. /\ Len(old) \in Nat \ {0} /\ Len(new) = Len(old) - 1
      /\ \A i \in 1..Len(new) : new[i] = old[i + 1]
      /\ m = old[1]
  BY Consumed
<1>3. \A id, kind : /\ Written(g, kind, id)' <=> \E i \in 1..Len(new) : new[i].kind = kind /\ new[i].id = id
                    /\ Written(g, kind, id) <=> \E i \in 1..Len(old) : old[i].kind = kind /\ old[i].id = id
  BY DEF Written
<1>4. \A i \in 1..Len(old) :
          old[i].kind = "response" /\ IsLong(old[i]) =>
              \/ old[i].id \in running[g]
              \/ \E j \in (i + 1)..Len(old) : old[j].kind = "shutdown" /\ old[j].id = old[i].id
  BY <1>1 DEF OwedBy
<1> HIDE DEF old, new, m
<1>5. ASSUME NEW j \in 1..Len(old), j # 1
      PROVE  j - 1 \in 1..Len(new) /\ new[j - 1] = old[j]
  <2>1. j \in Nat /\ j <= Len(old) /\ j >= 1
    BY <1>2
  <2>2. j - 1 \in 1..Len(new)
    BY <1>2, <1>5, <2>1
  <2>3. new[j - 1] = old[(j - 1) + 1]
    BY <1>2, <2>2
  <2> QED
    BY <2>1, <2>2, <2>3
<1>6. ASSUME NEW id, NEW kind, Written(g, kind, id), ~(m.kind = kind /\ m.id = id)
      PROVE  Written(g, kind, id)'
  <2>1. PICK j \in 1..Len(old) : old[j].kind = kind /\ old[j].id = id
    BY <1>3, <1>6
  <2>2. j # 1
    BY <1>2, <1>6, <2>1
  <2> QED
    BY <1>3, <1>5, <2>1, <2>2
<1>7. \A id \in Registered(g)' \ keepAlive'[g] :
          AboutToWrite(g, id)' \/ Asked(g, id)' \/ Written(g, "response", id)'
  BY <1>1, <1>6 DEF OwedBy, m
<1>8. ASSUME NEW id \in keepAlive'[g]
      PROVE  id \in running'[g] \/ Written(g, "shutdown", id)'
  <2>1. CASE id \in keepAlive[g] /\ ~(m.kind = "shutdown" /\ m.id = id)
    BY <1>1, <1>6, <2>1 DEF OwedBy
  <2>2. CASE m.kind = "response" /\ IsLong(m) /\ m.id = id
    <3>1. 1 \in 1..Len(old)
      BY <1>2
    <3>2. CASE \E j \in (1 + 1)..Len(old) : old[j].kind = "shutdown" /\ old[j].id = id
      <4>1. PICK j \in (1 + 1)..Len(old) : old[j].kind = "shutdown" /\ old[j].id = id
        BY <3>2
      <4>2. j \in 1..Len(old) /\ j # 1
        BY <1>2
      <4> QED
        BY <1>3, <1>5, <4>1, <4>2
    <3> QED
      BY <1>1, <1>2, <1>4, <2>2, <3>1, <3>2
  <2> QED
    BY <1>8, <2>1, <2>2 DEF m
<1>9. ASSUME NEW i \in 1..Len(new), new[i].kind = "response", IsLong(new[i])
      PROVE  \/ new[i].id \in running'[g]
             \/ \E j \in (i + 1)..Len(new) : new[j].kind = "shutdown" /\ new[j].id = new[i].id
  <2>1. i + 1 \in 1..Len(old) /\ new[i] = old[i + 1]
    BY <1>2
  <2>2. CASE \E j \in ((i + 1) + 1)..Len(old) : old[j].kind = "shutdown" /\ old[j].id = new[i].id
    <3>1. PICK j \in ((i + 1) + 1)..Len(old) : old[j].kind = "shutdown" /\ old[j].id = new[i].id
      BY <2>2
    <3>2. j \in 1..Len(old) /\ j # 1 /\ j - 1 \in (i + 1)..Len(new)
      BY <1>2
    <3>3. new[j - 1] = old[j]
      BY <1>5, <3>2
    <3> QED
      BY <3>1, <3>2, <3>3
  <2> QED
    BY <1>1, <1>4, <1>9, <2>1, <2>2
<1> QED
  BY <1>7, <1>8, <1>9 DEF OwedBy, new


\* fail_pending_requests: the table is empty, and every call in it is answered.
LEMMA PendingFailed ==
    ASSUME IInv, NEW g \in Gens, FailPending(g, g)
    PROVE  /\ pending' \in [Gens -> [Ids -> Nat]] /\ keepAlive' \in [Gens -> SUBSET Ids]
           /\ resp' \in [Ids -> [kind : {"none", "ok", "error", "closed"}, gen : 0..MaxGens]]
           /\ \A h \in Gens : h # g => pending'[h] = pending[h] /\ keepAlive'[h] = keepAlive[h]
           /\ keepAlive'[g] = {} /\ \A id \in Ids : pending'[g][id] = 0
           /\ \A id \in Ids : \/ resp'[id] = resp[id]
                              \/ HasReceiver(g, id) /\ resp'[id].kind # "none" /\ resp'[id].gen = g
           /\ \A id \in Ids : HasReceiver(g, id) => resp'[id].kind # "none"
<1>1. /\ pending' = [pending EXCEPT ![g] = [id \in Ids |-> 0]]
      /\ keepAlive' = [keepAlive EXCEPT ![g] = {}]
      /\ resp' = [id \in Ids |-> IF HasReceiver(g, id) /\ id \notin keepAlive[g]
                                 THEN Oneshot("closed", g) ELSE resp[id]]
  BY DEF FailPending
<1>2. /\ pending \in [Gens -> [Ids -> Nat]] /\ keepAlive \in [Gens -> SUBSET Ids]
      /\ resp \in [Ids -> [kind : {"none", "ok", "error", "closed"}, gen : 0..MaxGens]]
      /\ g \in 0..MaxGens
  BY BoundsAssumption DEF IInv, TypeOK, Gens
<1>3. /\ Oneshot("closed", g) \in [kind : {"none", "ok", "error", "closed"}, gen : 0..MaxGens]
      /\ Oneshot("closed", g).kind # "none" /\ Oneshot("closed", g).gen = g
  BY <1>2 DEF Oneshot
<1>4. pending' \in [Gens -> [Ids -> Nat]] /\ keepAlive' \in [Gens -> SUBSET Ids]
  BY <1>1, <1>2
<1>5. resp' \in [Ids -> [kind : {"none", "ok", "error", "closed"}, gen : 0..MaxGens]]
  BY <1>1, <1>2, <1>3
<1>6. /\ \A h \in Gens : h # g => pending'[h] = pending[h] /\ keepAlive'[h] = keepAlive[h]
      /\ keepAlive'[g] = {} /\ \A id \in Ids : pending'[g][id] = 0
  BY <1>1, <1>2
<1>7. \A id \in Ids : \/ resp'[id] = resp[id]
                      \/ HasReceiver(g, id) /\ resp'[id].kind # "none" /\ resp'[id].gen = g
  BY <1>1, <1>3
<1>8. ASSUME NEW id \in Ids, HasReceiver(g, id)
      PROVE  resp'[id].kind # "none"
  <2>1. CASE id \notin keepAlive[g]
    BY <1>1, <1>3, <1>8, <2>1
  <2>2. CASE id \in keepAlive[g]
    <3>1. resp'[id] = resp[id]
      BY <1>1, <2>2
    <3> QED
      BY <1>8, <2>2, <3>1 DEF IInv, KeepStage
  <2> QED
    BY <2>1, <2>2
<1> QED
  BY <1>4, <1>5, <1>6, <1>7, <1>8

\* The reader stops, for good if the process has ended: nothing is owed any more.
LEMMA ReaderStops ==
    ASSUME IInv, NEW g \in Gens, NEW how \in {"broken", "ended"}, reader[g] # "none",
           ReaderEnds(g, how), how = "ended" => child[g] = "exited",
           (out[g] # <<>> /\ Consume(g)) \/ UNCHANGED out
    PROVE  IInv'
<1>1. /\ FailPending(g, g) /\ reader' = [reader EXCEPT ![g] = how]
      /\ UNCHANGED <<lockVars, child, stale, inbox, running, eventsLeft, callerVars, att,
                     sentOn, open, buf>>
  BY DEF ReaderEnds, TableOf
<1>2. /\ stale \in [Gens -> BOOLEAN] /\ buf \in [Ids -> 0..Capacity]
      /\ reader' \in [Gens -> {"none", "reading", "sending", "hosting", "broken", "ended"}]
      /\ reader'[g] = how /\ \A h \in Gens : h # g => reader'[h] = reader[h]
  BY <1>1 DEF IInv, TypeOK
<1>3. /\ out' \in [Gens -> Seq(Msgs)]
      /\ \A h \in Gens : h # g => out'[h] = out[h]
  BY Consumed DEF IInv, TypeOK
<1>4. /\ pending' \in [Gens -> [Ids -> Nat]] /\ keepAlive' \in [Gens -> SUBSET Ids]
      /\ resp' \in [Ids -> [kind : {"none", "ok", "error", "closed"}, gen : 0..MaxGens]]
      /\ \A h \in Gens : h # g => pending'[h] = pending[h] /\ keepAlive'[h] = keepAlive[h]
      /\ keepAlive'[g] = {} /\ \A id \in Ids : pending'[g][id] = 0
      /\ \A id \in Ids : \/ resp'[id] = resp[id]
                         \/ HasReceiver(g, id) /\ resp'[id].kind # "none" /\ resp'[id].gen = g
      /\ \A id \in Ids : HasReceiver(g, id) => resp'[id].kind # "none"
  BY <1>1, PendingFailed
<1>5. child[g] = "alive" => OwedBy(g)'
  <2> SUFFICES ASSUME child[g] = "alive"
               PROVE  OwedBy(g)'
    OBVIOUS
  <2>1. \A s \in Gens : s = g => Registered(s)' = {}
    BY <1>4 DEF Registered
  <2>2. CASE out[g] # <<>> /\ Consume(g)
    BY <1>1, <1>4, <2>1, <2>2, ConsumeOwes
  <2>3. CASE UNCHANGED out
    <3>1. OwedBy(g)
      BY DEF IInv, OwedStage
    <3> QED
      BY ZenonT(40), <1>1, <1>4, <2>1, <2>3, <3>1 DEF OwedBy
  <2> QED
    BY <2>2, <2>3
<1>6. /\ UNCHANGED <<lockVars, child, inbox, running, eventsLeft, callerVars, att, sentOn, open>>
      /\ stale' \in [Gens -> BOOLEAN] /\ buf' \in [Ids -> 0..Capacity]
      /\ reader'[g] # "none" /\ reader'[g] # "sending"
      /\ reader'[g] = "ended" => child[g] = "exited" /\ \A id \in Ids : pending'[g][id] = 0
      /\ \A id \in Ids : pending'[g][id] \in {0, pending[g][id]}
  BY <1>1, <1>2, <1>4
<1>7. /\ \A id \in Ids : HasReceiver(g, id) /\ pending'[g][id] # pending[g][id] =>
                             resp'[id].kind # "none"
      /\ \A id \in keepAlive'[g] :
            /\ id \in Dev \X {"main"} /\ pending'[g][id] # 0
            /\ HasReceiver(g, id) => resp'[id].kind # "none"
  BY <1>4
<1>8. \A h \in Gens : h # g => /\ out'[h] = out[h] /\ reader'[h] = reader[h]
                               /\ pending'[h] = pending[h] /\ keepAlive'[h] = keepAlive[h]
  BY <1>2, <1>3, <1>4
<1> QED
  BY <1>2, <1>3, <1>4, <1>5, <1>6, <1>7, <1>8, ReaderStep

\* An event is passed on; event.shutdown ends the entry that is kept alive.
LEMMA DeliverStep ==
    ASSUME IInv, NEW g \in Gens, reader[g] # "none", out[g] # <<>>,
           NextMsg(g).kind \in {"event", "shutdown"}, ~MustWait(g), Deliver(g)
    PROVE  IInv'
<1> DEFINE m == NextMsg(g)
           id == m.id
<1>1. /\ buf' = IF HasReceiver(g, id) THEN [buf EXCEPT ![id] = @ + 1] ELSE buf
      /\ \/ /\ m.kind = "shutdown" /\ id \in keepAlive[g]
            /\ pending' = [pending EXCEPT ![g][id] = 0]
            /\ keepAlive' = [keepAlive EXCEPT ![g] = @ \ {id}]
         \/ /\ ~(m.kind = "shutdown" /\ id \in keepAlive[g])
            /\ UNCHANGED <<pending, keepAlive>>
      /\ reader' = [reader EXCEPT ![g] = "reading"]
      /\ Consume(g)
      /\ UNCHANGED <<lockVars, child, stale, inbox, running, eventsLeft, callerVars, att,
                     sentOn, open, resp>>
  BY DEF Deliver, TableOf, RemoveEntry, tableVars
<1>2. m \in Msgs /\ out' \in [Gens -> Seq(Msgs)] /\ \A h \in Gens : h # g => out'[h] = out[h]
  BY <1>1, Consumed
<1>3. id \in Ids
  BY <1>2 DEF Msgs
<1>4. HasReceiver(g, id) => buf[id] # Capacity
  BY DEF MustWait, TableOf
<1>5. /\ pending \in [Gens -> [Ids -> Nat]] /\ keepAlive \in [Gens -> SUBSET Ids]
      /\ reader \in [Gens -> {"none", "reading", "sending", "hosting", "broken", "ended"}]
      /\ buf \in [Ids -> 0..Capacity] /\ stale \in [Gens -> BOOLEAN] /\ Capacity \in Nat
      /\ resp \in [Ids -> [kind : {"none", "ok", "error", "closed"}, gen : 0..MaxGens]]
  BY BoundsAssumption DEF IInv, TypeOK
<1> HIDE DEF m, id
<1>6. buf' \in [Ids -> 0..Capacity]
  BY <1>1, <1>3, <1>4, <1>5
<1>7. /\ reader' \in [Gens -> {"none", "reading", "sending", "hosting", "broken", "ended"}]
      /\ reader'[g] = "reading" /\ \A h \in Gens : h # g => reader'[h] = reader[h]
  BY <1>1, <1>5
<1>8. /\ pending' \in [Gens -> [Ids -> Nat]] /\ keepAlive' \in [Gens -> SUBSET Ids]
      /\ \A h \in Gens : h # g => pending'[h] = pending[h] /\ keepAlive'[h] = keepAlive[h]
      /\ \A x \in Ids : pending'[g][x] = IF m.kind = "shutdown" /\ id \in keepAlive[g] /\ x = id
                                         THEN 0 ELSE pending[g][x]
      /\ keepAlive'[g] = IF m.kind = "shutdown" THEN keepAlive[g] \ {id} ELSE keepAlive[g]
  <2>1. CASE m.kind = "shutdown" /\ id \in keepAlive[g]
    <3>1. /\ pending' = [pending EXCEPT ![g][id] = 0]
          /\ keepAlive' = [keepAlive EXCEPT ![g] = @ \ {id}]
      BY <1>1, <2>1
    <3>2. pending' \in [Gens -> [Ids -> Nat]] /\ keepAlive' \in [Gens -> SUBSET Ids]
      BY <1>3, <1>5, <3>1
    <3>3. /\ \A h \in Gens : h # g => pending'[h] = pending[h] /\ keepAlive'[h] = keepAlive[h]
          /\ \A x \in Ids : pending'[g][x] = IF x = id THEN 0 ELSE pending[g][x]
          /\ keepAlive'[g] = keepAlive[g] \ {id}
      BY <1>3, <1>5, <3>1
    <3> QED
      BY <2>1, <3>2, <3>3
  <2>2. CASE ~(m.kind = "shutdown" /\ id \in keepAlive[g])
    <3>1. UNCHANGED <<pending, keepAlive>>
      BY <1>1, <2>2
    <3> QED
      BY <1>5, <2>2, <3>1
  <2> QED
    BY <2>1, <2>2
<1>9. \A x \in Ids : HasReceiver(g, x) /\ pending'[g][x] # pending[g][x] => resp[x].kind # "none"
  BY <1>8 DEF IInv, KeepStage
<1>10. \A x \in keepAlive'[g] :
          /\ x \in Dev \X {"main"} /\ pending'[g][x] # 0
          /\ HasReceiver(g, x) => resp[x].kind # "none"
  <2>1. \A x \in keepAlive'[g] : x \in keepAlive[g] /\ x \in Ids /\ pending'[g][x] = pending[g][x]
    BY <1>5, <1>8
  <2> QED
    BY <2>1 DEF IInv, KeepStage
<1>11. child[g] = "alive" => OwedBy(g)'
  <2> SUFFICES ASSUME child[g] = "alive"
               PROVE  OwedBy(g)'
    OBVIOUS
  <2>1. \A x \in Registered(g)' \ keepAlive'[g] :
            /\ x \in Registered(g) \ keepAlive[g]
            /\ ~(NextMsg(g).kind = "response" /\ NextMsg(g).id = x)
    <3>1. \A s \in Gens : s = g => Registered(s)' = {x \in Ids : pending'[s][x] # 0}
      BY DEF Registered
    <3>2. NextMsg(g).kind # "response"
      OBVIOUS
    <3> QED
      BY <1>8, <3>1, <3>2 DEF Registered
  <2>2. \A x \in keepAlive'[g] :
            x \in keepAlive[g] /\ ~(NextMsg(g).kind = "shutdown" /\ NextMsg(g).id = x)
    BY <1>8 DEF m, id
  <2> QED
    BY <1>1, <2>1, <2>2, ConsumeOwes
<1>12. UNCHANGED <<lockVars, child, inbox, running, eventsLeft, callerVars, att, sentOn, open>>
  BY <1>1
<1>13. /\ stale' \in [Gens -> BOOLEAN]
       /\ out' \in [Gens -> Seq(Msgs)]
       /\ reader' \in [Gens -> {"none", "reading", "sending", "hosting", "broken", "ended"}]
       /\ pending' \in [Gens -> [Ids -> Nat]]
       /\ keepAlive' \in [Gens -> SUBSET Ids]
       /\ buf' \in [Ids -> 0..Capacity]
       /\ resp' \in [Ids -> [kind : {"none", "ok", "error", "closed"}, gen : 0..MaxGens]]
  BY <1>1, <1>2, <1>5, <1>6, <1>7, <1>8
<1>14. \A h \in Gens : h # g => /\ out'[h] = out[h] /\ reader'[h] = reader[h]
                                /\ pending'[h] = pending[h] /\ keepAlive'[h] = keepAlive[h]
  BY <1>2, <1>7, <1>8
<1>15. /\ reader'[g] # "none"
       /\ reader'[g] = "sending" => out'[g] # <<>> /\ Head(out'[g]).kind \in {"event", "shutdown"}
       /\ reader'[g] = "ended" => child[g] = "exited" /\ \A x \in Ids : pending'[g][x] = 0
  BY <1>7
<1>16. \A x \in Ids : pending'[g][x] \in {0, pending[g][x]}
  BY <1>8
<1>17. \A x \in Ids : \/ resp'[x] = resp[x]
                      \/ HasReceiver(g, x) /\ resp'[x].kind # "none" /\ resp'[x].gen = g
  BY <1>1
<1>18. \A x \in Ids : HasReceiver(g, x) /\ pending'[g][x] # pending[g][x] => resp'[x].kind # "none"
  BY <1>1, <1>9
<1>19. \A x \in keepAlive'[g] :
           /\ x \in Dev \X {"main"} /\ pending'[g][x] # 0
           /\ HasReceiver(g, x) => resp'[x].kind # "none"
  BY <1>1, <1>10
<1> QED
  BY <1>11, <1>12, <1>13, <1>14, <1>15, <1>16, <1>17, <1>18, <1>19, ReaderStep


\* A response is passed on if somebody waits for it; it ends its entry, or marks it
\* when a compiler runs from now on; that of compiler.stop ends the marked ones, too.
LEMMA ReadResponseStep ==
    ASSUME IInv, NEW g \in Gens, ReadResponse(g)
    PROVE  IInv'
<1> DEFINE m == NextMsg(g)
           id == m.id
<1>1. /\ reader[g] = "reading" /\ out[g] # <<>> /\ m.kind = "response" /\ Consume(g)
      /\ UNCHANGED <<lockVars, child, stale, inbox, running, eventsLeft, reader,
                     callerVars, att, sentOn, open, buf>>
  BY DEF ReadResponse, Reading
<1>2. m \in Msgs /\ out' \in [Gens -> Seq(Msgs)] /\ \A h \in Gens : h # g => out'[h] = out[h]
  BY <1>1, Consumed
<1>3. id \in Ids /\ m.ok \in BOOLEAN
  BY <1>1, <1>2 DEF Msgs
<1>4. /\ pending \in [Gens -> [Ids -> Nat]] /\ keepAlive \in [Gens -> SUBSET Ids]
      /\ reader \in [Gens -> {"none", "reading", "sending", "hosting", "broken", "ended"}]
      /\ buf \in [Ids -> 0..Capacity] /\ stale \in [Gens -> BOOLEAN]
      /\ resp \in [Ids -> [kind : {"none", "ok", "error", "closed"}, gen : 0..MaxGens]]
      /\ g \in 0..MaxGens
  BY BoundsAssumption DEF IInv, TypeOK, Gens
<1>5. CASE pending[g][id] = 0
  <2>1. UNCHANGED <<pending, keepAlive, resp>>
    BY <1>5 DEF ReadResponse, TableOf, tableVars
  <2>2. id \notin keepAlive[g]
    BY <1>5 DEF IInv, KeepStage
  <2>3. child[g] = "alive" => OwedBy(g)'
    <3>1. \A x \in Registered(g)' \ keepAlive'[g] :
              /\ x \in Registered(g) \ keepAlive[g]
              /\ ~(NextMsg(g).kind = "response" /\ NextMsg(g).id = x)
      BY <1>5, <2>1 DEF Registered
    <3>2. \A x \in keepAlive'[g] :
              x \in keepAlive[g] /\ ~(NextMsg(g).kind = "shutdown" /\ NextMsg(g).id = x)
      BY <1>1, <2>1
    <3> QED
      BY <1>1, <3>1, <3>2, ConsumeOwes
  <2>4. /\ \A h \in Gens : h # g => /\ out'[h] = out[h] /\ reader'[h] = reader[h]
                                    /\ pending'[h] = pending[h] /\ keepAlive'[h] = keepAlive[h]
        /\ reader'[g] = "reading"
        /\ \A x \in Ids : pending'[g][x] = pending[g][x] /\ resp'[x] = resp[x]
        /\ stale' \in [Gens -> BOOLEAN] /\ buf' \in [Ids -> 0..Capacity]
    BY <1>1, <1>2, <1>4, <2>1
  <2>5. \A x \in keepAlive'[g] :
            /\ x \in Dev \X {"main"} /\ pending'[g][x] # 0
            /\ HasReceiver(g, x) => resp'[x].kind # "none"
    BY <2>1 DEF IInv, KeepStage
  <2> HIDE DEF m, id
  <2> QED
    BY <1>1, <1>2, <1>4, <2>1, <2>3, <2>4, <2>5, ReaderStep
<1>6. CASE pending[g][id] # 0
  <2>1. resp' = IF HasReceiver(g, id) /\ id \notin keepAlive[g]
                THEN [resp EXCEPT ![id] = Oneshot(IF m.ok THEN "ok" ELSE "error", g)]
                ELSE resp
    BY <1>6 DEF ReadResponse, TableOf
  <2>2. /\ Oneshot(IF m.ok THEN "ok" ELSE "error", g)
               \in [kind : {"none", "ok", "error", "closed"}, gen : 0..MaxGens]
        /\ Oneshot(IF m.ok THEN "ok" ELSE "error", g).kind # "none"
        /\ Oneshot(IF m.ok THEN "ok" ELSE "error", g).gen = g
    BY <1>4 DEF Oneshot
  <2>3. /\ IsLong(m) => /\ keepAlive' = [keepAlive EXCEPT ![g] = @ \cup {id}]
                        /\ UNCHANGED pending
        /\ ~IsLong(m) => /\ pending' = [pending EXCEPT ![g] =
                                [x \in Ids |-> IF x \in EndedBy(g, id) THEN 0 ELSE pending[g][x]]]
                         /\ keepAlive' = [keepAlive EXCEPT ![g] = @ \ EndedBy(g, id)]
    BY <1>4, <1>6 DEF ReadResponse, TableOf
  <2>4. /\ id \in EndedBy(g, id) /\ EndedBy(g, id) \subseteq {id} \cup keepAlive[g]
        /\ IsLong(m) => id \in Dev \X {"main"}
    BY DEF EndedBy, IsLong
  <2> HIDE DEF m, id
  <2>5. resp' \in [Ids -> [kind : {"none", "ok", "error", "closed"}, gen : 0..MaxGens]]
    BY <1>3, <1>4, <2>1, <2>2
  <2>6. /\ \A x \in Ids : \/ resp'[x] = resp[x]
                          \/ HasReceiver(g, x) /\ resp'[x].kind # "none" /\ resp'[x].gen = g
        /\ HasReceiver(g, id) /\ id \notin keepAlive[g] => resp'[id].kind # "none"
    BY <1>3, <1>4, <2>1, <2>2
  <2>7. /\ pending' \in [Gens -> [Ids -> Nat]] /\ keepAlive' \in [Gens -> SUBSET Ids]
        /\ \A h \in Gens : h # g => pending'[h] = pending[h] /\ keepAlive'[h] = keepAlive[h]
        /\ \A x \in Ids : pending'[g][x] = IF ~IsLong(m) /\ x \in EndedBy(g, id)
                                           THEN 0 ELSE pending[g][x]
        /\ keepAlive'[g] = IF IsLong(m) THEN keepAlive[g] \cup {id}
                           ELSE keepAlive[g] \ EndedBy(g, id)
    <3>1. CASE IsLong(m)
      BY <1>3, <1>4, <2>3, <3>1
    <3>2. CASE ~IsLong(m)
      <4>1. /\ pending' = [pending EXCEPT ![g] =
                    [x \in Ids |-> IF x \in EndedBy(g, id) THEN 0 ELSE pending[g][x]]]
            /\ keepAlive' = [keepAlive EXCEPT ![g] = @ \ EndedBy(g, id)]
        BY <2>3, <3>2
      <4>2. pending' \in [Gens -> [Ids -> Nat]] /\ keepAlive' \in [Gens -> SUBSET Ids]
        BY <1>4, <4>1
      <4>3. /\ \A h \in Gens : h # g => pending'[h] = pending[h] /\ keepAlive'[h] = keepAlive[h]
            /\ \A x \in Ids : pending'[g][x] = IF x \in EndedBy(g, id) THEN 0 ELSE pending[g][x]
            /\ keepAlive'[g] = keepAlive[g] \ EndedBy(g, id)
        BY <1>4, <4>1
      <4> QED
        BY <3>2, <4>2, <4>3
    <3> QED
      BY <3>1, <3>2
  <2>8. \A x \in keepAlive[g] :
            /\ x \in Ids /\ x \in Dev \X {"main"} /\ pending[g][x] # 0
            /\ HasReceiver(g, x) => resp[x].kind # "none"
    BY <1>4 DEF IInv, KeepStage
  <2>9. /\ \A x \in Ids : HasReceiver(g, x) /\ x \in {id} \cup keepAlive[g] =>
                              resp'[x].kind # "none"
        /\ \A x \in Ids : HasReceiver(g, x) /\ pending'[g][x] # pending[g][x] =>
                              resp'[x].kind # "none"
    <3>1. \A x \in Ids : HasReceiver(g, x) /\ x \in {id} \cup keepAlive[g] =>
                              resp'[x].kind # "none"
      BY <2>6, <2>8
    <3> QED
      BY <2>4, <2>7, <3>1
  <2>10. \A x \in keepAlive'[g] :
            /\ x \in Dev \X {"main"} /\ pending'[g][x] # 0
            /\ HasReceiver(g, x) => resp'[x].kind # "none"
    <3> SUFFICES ASSUME NEW x \in keepAlive'[g]
                 PROVE  /\ x \in Dev \X {"main"} /\ pending'[g][x] # 0
                        /\ HasReceiver(g, x) => resp'[x].kind # "none"
      OBVIOUS
    <3>1. /\ x \in keepAlive[g] \/ (IsLong(m) /\ x = id)
          /\ IsLong(m) \/ x \notin EndedBy(g, id)
      BY <2>7
    <3>2. x \in Ids /\ x \in Dev \X {"main"} /\ pending[g][x] # 0
      BY <1>3, <1>6, <2>4, <2>8, <3>1
    <3> QED
      BY <2>7, <2>9, <3>1, <3>2
  <2>11. child[g] = "alive" => OwedBy(g)'
    <3>1. \A s \in Gens : s = g => Registered(s)' = {x \in Ids : pending'[s][x] # 0}
      BY DEF Registered
    <3>2. ASSUME NEW x \in Registered(g)' \ keepAlive'[g]
          PROVE  x \in Registered(g) \ keepAlive[g] /\ x # id
      <4>1. x \in Ids /\ pending'[g][x] # 0 /\ x \notin keepAlive'[g]
        BY <3>1, <3>2
      <4>2. /\ pending[g][x] # 0
            /\ IsLong(m) \/ x \notin EndedBy(g, id)
            /\ IsLong(m) => x # id
        BY <2>7, <4>1
      <4>3. x \notin keepAlive[g] /\ x # id
        BY <2>4, <2>7, <4>1, <4>2
      <4> QED
        BY <2>7, <4>1, <4>3 DEF Registered
    <3>3. \A x \in keepAlive'[g] : x \in keepAlive[g] \/ (IsLong(m) /\ x = id)
      BY <2>7
    <3>4. \A x \in Registered(g)' \ keepAlive'[g] :
              /\ x \in Registered(g) \ keepAlive[g]
              /\ ~(NextMsg(g).kind = "response" /\ NextMsg(g).id = x)
      BY <3>2 DEF m, id
    <3>5. \A x \in keepAlive'[g] :
              \/ x \in keepAlive[g] /\ ~(NextMsg(g).kind = "shutdown" /\ NextMsg(g).id = x)
              \/ NextMsg(g).kind = "response" /\ IsLong(NextMsg(g)) /\ NextMsg(g).id = x
      BY <1>1, <3>3 DEF m, id
    <3> QED
      BY <1>1, <3>4, <3>5, ConsumeOwes
  <2>12. /\ \A h \in Gens : h # g => /\ out'[h] = out[h] /\ reader'[h] = reader[h]
                                     /\ pending'[h] = pending[h] /\ keepAlive'[h] = keepAlive[h]
         /\ reader'[g] = "reading"
         /\ \A x \in Ids : pending'[g][x] \in {0, pending[g][x]}
         /\ stale' \in [Gens -> BOOLEAN] /\ buf' \in [Ids -> 0..Capacity]
         /\ reader' \in [Gens -> {"none", "reading", "sending", "hosting", "broken", "ended"}]
    BY <1>1, <1>2, <1>4, <2>7
  <2>13. UNCHANGED <<lockVars, child, inbox, running, eventsLeft, callerVars, att, sentOn, open>>
    BY <1>1
  <2> QED
    BY <1>1, <1>2, <2>5, <2>6, <2>7, <2>9, <2>10, <2>11, <2>12, <2>13, ReaderStep
<1> QED
  BY <1>5, <1>6

\* Whatever a reader does keeps the invariant.
LEMMA ReaderSteps ==
    ASSUME IInv, NEW g \in Gens, Reader(g)
    PROVE  IInv'
<1>1. /\ pending \in [Gens -> [Ids -> Nat]] /\ keepAlive \in [Gens -> SUBSET Ids]
      /\ reader \in [Gens -> {"none", "reading", "sending", "hosting", "broken", "ended"}]
      /\ buf \in [Ids -> 0..Capacity] /\ stale \in [Gens -> BOOLEAN]
      /\ resp \in [Ids -> [kind : {"none", "ok", "error", "closed"}, gen : 0..MaxGens]]
      /\ out \in [Gens -> Seq(Msgs)]
  BY DEF IInv, TypeOK
<1>2. \A x \in keepAlive[g] :
          /\ x \in Dev \X {"main"} /\ pending[g][x] # 0
          /\ HasReceiver(g, x) => resp[x].kind # "none"
  BY DEF IInv, KeepStage
\* Heartbeats and host requests concern no entry.
<1>3. ASSUME out[g] # <<>>, NextMsg(g).kind \in {"heartbeat", "host_request"}, Consume(g),
             reader[g] = "reading", NEW where \in {"reading", "hosting"},
             reader' = [reader EXCEPT ![g] = where],
             stale' \in [Gens -> BOOLEAN],
             UNCHANGED <<lockVars, child, inbox, running, eventsLeft, tableVars, callerVars,
                         chanVars>>
      PROVE  IInv'
  <2>1. UNCHANGED <<pending, keepAlive, att, sentOn, open, buf, resp>>
    BY <1>3 DEF tableVars, chanVars
  <2>2. child[g] = "alive" => OwedBy(g)'
    <3>1. Registered(g)' = Registered(g)
      BY <2>1 DEF Registered
    <3> QED
      BY <1>3, <2>1, <3>1, ConsumeOwes
  <2>3. /\ out' \in [Gens -> Seq(Msgs)] /\ \A h \in Gens : h # g => out'[h] = out[h]
    BY <1>3, Consumed
  <2>4. /\ reader' \in [Gens -> {"none", "reading", "sending", "hosting", "broken", "ended"}]
        /\ reader'[g] = where /\ \A h \in Gens : h # g => reader'[h] = reader[h]
    BY <1>1, <1>3
  <2>5. /\ \A x \in Ids : pending'[g][x] = pending[g][x] /\ resp'[x] = resp[x]
        /\ \A x \in keepAlive'[g] :
              /\ x \in Dev \X {"main"} /\ pending'[g][x] # 0
              /\ HasReceiver(g, x) => resp'[x].kind # "none"
        /\ \A h \in Gens : h # g => /\ out'[h] = out[h] /\ reader'[h] = reader[h]
                                    /\ pending'[h] = pending[h] /\ keepAlive'[h] = keepAlive[h]
        /\ reader'[g] # "none" /\ reader'[g] # "sending" /\ reader'[g] # "ended"
    BY <1>2, <1>3, <2>1, <2>3, <2>4
  <2> QED
    BY <1>1, <1>3, <2>1, <2>2, <2>3, <2>4, <2>5, ReaderStep
<1>4. CASE ReadHeartbeat(g)
  <2>1. /\ out[g] # <<>> /\ NextMsg(g).kind = "heartbeat" /\ Consume(g)
        /\ reader[g] = "reading" /\ stale' = [stale EXCEPT ![g] = FALSE]
        /\ UNCHANGED <<reader, lockVars, child, inbox, running, eventsLeft, tableVars,
                       callerVars, chanVars>>
    BY <1>4 DEF ReadHeartbeat, Reading
  <2>2. reader' = [reader EXCEPT ![g] = "reading"] /\ stale' \in [Gens -> BOOLEAN]
    BY <1>1, <2>1
  <2> QED
    BY <1>3, <2>1, <2>2
<1>5. CASE ReadHostRequest(g)
  <2>1. /\ out[g] # <<>> /\ NextMsg(g).kind = "host_request" /\ Consume(g)
        /\ reader[g] = "reading" /\ reader' = [reader EXCEPT ![g] = "hosting"]
        /\ UNCHANGED <<stale, lockVars, child, inbox, running, eventsLeft, tableVars,
                       callerVars, chanVars>>
    BY <1>5 DEF ReadHostRequest, Reading
  <2> QED
    BY <1>1, <1>3, <2>1
<1>6. CASE ReadEvent(g) \/ Unblock(g)
  <2>1. /\ reader[g] # "none" /\ out[g] # <<>> /\ NextMsg(g).kind \in {"event", "shutdown"}
        /\ ~MustWait(g) /\ Deliver(g)
    BY <1>6 DEF ReadEvent, Unblock, Reading, IInv, ReaderStage
  <2> QED
    BY <2>1, DeliverStep
<1>7. CASE ReadResponse(g)
  BY <1>7, ReadResponseStep
<1>8. CASE ReadError(g)
  <2>1. reader[g] = "reading"
    BY <1>8 DEF ReadError, Reading
  <2>2. \/ out[g] # <<>> /\ Consume(g) /\ ReaderEnds(g, "broken")
        \/ child[g] = "exited" /\ UNCHANGED out /\ ReaderEnds(g, "ended")
    BY <1>8 DEF ReadError, Reading
  <2> QED
    BY <2>1, <2>2, ReaderStops
\* A reader that only changes where it is.
<1>9. ASSUME NEW where \in {"reading", "sending"}, reader[g] # "none",
             reader' = [reader EXCEPT ![g] = where],
             where = "sending" => out[g] # <<>> /\ NextMsg(g).kind \in {"event", "shutdown"},
             UNCHANGED <<lockVars, childVars, tableVars, callerVars, chanVars>>
      PROVE  IInv'
  <2>1. UNCHANGED <<child, stale, inbox, running, out, eventsLeft, pending, keepAlive, att,
                    sentOn, open, buf, resp>>
    BY <1>9 DEF childVars, tableVars, chanVars
  <2>2. child[g] = "alive" => OwedBy(g)'
    <3> SUFFICES ASSUME child[g] = "alive"
                 PROVE  OwedBy(g)'
      OBVIOUS
    <3>1. OwedBy(g) /\ UNCHANGED <<pc, method, gen>>
      BY <1>9 DEF IInv, OwedStage, lockVars, callerVars
    <3> QED
      BY <2>1, <3>1 DEF OwedBy, Registered, AboutToWrite, Id, Asked, Written
  <2>3. /\ reader' \in [Gens -> {"none", "reading", "sending", "hosting", "broken", "ended"}]
        /\ reader'[g] = where /\ \A h \in Gens : h # g => reader'[h] = reader[h]
    BY <1>1, <1>9
  <2>4. /\ \A x \in Ids : pending'[g][x] = pending[g][x] /\ resp'[x] = resp[x]
        /\ \A x \in keepAlive'[g] :
              /\ x \in Dev \X {"main"} /\ pending'[g][x] # 0
              /\ HasReceiver(g, x) => resp'[x].kind # "none"
        /\ \A h \in Gens : h # g => /\ out'[h] = out[h] /\ reader'[h] = reader[h]
                                    /\ pending'[h] = pending[h] /\ keepAlive'[h] = keepAlive[h]
        /\ reader'[g] # "none" /\ reader'[g] # "ended"
        /\ reader'[g] = "sending" => out'[g] # <<>> /\ Head(out'[g]).kind \in {"event", "shutdown"}
    BY <1>2, <1>9, <2>1, <2>3 DEF NextMsg
  <2> QED
    BY <1>1, <1>9, <2>1, <2>2, <2>3, <2>4, ReaderStep
<1>10. CASE BlockOnEvent(g)
  <2>1. /\ reader[g] # "none" /\ reader' = [reader EXCEPT ![g] = "sending"]
        /\ out[g] # <<>> /\ NextMsg(g).kind \in {"event", "shutdown"}
        /\ UNCHANGED <<lockVars, childVars, tableVars, callerVars, chanVars>>
    BY <1>10 DEF BlockOnEvent, Reading
  <2> QED
    BY <1>9, <2>1
<1>11. CASE HostDone(g)
  <2>1. reader[g] = "hosting" /\ UNCHANGED out
    BY <1>11 DEF HostDone
  <2>2. CASE child[g] = "exited" /\ ReaderEnds(g, "ended")
    BY <2>1, <2>2, ReaderStops
  <2>3. CASE ~(child[g] = "exited" /\ ReaderEnds(g, "ended"))
    <3>1. /\ reader' = [reader EXCEPT ![g] = "reading"]
          /\ UNCHANGED <<lockVars, child, stale, inbox, running, out, eventsLeft, tableVars,
                         callerVars, chanVars>>
      BY <1>11, <2>3 DEF HostDone
    <3>2. UNCHANGED <<lockVars, childVars, tableVars, callerVars, chanVars>>
      BY <3>1 DEF childVars
    <3> QED
      BY <1>9, <2>1, <3>1, <3>2
  <2> QED
    BY <2>2, <2>3
<1> QED
  BY <1>4, <1>5, <1>6, <1>7, <1>8, <1>10, <1>11 DEF Reader


-----------------------------------------------------------------------------
(* The shutdown.                                                           *)

\* The process is taken: who is registered with it is answered before it goes.
LEMMA TakeStep ==
    ASSUME IInv, NEW c \in Callers, Take(c)
    PROVE  IInv'
<1>1. /\ pc[c] = "take" /\ lock = NoCaller /\ gen' = 0 /\ pc' = [pc EXCEPT ![c] = "done"]
      /\ UNCHANGED <<lock, gens, reader, method, tries, fallback, outcome, att, sentOn, open, buf>>
  BY DEF Take, Goto
<1>2. /\ NoCaller \notin Callers /\ \A b \in Callers : pc[b] \notin Opening
      /\ pc \in [Callers -> PCs] /\ "done" \in PCs /\ "done" \notin Opening
      /\ {"write", "cleanup", "insert"} \subseteq Opening
      /\ gen \in 0..MaxGens /\ gens \in 0..MaxGens /\ MaxGens \in Nat
  BY <1>1, CallersAssumption, BoundsAssumption DEF IInv, TypeOK, LockStage, PCs, Opening
<1>3. /\ pc' \in [Callers -> PCs] /\ pc'[c] = "done"
      /\ \A b \in Callers : pc'[b] \notin Opening
      /\ \A b \in Callers : b # c => pc'[b] = pc[b]
      /\ \A b \in Callers : Id(b)' = Id(b) /\ Id(b) \in Ids
      /\ \A id \in Ids : id[1] \in Callers
  BY <1>1, <1>2, IdsOfCallers DEF Id
<1>4. /\ \A h \in Gens : /\ Registered(h)' = {id \in Ids : pending'[h][id] # 0}
                         /\ Registered(h) \subseteq Ids
      /\ \A h \in Gens : reader[h] = "ended" => Registered(h) = {}
      /\ \A h : \A id \in Ids : ~AboutToWrite(h, id)
  <2>1. \A id \in Ids : pc[id[1]] \notin {"write", "cleanup"}
    BY <1>2, <1>3
  <2>2. \A h \in Gens : Registered(h) \subseteq Ids
    BY DEF Registered
  <2> QED
    BY <2>1, <2>2 DEF Registered, IInv, GoneProcessIsEmpty, AboutToWrite
\* What is left to show of the process that is taken and of all others.
<1>5. ASSUME \A h \in Gens : \/ UNCHANGED <<child[h], inbox[h], running[h], out[h], pending[h],
                                            keepAlive[h]>>
                             \/ /\ h = gen /\ child[h] # "none" /\ child'[h] = "exited"
                                /\ inbox'[h] = {} /\ running'[h] = {} /\ out'[h] = out[h]
                                /\ keepAlive'[h] = {} /\ \A id \in Ids : pending'[h][id] = 0,
             child' \in [Gens -> {"none", "alive", "exited"}],
             stale' \in [Gens -> BOOLEAN],
             inbox' \in [Gens -> SUBSET [id : Ids, att : Nat]],
             running' \in [Gens -> SUBSET Ids],
             out' \in [Gens -> Seq(Msgs)], eventsLeft' \in 0..MaxEvents,
             pending' \in [Gens -> [Ids -> Nat]], keepAlive' \in [Gens -> SUBSET Ids],
             resp' \in [Ids -> [kind : {"none", "ok", "error", "closed"}, gen : 0..MaxGens]],
             \A id \in Ids : \/ resp'[id] = resp[id]
                             \/ resp'[id].kind # "none" /\ resp'[id].gen = sentOn[id],
             \A h \in Gens, id \in Ids : HasReceiver(h, id) /\ pending'[h][id] # pending[h][id] =>
                                             resp'[id].kind # "none"
      PROVE  IInv'
  <2>1. \A h \in Gens : /\ out'[h] = out[h]
                        /\ Registered(h)' \subseteq Registered(h)
                        /\ child'[h] = "none" <=> child[h] = "none"
                        /\ child[h] = "exited" => child'[h] = "exited"
                        /\ \A id \in Ids : pending'[h][id] \in {0, pending[h][id]}
    <3>1. \A h \in Gens : /\ out'[h] = out[h]
                          /\ child'[h] = "none" <=> child[h] = "none"
                          /\ child[h] = "exited" => child'[h] = "exited"
                          /\ \A id \in Ids : pending'[h][id] \in {0, pending[h][id]}
      BY <1>5
    <3> QED
      BY <1>4, <3>1 DEF Registered
  <2>2. TypeOK'
    BY SMTT(30), <1>1, <1>2, <1>3, <1>5 DEF IInv, TypeOK
  <2>3. LockStage'
    <3>1. \A b \in Callers : method[b] = "stop" \/ pc[b] = "streaming" => b \in Dev
      BY DEF IInv, LockStage
    <3>2. \A b \in Callers : pc'[b] = "streaming" => pc[b] = "streaming"
      BY <1>3
    <3> QED
      BY <1>1, <1>2, <1>3, <3>1, <3>2 DEF LockStage
  <2>4. SpawnStage'
    <3> SUFFICES ASSUME NEW h \in Gens
                 PROVE  /\ child'[h] = "none" <=> h > gens'
                        /\ reader'[h] = "none" <=> h > gens'
                        /\ child'[h] # "alive" => inbox'[h] = {} /\ running'[h] = {}
                        /\ child'[h] = "none" =>
                              out'[h] = <<>> /\ Registered(h)' = {} /\ keepAlive'[h] = {}
      BY <1>1, <1>2 DEF SpawnStage
    <3>1. /\ child[h] = "none" <=> h > gens
          /\ reader[h] = "none" <=> h > gens
          /\ child[h] # "alive" => inbox[h] = {} /\ running[h] = {}
          /\ child[h] = "none" => out[h] = <<>> /\ Registered(h) = {} /\ keepAlive[h] = {}
      BY DEF IInv, SpawnStage
    <3> QED
      BY <1>1, <1>5, <2>1, <3>1
  <2>5. ReaderStage'
    BY <1>1, <2>1 DEF IInv, ReaderStage, NextMsg
  <2>6. TableStage'
    <3>1. \A h \in Gens : /\ Cardinality(Registered(h)') <= Cardinality(Registered(h))
                          /\ Cardinality(Registered(h)') \in Nat
                          /\ Cardinality(Registered(h)) \in Nat
      BY <1>4, <2>1, IdsOfCallers, FS_Subset, FS_CardinalityType
    <3>2. PendingBounded'
      BY <3>1, BoundsAssumption DEF IInv, TableStage, PendingBounded
    <3>3. \A b \in Callers : pc'[b] # "insert"
      BY <1>2, <1>3
    <3> QED
      BY <3>2, <3>3 DEF TableStage
  <2>7. WaitStage'
    <3> SUFFICES ASSUME NEW b \in Callers, pc'[b] \in {"write", "waiting"}
                 PROVE  /\ open'[Id(b)] /\ sentOn'[Id(b)] \in Gens
                        /\ pc'[b] = "write" => sentOn'[Id(b)] = gen'
                        /\ \/ resp'[Id(b)].kind # "none"
                           \/ pending'[sentOn'[Id(b)]][Id(b)] = att'[Id(b)]
      BY <1>3 DEF WaitStage
    <3>1. pc'[b] # "write" /\ pc[b] = "waiting"
      BY <1>2, <1>3
    <3>2. /\ open[Id(b)] /\ sentOn[Id(b)] \in Gens /\ Id(b) \in Ids
          /\ \/ resp[Id(b)].kind # "none"
             \/ pending[sentOn[Id(b)]][Id(b)] = att[Id(b)]
      BY <1>3, <3>1 DEF IInv, WaitStage
    <3>3. CASE resp[Id(b)].kind # "none"
      BY <1>1, <1>5, <3>1, <3>2, <3>3
    <3>4. CASE resp[Id(b)].kind = "none"
      <4>1. HasReceiver(sentOn[Id(b)], Id(b))
        BY <3>2, <3>4 DEF HasReceiver
      <4> QED
        BY <1>1, <1>5, <3>1, <3>2, <3>4, <4>1
    <3> QED
      BY <3>3, <3>4
  <2>8. KeepStage'
    <3> SUFFICES ASSUME NEW h \in Gens, NEW id \in keepAlive'[h]
                 PROVE  /\ id \in Dev \X {"main"} /\ pending'[h][id] # 0
                        /\ HasReceiver(h, id)' => resp'[id].kind # "none"
      BY DEF KeepStage
    <3>1. id \in keepAlive[h] /\ pending'[h] = pending[h] /\ id \in Ids
      BY <1>5
    <3>2. /\ id \in Dev \X {"main"} /\ pending[h][id] # 0
          /\ HasReceiver(h, id) => resp[id].kind # "none"
      BY <3>1 DEF IInv, KeepStage
    <3>3. HasReceiver(h, id)' => HasReceiver(h, id)
      BY <1>1, <3>1 DEF HasReceiver
    <3> QED
      BY <1>5, <3>1, <3>2, <3>3
  <2>9. GoneProcessIsEmpty'
    BY <1>1, <1>4, <2>1 DEF GoneProcessIsEmpty
  <2>10. OwedStage'
    <3> SUFFICES ASSUME NEW h \in Gens, child'[h] = "alive"
                 PROVE  OwedBy(h)'
      BY DEF OwedStage
    <3>1. UNCHANGED <<child[h], inbox[h], running[h], out[h], pending[h], keepAlive[h]>>
      BY <1>5
    <3>2. OwedBy(h)
      BY <3>1 DEF IInv, OwedStage
    <3>3. /\ \A id, kind : /\ Asked(h, id)' <=> Asked(h, id)
                           /\ Written(h, kind, id)' <=> Written(h, kind, id)
          /\ Registered(h)' = Registered(h)
      BY <3>1 DEF Asked, Written, Registered
    <3>4. \A k \in 1..Len(out[h]) :
              out[h][k].kind = "response" /\ IsLong(out[h][k]) =>
                  \/ out[h][k].id \in running[h]
                  \/ \E j \in (k + 1)..Len(out[h]) :
                        out[h][j].kind = "shutdown" /\ out[h][j].id = out[h][k].id
      BY <3>2 DEF OwedBy
    <3> QED
      BY <1>4, <3>1, <3>2, <3>3, <3>4 DEF OwedBy
  <2>11. ApartStage'
    BY <1>1, <1>5 DEF IInv, ApartStage
  <2> QED
    BY <2>2, <2>3, <2>4, <2>5, <2>6, <2>7, <2>8, <2>9, <2>10, <2>11 DEF IInv
<1>6. CASE gen = 0
  <2>1. UNCHANGED <<childVars, tableVars, resp>>
    BY <1>6 DEF Take
  <2>2. UNCHANGED <<child, stale, inbox, running, out, eventsLeft, pending, keepAlive>>
    BY <2>1 DEF childVars, tableVars
  <2>3. /\ child \in [Gens -> {"none", "alive", "exited"}] /\ stale \in [Gens -> BOOLEAN]
        /\ inbox \in [Gens -> SUBSET [id : Ids, att : Nat]]
        /\ running \in [Gens -> SUBSET Ids]
        /\ out \in [Gens -> Seq(Msgs)] /\ eventsLeft \in 0..MaxEvents
        /\ pending \in [Gens -> [Ids -> Nat]] /\ keepAlive \in [Gens -> SUBSET Ids]
        /\ resp \in [Ids -> [kind : {"none", "ok", "error", "closed"}, gen : 0..MaxGens]]
    BY DEF IInv, TypeOK
  <2> QED
    BY <1>5, <2>1, <2>2, <2>3
<1>7. CASE gen # 0
  <2>1. FailPending(gen, gen) /\ Exited(gen)
    BY <1>7 DEF Take
  <2>2. /\ child' = [child EXCEPT ![gen] = "exited"]
        /\ inbox' = [inbox EXCEPT ![gen] = {}]
        /\ running' = [running EXCEPT ![gen] = {}]
        /\ UNCHANGED <<stale, out, eventsLeft>>
    BY <2>1 DEF Exited
  <2>3. gen \in Gens
    BY <1>2, <1>7 DEF Gens
  <2>4. child[gen] # "none"
    <3>1. gen <= gens
      BY DEF IInv, SpawnStage
    <3> QED
      BY <1>2, <2>3, <3>1 DEF IInv, SpawnStage
  <2>5. /\ pending' \in [Gens -> [Ids -> Nat]] /\ keepAlive' \in [Gens -> SUBSET Ids]
        /\ resp' \in [Ids -> [kind : {"none", "ok", "error", "closed"}, gen : 0..MaxGens]]
        /\ \A h \in Gens : h # gen => pending'[h] = pending[h] /\ keepAlive'[h] = keepAlive[h]
        /\ keepAlive'[gen] = {} /\ \A id \in Ids : pending'[gen][id] = 0
        /\ \A id \in Ids : \/ resp'[id] = resp[id]
                           \/ HasReceiver(gen, id) /\ resp'[id].kind # "none" /\ resp'[id].gen = gen
        /\ \A id \in Ids : HasReceiver(gen, id) => resp'[id].kind # "none"
    BY <2>1, <2>3, PendingFailed
  <2>6. /\ child \in [Gens -> {"none", "alive", "exited"}] /\ stale \in [Gens -> BOOLEAN]
        /\ inbox \in [Gens -> SUBSET [id : Ids, att : Nat]]
        /\ running \in [Gens -> SUBSET Ids]
        /\ out \in [Gens -> Seq(Msgs)] /\ eventsLeft \in 0..MaxEvents
    BY DEF IInv, TypeOK
  <2>7. /\ child' \in [Gens -> {"none", "alive", "exited"}] /\ stale' \in [Gens -> BOOLEAN]
        /\ inbox' \in [Gens -> SUBSET [id : Ids, att : Nat]]
        /\ running' \in [Gens -> SUBSET Ids]
        /\ out' \in [Gens -> Seq(Msgs)] /\ eventsLeft' \in 0..MaxEvents
        /\ child'[gen] = "exited" /\ inbox'[gen] = {} /\ running'[gen] = {}
        /\ \A h \in Gens : h # gen => UNCHANGED <<child[h], inbox[h], running[h]>>
    BY <2>2, <2>3, <2>6
  <2>8. \A h \in Gens : \/ UNCHANGED <<child[h], inbox[h], running[h], out[h], pending[h],
                                       keepAlive[h]>>
                        \/ /\ h = gen /\ child[h] # "none" /\ child'[h] = "exited"
                           /\ inbox'[h] = {} /\ running'[h] = {} /\ out'[h] = out[h]
                           /\ keepAlive'[h] = {} /\ \A id \in Ids : pending'[h][id] = 0
    BY <2>2, <2>4, <2>5, <2>7
  <2>9. \A id \in Ids : \/ resp'[id] = resp[id]
                        \/ resp'[id].kind # "none" /\ resp'[id].gen = sentOn[id]
    BY <2>5 DEF HasReceiver
  <2>10. \A h \in Gens, id \in Ids : HasReceiver(h, id) /\ pending'[h][id] # pending[h][id] =>
                                         resp'[id].kind # "none"
    BY <2>5
  <2> QED
    BY <1>5, <2>5, <2>7, <2>8, <2>9, <2>10
<1> QED
  BY <1>6, <1>7

-----------------------------------------------------------------------------
(* The theorems.                                                           *)

\* Nothing is spawned, registered or asked for at the start.
LEMMA InitInductive == Init => IInv
<1> SUFFICES ASSUME Init
             PROVE  IInv
  OBVIOUS
<1>1. \A g \in Gens : Registered(g) = {}
  BY DEF Init, Registered
<1>2. \A g \in Gens : g \in Nat \ {0} /\ g > 0
  BY BoundsAssumption DEF Gens
<1>3. \A c \in Callers : pc[c] = "open" /\ pc[c] \notin Opening /\ lock # c /\ method[c] = "main"
  BY CallersAssumption DEF Init, Opening
<1>4. TypeOK
  <2>1. /\ "open" \in PCs /\ "none" \in Outcomes
        /\ 0 \in 0..MaxGens /\ 0 \in 0..Capacity /\ MaxEvents \in 0..MaxEvents
        /\ 1 \in 1..(Retries + 1) /\ <<>> \in Seq(Msgs)
        /\ NoResp \in [kind : {"none", "ok", "error", "closed"}, gen : 0..MaxGens]
    <3>1. 0 \in 0..MaxGens
      BY BoundsAssumption
    <3> QED
      BY <3>1, BoundsAssumption DEF PCs, Outcomes, NoResp
  <2>2. /\ lock \in Callers \cup {NoCaller} /\ gen \in 0..MaxGens /\ gens \in 0..MaxGens
        /\ child \in [Gens -> {"none", "alive", "exited"}] /\ stale \in [Gens -> BOOLEAN]
        /\ inbox \in [Gens -> SUBSET [id : Ids, att : Nat]]
        /\ running \in [Gens -> SUBSET Ids] /\ out \in [Gens -> Seq(Msgs)]
        /\ eventsLeft \in 0..MaxEvents
    BY <2>1 DEF Init
  <2>3. /\ reader \in [Gens -> {"none", "reading", "sending", "hosting", "broken", "ended"}]
        /\ pending \in [Gens -> [Ids -> Nat]] /\ keepAlive \in [Gens -> SUBSET Ids]
        /\ pc \in [Callers -> PCs] /\ method \in [Callers -> {"main", "stop"}]
        /\ tries \in [Callers -> 1..(Retries + 1)] /\ fallback \in [Callers -> BOOLEAN]
        /\ outcome \in [Callers -> Outcomes]
    BY <2>1 DEF Init
  <2>4. /\ att \in [Ids -> Nat] /\ sentOn \in [Ids -> 0..MaxGens] /\ open \in [Ids -> BOOLEAN]
        /\ buf \in [Ids -> 0..Capacity]
        /\ resp \in [Ids -> [kind : {"none", "ok", "error", "closed"}, gen : 0..MaxGens]]
    BY <2>1 DEF Init
  <2> QED
    BY <2>2, <2>3, <2>4 DEF TypeOK
<1>5. LockStage /\ WaitStage
  BY <1>3 DEF LockStage, WaitStage, Opening
<1>6. SpawnStage /\ ReaderStage /\ KeepStage /\ GoneProcessIsEmpty
  BY <1>1, <1>2 DEF Init, SpawnStage, ReaderStage, KeepStage, GoneProcessIsEmpty
<1>7. TableStage
  BY <1>1, <1>3, BoundsAssumption, FS_EmptySet DEF TableStage, PendingBounded, Opening
<1>8. OwedStage /\ ApartStage
  BY DEF Init, OwedStage, ApartStage, NoResp
<1> QED
  BY <1>4, <1>5, <1>6, <1>7, <1>8 DEF IInv

\* Every step keeps the invariant.
LEMMA NextInductive == IInv /\ [Next]_vars => IInv'
<1> SUFFICES ASSUME IInv, [Next]_vars
             PROVE  IInv'
  OBVIOUS
<1>1. CASE \E c \in Callers : OpenStep(c) \/ CallStep(c) \/ Timeout(c) \/ Interrupt(c)
  BY <1>1, OpenSteps, SpawnStep, InsertStep, WriteStep, CleanupStep, CallSteps, TakeStep
     DEF OpenStep, CallStep
<1>2. CASE \E g \in Gens : Child(g) \/ Reader(g)
  BY <1>2, ChildSteps, ReaderSteps
<1>3. CASE UNCHANGED vars
  <2>1. UNCHANGED <<lock, gen, gens, child, stale, inbox, running, out, eventsLeft, reader,
                    pending, keepAlive, pc, method, tries, fallback, outcome, att, sentOn,
                    open, buf, resp>>
    BY <1>3 DEF vars, lockVars, childVars, tableVars, callerVars, chanVars
  <2>2. \A g \in Gens : OwedBy(g)' <=> OwedBy(g)
    BY <2>1 DEF OwedBy, Registered, AboutToWrite, Id, Asked, Written
  <2>3. TypeOK' /\ LockStage' /\ SpawnStage' /\ ReaderStage' /\ TableStage'
    BY <2>1 DEF IInv, TypeOK, LockStage, SpawnStage, ReaderStage, TableStage, PendingBounded,
                Registered, NextMsg
  <2>4. WaitStage' /\ KeepStage' /\ GoneProcessIsEmpty' /\ OwedStage' /\ ApartStage'
    BY <2>1, <2>2 DEF IInv, WaitStage, KeepStage, GoneProcessIsEmpty, OwedStage, ApartStage,
                      Registered, HasReceiver, Id
  <2> QED
    BY <2>3, <2>4 DEF IInv
<1> QED
  BY <1>1, <1>2, <1>3 DEF Next

\* The inductive invariant holds of every behaviour.
THEOREM Inductive == Spec => []IInv
  BY InitInductive, NextInductive, PTL DEF Spec

\* Every variable keeps its type, whoever calls and whatever processes do.
THEOREM TypeCorrect == Spec => []TypeOK
<1>1. IInv => TypeOK
  BY DEF IInv
<1> QED
  BY <1>1, Inductive, PTL

\* Backpressure: no process has more than max_pending_requests entries.
THEOREM BackpressureHolds == Spec => []PendingBounded
<1>1. IInv => PendingBounded
  BY DEF IInv, TableStage
<1> QED
  BY <1>1, Inductive, PTL

\* Who waits is registered with its process or has been answered.
THEOREM NobodyIsForgotten == Spec => []WaiterIsRegistered
<1>1. IInv => WaiterIsRegistered
  BY DEF IInv, WaitStage, WaiterIsRegistered
<1> QED
  BY <1>1, Inductive, PTL

\* Nobody is registered with a process whose reader ended, but for the call that is
\* about to find out.
THEOREM GoneProcessesAreEmpty == Spec => []GoneProcessIsEmpty
<1>1. IInv => GoneProcessIsEmpty
  BY DEF IInv
<1> QED
  BY <1>1, Inductive, PTL

\* Every entry of a live process is owed an answer or an event.shutdown.
THEOREM EntriesAreOwed == Spec => []EveryEntryIsOwed
<1>1. IInv => EveryEntryIsOwed
  <2> SUFFICES ASSUME IInv, NEW g \in Gens, child[g] = "alive", NEW id \in Registered(g)
               PROVE  \/ pc[id[1]] = "write" /\ Id(id[1]) = id
                      \/ \E r \in inbox[g] : r.id = id
                      \/ \E i \in 1..Len(out[g]) :
                            /\ out[g][i].kind \in {"response", "shutdown"}
                            /\ out[g][i].id = id
                      \/ id \in running[g]
    BY DEF EveryEntryIsOwed
  <2>1. OwedBy(g)
    BY DEF IInv, OwedStage
  <2>2. CASE id \in keepAlive[g]
    BY <2>1, <2>2 DEF OwedBy, Written
  <2>3. CASE id \notin keepAlive[g]
    BY <2>1, <2>3 DEF OwedBy, Written, AboutToWrite, Asked
  <2> QED
    BY <2>2, <2>3
<1> QED
  BY <1>1, Inductive, PTL

\* No answer of one process reaches a call that was registered with another.
THEOREM ProcessesStayApart == Spec => []GenerationsApart
<1>1. IInv => GenerationsApart
  BY DEF IInv, ApartStage, GenerationsApart
<1> QED
  BY <1>1, Inductive, PTL

-----------------------------------------------------------------------------
(* A dev command whose stop went well.                                     *)

\* The hypotheses: a request is dispatched once, one dev command, and no process
\* is replaced while it lives.
DispatchedOnce ==
    /\ Retries = 0
    /\ \A c, d \in Dev : c = d
    /\ "silence" \notin Faults

DevId(c)  == <<c, "main">>
StopId(c) == <<c, "stop">>

\* Somebody has been answered with success, or is about to be.
Answered(id) ==
    resp[id].kind = "ok" \/ \E g \in Gens : Written(g, "response", id)

\* The request was not written to any process yet.
Unsent(id) == ~Answered(id) /\ \A g \in Gens : ~Asked(g, id) /\ id \notin running[g]

\* The caller has yet to write the request it makes.
BeforeWrite(c) == pc[c] = "open" \/ pc[c] \in Opening

\* Only the current process lives.
LoneStage ==
    /\ \A g \in Gens : ~stale[g] /\ (child[g] = "alive" => g = gen)
    /\ \A c \in Callers : pc[c] = "spawn" => gen = 0 \/ child[gen] = "exited"

\* The requests of a dev command are in one process at most, once, and not any
\* more when they are answered.
OnceStage ==
    \A c \in Dev :
        /\ method[c] = "main" /\ BeforeWrite(c) => Unsent(DevId(c))
        /\ method[c] = "main" \/ BeforeWrite(c) => Unsent(StopId(c))
        /\ pc[c] # "take"
        /\ pc[c] = "streaming" => method[c] = "main"
        /\ pc[c] \in {"draining", "done"} /\ outcome[c] = "ok" => method[c] = "stop"
        /\ pc[c] = "streaming" \/ method[c] = "stop" => \A g \in Gens : ~Asked(g, DevId(c))
        /\ \A id \in {DevId(c), StopId(c)} :
              /\ Answered(id) => \A g \in Gens : ~Asked(g, id)
              /\ \A g, h \in Gens : \A q \in inbox[g], r \in inbox[h] :
                    q.id = id /\ r.id = id => g = h /\ q = r

\* The process that runs the compiler is the one that was asked to stop it, and
\* runs it no more when it has answered.
StopStage ==
    \A c \in Dev, g \in Gens :
        /\ running[g] \subseteq Dev \X {"main"}
        /\ DevId(c) \in running[g] =>
              /\ ~Answered(StopId(c))
              /\ method[c] = "stop" /\ pc[c] = "waiting" => Asked(g, StopId(c))
              /\ ~(pc[c] \in {"draining", "done"} /\ outcome[c] = "ok")

DevInv == LoneStage /\ OnceStage /\ StopStage

\* Where a dev command may go in a step that writes no request and reads no
\* answer from a process.
DevMove(c) ==
    \/ pc'[c] = pc[c] /\ method'[c] = method[c] /\ outcome'[c] = outcome[c]
    \/ /\ BeforeWrite(c) /\ method'[c] = method[c]
       /\ \/ pc'[c] = "open" \/ pc'[c] \in Opening
          \/ pc'[c] \in {"draining", "done"} /\ outcome'[c] # "ok"
          \/ pc'[c] = "streaming" /\ method[c] = "main"
    \/ /\ pc[c] = "waiting" /\ method'[c] = method[c]
       /\ \/ pc'[c] \in {"draining", "done"} /\ outcome'[c] # "ok"
          \/ pc'[c] = "streaming" /\ method[c] = "main" /\ resp[DevId(c)].kind = "ok"
          \/ /\ pc'[c] \in {"draining", "done"}
             /\ method[c] = "stop" /\ resp[StopId(c)].kind = "ok"
    \/ pc[c] = "streaming" /\ pc'[c] = "open" /\ method'[c] = "stop"
    \/ pc[c] = "draining" /\ pc'[c] = "done" /\ method'[c] = method[c] /\ outcome'[c] = outcome[c]

\* A step without a new request or answer keeps what is said of dev commands.
LEMMA DevQuiet ==
    ASSUME IInv, OnceStage, StopStage,
           \A g \in Gens : inbox'[g] \subseteq inbox[g] /\ running'[g] \subseteq running[g],
           \A c \in Dev : \A id \in {DevId(c), StopId(c)} : Answered(id)' => Answered(id),
           \A c \in Dev, g \in Gens :
              DevId(c) \in running'[g] /\ Asked(g, StopId(c)) => Asked(g, StopId(c))',
           \A c \in Dev : DevMove(c)
    PROVE  OnceStage' /\ StopStage'
<1>1. \A g \in Gens : \A id : Asked(g, id)' => Asked(g, id)
  BY DEF Asked
<1>2. \A c \in Dev : /\ DevId(c)' = DevId(c) /\ StopId(c)' = StopId(c)
                     /\ Unsent(DevId(c)) => Unsent(DevId(c))'
                     /\ Unsent(StopId(c)) => Unsent(StopId(c))'
  BY <1>1 DEF Unsent, DevId, StopId
<1>3. /\ {"streaming", "draining", "done", "waiting"} \cap Opening = {} /\ {"open", "take"} \cap Opening = {}
      /\ \A c \in Dev : method[c] \in {"main", "stop"}
  BY CallersAssumption DEF Opening, IInv, TypeOK
<1>4. OnceStage'
  <2> SUFFICES ASSUME NEW c \in Dev
               PROVE  /\ method'[c] = "main" /\ BeforeWrite(c)' => Unsent(DevId(c))'
                      /\ method'[c] = "main" \/ BeforeWrite(c)' => Unsent(StopId(c))'
                      /\ pc'[c] # "take"
                      /\ pc'[c] = "streaming" => method'[c] = "main"
                      /\ pc'[c] \in {"draining", "done"} /\ outcome'[c] = "ok" => method'[c] = "stop"
                      /\ pc'[c] = "streaming" \/ method'[c] = "stop" =>
                            \A g \in Gens : ~Asked(g, DevId(c))'
                      /\ \A id \in {DevId(c), StopId(c)} :
                            /\ Answered(id)' => \A g \in Gens : ~Asked(g, id)'
                            /\ \A g, h \in Gens : \A q \in inbox'[g], r \in inbox'[h] :
                                  q.id = id /\ r.id = id => g = h /\ q = r
    BY <1>2 DEF OnceStage
  <2>1. /\ method[c] = "main" /\ BeforeWrite(c) => Unsent(DevId(c))
        /\ method[c] = "main" \/ BeforeWrite(c) => Unsent(StopId(c))
        /\ pc[c] # "take"
        /\ pc[c] = "streaming" => method[c] = "main"
        /\ pc[c] \in {"draining", "done"} /\ outcome[c] = "ok" => method[c] = "stop"
        /\ pc[c] = "streaming" \/ method[c] = "stop" => \A g \in Gens : ~Asked(g, DevId(c))
        /\ \A id \in {DevId(c), StopId(c)} :
              /\ Answered(id) => \A g \in Gens : ~Asked(g, id)
              /\ \A g, h \in Gens : \A q \in inbox[g], r \in inbox[h] :
                    q.id = id /\ r.id = id => g = h /\ q = r
    BY DEF OnceStage
  <2>2. DevMove(c)
    OBVIOUS
  <2>3. method'[c] = "main" => method[c] = "main"
    BY <1>3, <2>1, <2>2 DEF DevMove
  <2>4. BeforeWrite(c)' => BeforeWrite(c) \/ (pc[c] = "streaming" /\ method'[c] = "stop")
    BY <1>3, <2>2 DEF DevMove, BeforeWrite
  <2>5. method'[c] = "main" /\ BeforeWrite(c)' => Unsent(DevId(c))'
    BY <1>2, <2>1, <2>3, <2>4
  <2>6. method'[c] = "main" \/ BeforeWrite(c)' => Unsent(StopId(c))'
    BY <1>2, <2>1, <2>3, <2>4
  <2>7. /\ pc'[c] # "take"
        /\ pc'[c] = "streaming" => method'[c] = "main"
        /\ pc'[c] \in {"draining", "done"} /\ outcome'[c] = "ok" => method'[c] = "stop"
    BY <1>3, <2>1, <2>2 DEF DevMove
  <2>8. pc'[c] = "streaming" \/ method'[c] = "stop" => \A g \in Gens : ~Asked(g, DevId(c))
    <3>1. Unsent(DevId(c)) => \A g \in Gens : ~Asked(g, DevId(c))
      BY DEF Unsent
    <3>2. resp[DevId(c)].kind = "ok" => \A g \in Gens : ~Asked(g, DevId(c))
      BY <2>1 DEF Answered
    <3> QED
      BY <1>3, <2>1, <2>2, <3>1, <3>2 DEF DevMove
  <2>9. \A id \in {DevId(c), StopId(c)} :
            /\ Answered(id)' => \A g \in Gens : ~Asked(g, id)'
            /\ \A g, h \in Gens : \A q \in inbox'[g], r \in inbox'[h] :
                  q.id = id /\ r.id = id => g = h /\ q = r
    BY <1>1, <2>1
  <2>10. pc'[c] = "streaming" \/ method'[c] = "stop" => \A g \in Gens : ~Asked(g, DevId(c))'
    BY <1>1, <2>8
  <2> QED
    BY <2>5, <2>6, <2>7, <2>9, <2>10
<1>5. StopStage'
  <2> SUFFICES ASSUME NEW c \in Dev, NEW g \in Gens
               PROVE  /\ running'[g] \subseteq Dev \X {"main"}
                      /\ DevId(c) \in running'[g] =>
                            /\ ~Answered(StopId(c))'
                            /\ method'[c] = "stop" /\ pc'[c] = "waiting" => Asked(g, StopId(c))'
                            /\ ~(pc'[c] \in {"draining", "done"} /\ outcome'[c] = "ok")
    BY <1>2 DEF StopStage
  <2>1. /\ running[g] \subseteq Dev \X {"main"}
        /\ DevId(c) \in running[g] =>
              /\ ~Answered(StopId(c))
              /\ method[c] = "stop" /\ pc[c] = "waiting" => Asked(g, StopId(c))
              /\ ~(pc[c] \in {"draining", "done"} /\ outcome[c] = "ok")
    BY DEF StopStage
  <2>2. DevMove(c)
    OBVIOUS
  <2>3. pc'[c] = "waiting" => pc[c] = "waiting" /\ method'[c] = method[c]
    BY <1>3, <2>2 DEF DevMove
  <2>4. pc'[c] \in {"draining", "done"} /\ outcome'[c] = "ok" =>
            \/ pc[c] \in {"draining", "done"} /\ outcome[c] = "ok"
            \/ resp[StopId(c)].kind = "ok"
    BY <1>3, <2>2 DEF DevMove
  <2>5. DevId(c) \in running'[g] => DevId(c) \in running[g]
    OBVIOUS
  <2>6. resp[StopId(c)].kind = "ok" => Answered(StopId(c))
    BY DEF Answered
  <2>7. Answered(StopId(c))' => Answered(StopId(c))
    OBVIOUS
  <2>8. DevId(c) \in running'[g] /\ Asked(g, StopId(c)) => Asked(g, StopId(c))'
    OBVIOUS
  <2> QED
    BY <2>1, <2>3, <2>4, <2>5, <2>6, <2>7, <2>8
<1> QED
  BY <1>4, <1>5

\* Only the current process lives: who spawns found none that does.
LEMMA LoneStep ==
    ASSUME DispatchedOnce, IInv, LoneStage, [Next]_vars
    PROVE  LoneStage'
<1>1. /\ gen \in 0..MaxGens /\ gens \in 0..MaxGens /\ MaxGens \in Nat
      /\ stale \in [Gens -> BOOLEAN]
      /\ child \in [Gens -> {"none", "alive", "exited"}]
      /\ pc \in [Callers -> PCs]
      /\ gen # 0 => gen \in Gens
      /\ \A g \in Gens : ~stale[g] /\ (child[g] = "alive" => g = gen)
      /\ \A b \in Callers : pc[b] = "spawn" => gen = 0 \/ child[gen] = "exited"
  BY BoundsAssumption DEF IInv, TypeOK, LoneStage, Gens
<1>2. ASSUME gen' = gen,
             \A g \in Gens : ~stale'[g],
             \A g \in Gens : child'[g] = child[g] \/ (child[g] = "alive" /\ child'[g] = "exited"),
             \A b \in Callers : pc'[b] = "spawn" =>
                 pc[b] = "spawn" \/ gen = 0 \/ child[gen] = "exited"
      PROVE  LoneStage'
  <2>1. \A g \in Gens : child'[g] = "alive" => child[g] = "alive"
    BY <1>2
  <2>2. \A g \in Gens : child[g] = "exited" => child'[g] = "exited"
    BY <1>2
  <2> QED
    BY <1>1, <1>2, <2>1, <2>2 DEF LoneStage
<1>3. ASSUME NEW c \in Callers, NEW p \in PCs \ {"spawn"}, pc' = [pc EXCEPT ![c] = p],
             UNCHANGED <<gen, stale, child>>
      PROVE  LoneStage'
  <2>1. \A b \in Callers : pc'[b] = "spawn" => pc[b] = "spawn"
    BY <1>1, <1>3
  <2> QED
    BY <1>1, <1>2, <1>3, <2>1
<1>4. /\ {"open", "count", "insert", "write", "cleanup", "waiting", "take", "draining",
          "streaming", "done"} \subseteq PCs \ {"spawn"}
  BY DEF PCs, Opening
<1>5. ASSUME NEW c \in Callers, OpenStep(c)
      PROVE  LoneStage'
  <2>1. CASE Acquire(c)
    <3>1. UNCHANGED <<gen, stale, child>>
      BY <2>1 DEF Acquire, childVars
    <3>2. NeedsSpawn => gen = 0 \/ child[gen] = "exited"
      BY <1>1 DEF NeedsSpawn
    <3>3. pc' = [pc EXCEPT ![c] = IF NeedsSpawn THEN "spawn" ELSE "count"]
      BY <2>1 DEF Acquire, Goto
    <3>4. \A b \in Callers : pc'[b] = "spawn" => pc[b] = "spawn" \/ gen = 0 \/ child[gen] = "exited"
      BY <1>1, <3>2, <3>3
    <3> QED
      BY <1>1, <1>2, <3>1, <3>4
  <2>2. CASE Spawn(c)
    <3>1. /\ pc[c] = "spawn" /\ gens < MaxGens /\ gen' = gens + 1
          /\ child' = [child EXCEPT ![gens + 1] = "alive"]
          /\ pc' = [pc EXCEPT ![c] = "count"] /\ stale' = stale
      BY <2>2 DEF Spawn, Goto
    <3>2. "spawn" \in Opening
      BY DEF Opening
    <3>3. \A b \in Callers : b # c => pc[b] # "spawn"
      BY <3>1, <3>2, Alone
    <3>4. \A g \in Gens : child[g] # "alive"
      BY <1>1, <3>1 DEF Gens
    <3>5. /\ \A b \in Callers : pc'[b] # "spawn"
          /\ \A g \in Gens : child'[g] = "alive" => g = gen'
      BY <1>1, <3>1, <3>3, <3>4
    <3> QED
      BY <1>1, <3>1, <3>5 DEF LoneStage
  <2>3. CASE SpawnFails(c) \/ Count(c) \/ Cleanup(c)
    <3>1. UNCHANGED <<gen, stale, child>>
      BY <2>3 DEF SpawnFails, Count, Cleanup, childVars
    <3>2. Goto(c, "insert") \/ FailOpen(c)
      BY <2>3 DEF SpawnFails, Count, Cleanup
    <3>3. \E p \in PCs \ {"spawn"} : pc' = [pc EXCEPT ![c] = p]
      BY <1>4, <3>2 DEF FailOpen, FallBack, EndRequest, Goto, After
    <3> QED
      BY <1>3, <3>1, <3>3
  <2>4. CASE Insert(c) \/ Write(c)
    <3>1. UNCHANGED <<gen, stale, child>>
      BY <2>4 DEF Insert, Write, childVars, lockVars
    <3>2. \E p \in PCs \ {"spawn"} : pc' = [pc EXCEPT ![c] = p]
      BY <1>4, <2>4 DEF Insert, Write, Goto
    <3> QED
      BY <1>3, <3>1, <3>2
  <2> QED
    BY <1>5, <2>1, <2>2, <2>3, <2>4 DEF OpenStep
<1>6. ASSUME NEW c \in Callers, CallStep(c) \/ Timeout(c) \/ Interrupt(c)
      PROVE  LoneStage'
  <2>1. CASE TakeEvent(c)
    <3>1. UNCHANGED <<gen, stale, child, pc>>
      BY <2>1 DEF TakeEvent, lockVars, childVars, callerVars
    <3> QED
      BY <1>1, <1>2, <3>1
  <2>2. CASE TakeResponse(c) \/ Timeout(c) \/ Interrupt(c) \/ DrainEnds(c)
    <3>1. UNCHANGED <<gen, stale, child>>
      BY <2>2 DEF TakeResponse, Timeout, Interrupt, DrainEnds, lockVars, childVars
    <3>2. \E p \in PCs \ {"spawn"} : pc' = [pc EXCEPT ![c] = p]
      BY <1>4, <2>2 DEF TakeResponse, Timeout, Interrupt, DrainEnds, TryAgainOrEnd, EndRequest,
                        Goto, After
    <3> QED
      BY <1>3, <3>1, <3>2
  <2>3. CASE Take(c)
    <3>1. /\ lock = NoCaller /\ gen' = 0 /\ pc' = [pc EXCEPT ![c] = "done"]
          /\ stale' = stale
          /\ IF gen = 0 THEN child' = child ELSE child' = [child EXCEPT ![gen] = "exited"]
      BY <2>3 DEF Take, Goto, Exited, childVars
    <3>2. \A b \in Callers : pc[b] # "spawn"
      BY <3>1, CallersAssumption DEF IInv, LockStage, Opening
    <3>3. \A b \in Callers : pc'[b] # "spawn"
      BY <1>1, <3>1, <3>2
    <3>4. \A g \in Gens : child'[g] # "alive"
      BY <1>1, <3>1 DEF Gens
    <3> QED
      BY <1>1, <3>1, <3>3, <3>4 DEF LoneStage
  <2> QED
    BY <1>6, <2>1, <2>2, <2>3 DEF CallStep
<1>7. ASSUME NEW g \in Gens, Child(g)
      PROVE  LoneStage'
  <2>1. ~Silence(g)
    BY DEF DispatchedOnce, Silence
  <2>2. /\ UNCHANGED <<gen, pc, stale>>
        /\ child' = child \/ (child[g] = "alive" /\ child' = [child EXCEPT ![g] = "exited"])
    BY <1>7, <2>1 DEF Child, Emit, AskHost, Answer, AnswerStop, Heartbeat, Pollute, Exit, Exited,
                      lockVars, callerVars
  <2>3. \A h \in Gens : child'[h] = child[h] \/ (child[h] = "alive" /\ child'[h] = "exited")
    BY <1>1, <2>2
  <2> QED
    BY <1>1, <1>2, <2>2, <2>3
<1>8. ASSUME NEW g \in Gens, Reader(g)
      PROVE  LoneStage'
  <2>1. /\ UNCHANGED <<gen, pc, child>>
        /\ stale' = stale \/ stale' = [stale EXCEPT ![g] = FALSE]
    BY <1>8 DEF Reader, ReadHeartbeat, ReadEvent, BlockOnEvent, Unblock, Deliver, ReadResponse,
                ReadError, ReaderEnds, ReadHostRequest, HostDone, lockVars, childVars, callerVars
  <2>2. \A h \in Gens : ~stale'[h]
    BY <1>1, <2>1
  <2> QED
    BY <1>1, <1>2, <2>1, <2>2
<1>9. CASE UNCHANGED vars
  <2>1. UNCHANGED <<gen, stale, child, pc>>
    BY <1>9 DEF vars, lockVars, childVars, callerVars
  <2> QED
    BY <1>1, <1>2, <2>1
<1> QED
  BY <1>5, <1>6, <1>7, <1>8, <1>9 DEF Next

\* A caller's step that leaves the processes alone.
LEMMA CallerQuiet ==
    ASSUME IInv, OnceStage, StopStage, NEW c \in Callers,
           UNCHANGED <<inbox, running, out>>,
           \A id \in Ids : resp'[id].kind = "ok" => resp[id].kind = "ok",
           \A b \in Callers : b # c =>
              pc'[b] = pc[b] /\ method'[b] = method[b] /\ outcome'[b] = outcome[b],
           c \in Dev => DevMove(c)
    PROVE  OnceStage' /\ StopStage'
<1>1. \A b \in Dev : b \in Callers /\ DevId(b) \in Ids /\ StopId(b) \in Ids
  BY CallersAssumption DEF DevId, StopId, Ids
<1>2. \A g \in Gens : inbox'[g] \subseteq inbox[g] /\ running'[g] \subseteq running[g]
  OBVIOUS
<1>3. \A b \in Dev : \A id \in {DevId(b), StopId(b)} : Answered(id)' => Answered(id)
  BY <1>1 DEF Answered, Written
<1>4. \A b \in Dev, g \in Gens : Asked(g, StopId(b)) => Asked(g, StopId(b))'
  BY DEF Asked, StopId
<1>5. \A b \in Dev : DevMove(b)
  BY <1>1 DEF DevMove
<1> QED
  BY <1>2, <1>3, <1>4, <1>5, DevQuiet

\* The steps of open_call but for the write.
LEMMA OpenDev ==
    ASSUME IInv, OnceStage, StopStage, NEW c \in Callers, OpenStep(c), ~Write(c)
    PROVE  OnceStage' /\ StopStage'
<1>1. /\ pc \in [Callers -> PCs] /\ method \in [Callers -> {"main", "stop"}]
      /\ outcome \in [Callers -> Outcomes]
      /\ resp \in [Ids -> [kind : {"none", "ok", "error", "closed"}, gen : 0..MaxGens]]
      /\ Id(c) \in Ids
      /\ c \in Dev => c \notin Quit
  BY IdsOfCallers, CallersAssumption DEF IInv, TypeOK
<1>2. UNCHANGED <<inbox, running, out>>
  BY DEF OpenStep, Acquire, Spawn, SpawnFails, Count, Insert, Cleanup, childVars
<1>3. /\ {"spawn", "count", "insert", "write", "cleanup"} = Opening
      /\ BeforeWrite(c)
  BY DEF OpenStep, Acquire, Spawn, SpawnFails, Count, Insert, Cleanup, Opening, BeforeWrite
<1>4. ASSUME NEW p \in Opening, Goto(c, p), UNCHANGED <<method, outcome>>,
             \A id \in Ids : resp'[id].kind = "ok" => resp[id].kind = "ok"
      PROVE  OnceStage' /\ StopStage'
  <2>1. \A b \in Callers : pc'[b] = IF b = c THEN p ELSE pc[b]
    BY <1>1, <1>4 DEF Goto
  <2>2. DevMove(c)
    BY <1>3, <1>4, <2>1 DEF DevMove
  <2> QED
    BY <1>2, <1>4, <2>1, <2>2, CallerQuiet
<1>5. ASSUME FailOpen(c)
      PROVE  OnceStage' /\ StopStage'
  <2>1. resp' = resp /\ method' = method
    BY <1>5 DEF FailOpen, FallBack, EndRequest
  <2>2. \E p : pc' = [pc EXCEPT ![c] = p]
    BY <1>5 DEF FailOpen, FallBack, EndRequest, Goto
  <2>3. outcome' = outcome \/ outcome' = [outcome EXCEPT ![c] = "mock"]
    BY <1>5 DEF FailOpen, FallBack, EndRequest
  <2>4. ASSUME c \in Dev
        PROVE  DevMove(c)
    <3>1. CASE fallback[c]
      <4>1. /\ pc'[c] = After(c, "mock") /\ outcome'[c] = "mock"
        BY <1>1, <1>5, <3>1 DEF FailOpen, FallBack, EndRequest, Goto
      <4>2. \/ After(c, "mock") \in {"draining", "done"}
            \/ After(c, "mock") = "streaming" /\ method[c] = "main"
        BY <1>1, <2>4 DEF After
      <4> QED
        BY <1>3, <2>1, <4>1, <4>2 DEF DevMove
    <3>2. CASE ~fallback[c]
      <4>1. pc'[c] = "open"
        BY <1>1, <1>5, <3>2 DEF FailOpen, FallBack, Goto
      <4> QED
        BY <1>3, <2>1, <4>1 DEF DevMove
    <3> QED
      BY <3>1, <3>2
  <2>5. \A b \in Callers : b # c =>
            pc'[b] = pc[b] /\ method'[b] = method[b] /\ outcome'[b] = outcome[b]
    BY <1>1, <2>1, <2>2, <2>3
  <2> QED
    BY <1>2, <2>1, <2>4, <2>5, CallerQuiet
<1>6. CASE Acquire(c)
  <2>1. \E p \in Opening : Goto(c, p)
    BY <1>3, <1>6 DEF Acquire
  <2> QED
    BY <1>4, <1>6, <2>1 DEF Acquire, chanVars
<1>7. CASE Spawn(c)
  BY <1>3, <1>4, <1>7 DEF Spawn, chanVars
<1>8. CASE SpawnFails(c) \/ Cleanup(c)
  BY <1>5, <1>8 DEF SpawnFails, Cleanup
<1>9. CASE Count(c)
  BY <1>3, <1>4, <1>5, <1>9 DEF Count, chanVars
<1>10. CASE Insert(c)
  <2>1. resp' = [resp EXCEPT ![Id(c)] = NoResp] /\ NoResp.kind # "ok"
    BY <1>10 DEF Insert, NoResp
  <2>2. \A id \in Ids : resp'[id].kind = "ok" => resp[id].kind = "ok"
    BY <1>1, <2>1
  <2> QED
    BY <1>3, <1>4, <1>10, <2>2 DEF Insert
<1> QED
  BY <1>6, <1>7, <1>8, <1>9, <1>10 DEF OpenStep

\* A request is written to the current process: a dev command writes each of its
\* two requests once, and a stop to the process that lives.
LEMMA WriteDev ==
    ASSUME IInv, LoneStage, OnceStage, StopStage, NEW c \in Callers, Write(c)
    PROVE  OnceStage' /\ StopStage'
<1>1. /\ pc \in [Callers -> PCs] /\ method \in [Callers -> {"main", "stop"}]
      /\ inbox \in [Gens -> SUBSET [id : Ids, att : Nat]]
      /\ running \in [Gens -> SUBSET Ids]
      /\ Id(c) \in Ids /\ Id(c)[1] = c /\ Id(c)[2] = method[c]
      /\ \A b \in Dev : b \in Callers
  BY IdsOfCallers, CallersAssumption DEF IInv, TypeOK
<1>2. /\ pc[c] = "write" /\ UNCHANGED <<running, out, method, outcome, resp>>
      /\ gen \in Gens /\ BeforeWrite(c)
  BY Alone DEF Write, chanVars, Opening, BeforeWrite
<1>3. CASE child[gen] # "alive"
  <2>1. Goto(c, "cleanup") /\ inbox' = inbox
    BY <1>3 DEF Write
  <2>2. \A b \in Callers : pc'[b] = IF b = c THEN "cleanup" ELSE pc[b]
    BY <1>1, <2>1 DEF Goto
  <2>3. DevMove(c)
    BY <1>2, <2>2 DEF DevMove, Opening
  <2> QED
    BY <1>2, <2>1, <2>2, <2>3, CallerQuiet
<1>4. CASE child[gen] = "alive"
  <2> DEFINE new == Request(Id(c), att[Id(c)])
  <2>1. /\ inbox'[gen] = inbox[gen] \cup {new} /\ new.id = Id(c)
        /\ \A g \in Gens : g # gen => inbox'[g] = inbox[g]
        /\ \A b \in Callers : pc'[b] = IF b = c THEN "waiting" ELSE pc[b]
    BY <1>1, <1>2, <1>4 DEF Write, Goto, Request
  <2> HIDE DEF new
  <2>2. /\ \A g \in Gens : \A id : Asked(g, id)' <=> Asked(g, id) \/ (g = gen /\ id = Id(c))
        /\ \A id : Answered(id)' <=> Answered(id)
    BY <1>2, <2>1 DEF Asked, Answered, Written
  <2>3. \A b \in Dev : /\ DevId(b)' = DevId(b) /\ StopId(b)' = StopId(b)
                       /\ b # c => Id(c) # DevId(b) /\ Id(c) # StopId(b)
                       /\ b = c => Id(c) = IF method[c] = "main" THEN DevId(b) ELSE StopId(b)
                       /\ DevId(b) # StopId(b)
    BY <1>1 DEF DevId, StopId, Id
  <2>4. ASSUME NEW b \in Dev
        PROVE  /\ BeforeWrite(b)' => BeforeWrite(b) /\ b # c
               /\ pc'[b] \in {"streaming", "draining", "done"} => pc'[b] = pc[b] /\ b # c
               /\ method[b] = "main" /\ BeforeWrite(b) => Unsent(DevId(b))
               /\ method[b] = "main" \/ BeforeWrite(b) => Unsent(StopId(b))
    BY <1>1, <1>2, <2>1, <2>4 DEF BeforeWrite, OnceStage, Opening
  <2>5. \A b \in Dev : \A id \in {DevId(b), StopId(b)} :
            /\ id # Id(c) /\ Unsent(id) => Unsent(id)'
            /\ id = Id(c) => Unsent(id)
    BY <1>2, <2>2, <2>3, <2>4 DEF Unsent
  <2>6. OnceStage'
    <3> SUFFICES ASSUME NEW b \in Dev
                 PROVE  /\ method'[b] = "main" /\ BeforeWrite(b)' => Unsent(DevId(b))'
                        /\ method'[b] = "main" \/ BeforeWrite(b)' => Unsent(StopId(b))'
                        /\ pc'[b] # "take"
                        /\ pc'[b] = "streaming" => method'[b] = "main"
                        /\ pc'[b] \in {"draining", "done"} /\ outcome'[b] = "ok" => method'[b] = "stop"
                        /\ pc'[b] = "streaming" \/ method'[b] = "stop" =>
                              \A g \in Gens : ~Asked(g, DevId(b))'
                        /\ \A id \in {DevId(b), StopId(b)} :
                              /\ Answered(id)' => \A g \in Gens : ~Asked(g, id)'
                              /\ \A g, h \in Gens : \A q \in inbox'[g], r \in inbox'[h] :
                                    q.id = id /\ r.id = id => g = h /\ q = r
      BY <2>3 DEF OnceStage
    <3>1. /\ pc[b] # "take"
          /\ pc[b] = "streaming" => method[b] = "main"
          /\ pc[b] \in {"draining", "done"} /\ outcome[b] = "ok" => method[b] = "stop"
          /\ pc[b] = "streaming" \/ method[b] = "stop" => \A g \in Gens : ~Asked(g, DevId(b))
          /\ \A id \in {DevId(b), StopId(b)} :
                /\ Answered(id) => \A g \in Gens : ~Asked(g, id)
                /\ \A g, h \in Gens : \A q \in inbox[g], r \in inbox[h] :
                      q.id = id /\ r.id = id => g = h /\ q = r
      BY DEF OnceStage
    <3>2. /\ method'[b] = "main" /\ BeforeWrite(b)' => Unsent(DevId(b))'
          /\ method'[b] = "main" \/ BeforeWrite(b)' => Unsent(StopId(b))'
      BY <1>2, <2>3, <2>4, <2>5
    <3>3. /\ pc'[b] # "take"
          /\ pc'[b] = "streaming" => method'[b] = "main"
          /\ pc'[b] \in {"draining", "done"} /\ outcome'[b] = "ok" => method'[b] = "stop"
      BY <1>1, <1>2, <2>1, <2>4, <3>1
    <3>4. pc'[b] = "streaming" \/ method'[b] = "stop" => \A g \in Gens : ~Asked(g, DevId(b))'
      BY <1>1, <1>2, <2>2, <2>3, <2>4, <3>1
    <3>5. ASSUME NEW id \in {DevId(b), StopId(b)}
          PROVE  /\ Answered(id)' => \A g \in Gens : ~Asked(g, id)'
                 /\ \A g, h \in Gens : \A q \in inbox'[g], r \in inbox'[h] :
                       q.id = id /\ r.id = id => g = h /\ q = r
      <4>1. CASE id = Id(c)
        <5>1. Unsent(id)
          BY <2>5, <4>1
        <5>2. ~Answered(id) /\ \A g \in Gens : \A r \in inbox[g] : r.id # id
          BY <5>1 DEF Unsent, Asked
        <5>3. \A g \in Gens : \A r \in inbox'[g] : r.id = id => g = gen /\ r = new
          BY <2>1, <5>2
        <5> QED
          BY <2>2, <5>2, <5>3
      <4>2. CASE id # Id(c)
        <5>1. \A g \in Gens : \A r \in inbox'[g] : r.id = id => r \in inbox[g]
          BY <2>1, <4>2
        <5> QED
          BY <2>2, <3>1, <4>2, <5>1
      <4> QED
        BY <4>1, <4>2
    <3> QED
      BY <3>2, <3>3, <3>4, <3>5
  <2>7. StopStage'
    <3> SUFFICES ASSUME NEW b \in Dev, NEW g \in Gens
                 PROVE  /\ running'[g] \subseteq Dev \X {"main"}
                        /\ DevId(b) \in running'[g] =>
                              /\ ~Answered(StopId(b))'
                              /\ method'[b] = "stop" /\ pc'[b] = "waiting" => Asked(g, StopId(b))'
                              /\ ~(pc'[b] \in {"draining", "done"} /\ outcome'[b] = "ok")
      BY <2>3 DEF StopStage
    <3>1. /\ running[g] \subseteq Dev \X {"main"}
          /\ DevId(b) \in running[g] =>
                /\ ~Answered(StopId(b))
                /\ method[b] = "stop" /\ pc[b] = "waiting" => Asked(g, StopId(b))
                /\ ~(pc[b] \in {"draining", "done"} /\ outcome[b] = "ok")
      BY DEF StopStage
    <3>2. DevId(b) \in running[g] => child[g] = "alive" /\ g = gen
      BY DEF IInv, SpawnStage, LoneStage
    <3>3. DevId(b) \in running[g] /\ method[b] = "stop" /\ pc'[b] = "waiting" => Asked(g, StopId(b))'
      BY <1>1, <2>1, <2>2, <2>3, <3>1, <3>2
    <3> QED
      BY <1>2, <2>2, <2>4, <3>1, <3>3
  <2> QED
    BY <2>6, <2>7
<1> QED
  BY <1>3, <1>4

\* The steps of a caller with an open call: a dev command that is not answered
\* does not ask again.
LEMMA CallDev ==
    ASSUME DispatchedOnce, IInv, OnceStage, StopStage, NEW c \in Callers,
           CallStep(c) \/ Timeout(c) \/ Interrupt(c)
    PROVE  OnceStage' /\ StopStage'
<1>1. /\ pc \in [Callers -> PCs] /\ method \in [Callers -> {"main", "stop"}]
      /\ outcome \in [Callers -> Outcomes] /\ tries \in [Callers -> 1..(Retries + 1)]
      /\ c \in Dev => c \notin Quit
      /\ Id(c)[1] = c /\ Id(c) = <<c, method[c]>>
  BY IdsOfCallers, CallersAssumption DEF IInv, TypeOK, Id
<1>2. CASE TakeEvent(c)
  <2>1. UNCHANGED <<inbox, running, out, pc, method, outcome, resp>>
    BY <1>2 DEF TakeEvent, childVars, callerVars
  <2>2. DevMove(c)
    BY <2>1 DEF DevMove
  <2> QED
    BY <2>1, <2>2, CallerQuiet
<1>3. ASSUME pc[c] = "waiting", NEW kind \in {"ok", "error", "timeout"},
             EndRequest(c, kind) \/ (kind # "ok" /\ TryAgainOrEnd(c, kind)),
             kind = "ok" => resp[Id(c)].kind = "ok",
             UNCHANGED <<inbox, running, out>>
      PROVE  OnceStage' /\ StopStage'
  <2>1. resp' = resp /\ method' = method
    BY <1>3 DEF TryAgainOrEnd, EndRequest
  <2>2. \A b \in Callers : b # c => pc'[b] = pc[b] /\ outcome'[b] = outcome[b]
    BY <1>1, <1>3 DEF TryAgainOrEnd, EndRequest, Goto
  <2>3. ASSUME c \in Dev
        PROVE  DevMove(c)
    <3>1. ~MayTryAgain(c)
      BY <1>1 DEF MayTryAgain, DispatchedOnce
    <3>2. pc'[c] = After(c, kind) /\ outcome'[c] = kind
      BY <1>1, <1>3, <3>1 DEF TryAgainOrEnd, EndRequest, Goto
    <3>3. /\ After(c, kind) \in {"streaming", "draining", "done"}
          /\ After(c, kind) = "streaming" => method[c] = "main" /\ kind = "ok"
          /\ kind = "ok" /\ method[c] = "main" => After(c, kind) = "streaming"
      BY <1>1, <2>3 DEF After
    <3>4. /\ kind = "ok" /\ method[c] = "main" => resp[DevId(c)].kind = "ok"
          /\ kind = "ok" /\ method[c] = "stop" => resp[StopId(c)].kind = "ok"
      BY <1>1, <1>3 DEF DevId, StopId
    <3>5. method[c] \in {"main", "stop"}
      BY <1>1
    <3> QED
      BY <1>3, <2>1, <3>2, <3>3, <3>4, <3>5 DEF DevMove
  <2> QED
    BY <1>3, <2>1, <2>2, <2>3, CallerQuiet
<1>4. CASE TakeResponse(c) \/ Timeout(c)
  <2>1. pc[c] = "waiting" /\ UNCHANGED <<inbox, running, out>>
    BY <1>4 DEF TakeResponse, Timeout, childVars
  <2>2. \E kind \in {"ok", "error", "timeout"} :
            /\ EndRequest(c, kind) \/ (kind # "ok" /\ TryAgainOrEnd(c, kind))
            /\ (kind = "ok" => resp[Id(c)].kind = "ok")
    BY <1>4 DEF TakeResponse, Timeout
  <2> QED
    BY <1>3, <2>1, <2>2
<1>5. CASE Interrupt(c)
  <2>1. /\ pc[c] = "streaming" /\ pc' = [pc EXCEPT ![c] = "open"]
        /\ method' = [method EXCEPT ![c] = "stop"]
        /\ UNCHANGED <<inbox, running, out, outcome, resp>>
    BY <1>5 DEF Interrupt, Goto, childVars, chanVars
  <2>2. DevMove(c)
    BY <1>1, <2>1 DEF DevMove
  <2>3. \A b \in Callers : b # c => pc'[b] = pc[b] /\ method'[b] = method[b]
    BY <1>1, <2>1
  <2> QED
    BY <2>1, <2>2, <2>3, CallerQuiet
<1>6. CASE DrainEnds(c)
  <2>1. /\ pc[c] = "draining" /\ pc' = [pc EXCEPT ![c] = "done"]
        /\ UNCHANGED <<inbox, running, out, method, outcome, resp>>
    BY <1>6 DEF DrainEnds, Goto, childVars
  <2>2. DevMove(c)
    BY <1>1, <2>1 DEF DevMove
  <2>3. \A b \in Callers : b # c => pc'[b] = pc[b]
    BY <1>1, <2>1
  <2> QED
    BY <2>1, <2>2, <2>3, CallerQuiet
<1>7. CASE Take(c)
  <2>1. /\ pc[c] = "take" /\ pc' = [pc EXCEPT ![c] = "done"]
        /\ UNCHANGED <<out, method, outcome>>
        /\ \/ UNCHANGED <<inbox, running, resp>>
           \/ /\ inbox' = [inbox EXCEPT ![gen] = {}] /\ running' = [running EXCEPT ![gen] = {}]
              /\ FailPending(gen, gen)
    BY <1>7 DEF Take, Goto, Exited, childVars
  <2>2. /\ inbox \in [Gens -> SUBSET [id : Ids, att : Nat]] /\ running \in [Gens -> SUBSET Ids]
        /\ \A b \in Dev : b \in Callers /\ DevId(b) \in Ids /\ StopId(b) \in Ids
    BY CallersAssumption DEF IInv, TypeOK, DevId, StopId, Ids
  <2>3. \A g \in Gens : /\ inbox'[g] \subseteq inbox[g] /\ running'[g] \subseteq running[g]
                        /\ running'[g] # {} => inbox'[g] = inbox[g]
    BY <2>1, <2>2
  <2>4. \A id \in Ids : resp'[id].kind = "ok" => resp[id].kind = "ok"
    BY <2>1 DEF FailPending, Oneshot
  <2>5. \A b \in Dev : \A id \in {DevId(b), StopId(b)} : Answered(id)' => Answered(id)
    BY <2>1, <2>2, <2>4 DEF Answered, Written
  <2>6. \A b \in Dev, g \in Gens :
            DevId(b) \in running'[g] /\ Asked(g, StopId(b)) => Asked(g, StopId(b))'
    BY <2>3 DEF Asked, StopId
  <2>7. c \notin Dev
    BY <2>1 DEF OnceStage
  <2>8. \A b \in Dev : DevMove(b)
    BY <1>1, <2>1, <2>2, <2>7 DEF DevMove
  <2> QED
    BY <2>3, <2>5, <2>6, <2>8, DevQuiet
<1> QED
  BY <1>2, <1>4, <1>5, <1>6, <1>7 DEF CallStep

\* The steps of a reader: a success it passes on was written by its process.
LEMMA ReaderDev ==
    ASSUME IInv, OnceStage, StopStage, NEW g \in Gens, Reader(g)
    PROVE  OnceStage' /\ StopStage'
<1>1. /\ UNCHANGED <<inbox, running, pc, method, outcome>>
      /\ out' = out \/ (out[g] # <<>> /\ Consume(g))
  BY DEF Reader, ReadHeartbeat, ReadEvent, BlockOnEvent, Unblock, Deliver, ReadResponse,
         ReadError, ReaderEnds, ReadHostRequest, HostDone, Reading, ReaderStage, IInv,
         childVars, callerVars
<1>2. out[g] # <<>> => /\ out[g] \in Seq(Msgs) /\ Len(out[g]) \in Nat /\ Len(out[g]) # 0
                       /\ NextMsg(g) = out[g][1] /\ 1 \in 1..Len(out[g])
  <2>1. out[g] \in Seq(Msgs)
    BY DEF IInv, TypeOK
  <2> QED
    BY <2>1, EmptySeq, LenProperties, HeadTailProperties DEF NextMsg
<1>3. \A h \in Gens : \A id : Written(h, "response", id)' => Written(h, "response", id)
  <2>1. CASE out' = out
    BY <2>1 DEF Written
  <2>2. CASE out[g] # <<>> /\ Consume(g)
    <3>1. /\ out \in [Gens -> Seq(Msgs)]
          /\ out' = [out EXCEPT ![g] = Tail(out[g])]
      BY <2>2 DEF IInv, TypeOK, Consume
    <3>2. /\ out'[g] = Tail(out[g]) /\ \A h \in Gens : h # g => out'[h] = out[h]
      BY <3>1
    <3>3. /\ Len(Tail(out[g])) = Len(out[g]) - 1
          /\ \A i \in 1..Len(Tail(out[g])) : Tail(out[g])[i] = out[g][i + 1]
      BY <1>2, <2>2, HeadTailProperties
    <3>4. \A i \in 1..Len(out'[g]) : i + 1 \in 1..Len(out[g]) /\ out'[g][i] = out[g][i + 1]
      BY <1>2, <2>2, <3>2, <3>3
    <3>5. \A id : Written(g, "response", id)' => Written(g, "response", id)
      <4> SUFFICES ASSUME NEW id, NEW i \in 1..Len(out'[g]),
                          out'[g][i].kind = "response", out'[g][i].id = id
                   PROVE  Written(g, "response", id)
        BY DEF Written
      <4> QED
        BY <3>4 DEF Written
    <3>6. \A h \in Gens : h # g => \A id : Written(h, "response", id)' => Written(h, "response", id)
      BY <3>2 DEF Written
    <3> QED
      BY <3>5, <3>6
  <2> QED
    BY <1>1, <2>1, <2>2
<1>4. \A id \in Ids : resp'[id].kind = "ok" => Answered(id)
  <2>1. CASE ReadResponse(g)
    <3>1. /\ out[g] # <<>> /\ NextMsg(g).kind = "response"
          /\ \/ resp' = resp
             \/ \E kind \in {"ok", "error"} :
                   resp' = [resp EXCEPT ![NextMsg(g).id] = Oneshot(kind, g)]
      BY <2>1 DEF ReadResponse, Reading
    <3>2. Written(g, "response", NextMsg(g).id)
      BY <1>2, <3>1 DEF Written
    <3>3. \A id \in Ids : id # NextMsg(g).id => resp'[id] = resp[id]
      BY <3>1 DEF IInv, TypeOK
    <3> QED
      BY <3>2, <3>3 DEF Answered
  <2>2. CASE ReadError(g) \/ HostDone(g)
    <3>1. resp' = resp \/ FailPending(g, g)
      BY <2>2 DEF ReadError, HostDone, ReaderEnds, TableOf, chanVars
    <3>2. \A id \in Ids : resp'[id] = resp[id] \/ resp'[id].kind = "closed"
      BY <3>1 DEF FailPending, Oneshot
    <3> QED
      BY <3>2 DEF Answered
  <2>3. CASE ~(ReadResponse(g) \/ ReadError(g) \/ HostDone(g))
    <3>1. resp' = resp
      BY <2>3 DEF Reader, ReadHeartbeat, ReadEvent, BlockOnEvent, Unblock, Deliver,
                  ReadHostRequest, chanVars
    <3> QED
      BY <3>1 DEF Answered
  <2> QED
    BY <2>1, <2>2, <2>3
<1>5. \A c \in Dev : \A id \in {DevId(c), StopId(c)} : Answered(id)' => Answered(id)
  <2>1. \A c \in Dev : DevId(c) \in Ids /\ StopId(c) \in Ids
    BY CallersAssumption DEF DevId, StopId, Ids
  <2> QED
    BY <1>3, <1>4, <2>1 DEF Answered
<1>6. \A c \in Dev, h \in Gens : Asked(h, StopId(c)) => Asked(h, StopId(c))'
  BY <1>1 DEF Asked, StopId
<1>7. \A c \in Dev : DevMove(c)
  BY <1>1 DEF DevMove
<1> QED
  BY <1>1, <1>5, <1>6, <1>7, DevQuiet

\* What a process says next has been written by it, and nothing else.
LEMMA SayWritten ==
    ASSUME IInv, NEW g \in Gens, NEW msgs \in Seq(Msgs), Say(g, msgs)
    PROVE  \A h \in Gens : \A id :
               Written(h, "response", id)' <=>
                   \/ Written(h, "response", id)
                   \/ h = g /\ \E i \in 1..Len(msgs) : msgs[i].kind = "response" /\ msgs[i].id = id
<1>1. /\ out \in [Gens -> Seq(Msgs)] /\ out' = [out EXCEPT ![g] = out[g] \o msgs]
  BY DEF IInv, TypeOK, Say
<1>2. /\ out'[g] = out[g] \o msgs /\ \A h \in Gens : h # g => out'[h] = out[h]
      /\ out[g] \in Seq(Msgs)
  BY <1>1
<1>3. /\ Len(out[g]) \in Nat /\ Len(msgs) \in Nat
      /\ Len(out'[g]) = Len(out[g]) + Len(msgs)
      /\ \A i \in 1..Len(out[g]) : out'[g][i] = out[g][i]
      /\ \A i \in 1..Len(msgs) : out'[g][Len(out[g]) + i] = msgs[i]
  BY <1>2, ConcatProperties, LenProperties
<1>4. /\ \A i \in 1..Len(out[g]) : i \in 1..Len(out'[g])
      /\ \A i \in 1..Len(msgs) : Len(out[g]) + i \in 1..Len(out'[g])
      /\ \A i \in 1..Len(out'[g]) : \/ i \in 1..Len(out[g])
                                    \/ \E j \in 1..Len(msgs) : i = Len(out[g]) + j
  <2>1. ASSUME NEW i \in 1..Len(out'[g]), i \notin 1..Len(out[g])
        PROVE  \E j \in 1..Len(msgs) : i = Len(out[g]) + j
    <3>1. i - Len(out[g]) \in 1..Len(msgs) /\ i = Len(out[g]) + (i - Len(out[g]))
      BY <1>3, <2>1
    <3> QED
      BY <3>1
  <2>2. /\ \A i \in 1..Len(out[g]) : i \in 1..Len(out'[g])
        /\ \A i \in 1..Len(msgs) : Len(out[g]) + i \in 1..Len(out'[g])
    BY <1>3
  <2> QED
    BY <2>1, <2>2
<1>5. ASSUME NEW id
      PROVE  Written(g, "response", id)' <=>
                 \/ Written(g, "response", id)
                 \/ \E i \in 1..Len(msgs) : msgs[i].kind = "response" /\ msgs[i].id = id
  <2>1. ASSUME NEW i \in 1..Len(out'[g]), out'[g][i].kind = "response", out'[g][i].id = id
        PROVE  \/ Written(g, "response", id)
               \/ \E j \in 1..Len(msgs) : msgs[j].kind = "response" /\ msgs[j].id = id
    <3>1. CASE i \in 1..Len(out[g])
      BY <1>3, <2>1, <3>1 DEF Written
    <3>2. CASE \E j \in 1..Len(msgs) : i = Len(out[g]) + j
      BY <1>3, <2>1, <3>2
    <3> QED
      BY <1>4, <3>1, <3>2
  <2>2. ASSUME NEW i \in 1..Len(out[g]), out[g][i].kind = "response", out[g][i].id = id
        PROVE  Written(g, "response", id)'
    BY <1>3, <1>4, <2>2 DEF Written
  <2>3. ASSUME NEW i \in 1..Len(msgs), msgs[i].kind = "response", msgs[i].id = id
        PROVE  Written(g, "response", id)'
    BY <1>3, <1>4, <2>3 DEF Written
  <2> QED
    BY <2>1, <2>2, <2>3 DEF Written
<1>6. \A h \in Gens : \A id : h # g => (Written(h, "response", id)' <=> Written(h, "response", id))
  BY <1>2 DEF Written
<1> QED
  BY <1>5, <1>6

\* The steps of a process: the answer to a stop comes when the compiler of the only
\* dev command runs no more in the only process that lives.
LEMMA ChildDev ==
    ASSUME DispatchedOnce, IInv, LoneStage, OnceStage, StopStage, NEW g \in Gens, Child(g)
    PROVE  OnceStage' /\ StopStage'
<1>1. /\ child[g] = "alive"
      /\ UNCHANGED <<pc, method, outcome, resp>>
  BY DEF Child, Emit, AskHost, Answer, AnswerStop, Heartbeat, Silence, Pollute, Exit,
         callerVars, chanVars
<1>2. /\ inbox \in [Gens -> SUBSET [id : Ids, att : Nat]]
      /\ running \in [Gens -> SUBSET Ids] /\ out \in [Gens -> Seq(Msgs)]
      /\ \A c \in Dev : /\ DevId(c) \in Ids /\ StopId(c) \in Ids /\ DevId(c) # StopId(c)
                        /\ DevId(c)[2] = "main" /\ StopId(c)[2] = "stop"
                        /\ DevId(c)' = DevId(c) /\ StopId(c)' = StopId(c)
  BY CallersAssumption DEF IInv, TypeOK, DevId, StopId, Ids
<1>3. ASSUME UNCHANGED <<inbox, running>>,
             out' = out \/ \E m \in Msgs : m.kind # "response" /\ Say(g, <<m>>)
      PROVE  OnceStage' /\ StopStage'
  <2>1. \A h \in Gens : \A id : Written(h, "response", id)' => Written(h, "response", id)
    <3>1. CASE out' = out
      BY <3>1 DEF Written
    <3>2. ASSUME NEW m \in Msgs, m.kind # "response", Say(g, <<m>>)
          PROVE  \A h \in Gens : \A id : Written(h, "response", id)' => Written(h, "response", id)
      <4> DEFINE msgs == <<m>>
      <4>1. msgs \in Seq(Msgs) /\ \A i \in 1..Len(msgs) : msgs[i] = m
        OBVIOUS
      <4>2. Say(g, msgs)
        BY <3>2
      <4> HIDE DEF msgs
      <4>3. \A h \in Gens : \A id :
               Written(h, "response", id)' <=>
                   \/ Written(h, "response", id)
                   \/ h = g /\ \E i \in 1..Len(msgs) :
                                    msgs[i].kind = "response" /\ msgs[i].id = id
        BY <4>1, <4>2, SayWritten
      <4> QED
        BY <3>2, <4>1, <4>3
    <3> QED
      BY <1>3, <3>1, <3>2
  <2>2. \A c \in Dev : \A id \in {DevId(c), StopId(c)} : Answered(id)' => Answered(id)
    BY <1>1, <2>1 DEF Answered
  <2>3. \A c \in Dev, h \in Gens : Asked(h, StopId(c)) => Asked(h, StopId(c))'
    BY <1>2, <1>3 DEF Asked
  <2>4. \A c \in Dev : DevMove(c)
    BY <1>1 DEF DevMove
  <2> QED
    BY <1>3, <2>2, <2>3, <2>4, DevQuiet
<1>4. CASE (\E id \in Ids : Emit(g, id)) \/ AskHost(g) \/ Heartbeat(g) \/ Pollute(g) \/ Silence(g)
  <2>1. /\ \A id \in Ids : Msg("event", id, TRUE) \in Msgs /\ Msg("event", id, TRUE).kind # "response"
        /\ \A kind \in {"heartbeat", "garbage", "host_request"} :
              GlobalMsg(kind) \in Msgs /\ GlobalMsg(kind).kind # "response"
    BY DEF Msgs, Msg, GlobalMsg
  <2>2. UNCHANGED <<inbox, running>>
    BY <1>4 DEF Emit, AskHost, Heartbeat, Pollute, Silence
  <2>3. out' = out \/ \E m \in Msgs : m.kind # "response" /\ Say(g, <<m>>)
    BY <1>4, <2>1 DEF Emit, AskHost, Heartbeat, Pollute, Silence
  <2> QED
    BY <1>3, <2>2, <2>3
<1>5. CASE Exit(g)
  <2>1. /\ inbox' = [inbox EXCEPT ![g] = {}] /\ running' = [running EXCEPT ![g] = {}]
        /\ out' = out
    BY <1>5 DEF Exit, Exited
  <2>2. \A h \in Gens : /\ inbox'[h] \subseteq inbox[h] /\ running'[h] \subseteq running[h]
                        /\ running'[h] # {} => inbox'[h] = inbox[h]
    BY <1>2, <2>1
  <2>3. \A c \in Dev : \A id \in {DevId(c), StopId(c)} : Answered(id)' => Answered(id)
    BY <1>1, <2>1 DEF Answered, Written
  <2>4. \A c \in Dev, h \in Gens :
            DevId(c) \in running'[h] /\ Asked(h, StopId(c)) => Asked(h, StopId(c))'
    BY <1>2, <2>2 DEF Asked
  <2>5. \A c \in Dev : DevMove(c)
    BY <1>1 DEF DevMove
  <2> QED
    BY <2>2, <2>3, <2>4, <2>5, DevQuiet
\* What an answer changes: its request is gone, and its response is written.
<1>6. ASSUME NEW r \in inbox[g], inbox' = [inbox EXCEPT ![g] = @ \ {r}],
             \A h \in Gens : h # g => running'[h] = running[h],
             \A id \in running'[g] : id \in running[g] \/ id = r.id,
             \A h \in Gens : \A id :
                 Written(h, "response", id)' <=>
                     Written(h, "response", id) \/ (h = g /\ id = r.id)
      PROVE  OnceStage'
  <2>1. /\ \A h \in Gens : inbox'[h] = inbox[h] \ (IF h = g THEN {r} ELSE {})
        /\ \A h \in Gens : \A id : Asked(h, id)' => Asked(h, id)
        /\ \A id : Answered(id)' <=> Answered(id) \/ id = r.id
    BY <1>1, <1>2, <1>6 DEF Asked, Answered
  <2>2. Asked(g, r.id)
    BY DEF Asked
  <2> SUFFICES ASSUME NEW c \in Dev
               PROVE  /\ method'[c] = "main" /\ BeforeWrite(c)' => Unsent(DevId(c))'
                      /\ method'[c] = "main" \/ BeforeWrite(c)' => Unsent(StopId(c))'
                      /\ pc'[c] # "take"
                      /\ pc'[c] = "streaming" => method'[c] = "main"
                      /\ pc'[c] \in {"draining", "done"} /\ outcome'[c] = "ok" => method'[c] = "stop"
                      /\ pc'[c] = "streaming" \/ method'[c] = "stop" =>
                            \A h \in Gens : ~Asked(h, DevId(c))'
                      /\ \A id \in {DevId(c), StopId(c)} :
                            /\ Answered(id)' => \A h \in Gens : ~Asked(h, id)'
                            /\ \A h, k \in Gens : \A p \in inbox'[h], q \in inbox'[k] :
                                  p.id = id /\ q.id = id => h = k /\ p = q
    BY <1>2 DEF OnceStage
  <2>3. /\ method[c] = "main" /\ BeforeWrite(c) => Unsent(DevId(c))
        /\ method[c] = "main" \/ BeforeWrite(c) => Unsent(StopId(c))
        /\ pc[c] # "take"
        /\ pc[c] = "streaming" => method[c] = "main"
        /\ pc[c] \in {"draining", "done"} /\ outcome[c] = "ok" => method[c] = "stop"
        /\ pc[c] = "streaming" \/ method[c] = "stop" => \A h \in Gens : ~Asked(h, DevId(c))
        /\ \A id \in {DevId(c), StopId(c)} :
              /\ Answered(id) => \A h \in Gens : ~Asked(h, id)
              /\ \A h, k \in Gens : \A p \in inbox[h], q \in inbox[k] :
                    p.id = id /\ q.id = id => h = k /\ p = q
    BY DEF OnceStage
  <2>4. BeforeWrite(c)' <=> BeforeWrite(c)
    BY <1>1 DEF BeforeWrite
  <2>5. \A id \in {DevId(c), StopId(c)} : Unsent(id) => Unsent(id)'
    <3> SUFFICES ASSUME NEW id \in {DevId(c), StopId(c)}, Unsent(id)
                 PROVE  Unsent(id)'
      OBVIOUS
    <3>1. id # r.id
      BY <2>2 DEF Unsent
    <3>2. ~Answered(id)'
      BY <2>1, <3>1 DEF Unsent
    <3>3. \A h \in Gens : ~Asked(h, id)'
      BY <2>1 DEF Unsent
    <3>4. \A h \in Gens : id \notin running'[h]
      BY <1>6, <3>1 DEF Unsent
    <3> QED
      BY <3>2, <3>3, <3>4 DEF Unsent
  <2>6. ASSUME NEW id \in {DevId(c), StopId(c)}
        PROVE  /\ Answered(id)' => \A h \in Gens : ~Asked(h, id)'
               /\ \A h, k \in Gens : \A p \in inbox'[h], q \in inbox'[k] :
                     p.id = id /\ q.id = id => h = k /\ p = q
    <3>1. id = r.id => \A h \in Gens : ~Asked(h, id)'
      <4> SUFFICES ASSUME id = r.id, NEW h \in Gens, NEW p \in inbox'[h], p.id = id
                   PROVE  FALSE
        BY DEF Asked
      <4>1. p \in inbox[h] /\ (h = g => p # r)
        BY <2>1
      <4> QED
        BY <2>3, <4>1
    <3>2. \A h \in Gens : \A p \in inbox'[h] : p \in inbox[h]
      BY <2>1
    <3> QED
      BY <2>1, <2>3, <3>1, <3>2
  <2> QED
    BY <1>1, <2>1, <2>3, <2>4, <2>5, <2>6

<1>7. ASSUME NEW r \in inbox[g]
      PROVE  r.id \in Ids /\ Asked(g, r.id)
             /\ (r.id[2] = "main" => \A c \in Dev : r.id # StopId(c))
             /\ (r.id[2] = "main" /\ r.id[1] \in Dev => r.id \in Dev \X {"main"})
  BY <1>2 DEF Asked, Ids, StopId
<1>8. CASE \E r \in inbox[g], ok \in BOOLEAN : Answer(g, r, ok)
  <2>1. PICK r \in inbox[g], ok \in BOOLEAN : Answer(g, r, ok)
    BY <1>8
  <2> DEFINE m == Msg("response", r.id, ok)
  <2>2. /\ inbox' = [inbox EXCEPT ![g] = @ \ {r}] /\ Say(g, <<m>>) /\ r.id[2] = "main"
        /\ running' = [running EXCEPT ![g] = IF ok /\ r.id[1] \in Dev THEN @ \cup {r.id} ELSE @]
    BY <2>1 DEF Answer
  <2>3. m \in Msgs /\ m.kind = "response" /\ m.id = r.id
    BY <1>7 DEF Msgs, Msg
  <2> HIDE DEF m
  <2>5. \A h \in Gens : \A id :
            Written(h, "response", id)' <=> Written(h, "response", id) \/ (h = g /\ id = r.id)
    <3> DEFINE msgs == <<m>>
    <3>1. /\ msgs \in Seq(Msgs) /\ 1 \in 1..Len(msgs) /\ Say(g, msgs)
          /\ \A i \in 1..Len(msgs) : msgs[i] = m
      BY <2>2, <2>3
    <3> HIDE DEF msgs
    <3>2. \A h \in Gens : \A id :
             Written(h, "response", id)' <=>
                 \/ Written(h, "response", id)
                 \/ h = g /\ \E i \in 1..Len(msgs) :
                                  msgs[i].kind = "response" /\ msgs[i].id = id
      BY <3>1, SayWritten
    <3> QED
      BY <2>3, <3>1, <3>2
  <2>6. /\ \A h \in Gens : h # g => inbox'[h] = inbox[h] /\ running'[h] = running[h]
        /\ inbox'[g] = inbox[g] \ {r}
        /\ \A id \in running'[g] : id \in running[g] \/ (id = r.id /\ id \in Dev \X {"main"})
    BY <1>2, <1>7, <2>2
  <2>7. OnceStage'
    BY <1>6, <2>2, <2>5, <2>6
  <2>8. StopStage'
    <3> SUFFICES ASSUME NEW c \in Dev, NEW h \in Gens
                 PROVE  /\ running'[h] \subseteq Dev \X {"main"}
                        /\ DevId(c) \in running'[h] =>
                              /\ ~Answered(StopId(c))'
                              /\ method'[c] = "stop" /\ pc'[c] = "waiting" => Asked(h, StopId(c))'
                              /\ ~(pc'[c] \in {"draining", "done"} /\ outcome'[c] = "ok")
      BY <1>2 DEF StopStage
    <3>1. /\ running[h] \subseteq Dev \X {"main"}
          /\ DevId(c) \in running[h] =>
                /\ ~Answered(StopId(c))
                /\ method[c] = "stop" /\ pc[c] = "waiting" => Asked(h, StopId(c))
                /\ ~(pc[c] \in {"draining", "done"} /\ outcome[c] = "ok")
      BY DEF StopStage
    <3>2. /\ Answered(StopId(c))' <=> Answered(StopId(c))
          /\ Asked(h, StopId(c)) => Asked(h, StopId(c))'
      <4>1. r.id # StopId(c)
        BY <1>7, <2>2
      <4> QED
        BY <1>1, <1>2, <2>5, <2>6, <4>1 DEF Answered, Asked
    <3>3. CASE DevId(c) \in running[h]
      BY <1>1, <2>6, <3>1, <3>2, <3>3
    <3>4. CASE DevId(c) \in running'[h] /\ DevId(c) \notin running[h]
      <4>1. Asked(g, DevId(c))
        BY <1>7, <2>6, <3>4
      <4>2. method[c] = "main"
        <5>1. method[c] \in {"main", "stop"}
          BY CallersAssumption DEF IInv, TypeOK
        <5> QED
          BY <4>1, <5>1 DEF OnceStage
      <4>3. /\ ~Answered(StopId(c))
            /\ ~(pc[c] \in {"draining", "done"} /\ outcome[c] = "ok")
        BY <4>2 DEF OnceStage, Unsent
      <4> QED
        BY <1>1, <2>6, <3>1, <3>2, <4>2, <4>3
    <3> QED
      BY <2>6, <3>1, <3>3, <3>4
  <2> QED
    BY <2>7, <2>8
<1>9. CASE \E r \in inbox[g] : AnswerStop(g, r)
  <2>1. PICK r \in inbox[g] : AnswerStop(g, r)
    BY <1>9
  <2>2. PICK id \in IF running[g] = {} THEN {r.id} ELSE running[g] :
            /\ running' = [running EXCEPT ![g] = @ \ {id}]
            /\ Say(g, <<Msg("shutdown", id, TRUE), Msg("response", r.id, TRUE)>>)
    BY <2>1 DEF AnswerStop
  <2> DEFINE m == Msg("shutdown", id, TRUE)
             n == Msg("response", r.id, TRUE)
  <2>3. inbox' = [inbox EXCEPT ![g] = @ \ {r}]
    BY <2>1 DEF AnswerStop
  <2>4. id \in Ids
    BY <1>2, <1>7, <2>2
  <2>5. /\ m \in Msgs /\ m.kind # "response"
        /\ n \in Msgs /\ n.kind = "response" /\ n.id = r.id
    BY <1>7, <2>4 DEF Msgs, Msg
  <2>6. Say(g, <<m, n>>)
    BY <2>2
  <2> HIDE DEF m, n
  <2>9. \A h \in Gens : \A x :
            Written(h, "response", x)' <=> Written(h, "response", x) \/ (h = g /\ x = r.id)
    <3> DEFINE msgs == <<m, n>>
    <3>1. /\ msgs \in Seq(Msgs) /\ Len(msgs) = 2 /\ msgs[1] = m /\ msgs[2] = n
          /\ Say(g, msgs)
      BY <2>5, <2>6
    <3> HIDE DEF msgs
    <3>2. \A x : (\E i \in 1..Len(msgs) : msgs[i].kind = "response" /\ msgs[i].id = x)
                    <=> x = r.id
      BY <2>5, <3>1
    <3>3. \A h \in Gens : \A x :
             Written(h, "response", x)' <=>
                 \/ Written(h, "response", x)
                 \/ h = g /\ \E i \in 1..Len(msgs) :
                                  msgs[i].kind = "response" /\ msgs[i].id = x
      BY <3>1, SayWritten
    <3> QED
      BY <3>2, <3>3
  <2>10. \A h \in Gens : running'[h] = IF h = g THEN running[g] \ {id} ELSE running[h]
    BY <1>2, <2>2
  <2>11. OnceStage'
    BY <1>6, <2>3, <2>9, <2>10
  <2>12. \A h \in Gens : running'[h] = {}
    <3>1. \A h \in Gens : h # g => running[h] = {}
      BY <1>1 DEF IInv, SpawnStage, LoneStage
    <3>2. \A x, y \in Dev \X {"main"} : x = y
      BY DEF DispatchedOnce
    <3>3. Dev # {} => running[g] \subseteq Dev \X {"main"}
      BY DEF StopStage
    <3>4. Dev # {}
      <4>1. r.id \in Ids /\ r.id[2] = "stop"
        BY <1>7, <2>1 DEF AnswerStop
      <4> QED
        BY <4>1 DEF Ids
    <3>5. running[g] \ {id} = {}
      BY <2>2, <3>2, <3>3, <3>4
    <3> QED
      BY <2>10, <3>1, <3>5
  <2>13. StopStage'
    BY <2>12 DEF StopStage
  <2> QED
    BY <2>11, <2>13
<1> QED
  BY <1>4, <1>5, <1>8, <1>9 DEF Child


\* What is said of dev commands holds of every behaviour, under the hypotheses.
LEMMA DevInductive ==
    ASSUME DispatchedOnce
    PROVE  Spec => []DevInv
<1>1. Init => DevInv
  <2> SUFFICES ASSUME Init PROVE DevInv
    OBVIOUS
  <2>1. /\ \A g \in Gens : \A id : ~Asked(g, id) /\ ~Written(g, "response", id) /\ id \notin running[g]
        /\ \A c \in Dev : DevId(c) \in Ids /\ StopId(c) \in Ids /\ c \in Callers
    BY CallersAssumption DEF Init, Asked, Written, DevId, StopId, Ids
  <2>2. \A c \in Dev : \A id \in {DevId(c), StopId(c)} : ~Answered(id) /\ Unsent(id)
    BY <2>1 DEF Init, Answered, Unsent, NoResp
  <2>3. \A c \in Dev : pc[c] = "open" /\ method[c] = "main"
    BY <2>1 DEF Init
  <2>4. LoneStage
    BY DEF Init, LoneStage
  <2>5. OnceStage
    <3>1. \A g \in Gens : inbox[g] = {}
      BY DEF Init
    <3> QED
      BY <2>1, <2>2, <2>3, <3>1 DEF OnceStage
  <2>6. StopStage
    BY <2>1 DEF StopStage, Init
  <2> QED
    BY <2>4, <2>5, <2>6 DEF DevInv
<1>2. IInv /\ DevInv /\ [Next]_vars => DevInv'
  <2> SUFFICES ASSUME IInv, LoneStage, OnceStage, StopStage, [Next]_vars
               PROVE  OnceStage' /\ StopStage'
    BY LoneStep DEF DevInv
  <2>1. ASSUME NEW c \in Callers, OpenStep(c) \/ CallStep(c) \/ Timeout(c) \/ Interrupt(c)
        PROVE  OnceStage' /\ StopStage'
    BY <2>1, OpenDev, WriteDev, CallDev DEF OpenStep
  <2>2. ASSUME NEW g \in Gens, Child(g) \/ Reader(g)
        PROVE  OnceStage' /\ StopStage'
    BY <2>2, ChildDev, ReaderDev
  <2>3. CASE UNCHANGED vars
    <3>1. UNCHANGED <<inbox, running, out, pc, method, outcome, resp>>
      BY <2>3 DEF vars, childVars, callerVars, chanVars
    <3>2. /\ \A c \in Dev : DevMove(c)
          /\ \A g \in Gens : inbox'[g] \subseteq inbox[g] /\ running'[g] \subseteq running[g]
          /\ \A id : Answered(id)' => Answered(id)
          /\ \A c \in Dev, g \in Gens : Asked(g, StopId(c)) => Asked(g, StopId(c))'
      BY <3>1 DEF DevMove, Answered, Written, Asked, StopId
    <3> QED
      BY <3>2, DevQuiet
  <2> QED
    BY <2>1, <2>2, <2>3 DEF Next
<1> QED
  BY <1>1, <1>2, Inductive, PTL DEF Spec

\* A dev command that ended well has stopped its compiler, in whichever process it
\* ran: given that requests are dispatched once, there is no other dev command, and
\* no process is replaced while it lives; whatever else callers and processes do.
THEOREM StoppedRunsNoMore ==
    ASSUME DispatchedOnce
    PROVE  Spec => []StoppedDevRunsNoMore
<1>1. DevInv => StoppedDevRunsNoMore
  BY DEF DevInv, StopStage, StoppedDevRunsNoMore, DevId
<1> QED
  BY <1>1, DevInductive, PTL
=============================================================================
