------------------------ MODULE CompilerWorkerProofs ------------------------
(***************************************************************************)
(* Theorems about CompilerWorker, for every finite set of requests.        *)
(***************************************************************************)
EXTENDS CompilerWorker, SequenceTheorems, FiniteSetTheorems, TLAPS

-----------------------------------------------------------------------------
(* The inductive invariant.                                                *)

\* All that can wait in a channel: a worker says at most one thing before its
\* end, because a worker that is kept alive has been read when it is stopped.
Says == {<<>>, <<"keepAlive">>, <<"exit">>, <<"keepAlive", "exit">>,
         <<"result", "exit">>, <<"error", "exit">>, <<"stopped", "exit">>}

Typing ==
    /\ pc \in [Requests -> {"idle", "preparing", "working", "stopping", "done"}]
    /\ answer \in [Requests -> {"none", "ok", "fallback", "stopped", "error"}]
    /\ activeCompiler \in Compile \cup {None}
    /\ activeEmit \in Dev \cup {None}
    /\ taken \in [Stop -> Compile \cup {None}]
    /\ takenEmit \in [Stop -> Dev \cup {None}]
    /\ told \in [Dev -> Nat]
    /\ worker \in [Compile -> {"none", "running", "held", "closing", "gone"}]
    /\ compiler \in [Compile -> {"none", "open", "closed", "lost"}]
    /\ tell \in [Compile -> {0, 1}]
    /\ said \in [Compile -> Says]
    /\ connected \in [Compile -> BOOLEAN]
    /\ resultMessage \in [Compile -> BOOLEAN]

\* The life of the worker of w: what its process, its compiler, its channel and
\* its handler can be together.
Stage(w) ==
    \/ /\ worker[w] = "none"
       /\ pc[w] \in {"idle", "preparing", "done"}
       /\ compiler[w] = "none" /\ tell[w] = 0
       /\ said[w] = <<>> /\ ~connected[w]
    \/ /\ worker[w] = "running"
       /\ pc[w] = "working"
       /\ compiler[w] = "none" /\ tell[w] = 0
       /\ said[w] = <<>> /\ connected[w]
    \/ /\ worker[w] = "held"
       /\ compiler[w] = "open"
       /\ connected[w]
       /\ \/ said[w] = <<"keepAlive">> /\ pc[w] = "working" /\ tell[w] = 0
          \/ said[w] = <<>> /\ pc[w] = "done"
    \/ /\ worker[w] = "closing"
       /\ pc[w] = "done"
       /\ compiler[w] = "open" /\ tell[w] = 0
       /\ said[w] = <<>> /\ connected[w]
    \/ /\ worker[w] = "gone"
       /\ pc[w] \in {"working", "done"}
       /\ compiler[w] # "open" /\ tell[w] = 0
       /\ connected[w] <=> said[w] # <<>>
       /\ said[w] # <<"keepAlive">>
       /\ said[w] = <<>> => pc[w] = "done"
       /\ said[w] = <<"keepAlive", "exit">> =>
              pc[w] = "working" /\ compiler[w] # "none"
       /\ said[w] = <<"error", "exit">> => pc[w] = "working"

\* A worker that is active, or that a stop took, has told the bridge that it is
\* kept alive.
Kept(w) == pc[w] = "done" /\ compiler[w] # "none"

\* Each worker is taken by at most one stop, and by then it is active no more;
\* so it is asked to stop at most once.
TakenOnce ==
    /\ activeCompiler # None =>
          /\ Kept(activeCompiler)
          /\ tell[activeCompiler] = 0
          /\ worker[activeCompiler] # "closing"
          /\ \A s \in Stop : taken[s] # activeCompiler
    /\ \A s \in Stop : taken[s] # None => Kept(taken[s])
    /\ \A s, t \in Stop : taken[s] = taken[t] /\ taken[s] # None => s = t

\* The same of the dev request that is told.
EmitTakenOnce ==
    /\ activeEmit # None =>
          /\ pc[activeEmit] = "done"
          /\ \A s \in Stop : takenEmit[s] # activeEmit
    /\ \A s \in Stop : takenEmit[s] # None => pc[takenEmit[s]] = "done"
    /\ \A s, t \in Stop :
          takenEmit[s] = takenEmit[t] /\ takenEmit[s] # None => s = t

\* How far a stop has come, and what an answered one left.
StopStage(s) ==
    /\ pc[s] \in {"idle", "stopping", "done"}
    /\ pc[s] = "idle" => taken[s] = None /\ takenEmit[s] = None
    /\ answer[s] = "stopped" =>
          /\ pc[s] = "done"
          /\ taken[s] # None => worker[taken[s]] = "gone"

\* A dev request has been told exactly when a stop that took it is answered.
ToldBy(d) == \E s \in Stop : takenEmit[s] = d /\ answer[s] = "stopped"
ToldExact == \A d \in Dev : told[d] = IF ToldBy(d) THEN 1 ELSE 0

\* While d is the only dev request, whoever has its compiler has it to tell.
OnlyDev(d) == \A e \in Dev \ {d} : pc[e] = "idle"
EmitFollowsCompiler ==
    \A d \in Dev :
        OnlyDev(d) =>
            /\ activeCompiler = d => activeEmit = d
            /\ \A s \in Stop : taken[s] = d => takenEmit[s] = d

IInv ==
    /\ Typing
    /\ \A w \in Compile : Stage(w)
    /\ TakenOnce
    /\ EmitTakenOnce
    /\ \A s \in Stop : StopStage(s)
    /\ ToldExact
    /\ EmitFollowsCompiler
-----------------------------------------------------------------------------
(* What is read from and sent to a channel.                                *)

\* A sequence of two is the pair of its elements.
LEMMA PairEqual ==
    ASSUME NEW S, NEW q \in Seq(S), NEW a \in S, NEW b \in S,
           Len(q) = 2, q[1] = a, q[2] = b
    PROVE  q = <<a, b>>
<1> DEFINE p == <<a, b>>
<1>1. p \in Seq(S) /\ Len(p) = 2 /\ p[1] = a /\ p[2] = b
  OBVIOUS
<1> HIDE DEF p
<1>2. \A i \in 1..Len(q) : q[i] = p[i]
  BY <1>1
<1>3. q = p
  BY <1>1, <1>2, SeqEqual
<1> QED
  BY <1>3 DEF p

\* Sequences of one and of two elements, put together.
LEMMA ShortSequences ==
    ASSUME NEW S, NEW a \in S, NEW b \in S
    PROVE  /\ <<>> \o <<a>> = <<a>>
           /\ <<>> \o Append(<<>>, a) = <<a>>
           /\ <<>> \o Append(<<a>>, b) = <<a, b>>
           /\ <<a>> \o Append(<<>>, b) = <<a, b>>
<1>1. <<a>> \in Seq(S) /\ <<b>> \in Seq(S) /\ <<a, b>> \in Seq(S)
  OBVIOUS
<1>2. Append(<<>>, a) = <<a>> /\ Append(<<>>, b) = <<b>>
  OBVIOUS
<1>3. Append(<<a>>, b) = <<a, b>>
  <2>1. /\ Append(<<a>>, b) \in Seq(S) /\ Len(Append(<<a>>, b)) = 2
        /\ Append(<<a>>, b)[1] = a /\ Append(<<a>>, b)[2] = b
    BY <1>1, AppendProperties
  <2> QED
    BY <2>1, PairEqual
<1>4. <<a>> \o <<b>> = <<a, b>>
  <2>1. /\ <<a>> \o <<b>> \in Seq(S) /\ Len(<<a>> \o <<b>>) = 2
        /\ (<<a>> \o <<b>>)[1] = a /\ (<<a>> \o <<b>>)[2] = b
    BY <1>1, ConcatProperties
  <2> QED
    BY <2>1, PairEqual
<1>5. <<>> \o <<a>> = <<a>> /\ <<>> \o <<a, b>> = <<a, b>>
  BY <1>1, ConcatEmptySeq
<1> QED
  BY <1>2, <1>3, <1>4, <1>5

\* What a worker adds to an empty channel, or to one that says it is kept alive.
LEMMA SendSays ==
    /\ <<>> \o <<"keepAlive">> = <<"keepAlive">>
    /\ <<>> \o Append(<<>>, "exit") = <<"exit">>
    /\ <<"keepAlive">> \o Append(<<>>, "exit") = <<"keepAlive", "exit">>
    /\ \A m \in {"result", "error", "stopped"} :
          <<>> \o Append(<<m>>, "exit") = <<m, "exit">>
<1> DEFINE S == {"keepAlive", "result", "error", "stopped", "exit"}
<1>1. "keepAlive" \in S /\ "exit" \in S
      /\ \A m \in {"result", "error", "stopped"} : m \in S
  OBVIOUS
<1> HIDE DEF S
<1> QED
  BY <1>1, ShortSequences

\* Channels of different lengths, or with another first message, differ.
LEMMA SaysDiffer ==
    ASSUME NEW a, NEW b, NEW c, NEW d
    PROVE  /\ <<a>> # <<>> /\ <<a, b>> # <<>> /\ <<a, b>> # <<c>>
           /\ <<a>> = <<c>> <=> a = c
           /\ <<a, b>> = <<c, d>> <=> a = c /\ b = d
           /\ Head(<<a>>) = a /\ Tail(<<a>>) = <<>>
           /\ Head(<<a, b>>) = a /\ Tail(<<a, b>>) = <<b>>
<1>1. /\ <<a>> # <<>> /\ <<a, b>> # <<>> /\ <<a, b>> # <<c>>
      /\ <<a>> = <<c>> <=> a = c
  OBVIOUS
<1>2. <<a, b>> = <<c, d>> <=> a = c /\ b = d
  OBVIOUS
<1>3. Head(<<a>>) = a /\ Tail(<<a>>) = <<>>
  OBVIOUS
<1>4. Head(<<a, b>>) = a /\ Tail(<<a, b>>) = <<b>>
  OBVIOUS
<1> QED
  BY <1>1, <1>2, <1>3, <1>4

\* The first message of a channel tells what the channel held, and what is left.
LEMMA ReadsSays ==
    ASSUME Typing, NEW w \in Compile, NEW m, Reads(w, m)
    PROVE  /\ said' \in [Compile -> Says]
           /\ \A v \in Compile \ {w} : said'[v] = said[v]
           /\ m = "keepAlive" =>
                 \/ said[w] = <<"keepAlive">> /\ said'[w] = <<>>
                 \/ said[w] = <<"keepAlive", "exit">> /\ said'[w] = <<"exit">>
           /\ m = "exit" => said[w] = <<"exit">> /\ said'[w] = <<>>
           /\ m \in {"result", "error", "stopped"} =>
                 said[w] = <<m, "exit">> /\ said'[w] = <<"exit">>
<1> DEFINE q == said[w]
<1>1. q \in Says /\ q # <<>> /\ Head(q) = m /\ said'[w] = Tail(q)
  BY DEF Reads, Typing
<1>2. /\ q = <<"keepAlive">> => Head(q) = "keepAlive" /\ Tail(q) = <<>>
      /\ q = <<"exit">> => Head(q) = "exit" /\ Tail(q) = <<>>
  BY SaysDiffer
<1>3. \A n : q = <<n, "exit">> => Head(q) = n /\ Tail(q) = <<"exit">>
  BY SaysDiffer
<1>4. /\ m = "keepAlive" =>
            \/ q = <<"keepAlive">> /\ Tail(q) = <<>>
            \/ q = <<"keepAlive", "exit">> /\ Tail(q) = <<"exit">>
      /\ m = "exit" => q = <<"exit">> /\ Tail(q) = <<>>
      /\ m \in {"result", "error", "stopped"} =>
            q = <<m, "exit">> /\ Tail(q) = <<"exit">>
      /\ Tail(q) \in {<<>>, <<"exit">>}
  <2> HIDE DEF q
  <2> QED
    BY <1>1, <1>2, <1>3 DEF Says
<1>5. Tail(q) \in Says
  BY <1>4 DEF Says
<1> QED
  BY <1>1, <1>4, <1>5 DEF Reads, Typing


-----------------------------------------------------------------------------
(* The steps of the handlers that wait for no message.                     *)

\* A dev request is begun: no other is then the only one.
LEMMA HandleDevStep ==
    ASSUME IInv, NEW d \in Dev, HandleDev(d)
    PROVE  IInv'
<1> USE WorkerAssumption
    DEF IInv, Typing, HandleDev, workers, channel, Requests, Compile
<1>1. Typing'
  OBVIOUS
<1>2. \A w \in Compile : Stage(w)'
  BY DEF Stage
<1>3. TakenOnce' /\ EmitTakenOnce' /\ \A s \in Stop : StopStage(s)'
  BY DEF TakenOnce, Kept, EmitTakenOnce, StopStage
<1>4. ToldExact'
  BY DEF ToldExact, ToldBy
<1>5. EmitFollowsCompiler'
  BY DEF EmitFollowsCompiler, OnlyDev, TakenOnce, Kept, StopStage
<1> QED
  BY <1>1, <1>2, <1>3, <1>4, <1>5

\* A build is begun.
LEMMA HandleBuildStep ==
    ASSUME IInv, NEW b \in Build, HandleBuild(b)
    PROVE  IInv'
<1> USE WorkerAssumption
    DEF IInv, Typing, HandleBuild, workers, channel, Requests, Compile
<1>1. Typing'
  OBVIOUS
<1>2. \A w \in Compile : Stage(w)'
  BY DEF Stage
<1>3. TakenOnce' /\ EmitTakenOnce' /\ \A s \in Stop : StopStage(s)'
  BY DEF TakenOnce, Kept, EmitTakenOnce, StopStage
<1>4. ToldExact' /\ EmitFollowsCompiler'
  BY DEF ToldExact, ToldBy, EmitFollowsCompiler, OnlyDev
<1> QED
  BY <1>1, <1>2, <1>3, <1>4

\* A compilation that cannot start is answered.
LEMMA PrepareFailsStep ==
    ASSUME IInv, NEW r \in Compile, PrepareFails(r)
    PROVE  IInv'
<1> USE WorkerAssumption
    DEF IInv, Typing, PrepareFails, Answer, workers, channel, Requests, Compile
<1>1. Typing'
  OBVIOUS
<1>2. \A w \in Compile : Stage(w)'
  BY DEF Stage
<1>3. TakenOnce' /\ EmitTakenOnce' /\ \A s \in Stop : StopStage(s)'
  BY DEF TakenOnce, Kept, EmitTakenOnce, StopStage
<1>4. ToldExact'
  BY DEF ToldExact, ToldBy
<1>5. EmitFollowsCompiler'
  BY DEF EmitFollowsCompiler, OnlyDev
<1> QED
  BY <1>1, <1>2, <1>3, <1>4, <1>5

\* A worker is spawned: no stop has taken it, since its request is not done.
LEMMA SpawnStep ==
    ASSUME IInv, NEW r \in Compile, Spawn(r)
    PROVE  IInv'
<1> USE WorkerAssumption DEF IInv, Typing, Spawn, Requests, Compile
<1>1. Typing'
  OBVIOUS
<1>2. \A w \in Compile : Stage(w)'
  BY DEF Stage
<1>3. TakenOnce' /\ EmitTakenOnce'
  BY DEF TakenOnce, Kept, EmitTakenOnce
<1>4. ASSUME NEW s \in Stop
      PROVE  StopStage(s)'
  <2>1. taken[s] # None => taken[s] # r
    BY DEF TakenOnce, Kept
  <2>2. pc'[s] = pc[s]
    OBVIOUS
  <2> QED
    BY <2>1, <2>2 DEF StopStage
<1>5. ToldExact'
  BY DEF ToldExact, ToldBy
<1>6. EmitFollowsCompiler'
  BY DEF EmitFollowsCompiler, OnlyDev
<1> QED
  BY <1>1, <1>2, <1>3, <1>4, <1>5, <1>6

-----------------------------------------------------------------------------
(* The steps of the worker process.                                        *)

\* What a worker does alone touches no handler and no other worker, forgets no
\* compiler, gets no stop, closes only when it was told, and does not come back.
ActsAlone(w) ==
    /\ UNCHANGED handlers
    /\ \A v \in Compile \ {w} :
          /\ worker'[v] = worker[v] /\ compiler'[v] = compiler[v]
          /\ tell'[v] = tell[v] /\ said'[v] = said[v]
          /\ connected'[v] = connected[v]
    /\ compiler[w] # "none" => compiler'[w] # "none"
    /\ tell[w] = 0 => tell'[w] = 0 /\ worker'[w] # "closing"
    /\ worker[w] = "gone" => worker'[w] = "gone"

\* It disturbs only its own stage.
LEMMA WorkerActs ==
    ASSUME IInv, NEW w \in Compile, Typing', Stage(w)', ActsAlone(w)
    PROVE  IInv'
<1> USE WorkerAssumption DEF IInv, handlers, ActsAlone
<1>1. \A v \in Compile : Stage(v)'
  BY DEF Stage
<1>2. TakenOnce'
  BY DEF TakenOnce, Kept, Typing
<1>3. EmitTakenOnce'
  BY DEF EmitTakenOnce
<1>4. \A s \in Stop : StopStage(s)'
  BY DEF StopStage, Typing
<1>5. ToldExact' /\ EmitFollowsCompiler'
  BY DEF ToldExact, ToldBy, EmitFollowsCompiler, OnlyDev
<1> QED
  BY <1>1, <1>2, <1>3, <1>4, <1>5

\* What Exits leaves, by what the channel held before.
LEMMA ExitsLeaves ==
    ASSUME Typing, NEW w \in Compile, NEW messages, Exits(w, messages)
    PROVE  /\ worker' = [worker EXCEPT ![w] = "gone"]
           /\ tell' = [tell EXCEPT ![w] = 0]
           /\ \A v \in Compile \ {w} : said'[v] = said[v]
           /\ said'[w] = said[w] \o Append(messages, "exit")
           /\ said'[w] \in Says => said' \in [Compile -> Says]
BY DEF Exits, Send, Typing

\* A worker is kept alive.
LEMMA RunKeepsAliveStep ==
    ASSUME IInv, NEW w \in Compile, RunKeepsAlive(w)
    PROVE  IInv'
<1> USE WorkerAssumption DEF RunKeepsAlive, Send
<1>1. Stage(w) /\ Typing
  BY DEF IInv
<1>2. said'[w] = <<"keepAlive">>
  BY <1>1, SendSays DEF Stage, Typing
<1>3. Typing'
  BY <1>1, <1>2 DEF Typing, handlers, Says
<1>4. Stage(w)'
  BY <1>1, <1>2, SaysDiffer DEF Typing, Stage, handlers
<1>5. ActsAlone(w)
  BY <1>1, <1>2 DEF ActsAlone, Typing
<1> QED
  BY <1>3, <1>4, <1>5, WorkerActs

\* A worker ends with a result or an error.
LEMMA RunEndsStep ==
    ASSUME IInv, NEW w \in Compile, RunEnds(w)
    PROVE  IInv'
<1>1. Stage(w) /\ Typing
  BY DEF IInv
<1>2. PICK m \in {"result", "error"} : Exits(w, <<m>>)
  BY DEF RunEnds
<1>3. said'[w] = <<m, "exit">> /\ said'[w] \in Says
  <2>1. said[w] = <<>>
    BY <1>1 DEF RunEnds, Stage
  <2>2. said'[w] = said[w] \o Append(<<m>>, "exit")
    BY <1>1, <1>2, ExitsLeaves
  <2> QED
    BY <2>1, <2>2, SendSays DEF Says
<1>4. Typing'
  BY <1>1, <1>2, <1>3, ExitsLeaves DEF RunEnds, Typing, handlers
<1>5. Stage(w)'
  BY <1>1, <1>2, <1>3, ExitsLeaves, SaysDiffer
  DEF RunEnds, Typing, Stage, handlers
<1>6. ActsAlone(w)
  BY <1>1, <1>2, ExitsLeaves DEF RunEnds, ActsAlone, Typing
<1> QED
  BY <1>4, <1>5, <1>6, WorkerActs

\* A stop reaches a worker that is kept alive, and no other: the worker closes
\* its compiler, and never exits at once.
LEMMA HandleStopStep ==
    ASSUME IInv, NEW w \in Compile, HandleStop(w)
    PROVE  IInv'
<1>1. Stage(w) /\ Typing
  BY DEF IInv
<1>2. worker[w] = "held" /\ said[w] = <<>> /\ tell[w] = 1
  BY <1>1 DEF HandleStop, Stage, Typing
<1>3. /\ worker' = [worker EXCEPT ![w] = "closing"]
      /\ tell' = [tell EXCEPT ![w] = 0]
      /\ UNCHANGED <<compiler, said, handlers, connected, resultMessage>>
  BY <1>1, <1>2 DEF HandleStop, Typing
<1>4. Typing' /\ Stage(w)'
  BY <1>1, <1>2, <1>3, SaysDiffer DEF Typing, Stage, handlers
<1>5. ActsAlone(w)
  BY <1>1, <1>2, <1>3 DEF ActsAlone, Typing
<1> QED
  BY <1>4, <1>5, WorkerActs

\* The compiler has closed.
LEMMA ClosedStep ==
    ASSUME IInv, NEW w \in Compile, Closed(w)
    PROVE  IInv'
<1>1. Stage(w) /\ Typing
  BY DEF IInv
<1>2. Exits(w, <<"stopped">>)
  BY DEF Closed
<1>3. said'[w] = <<"stopped", "exit">> /\ said'[w] \in Says
  <2>1. said[w] = <<>>
    BY <1>1 DEF Closed, Stage
  <2>2. said'[w] = said[w] \o Append(<<"stopped">>, "exit")
    BY <1>1, <1>2, ExitsLeaves
  <2> QED
    BY <2>1, <2>2, SendSays DEF Says
<1>4. Typing'
  BY ZenonT(40), <1>1, <1>2, <1>3, ExitsLeaves DEF Closed, Typing, handlers
<1>5. Stage(w)'
  BY <1>1, <1>2, <1>3, ExitsLeaves, SaysDiffer
  DEF Closed, Typing, Stage, handlers
<1>6. ActsAlone(w)
  BY <1>1, <1>2, ExitsLeaves DEF Closed, ActsAlone, Typing
<1> QED
  BY <1>4, <1>5, <1>6, WorkerActs

\* A worker dies.
LEMMA CrashStep ==
    ASSUME IInv, NEW w \in Compile, Crash(w)
    PROVE  IInv'
<1>1. Stage(w) /\ Typing
  BY DEF IInv
<1>2. Exits(w, <<>>)
  BY DEF Crash
<1>3. /\ said[w] = <<>> => said'[w] = <<"exit">>
      /\ said[w] = <<"keepAlive">> => said'[w] = <<"keepAlive", "exit">>
      /\ said[w] \in {<<>>, <<"keepAlive">>}
  <2>1. said[w] \in {<<>>, <<"keepAlive">>}
    BY <1>1 DEF Crash, Stage
  <2>2. said'[w] = said[w] \o Append(<<>>, "exit")
    BY <1>1, <1>2, ExitsLeaves
  <2> QED
    BY <2>1, <2>2, SendSays
<1>4. said'[w] \in Says
  BY <1>3 DEF Says
<1>5. Typing'
  BY ZenonT(40), <1>1, <1>2, <1>4, ExitsLeaves DEF Crash, Typing, handlers
<1>6. Stage(w)'
  BY <1>1, <1>2, <1>3, ExitsLeaves, SaysDiffer
  DEF Crash, Typing, Stage, handlers
<1>7. ActsAlone(w)
  BY <1>1, <1>2, ExitsLeaves DEF Crash, ActsAlone, Typing
<1> QED
  BY <1>5, <1>6, <1>7, WorkerActs


-----------------------------------------------------------------------------
(* The steps of the bridge that read what a worker said.                   *)

\* The stage of every other worker is left alone when the handlers of compile
\* requests but that of w are.
LEMMA OtherStages ==
    ASSUME \A v \in Compile : Stage(v), NEW w \in Compile,
           UNCHANGED workers,
           \A v \in Compile \ {w} : /\ pc'[v] = pc[v]
                                    /\ said'[v] = said[v]
                                    /\ connected'[v] = connected[v]
    PROVE  \A v \in Compile \ {w} : Stage(v)'
BY DEF Stage, workers

\* A worker that is kept alive becomes the active one; no stop took it yet.
LEMMA ReadKeepAliveStep ==
    ASSUME IInv, NEW w \in Compile, ReadKeepAlive(w)
    PROVE  IInv'
<1> USE WorkerAssumption DEF ReadKeepAlive, Answer, workers, Requests, Compile
<1>1. Typing /\ Stage(w)
  BY DEF IInv
<1>2. /\ said' \in [Compile -> Says]
      /\ \A v \in Compile \ {w} : said'[v] = said[v]
      /\ \/ said[w] = <<"keepAlive">> /\ said'[w] = <<>>
         \/ said[w] = <<"keepAlive", "exit">> /\ said'[w] = <<"exit">>
  BY <1>1, ReadsSays
<1>3. /\ pc[w] = "working" /\ pc'[w] = "done"
      /\ \A r \in Requests \ {w} : pc'[r] = pc[r] /\ answer'[r] = answer[r]
      /\ answer'[w] # "stopped"
  BY <1>1 DEF Typing
<1>4. compiler[w] # "none" /\ tell[w] = 0 /\ worker[w] # "closing"
  BY <1>1, <1>2, SaysDiffer DEF Stage
<1>5. Typing'
  BY <1>1, <1>2 DEF Typing
<1>6. \A v \in Compile : Stage(v)'
  <2>1. Stage(w)'
    <3>1. CASE said[w] = <<"keepAlive">> /\ said'[w] = <<>>
      BY <1>1, <1>3, <3>1, SaysDiffer DEF Stage
    <3>2. CASE said[w] = <<"keepAlive", "exit">> /\ said'[w] = <<"exit">>
      BY <1>1, <1>3, <3>2, SaysDiffer DEF Stage
    <3> QED
      BY <1>2, <3>1, <3>2
  <2> QED
    BY <1>2, <1>3, <2>1, OtherStages DEF IInv
<1>7. TakenOnce'
  BY <1>1, <1>3, <1>4 DEF IInv, TakenOnce, Kept, Typing
<1>8. EmitTakenOnce'
  BY <1>1, <1>3 DEF IInv, EmitTakenOnce, Typing
<1>9. \A s \in Stop : StopStage(s)'
  BY <1>1, <1>3 DEF IInv, StopStage, Typing
<1>10. ToldExact'
  BY <1>3 DEF IInv, ToldExact, ToldBy
<1>11. EmitFollowsCompiler'
  <2>1. \A d \in Dev : OnlyDev(d)' => OnlyDev(d)
    BY <1>3 DEF OnlyDev
  <2> QED
    BY <2>1 DEF IInv, EmitFollowsCompiler
<1> QED
  BY <1>5, <1>6, <1>7, <1>8, <1>9, <1>10, <1>11 DEF IInv

\* A compile request that is answered while nothing is taken disturbs no stop.
LEMMA CompileAnswered ==
    ASSUME IInv, NEW w \in Compile, pc[w] = "working", NEW a, a # "stopped",
           Answer(w, a),
           UNCHANGED <<activeCompiler, activeEmit, taken, takenEmit, told, workers>>
    PROVE  /\ TakenOnce' /\ EmitTakenOnce' /\ ToldExact' /\ EmitFollowsCompiler'
           /\ \A s \in Stop : StopStage(s)'
<1> USE WorkerAssumption DEF IInv, Typing, Answer, workers, Requests, Compile
<1>1. TakenOnce' /\ EmitTakenOnce'
  BY DEF TakenOnce, Kept, EmitTakenOnce
<1>2. ToldExact'
  BY DEF ToldExact, ToldBy
<1>3. EmitFollowsCompiler'
  BY DEF EmitFollowsCompiler, OnlyDev
<1>4. \A s \in Stop : StopStage(s)'
  BY DEF StopStage
<1> QED
  BY <1>1, <1>2, <1>3, <1>4

\* A result is noted.
LEMMA ReadResultStep ==
    ASSUME IInv, NEW w \in Compile, ReadResult(w)
    PROVE  IInv'
<1> USE DEF ReadResult, handlers, workers
<1>1. Typing /\ Stage(w)
  BY DEF IInv
<1>2. /\ said' \in [Compile -> Says]
      /\ \A v \in Compile \ {w} : said'[v] = said[v]
      /\ said[w] = <<"result", "exit">> /\ said'[w] = <<"exit">>
  BY <1>1, ReadsSays
<1>3. Typing'
  BY <1>1, <1>2 DEF Typing
<1>4. Stage(w)'
  BY <1>1, <1>2, SaysDiffer DEF Stage
<1> QED
  BY <1>1, <1>2, <1>3, <1>4, WorkerActs DEF ActsAlone, Stage

\* An error is answered.
LEMMA ReadErrorStep ==
    ASSUME IInv, NEW w \in Compile, ReadError(w)
    PROVE  IInv'
<1> USE DEF ReadError
<1>1. Typing /\ Stage(w)
  BY DEF IInv
<1>2. /\ said' \in [Compile -> Says]
      /\ \A v \in Compile \ {w} : said'[v] = said[v]
      /\ said[w] = <<"error", "exit">> /\ said'[w] = <<"exit">>
  BY <1>1, ReadsSays
<1>3. Typing'
  BY <1>1, <1>2 DEF Typing, Answer, workers, Requests
<1>4. Stage(w)'
  BY <1>1, <1>2, SaysDiffer DEF Stage, Answer, workers, Typing, Requests
<1>5. \A v \in Compile : Stage(v)'
  BY <1>1, <1>2, <1>4, OtherStages DEF IInv, Answer, Typing, Requests
<1>6. /\ TakenOnce' /\ EmitTakenOnce' /\ ToldExact' /\ EmitFollowsCompiler'
      /\ \A s \in Stop : StopStage(s)'
  BY CompileAnswered
<1> QED
  BY <1>3, <1>5, <1>6 DEF IInv

\* The stops that are answered together tell each dev request at most once,
\* since at most one of them took it.
LEMMA FinishStopsTells ==
    ASSUME IInv, NEW S \in SUBSET Stop, \A s \in S : pc[s] = "stopping",
           FinishStops(S), takenEmit' = takenEmit
    PROVE  told' \in [Dev -> Nat] /\ ToldExact'
<1> USE WorkerAssumption DEF IInv, Typing, FinishStops, Requests, Compile
<1> SUFFICES ASSUME NEW d \in Dev
             PROVE  told'[d] \in Nat /\ told'[d] = IF ToldBy(d)' THEN 1 ELSE 0
  BY DEF ToldExact
<1> DEFINE N == {s \in S : takenEmit[s] = d}
<1>1. told'[d] = told[d] + Cardinality(N)
  OBVIOUS
<1>2. told[d] = IF ToldBy(d) THEN 1 ELSE 0
  BY DEF ToldExact
<1>3. \A s \in S : answer[s] # "stopped"
  BY DEF StopStage
<1>4. CASE N = {}
  <2>1. told'[d] = told[d]
    BY <1>1, <1>4, FS_EmptySet
  <2>2. ToldBy(d)' <=> ToldBy(d)
    BY <1>3, <1>4 DEF ToldBy
  <2> QED
    BY <1>2, <2>1, <2>2
<1>5. CASE N # {}
  <2>1. PICK s \in N : TRUE
    BY <1>5
  <2>2. \A t \in Stop : takenEmit[t] = d => t = s
    BY <2>1 DEF EmitTakenOnce
  <2>3. N = {s}
    BY <2>1, <2>2
  <2>4. told'[d] = told[d] + 1
    BY <1>1, <2>3, FS_Singleton
  <2>5. ~ToldBy(d)
    BY <1>3, <2>1, <2>2 DEF ToldBy
  <2>6. ToldBy(d)'
    BY <2>1 DEF ToldBy
  <2> QED
    BY <1>2, <2>4, <2>5, <2>6
<1> QED
  BY <1>4, <1>5

\* The stops that wait for a worker that is gone are answered.
LEMMA FinishStopsStep ==
    ASSUME IInv, NEW w \in Compile, worker[w] = "gone",
           FinishStops(Awaiting(w)), said' \in [Compile -> Says],
           \A v \in Compile \ {w} : said'[v] = said[v],
           connected' \in [Compile -> BOOLEAN],
           \A v \in Compile \ {w} : connected'[v] = connected[v],
           UNCHANGED <<activeCompiler, activeEmit, taken, takenEmit, workers,
                       resultMessage>>,
           pc'[w] = pc[w] => Stage(w)'
    PROVE  IInv'
<1> DEFINE S == Awaiting(w)
<1>1. S \in SUBSET Stop /\ \A s \in S : pc[s] = "stopping" /\ taken[s] = w
  BY DEF Awaiting
<1> HIDE DEF S
<1>2. FinishStops(S)
  BY DEF S
<1>3. told' \in [Dev -> Nat] /\ ToldExact'
  BY <1>1, <1>2, FinishStopsTells
<1> USE WorkerAssumption DEF IInv, Requests, Compile
<1>4. /\ \A r \in S : pc'[r] = "done" /\ answer'[r] = "stopped"
      /\ \A r \in Requests \ S : pc'[r] = pc[r] /\ answer'[r] = answer[r]
      /\ pc' \in [Requests -> {"idle", "preparing", "working", "stopping", "done"}]
      /\ answer' \in [Requests -> {"none", "ok", "fallback", "stopped", "error"}]
  BY <1>1, <1>2 DEF FinishStops, Typing
<1>5. \A v \in Compile : pc'[v] = pc[v]
  BY <1>1, <1>4
<1>6. Typing'
  BY <1>3, <1>4 DEF Typing, workers
<1>7. \A v \in Compile : Stage(v)'
  BY <1>5, OtherStages
<1>8. TakenOnce'
  BY <1>5 DEF TakenOnce, Kept, workers, Typing
<1>9. EmitTakenOnce'
  BY <1>5 DEF EmitTakenOnce, Typing
<1>10. \A s \in Stop : StopStage(s)'
  BY <1>1, <1>4 DEF StopStage, workers
<1>11. EmitFollowsCompiler'
  BY <1>5 DEF EmitFollowsCompiler, OnlyDev
<1> QED
  BY <1>3, <1>6, <1>7, <1>8, <1>9, <1>10, <1>11

\* A worker says that it has stopped.
LEMMA ReadStoppedStep ==
    ASSUME IInv, NEW w \in Compile, ReadStopped(w)
    PROVE  IInv'
<1> USE DEF ReadStopped
<1>1. Typing /\ Stage(w)
  BY DEF IInv
<1>2. /\ said' \in [Compile -> Says]
      /\ \A v \in Compile \ {w} : said'[v] = said[v]
      /\ said[w] = <<"stopped", "exit">> /\ said'[w] = <<"exit">>
  BY <1>1, ReadsSays
<1>3. worker[w] = "gone"
  BY <1>1, <1>2, SaysDiffer DEF Stage
<1>4. pc'[w] = pc[w] => Stage(w)'
  BY <1>1, <1>2, <1>3, SaysDiffer DEF Stage, workers
<1> QED
  BY <1>1, <1>2, <1>3, <1>4, FinishStopsStep DEF Typing

\* A worker has exited.
LEMMA ReadExitStep ==
    ASSUME IInv, NEW w \in Compile, ReadExit(w)
    PROVE  IInv'
<1>1. Typing /\ Stage(w)
  BY DEF IInv
<1>2. /\ said' \in [Compile -> Says]
      /\ \A v \in Compile \ {w} : said'[v] = said[v]
      /\ said[w] = <<"exit">> /\ said'[w] = <<>>
  BY <1>1, ReadsSays DEF ReadExit
<1>3. worker[w] = "gone" /\ pc[w] \in {"working", "done"}
  BY <1>1, <1>2, SaysDiffer DEF Stage
<1>4. /\ connected' \in [Compile -> BOOLEAN] /\ ~connected'[w]
      /\ \A v \in Compile \ {w} : connected'[v] = connected[v]
  BY <1>1 DEF ReadExit, Typing
<1>5. CASE pc[w] = "working"
  <2> DEFINE a == IF resultMessage[w] THEN "ok" ELSE "fallback"
  <2>1. a \in {"ok", "fallback"}
    OBVIOUS
  <2> HIDE DEF a
  <2>2. /\ Answer(w, a)
        /\ UNCHANGED <<activeCompiler, activeEmit, taken, takenEmit, told, workers,
                       resultMessage>>
    BY <1>5 DEF ReadExit, a
  <2>3. Typing'
    BY <1>1, <1>2, <1>4, <2>1, <2>2 DEF Typing, Answer, workers, Requests
  <2>4. Stage(w)'
    BY <1>1, <1>2, <1>3, <1>4, <2>2, SaysDiffer
    DEF Stage, Answer, workers, Typing, Requests
  <2>5. \A v \in Compile : Stage(v)'
    BY <1>1, <1>2, <1>4, <2>2, <2>4, OtherStages
    DEF IInv, Answer, Typing, Requests
  <2>6. /\ TakenOnce' /\ EmitTakenOnce' /\ ToldExact' /\ EmitFollowsCompiler'
        /\ \A s \in Stop : StopStage(s)'
    BY <1>5, <2>1, <2>2, CompileAnswered
  <2> QED
    BY <2>3, <2>5, <2>6 DEF IInv
<1>6. CASE pc[w] # "working"
  <2>1. /\ FinishStops(Awaiting(w))
        /\ UNCHANGED <<activeCompiler, activeEmit, taken, takenEmit, workers,
                       resultMessage>>
    BY <1>6 DEF ReadExit
  <2>2. pc'[w] = pc[w] => Stage(w)'
    BY <1>1, <1>2, <1>3, <1>4, <1>6, <2>1, SaysDiffer DEF Stage, workers
  <2> QED
    BY <1>2, <1>3, <1>4, <2>1, <2>2, FinishStopsStep
<1> QED
  BY <1>5, <1>6


-----------------------------------------------------------------------------
(* The steps of compiler.stop.                                             *)

\* A stop takes what no stop took, and leaves nothing to the next.
LEMMA TakesOnce ==
    ASSUME IInv, NEW s \in Stop, pc[s] = "idle", TakesActive(s),
           \A r \in Requests \ {s} : pc'[r] = pc[r],
           UNCHANGED <<worker, compiler>>,
           \A w \in Compile : w # activeCompiler => tell'[w] = tell[w]
    PROVE  /\ taken' \in [Stop -> Compile \cup {None}]
           /\ takenEmit' \in [Stop -> Dev \cup {None}]
           /\ TakenOnce' /\ EmitTakenOnce' /\ EmitFollowsCompiler'
<1> USE WorkerAssumption DEF IInv, Typing, TakesActive, Requests, Compile
<1>1. /\ taken' \in [Stop -> Compile \cup {None}]
      /\ takenEmit' \in [Stop -> Dev \cup {None}]
  OBVIOUS
<1>2. \A w \in Compile : pc'[w] = pc[w]
  OBVIOUS
<1>3. TakenOnce'
  BY <1>2 DEF TakenOnce, Kept
<1>4. EmitTakenOnce'
  BY <1>2 DEF EmitTakenOnce
<1>5. EmitFollowsCompiler'
  BY <1>2 DEF EmitFollowsCompiler, OnlyDev
<1> QED
  BY <1>1, <1>3, <1>4, <1>5

\* A stop that finds no compiler, or one whose worker is known to be gone.
LEMMA StopNothingStep ==
    ASSUME IInv, NEW s \in Stop, StopNothing(s)
    PROVE  IInv'
<1> USE WorkerAssumption
    DEF IInv, StopNothing, Answer, workers, channel, Requests, Compile
<1>1. /\ pc'[s] = "done" /\ answer'[s] = "stopped"
      /\ \A r \in Requests \ {s} : pc'[r] = pc[r] /\ answer'[r] = answer[r]
  BY DEF Typing
<1>2. /\ taken' \in [Stop -> Compile \cup {None}]
      /\ takenEmit' \in [Stop -> Dev \cup {None}]
      /\ TakenOnce' /\ EmitTakenOnce' /\ EmitFollowsCompiler'
  BY <1>1, TakesOnce
<1>3. Typing'
  BY <1>2 DEF Typing, TakesActive
<1>4. \A w \in Compile : Stage(w)'
  BY <1>1 DEF Stage
<1>5. ASSUME NEW t \in Stop
      PROVE  StopStage(t)'
  <2>1. activeCompiler # None => worker[activeCompiler] = "gone"
    BY DEF TakenOnce, Kept, Stage, Typing
  <2>2. StopStage(t)
    OBVIOUS
  <2> QED
    BY <1>1, <2>1, <2>2 DEF StopStage, TakesActive, Typing
<1>6. ASSUME NEW d \in Dev
      PROVE  told'[d] = IF ToldBy(d)' THEN 1 ELSE 0
  <2>1. told[d] = IF ToldBy(d) THEN 1 ELSE 0
    BY DEF ToldExact
  <2>2. \A t \in Stop \ {s} : takenEmit'[t] = takenEmit[t]
    BY DEF TakesActive, Typing
  <2>3. takenEmit[s] = None /\ takenEmit'[s] = activeEmit
    BY DEF TakesActive, Typing, StopStage
  <2>4. CASE d = activeEmit
    <3>1. ~ToldBy(d) /\ ToldBy(d)'
      BY <1>1, <2>3, <2>4 DEF ToldBy, EmitTakenOnce
    <3>2. told'[d] = told[d] + 1
      BY <2>4
    <3> QED
      BY <2>1, <3>1, <3>2
  <2>5. CASE d # activeEmit
    <3>1. ToldBy(d)' <=> ToldBy(d)
      BY <1>1, <2>2, <2>3, <2>5 DEF ToldBy
    <3>2. told'[d] = told[d]
      BY <2>5
    <3> QED
      BY <2>1, <3>1, <3>2
  <2> QED
    BY <2>4, <2>5
<1> QED
  BY <1>2, <1>3, <1>4, <1>5, <1>6 DEF ToldExact

\* A stop that asks the worker, which is kept alive and was not asked before.
LEMMA StopWorkerStep ==
    ASSUME IInv, NEW s \in Stop, StopWorker(s)
    PROVE  IInv'
<1> USE WorkerAssumption DEF IInv, StopWorker, channel, Requests, Compile
<1> DEFINE w == activeCompiler
<1>1. w \in Compile /\ tell[w] = 0 /\ worker[w] = "held" /\ pc[w] = "done"
  BY DEF TakenOnce, Kept, Stage, Typing
<1>2. /\ tell'[w] = 1
      /\ tell' \in [Compile -> {0, 1}]
      /\ \A v \in Compile : v # w => tell'[v] = tell[v]
  BY <1>1 DEF Typing
<1>3. \A r \in Requests \ {s} : pc'[r] = pc[r]
  BY DEF Typing
<1>4. /\ taken' \in [Stop -> Compile \cup {None}]
      /\ takenEmit' \in [Stop -> Dev \cup {None}]
      /\ TakenOnce' /\ EmitTakenOnce' /\ EmitFollowsCompiler'
  BY <1>2, <1>3, TakesOnce
<1>5. Typing'
  BY <1>2, <1>4 DEF Typing, TakesActive
<1>6. ASSUME NEW v \in Compile
      PROVE  Stage(v)'
  <2>1. CASE v = w
    <3>1. said[w] = <<>>
      BY <1>1 DEF Stage
    <3> QED
      BY <1>1, <1>2, <1>3, <2>1, <3>1 DEF Stage
  <2>2. CASE v # w
    BY <1>2, <1>3, <2>2 DEF Stage
  <2> QED
    BY <2>1, <2>2
<1>7. \A t \in Stop : StopStage(t)'
  BY <1>3 DEF StopStage, TakesActive, Typing
<1>8. ToldExact'
  <2>1. answer[s] # "stopped" /\ \A t \in Stop \ {s} : takenEmit'[t] = takenEmit[t]
    BY DEF StopStage, TakesActive, Typing
  <2> QED
    BY <2>1 DEF ToldExact, ToldBy
<1> QED
  BY <1>4, <1>5, <1>6, <1>7, <1>8

\* A stop that cannot ask is answered with an error, and tells nobody.
LEMMA StopFailsStep ==
    ASSUME IInv, NEW s \in Stop, StopFails(s)
    PROVE  IInv'
<1> USE WorkerAssumption
    DEF IInv, StopFails, Answer, workers, channel, Requests, Compile
<1>1. /\ pc'[s] = "done" /\ answer'[s] = "error"
      /\ \A r \in Requests \ {s} : pc'[r] = pc[r] /\ answer'[r] = answer[r]
  BY DEF Typing
<1>2. /\ taken' \in [Stop -> Compile \cup {None}]
      /\ takenEmit' \in [Stop -> Dev \cup {None}]
      /\ TakenOnce' /\ EmitTakenOnce' /\ EmitFollowsCompiler'
  BY <1>1, TakesOnce
<1>3. Typing'
  BY <1>2 DEF Typing, TakesActive
<1>4. \A w \in Compile : Stage(w)'
  BY <1>1 DEF Stage
<1>5. \A t \in Stop : StopStage(t)'
  BY <1>1 DEF StopStage, TakesActive, Typing
<1>6. ToldExact'
  <2>1. answer[s] # "stopped" /\ \A t \in Stop \ {s} : takenEmit'[t] = takenEmit[t]
    BY DEF StopStage, TakesActive, Typing
  <2> QED
    BY <1>1, <2>1 DEF ToldExact, ToldBy
<1> QED
  BY <1>2, <1>3, <1>4, <1>5, <1>6

-----------------------------------------------------------------------------
(* The theorems.                                                           *)

\* Every step keeps the invariant.
LEMMA NextInductive ==
    ASSUME IInv, [Next]_vars
    PROVE  IInv'
<1>1. CASE \E d \in Dev : HandleDev(d)
  BY <1>1, HandleDevStep
<1>2. CASE \E b \in Build : HandleBuild(b)
  BY <1>2, HandleBuildStep
<1>3. CASE \E w \in Compile : PrepareFails(w) \/ Spawn(w)
  BY <1>3, PrepareFailsStep, SpawnStep
<1>4. CASE \E w \in Compile : Working(w) \/ Crash(w)
  BY <1>4, RunKeepsAliveStep, RunEndsStep, HandleStopStep, ClosedStep, CrashStep
  DEF Working
<1>5. CASE \E w \in Compile : Reading(w)
  BY <1>5, ReadKeepAliveStep, ReadResultStep, ReadErrorStep, ReadStoppedStep,
     ReadExitStep DEF Reading
<1>6. CASE \E s \in Stop : StopNothing(s) \/ StopWorker(s) \/ StopFails(s)
  BY <1>6, StopNothingStep, StopWorkerStep, StopFailsStep
<1>7. CASE UNCHANGED vars
  <2> USE <1>7 DEF vars, handlers, workers, channel, IInv
  <2>1. Typing' /\ \A w \in Compile : Stage(w)'
    BY DEF Typing, Stage
  <2>2. TakenOnce' /\ EmitTakenOnce' /\ \A s \in Stop : StopStage(s)'
    BY DEF TakenOnce, Kept, EmitTakenOnce, StopStage
  <2>3. ToldExact' /\ EmitFollowsCompiler'
    BY DEF ToldExact, ToldBy, EmitFollowsCompiler, OnlyDev
  <2> QED
    BY <2>1, <2>2, <2>3
<1> QED
  BY <1>1, <1>2, <1>3, <1>4, <1>5, <1>6, <1>7 DEF Next

\* The invariant holds in every state: each worker is taken by one stop at most,
\* after it was kept alive, and a dev request is told once per stop that took it.
THEOREM Inductive == Spec => []IInv
<1>1. Init => IInv
  <2> SUFFICES ASSUME Init PROVE IInv
    OBVIOUS
  <2> USE WorkerAssumption DEF Init, Requests, Compile
  <2>1. Typing
    BY DEF Typing, Says
  <2>2. \A w \in Compile : Stage(w)
    BY DEF Stage
  <2>3. TakenOnce /\ EmitTakenOnce /\ \A s \in Stop : StopStage(s)
    BY DEF TakenOnce, EmitTakenOnce, StopStage
  <2>4. ToldExact /\ EmitFollowsCompiler
    BY DEF ToldExact, ToldBy, EmitFollowsCompiler
  <2> QED
    BY <2>1, <2>2, <2>3, <2>4 DEF IInv
<1>2. IInv /\ [Next]_vars => IInv'
  BY NextInductive
<1> QED
  BY <1>1, <1>2, PTL DEF Spec

\* TypeOK: no worker is sent two stops, and what it says ends within three
\* messages.
THEOREM TypeCorrect == Spec => []TypeOK
<1>1. IInv => TypeOK
  <2> SUFFICES ASSUME IInv, NEW w \in Compile
               PROVE  /\ Len(said[w]) <= 3
                      /\ \A i \in 1..Len(said[w]) : said[w][i] \in
                            {"keepAlive", "result", "error", "stopped", "exit"}
    BY DEF IInv, Typing, TypeOK
  <2>1. said[w] \in Says
    BY DEF IInv, Typing
  <2>2. CASE said[w] = <<>>
    BY <2>2
  <2>3. CASE \E m \in {"keepAlive", "exit"} : said[w] = <<m>>
    BY <2>3
  <2>4. CASE \E m \in {"keepAlive", "result", "error", "stopped"} :
                said[w] = <<m, "exit">>
    BY <2>4
  <2> QED
    BY <2>1, <2>2, <2>3, <2>4 DEF Says
<1> QED
  BY <1>1, Inductive, PTL

\* StoppedCompilerIsClosed: whatever stops, crashes and other requests do
\* meanwhile, a stop answered `stopped` left a compiler that closed itself or
\* died of itself (compiler.ts, stopCompiler).
THEOREM StoppedIsClosed == Spec => []StoppedCompilerIsClosed
<1>1. IInv => StoppedCompilerIsClosed
  <2> SUFFICES ASSUME IInv, NEW s \in Stop, answer[s] = "stopped", taken[s] # None
               PROVE  compiler[taken[s]] \in {"closed", "lost"}
    BY DEF StoppedCompilerIsClosed
  <2>1. taken[s] \in Compile /\ Typing /\ Stage(taken[s])
    BY DEF IInv, Typing
  <2>2. worker[taken[s]] = "gone" /\ compiler[taken[s]] # "none"
    BY DEF IInv, StopStage, TakenOnce, Kept
  <2> QED
    BY <2>1, <2>2 DEF Stage, Typing
<1> QED
  BY <1>1, Inductive, PTL

\* ShutdownToldOnce: no number of stops tells a dev request twice, and the only
\* dev request is told when its compiler was stopped (compiler.ts, activeEmit).
THEOREM ToldOnce == Spec => []ShutdownToldOnce
<1>1. IInv => ShutdownToldOnce
  <2> SUFFICES ASSUME IInv, NEW d \in Dev
               PROVE  /\ told[d] <= 1
                      /\ (/\ \E s \in Stop : taken[s] = d /\ answer[s] = "stopped"
                          /\ \A e \in Dev \ {d} : pc[e] = "idle")
                         => told[d] = 1
    BY DEF ShutdownToldOnce
  <2>1. told[d] = IF ToldBy(d) THEN 1 ELSE 0
    BY DEF IInv, ToldExact
  <2>2. OnlyDev(d) => \A s \in Stop : taken[s] = d => takenEmit[s] = d
    BY DEF IInv, EmitFollowsCompiler
  <2> QED
    BY <2>1, <2>2 DEF ToldBy, OnlyDev
<1> QED
  BY <1>1, Inductive, PTL
=============================================================================
