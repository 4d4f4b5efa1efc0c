-------------------------- MODULE JavaWrapperProofs --------------------------
(***************************************************************************)
(* The references of the Java wrapper's native objects, for any number of  *)
(* calls by the application.  RefInv says who holds each reference: then   *)
(* none is dropped twice and none is left behind (Lifetimes).              *)
(***************************************************************************)
EXTENDS JavaWrapper, SequenceTheorems, TLAPS

\* What may be left of a call.
StepNames == {"quit", "shutdownNow", "unref loop", "unref context", "dispose"}
AfterQuit  == <<"shutdownNow", "unref loop", "unref context">>
AfterShut  == <<"unref loop", "unref context">>
AfterLoop  == <<"unref context">>
Disposing  == <<"dispose">>
Rests == {<<>>, CloseSteps, AfterQuit, AfterShut, AfterLoop, Disposing}

Objects ==
    [loop : Nat, context : Nat, agent : Nat, running : BOOLEAN, owner : {""} \cup Threads,
     pushed : SUBSET Threads, source : BOOLEAN, bad : SUBSET {"g_main_loop_run"}]
Executors ==
    [open : BOOLEAN, tasks : Nat,
     pc : {"idle", "begun", "wait", "loop", "held", "upcall", "release", "dispose"},
     closing : BOOLEAN, lost : BOOLEAN]
Applications ==
    [context : {"open", "closed"}, agent : {"none", "open", "closed"},
     left : [Threads -> Nat]]

TypeInv ==
    /\ native \in BOOLEAN
    /\ o \in Objects
    /\ ex \in Executors
    /\ app \in Applications
    /\ rest \in [Threads -> Rests]

One(b) == IF b THEN 1 ELSE 0
Is(x, S) == IF x \in S THEN 1 ELSE 0
Each(S) == One("main" \in S) + One("worker" \in S)

\* g_main_loop_run holds the loop, timeout_cb the agent.
InRun == ex.pc \notin {"idle", "begun"}
Holds == ex.pc \in {"held", "upcall", "release"}

\* The threads that still have to drop a reference, in close() and when they
\* dispose of the agent.
LoopRests    == {CloseSteps, AfterQuit, AfterShut}
ContextRests == {CloseSteps, AfterQuit, AfterShut, AfterLoop}
AgentRests   == {Disposing}
LoopOwed    == {t \in Threads : rest[t] \in LoopRests}
ContextOwed == {t \in Threads : rest[t] \in ContextRests}
AgentOwed   == {t \in Threads : rest[t] \in AgentRests}

\* Every reference has one holder: GLibContext until close() has come to drop
\* it, the loop and the agent as long as they exist (the agent until it is
\* disposed of), a thread that made the context its default, and the functions
\* that run.
LoopCount  == o.loop = One(app.context = "open") + Each(LoopOwed) + One(InRun)
AgentCount == o.agent = One(app.agent = "open") + One(Holds)
ContextCount ==
    o.context = One(app.context = "open") + Each(ContextOwed) + One(o.loop > 0)
                + One(o.agent > 0) + One(ex.pc = "dispose") + Each(AgentOwed)
                + Each(o.pushed)

Counted ==
    IF native
    THEN LoopCount /\ AgentCount /\ ContextCount /\ (Holds => app.agent # "none")
    ELSE /\ o.loop = 0 /\ o.context = 0 /\ o.agent = 0 /\ o.pushed = {}
         /\ ~InRun /\ AgentOwed = {}

RefInv ==
    /\ TypeInv
    /\ o.bad \subseteq {"g_main_loop_run"}
    /\ o.bad = {} => Counted

-----------------------------------------------------------------------------
\* The sequences that may be left of a call are different ones.
LEMMA RestsDiffer ==
  /\ Len(<<>>) = 0 /\ Len(CloseSteps) = 4 /\ Len(AfterQuit) = 3 /\ Len(AfterShut) = 2
  /\ Len(AfterLoop) = 1 /\ Len(Disposing) = 1 /\ AfterLoop # Disposing
  BY DEF CloseSteps, AfterQuit, AfterShut, AfterLoop, Disposing

\* A sequence without its first element.
LEMMA TailIs ==
  ASSUME NEW s \in Seq(StepNames), NEW u \in Seq(StepNames), Len(s) = Len(u) + 1,
         \A i \in 1 .. Len(u) : u[i] = s[i + 1]
  PROVE  Tail(s) = u
  <1>1. s # <<>>  BY EmptySeq
  <1>2. Tail(s) \in Seq(StepNames) /\ Len(Tail(s)) = Len(u)
    BY <1>1, HeadTailProperties, LenProperties
  <1>3. \A i \in 1 .. Len(u) : Tail(s)[i] = u[i]
    BY <1>1, <1>2, HeadTailProperties
  <1> QED  BY <1>2, <1>3, SeqEqual

\* What is left of a call tells which step comes next.
LEMMA NextOfRest ==
  ASSUME NEW r \in Rests, r # <<>>
  PROVE  /\ Head(r) = "quit" => r = CloseSteps /\ Tail(r) = AfterQuit
         /\ Head(r) = "shutdownNow" => r = AfterQuit /\ Tail(r) = AfterShut
         /\ Head(r) = "unref loop" => r = AfterShut /\ Tail(r) = AfterLoop
         /\ Head(r) = "unref context" => r = AfterLoop /\ Tail(r) = <<>>
         /\ Head(r) = "dispose" => r = Disposing /\ Tail(r) = <<>>
  <1>a. CloseSteps \in Seq(StepNames)  BY DEF CloseSteps, StepNames
  <1>b. AfterQuit \in Seq(StepNames)  BY DEF AfterQuit, StepNames
  <1>c. AfterShut \in Seq(StepNames)  BY DEF AfterShut, StepNames
  <1>d. AfterLoop \in Seq(StepNames)  BY DEF AfterLoop, StepNames
  <1>e. /\ AfterQuit[1] = CloseSteps[2] /\ AfterQuit[2] = CloseSteps[3]
        /\ AfterQuit[3] = CloseSteps[4]
        /\ AfterShut[1] = AfterQuit[2] /\ AfterShut[2] = AfterQuit[3]
        /\ AfterLoop[1] = AfterShut[2]
    BY DEF CloseSteps, AfterQuit, AfterShut, AfterLoop
  <1>1. Tail(CloseSteps) = AfterQuit
    <2>1. \A i \in 1 .. Len(AfterQuit) : AfterQuit[i] = CloseSteps[i + 1]
      BY <1>e, RestsDiffer
    <2>2. Len(CloseSteps) = Len(AfterQuit) + 1  BY RestsDiffer
    <2> QED  BY <1>a, <1>b, <2>1, <2>2, TailIs
  <1>2. Tail(AfterQuit) = AfterShut
    <2>1. \A i \in 1 .. Len(AfterShut) : AfterShut[i] = AfterQuit[i + 1]
      BY <1>e, RestsDiffer
    <2>2. Len(AfterQuit) = Len(AfterShut) + 1  BY RestsDiffer
    <2> QED  BY <1>b, <1>c, <2>1, <2>2, TailIs
  <1>3. Tail(AfterShut) = AfterLoop
    <2>1. \A i \in 1 .. Len(AfterLoop) : AfterLoop[i] = AfterShut[i + 1]
      BY <1>e, RestsDiffer
    <2>2. Len(AfterShut) = Len(AfterLoop) + 1  BY RestsDiffer
    <2> QED  BY <1>c, <1>d, <2>1, <2>2, TailIs
  <1>4. Tail(AfterLoop) = <<>> /\ Tail(Disposing) = <<>>  BY DEF AfterLoop, Disposing
  <1>5. /\ Head(CloseSteps) = "quit" /\ Head(AfterQuit) = "shutdownNow"
        /\ Head(AfterShut) = "unref loop" /\ Head(AfterLoop) = "unref context"
        /\ Head(Disposing) = "dispose"
    BY DEF CloseSteps, AfterQuit, AfterShut, AfterLoop, Disposing
  <1>6. r \in {CloseSteps, AfterQuit, AfterShut, AfterLoop, Disposing}  BY DEF Rests
  <1> QED  BY <1>1, <1>2, <1>3, <1>4, <1>5, <1>6

\* RefInv is what Lifetimes needs: with everything closed and the worker at
\* rest, nobody is left to hold a reference.
LEMMA RefInvImplies == RefInv => Lifetimes
  <1> SUFFICES ASSUME RefInv PROVE Lifetimes  OBVIOUS
  <1>1. TypeOK  BY DEF RefInv, TypeInv, TypeOK, Objects, Executors
  <1>2. ASSUME Closed, ex.pc = "idle", o.bad = {}
        PROVE  o.loop + o.context + o.agent = 0
    <2>1. app.context # "open" /\ app.agent # "open" /\ o.pushed = {}  BY <1>2 DEF Closed
    <2>2. \A t \in Threads : rest[t] = <<>>  BY <1>2 DEF Closed
    <2>3. LoopOwed = {} /\ ContextOwed = {} /\ AgentOwed = {}
      BY <2>2, RestsDiffer DEF LoopOwed, ContextOwed, AgentOwed, LoopRests, ContextRests, AgentRests
    <2>4. CASE native
      <3>1. Each(LoopOwed) = 0 /\ Each(ContextOwed) = 0 /\ Each(AgentOwed) = 0
            /\ Each(o.pushed) = 0
        BY <2>1, <2>3 DEF Each, One
      <3>2. LoopCount /\ AgentCount /\ ContextCount  BY <1>2, <2>4 DEF RefInv, Counted
      <3>3. o.loop = 0 /\ o.agent = 0
        BY <1>2, <2>1, <3>1, <3>2 DEF LoopCount, AgentCount, One, InRun, Holds
      <3> QED  BY <1>2, <2>1, <3>1, <3>2, <3>3 DEF ContextCount, One
    <2>5. CASE ~native  BY <1>2, <2>5 DEF RefInv, Counted
    <2> QED  BY <2>4, <2>5
  <1> QED  BY <1>1, <1>2 DEF Lifetimes, RefInv

\* A new GLibContext holds one reference to each of its objects.
LEMMA InitRefInv == Init => RefInv
  <1> SUFFICES ASSUME Init PROVE RefInv  OBVIOUS
  <1>1. TypeInv
    BY BudgetsAssumption DEF Init, TypeInv, NewContext, Threads, Rests, Objects, Executors,
       Applications
  <1>2. LoopOwed = {} /\ ContextOwed = {} /\ AgentOwed = {}
    BY RestsDiffer DEF Init, LoopOwed, ContextOwed, AgentOwed, LoopRests, ContextRests, AgentRests
  <1>3. Each(LoopOwed) = 0 /\ Each(ContextOwed) = 0 /\ Each(AgentOwed) = 0 /\ Each({}) = 0
    BY <1>2 DEF Each, One
  <1>4. ASSUME native PROVE Counted
    <2>1. o.loop = 1 /\ o.context = 2 /\ o.agent = 0 /\ o.pushed = {}
      BY <1>4 DEF Init, NewContext
    <2>2. app.context = "open" /\ app.agent = "none" /\ ~InRun /\ ~Holds /\ ex.pc = "idle"
      BY DEF Init, InRun, Holds
    <2> QED
      BY <1>3, <1>4, <2>1, <2>2 DEF Counted, LoopCount, AgentCount, ContextCount, One
  <1>5. ASSUME ~native PROVE Counted
    BY <1>2, <1>5 DEF Init, NewContext, Counted, InRun
  <1> QED  BY <1>1, <1>4, <1>5 DEF RefInv, Init, NewContext

-----------------------------------------------------------------------------
(* The steps, one lemma for each group.  At and Calls say that o.bad = {}.  *)

\* A step that touches none of what is counted.
LEMMA SameCounts ==
  ASSUME Counted, UNCHANGED <<native, rest>>,
         o'.loop = o.loop, o'.context = o.context, o'.agent = o.agent, o'.pushed = o.pushed,
         ex'.pc = ex.pc, app'.context = app.context, app'.agent = app.agent
  PROVE  Counted'
  BY DEF Counted, LoopCount, AgentCount, ContextCount, Each, One, InRun, Holds, LoopOwed,
         ContextOwed, AgentOwed

\* A call is counted against the budget of its thread.
LEMMA CallCounted ==
  ASSUME NEW a \in Applications, NEW t \in Threads, a.left[t] > 0
  PROVE  LET b == [a EXCEPT !.left[t] = @ - 1]
         IN  b \in Applications /\ b.context = a.context /\ b.agent = a.agent
  <1> DEFINE left == [a.left EXCEPT ![t] = @ - 1]
  <1>1. a.left \in [Threads -> Nat]  BY DEF Applications
  <1>2. left \in [Threads -> Nat]  BY <1>1
  <1>3. [a EXCEPT !.left[t] = @ - 1] = [a EXCEPT !.left = left]  BY DEF Applications
  <1> HIDE DEF left
  <1>4. /\ [a EXCEPT !.left = left] \in Applications
        /\ [a EXCEPT !.left = left].context = a.context
        /\ [a EXCEPT !.left = left].agent = a.agent
    BY <1>2 DEF Applications
  <1> QED  BY <1>3, <1>4

\* With the library, the objects that are open exist.
LEMMA OpenExists ==
  ASSUME RefInv, o.bad = {}, native
  PROVE  /\ app.context = "open" => o.loop > 0 /\ o.context > 0
         /\ app.agent = "open" => o.agent > 0
  <1>1. LoopCount /\ AgentCount /\ ContextCount  BY DEF RefInv, Counted
  <1> QED  BY <1>1 DEF LoopCount, AgentCount, ContextCount, Each, One

\* A call with an object that exists, with the library, is made.
LEMMA UseLive ==
  ASSUME NEW g, NEW n, n > 0, NEW f
  PROVE  Use(g, n, f) = g
  BY DEF Use

\* Without the library the objects stay as they are.
LEMMA NativeIs ==
  ASSUME NEW g
  PROVE  (native => Native(g) = g) /\ (~native => Native(g) = o)
  BY DEF Native

\* GLibContext.start(), stop(), and a call of the agent: the objects must exist.
LEMMA PlainCalls ==
  ASSUME RefInv, NEW t \in Threads, Start(t) \/ Stop(t) \/ CallAgent(t)
  PROVE  RefInv'
  <1>0. TypeInv  BY DEF RefInv
  <1>1. o.bad = {} /\ app.left[t] > 0 /\ native' = native  BY DEF Start, Stop, CallAgent, Calls
  <1>2. app' = [app EXCEPT !.left[t] = @ - 1] /\ rest' = rest
    BY DEF Start, Stop, CallAgent, Called
  <1>3. app' \in Applications /\ app'.context = app.context /\ app'.agent = app.agent
    BY <1>0, <1>1, <1>2, CallCounted DEF TypeInv
  <1>4. ex' \in Executors /\ ex'.pc = ex.pc
    BY <1>0 DEF Start, Stop, CallAgent, TypeInv, Executors
  <1>5. /\ o' \in Objects /\ o'.bad = {}
        /\ o'.loop = o.loop /\ o'.context = o.context /\ o'.agent = o.agent /\ o'.pushed = o.pushed
    <2>1. CASE Start(t)  BY <1>0, <1>1, <2>1 DEF Start, TypeInv
    <2>2. CASE ~native  BY <1>0, <1>1, <2>2 DEF Start, Stop, CallAgent, Native, TypeInv
    <2>3. CASE native /\ Stop(t)
      <3>1. o.loop > 0  BY <1>1, <2>3, OpenExists DEF Stop
      <3>2. o' = [o EXCEPT !.running = FALSE]
        <4>1. o' = LoopQuit(o)  BY <2>3, NativeIs DEF Stop
        <4> QED  BY <1>0, <3>1, <4>1, UseLive DEF LoopQuit, TypeInv
      <3> QED  BY <1>0, <1>1, <3>2 DEF TypeInv, Objects
    <2>4. CASE native /\ CallAgent(t)
      <3>1. o.agent > 0  BY <1>1, <2>4, OpenExists DEF CallAgent
      <3>2. PICK timer \in BOOLEAN : o' = [o EXCEPT !.source = timer]
        <4>1. PICK timer \in BOOLEAN :
                 o' = [Use(o, o.agent, "nice_agent") EXCEPT !.source = timer]
          BY <2>4, NativeIs DEF CallAgent
        <4> QED  BY <1>0, <3>1, <4>1, UseLive DEF TypeInv
      <3> QED  BY <1>0, <1>1, <3>2 DEF TypeInv, Objects
    <2> QED  BY <2>1, <2>2, <2>3, <2>4
  <1>6. TypeInv'  BY <1>0, <1>1, <1>2, <1>3, <1>4, <1>5 DEF TypeInv
  <1>7. Counted'  BY <1>1, <1>2, <1>3, <1>4, <1>5, SameCounts DEF RefInv
  <1> QED  BY <1>5, <1>6, <1>7 DEF RefInv

\* How many threads are in one of the calls R, when thread t goes on to r.
LEMMA EachChange ==
  ASSUME NEW f \in [Threads -> Rests], NEW t \in Threads, NEW r, NEW R
  PROVE  Each({x \in Threads : [f EXCEPT ![t] = r][x] \in R})
           = Each({x \in Threads : f[x] \in R}) - Is(f[t], R) + Is(r, R)
  <1>1. t = "main" \/ t = "worker"  BY DEF Threads
  <1>2. CASE t = "main"  BY <1>2 DEF Each, One, Is, Threads
  <1>3. CASE t = "worker"  BY <1>3 DEF Each, One, Is, Threads
  <1> QED  BY <1>1, <1>2, <1>3

\* What the threads still owe, when thread t goes on in its call.
LEMMA OwedChange ==
  ASSUME rest \in [Threads -> Rests], NEW t \in Threads, NEW r \in Rests,
         rest' = [rest EXCEPT ![t] = r]
  PROVE  /\ Each(LoopOwed') = Each(LoopOwed) - Is(rest[t], LoopRests) + Is(r, LoopRests)
         /\ Each(ContextOwed')
              = Each(ContextOwed) - Is(rest[t], ContextRests) + Is(r, ContextRests)
         /\ Each(AgentOwed')
              = Each(AgentOwed) - Is(rest[t], AgentRests) + Is(r, AgentRests)
         /\ rest' \in [Threads -> Rests]
  <1>1. /\ LoopOwed = {x \in Threads : rest[x] \in LoopRests}
        /\ LoopOwed' = {x \in Threads : [rest EXCEPT ![t] = r][x] \in LoopRests}
        /\ ContextOwed = {x \in Threads : rest[x] \in ContextRests}
        /\ ContextOwed' = {x \in Threads : [rest EXCEPT ![t] = r][x] \in ContextRests}
    BY DEF LoopOwed, ContextOwed
  <1>2. /\ AgentOwed = {x \in Threads : rest[x] \in AgentRests}
        /\ AgentOwed' = {x \in Threads : [rest EXCEPT ![t] = r][x] \in AgentRests}
    BY DEF AgentOwed
  <1>3. Each(LoopOwed') = Each(LoopOwed) - Is(rest[t], LoopRests) + Is(r, LoopRests)
    BY <1>1, EachChange
  <1>4. Each(ContextOwed')
          = Each(ContextOwed) - Is(rest[t], ContextRests) + Is(r, ContextRests)
    BY <1>1, EachChange
  <1>5. Each(AgentOwed')
          = Each(AgentOwed) - Is(rest[t], AgentRests) + Is(r, AgentRests)
    BY <1>2, EachChange
  <1> QED  BY <1>3, <1>4, <1>5

\* Each counts at most two threads.
LEMMA EachNat == \A S : Each(S) \in Nat /\ (\A t \in Threads : t \in S => Each(S) > 0)
  BY DEF Each, One, Threads

\* So do the sets of threads that the counts are about.
LEMMA OwedNat ==
  /\ Each(LoopOwed) \in Nat /\ Each(ContextOwed) \in Nat /\ Each(AgentOwed) \in Nat
  /\ Each(o.pushed) \in Nat
  BY EachNat

\* OwedChange, with a name for what was left of the call.
LEMMA OwedByStep ==
  ASSUME rest \in [Threads -> Rests], NEW t \in Threads, NEW u, rest[t] = u, NEW r \in Rests,
         rest' = [rest EXCEPT ![t] = r]
  PROVE  /\ Each(LoopOwed') = Each(LoopOwed) - Is(u, LoopRests) + Is(r, LoopRests)
         /\ Each(ContextOwed')
              = Each(ContextOwed) - Is(u, ContextRests) + Is(r, ContextRests)
         /\ Each(AgentOwed') = Each(AgentOwed) - Is(u, AgentRests) + Is(r, AgentRests)
         /\ rest' \in [Threads -> Rests]
  BY OwedChange

\* The references that a thread owes in each part of its call.
LEMMA OwedIn ==
  /\ Is(<<>>, LoopRests) = 0 /\ Is(<<>>, ContextRests) = 0
  /\ Is(<<>>, AgentRests) = 0
  /\ Is(CloseSteps, LoopRests) = 1 /\ Is(CloseSteps, ContextRests) = 1
  /\ Is(CloseSteps, AgentRests) = 0
  /\ Is(AfterQuit, LoopRests) = 1 /\ Is(AfterQuit, ContextRests) = 1
  /\ Is(AfterQuit, AgentRests) = 0
  /\ Is(AfterShut, LoopRests) = 1 /\ Is(AfterShut, ContextRests) = 1
  /\ Is(AfterShut, AgentRests) = 0
  /\ Is(AfterLoop, LoopRests) = 0 /\ Is(AfterLoop, ContextRests) = 1
  /\ Is(AfterLoop, AgentRests) = 0
  /\ Is(Disposing, LoopRests) = 0 /\ Is(Disposing, ContextRests) = 0
  /\ Is(Disposing, AgentRests) = 1
  <1>1. /\ <<>> # CloseSteps /\ <<>> # AfterQuit /\ <<>> # AfterShut /\ <<>> # AfterLoop
        /\ <<>> # Disposing
    BY RestsDiffer
  <1>2. /\ AfterLoop # CloseSteps /\ AfterLoop # AfterQuit /\ AfterLoop # AfterShut
        /\ Disposing # CloseSteps /\ Disposing # AfterQuit /\ Disposing # AfterShut
        /\ Disposing # AfterLoop
    BY RestsDiffer
  <1> QED  BY <1>1, <1>2 DEF Is, LoopRests, ContextRests, AgentRests

\* The references that unref drops.
LEMMA ContextUnrefIs ==
  ASSUME NEW g \in Objects, g.context > 0
  PROVE  /\ ContextUnref(g) \in Objects
         /\ ContextUnref(g).context = g.context - 1
         /\ ContextUnref(g).loop = g.loop
         /\ ContextUnref(g).agent = g.agent
         /\ ContextUnref(g).pushed = g.pushed
         /\ ContextUnref(g).bad = g.bad
  <1> DEFINE n == g.context - 1
             b == g.source /\ g.context > 1
  <1>1. Use(g, g.context, "g_main_context_unref") = g  BY UseLive
  <1>2. Less(g.context) = n  BY DEF Less
  <1>3. ContextUnref(g) = [g EXCEPT !.context = n, !.source = b]
    BY <1>1, <1>2 DEF ContextUnref
  <1>a. g.context \in Nat  BY DEF Objects
  <1>4. n \in Nat /\ b \in BOOLEAN  BY <1>a
  <1> HIDE DEF n, b
  <1>5. /\ [g EXCEPT !.context = n, !.source = b] \in Objects
        /\ [g EXCEPT !.context = n, !.source = b].context = n
        /\ [g EXCEPT !.context = n, !.source = b].loop = g.loop
        /\ [g EXCEPT !.context = n, !.source = b].agent = g.agent
        /\ [g EXCEPT !.context = n, !.source = b].pushed = g.pushed
        /\ [g EXCEPT !.context = n, !.source = b].bad = g.bad
    BY <1>4 DEF Objects
  <1> QED  BY <1>3, <1>5 DEF n

\* The last reference to the loop takes the loop's reference to the context along.
LEMMA LoopUnrefIs ==
  ASSUME NEW g \in Objects, g.loop > 0, g.context > 0
  PROVE  /\ LoopUnref(g) \in Objects
         /\ LoopUnref(g).loop = g.loop - 1
         /\ LoopUnref(g).context = IF g.loop = 1 THEN g.context - 1 ELSE g.context
         /\ LoopUnref(g).agent = g.agent
         /\ LoopUnref(g).pushed = g.pushed
         /\ LoopUnref(g).bad = g.bad
  <1> DEFINE n == g.loop - 1
             k == [g EXCEPT !.loop = n]
  <1>1. Use(g, g.loop, "g_main_loop_unref") = g  BY UseLive
  <1>2. Less(g.loop) = n  BY DEF Less
  <1>3. LoopUnref(g) = IF g.loop = 1 THEN ContextUnref(k) ELSE k
    BY <1>1, <1>2 DEF LoopUnref
  <1>a. g.loop \in Nat  BY DEF Objects
  <1>4. n \in Nat  BY <1>a
  <1> HIDE DEF n
  <1>5. /\ k \in Objects /\ k.loop = n /\ k.context = g.context
        /\ k.agent = g.agent /\ k.pushed = g.pushed /\ k.bad = g.bad
    BY <1>4 DEF Objects
  <1> HIDE DEF k
  <1> QED  BY <1>3, <1>5, ContextUnrefIs DEF n

\* The books, after a step with the library.
LEMMA Recount ==
  ASSUME native, native' = native,
         o'.loop = One(app'.context = "open") + Each(LoopOwed')
                     + One(ex'.pc \notin {"idle", "begun"}),
         o'.agent = One(app'.agent = "open") + One(ex'.pc \in {"held", "upcall", "release"}),
         o'.context = One(app'.context = "open") + Each(ContextOwed') + One(o'.loop > 0)
                        + One(o'.agent > 0) + One(ex'.pc = "dispose") + Each(AgentOwed')
                        + Each(o'.pushed),
         ex'.pc \in {"held", "upcall", "release"} => app'.agent # "none"
  PROVE  Counted'
  BY DEF Counted, LoopCount, AgentCount, ContextCount, InRun, Holds, Each, One

\* Making the context the default of a thread, and not.
LEMMA PushAndPop ==
  ASSUME RefInv, NEW t \in Threads, Push(t) \/ Pop(t)
  PROVE  RefInv'
  <1>0. TypeInv  BY DEF RefInv
  <1>1. o.bad = {} /\ app.left[t] > 0 /\ native' = native  BY DEF Push, Pop, Calls
  <1>2. app' = [app EXCEPT !.left[t] = @ - 1] /\ rest' = rest /\ ex' = ex
    BY DEF Push, Pop, Called
  <1>3. app' \in Applications /\ app'.context = app.context /\ app'.agent = app.agent
    BY <1>0, <1>1, <1>2, CallCounted DEF TypeInv
  <1>4. ASSUME o' = o PROVE RefInv'
    BY <1>0, <1>1, <1>2, <1>3, <1>4, SameCounts DEF RefInv, TypeInv
  <1>5. CASE ~native  BY <1>4, <1>5, NativeIs DEF Push, Pop
  <1>6. ASSUME native, o' \in Objects, o'.bad = {}, o'.loop = o.loop, o'.agent = o.agent,
               o'.context - Each(o'.pushed) = o.context - Each(o.pushed)
        PROVE  RefInv'
    <2>1. LoopCount /\ AgentCount /\ ContextCount /\ (Holds => app.agent # "none")
      BY <1>1, <1>6 DEF RefInv, Counted
    <2>2. /\ LoopOwed' = LoopOwed /\ ContextOwed' = ContextOwed /\ AgentOwed' = AgentOwed
      BY <1>2 DEF LoopOwed, ContextOwed, AgentOwed
    <2>3. o'.loop = One(app'.context = "open") + Each(LoopOwed')
                     + One(ex'.pc \notin {"idle", "begun"})
      BY <1>2, <1>3, <1>6, <2>1, <2>2 DEF LoopCount, InRun
    <2>4. o'.agent = One(app'.agent = "open") + One(ex'.pc \in {"held", "upcall", "release"})
      BY <1>2, <1>3, <1>6, <2>1 DEF AgentCount, Holds
    <2>5. o'.context \in Nat /\ o.context \in Nat  BY <1>0, <1>6 DEF TypeInv, Objects
    <2>6. o'.context = One(app'.context = "open") + Each(ContextOwed') + One(o'.loop > 0)
                        + One(o'.agent > 0) + One(ex'.pc = "dispose") + Each(AgentOwed')
                        + Each(o'.pushed)
      BY <1>2, <1>3, <1>6, <2>1, <2>2, <2>5, EachNat DEF ContextCount, One
    <2>7. Counted'
      BY <1>1, <1>2, <1>3, <1>6, <2>1, <2>3, <2>4, <2>6, Recount DEF Holds
    <2> QED  BY <1>0, <1>1, <1>2, <1>3, <1>6, <2>7 DEF RefInv, TypeInv
  <1>7. CASE native /\ Push(t)
    <2>1. o' = PushThreadDefault(o, t) /\ t \notin o.pushed  BY <1>7, NativeIs DEF Push
    <2>2. o.context > 0  BY <1>1, <1>7, OpenExists DEF Push
    <2>3. Use(o, o.context, "g_main_context_push_thread_default") = o  BY <2>2, UseLive
    <2>4. CASE o.owner \notin {"", t}
      BY <1>4, <2>1, <2>3, <2>4 DEF PushThreadDefault
    <2>5. CASE o.owner \in {"", t}
      <3>1. o' = [o EXCEPT !.owner = t, !.context = @ + 1, !.pushed = @ \cup {t}]
        BY <2>1, <2>3, <2>5 DEF PushThreadDefault
      <3>2. /\ o' \in Objects /\ o'.bad = {} /\ o'.loop = o.loop /\ o'.agent = o.agent
            /\ o'.context = o.context + 1 /\ o'.pushed = o.pushed \cup {t}
        <4> DEFINE n == o.context + 1
                   S == o.pushed \cup {t}
        <4>1. o.context \in Nat /\ o.pushed \in SUBSET Threads  BY <1>0 DEF TypeInv, Objects
        <4>2. n \in Nat /\ S \in SUBSET Threads  BY <4>1
        <4>3. o' = [o EXCEPT !.owner = t, !.context = n, !.pushed = S]  BY <3>1
        <4> HIDE DEF n, S
        <4>4. /\ o' \in Objects /\ o'.bad = {} /\ o'.loop = o.loop /\ o'.agent = o.agent
              /\ o'.context = n /\ o'.pushed = S
          BY <1>0, <1>1, <4>2, <4>3 DEF TypeInv, Objects
        <4> QED  BY <4>4 DEF n, S
      <3>3. Each(o'.pushed) = Each(o.pushed) + 1
        BY <2>1, <3>2 DEF Each, One, Threads
      <3>4. o.context \in Nat  BY <1>0 DEF TypeInv, Objects
      <3>5. o'.context - Each(o'.pushed) = o.context - Each(o.pushed)
        BY <3>2, <3>3, <3>4, EachNat
      <3> QED  BY <1>6, <1>7, <3>2, <3>5
    <2> QED  BY <2>4, <2>5
  <1>8. CASE native /\ Pop(t)
    <2>1. o' = PopThreadDefault(o, t)  BY <1>8, NativeIs DEF Pop
    <2>2. CASE t \notin o.pushed  BY <1>4, <2>1, <2>2 DEF PopThreadDefault
    <2>3. CASE t \in o.pushed
      <3> DEFINE g == [o EXCEPT !.pushed = @ \ {t}, !.owner = IF t = "main" THEN "" ELSE @]
      <3>1. o' = ContextUnref(g)  BY <2>1, <2>3 DEF PopThreadDefault
      <3>2. o.context > 0
        <4>1. ContextCount  BY <1>1, <1>8 DEF RefInv, Counted
        <4>2. Each(o.pushed) > 0  BY <2>3, EachNat
        <4> QED  BY <4>1, <4>2, EachNat DEF ContextCount, One
      <3>3. /\ g \in Objects /\ g.context = o.context /\ g.loop = o.loop /\ g.agent = o.agent
            /\ g.pushed = o.pushed \ {t} /\ g.bad = {}
        BY <1>0, <1>1 DEF TypeInv, Objects
      <3> HIDE DEF g
      <3>4. /\ o' \in Objects /\ o'.bad = {} /\ o'.loop = o.loop /\ o'.agent = o.agent
            /\ o'.context = o.context - 1 /\ o'.pushed = o.pushed \ {t}
        BY <3>1, <3>2, <3>3, ContextUnrefIs
      <3>5. Each(o'.pushed) = Each(o.pushed) - 1
        BY <2>3, <3>4 DEF Each, One, Threads
      <3>6. o.context \in Nat  BY <1>0 DEF TypeInv, Objects
      <3>7. o'.context - Each(o'.pushed) = o.context - Each(o.pushed)
        BY <3>4, <3>5, <3>6, EachNat
      <3> QED  BY <1>6, <1>8, <3>4, <3>7
    <2> QED  BY <2>2, <2>3
  <1> QED  BY <1>5, <1>7, <1>8

\* new NiceAgent: the agent takes a reference to the context.
LEMMA NewAgentStep ==
  ASSUME RefInv, NEW t \in Threads, NewAgent(t)
  PROVE  RefInv'
  <1>0. TypeInv  BY DEF RefInv
  <1>1. /\ o.bad = {} /\ app.left[t] > 0 /\ native' = native /\ rest' = rest /\ ex' = ex
        /\ app.context = "open" /\ app.agent = "none"
    BY DEF NewAgent, Calls
  <1>2. app' = [[app EXCEPT !.left[t] = @ - 1] EXCEPT !.agent = "open"]
    BY <1>0 DEF NewAgent, TypeInv, Applications
  <1>3. app' \in Applications /\ app'.context = "open" /\ app'.agent = "open"
    BY <1>0, <1>1, <1>2, CallCounted DEF TypeInv, Applications
  <1>4. CASE ~native
    <2>1. o' = o  BY <1>4, NativeIs DEF NewAgent
    <2>2. Counted'  BY <1>1, <1>4, <2>1 DEF RefInv, Counted, InRun, AgentOwed
    <2> QED  BY <1>0, <1>1, <1>3, <2>1, <2>2 DEF RefInv, TypeInv
  <1>5. CASE native
    <2>1. LoopCount /\ AgentCount /\ ContextCount /\ ~Holds
      BY <1>1, <1>5 DEF RefInv, Counted
    <2>2. o.agent = 0  BY <1>1, <2>1 DEF AgentCount, One
    <2>3. o.context > 0  BY <1>1, <1>5, OpenExists
    <2> DEFINE n == o.context + 1
    <2>4. o' = [o EXCEPT !.agent = 1, !.context = n]
      <3>1. o' = AgentOn(o)  BY <1>5, NativeIs DEF NewAgent
      <3>2. Use(o, o.context, "nice_agent_new") = o  BY <2>3, UseLive
      <3> QED  BY <3>1, <3>2 DEF AgentOn
    <2>5a. o.context \in Nat  BY <1>0 DEF TypeInv, Objects
    <2>5. n \in Nat  BY <2>5a
    <2> HIDE DEF n
    <2>6. /\ o' \in Objects /\ o'.bad = {} /\ o'.loop = o.loop /\ o'.agent = 1
          /\ o'.context = n /\ o'.pushed = o.pushed
      BY <1>0, <1>1, <2>4, <2>5 DEF TypeInv, Objects
    <2>7. /\ LoopOwed' = LoopOwed /\ ContextOwed' = ContextOwed /\ AgentOwed' = AgentOwed
      BY <1>1 DEF LoopOwed, ContextOwed, AgentOwed
    <2>8. o'.context = One(app'.context = "open") + Each(ContextOwed') + One(o'.loop > 0)
                        + One(o'.agent > 0) + One(ex'.pc = "dispose") + Each(AgentOwed')
                        + Each(o'.pushed)
      BY <1>1, <1>3, <2>1, <2>2, <2>5a, <2>6, <2>7, EachNat DEF ContextCount, One, n
    <2>9. Counted'
      BY <1>1, <1>3, <1>5, <2>1, <2>6, <2>7, <2>8, Recount
         DEF Holds, LoopCount, AgentCount, InRun, One
    <2> QED  BY <1>0, <1>1, <1>3, <2>6, <2>9 DEF RefInv, TypeInv
  <1> QED  BY <1>4, <1>5

\* NiceAgent.close(): the reference of the wrapper goes; a timeout that runs
\* keeps its own, and otherwise this thread has to dispose of the agent.
LEMMA CloseAgentStep ==
  ASSUME RefInv, NEW t \in Threads, CloseAgent(t)
  PROVE  RefInv'
  <1>0. TypeInv  BY DEF RefInv
  <1>1. /\ o.bad = {} /\ app.left[t] > 0 /\ native' = native /\ ex' = ex
        /\ app.agent = "open" /\ rest[t] = <<>>
    BY DEF CloseAgent, Calls
  <1>2. app' = [[app EXCEPT !.left[t] = @ - 1] EXCEPT !.agent = "closed"]
    BY <1>0 DEF CloseAgent, TypeInv, Applications
  <1>3. app' \in Applications /\ app'.context = app.context /\ app'.agent = "closed"
    BY <1>0, <1>1, <1>2, CallCounted DEF TypeInv, Applications
  <1> DEFINE r == IF native /\ o.agent = 1 THEN Disposing ELSE <<>>
  <1>4. rest' = [rest EXCEPT ![t] = r] /\ r \in Rests  BY DEF CloseAgent, Disposing, Rests
  <1>5. rest \in [Threads -> Rests]  BY <1>0 DEF TypeInv
  <1>6. CASE ~native
    <2>1. o' = o  BY <1>6, NativeIs DEF CloseAgent
    <2>2. r = <<>>  BY <1>6
    <2>3. rest' = rest  BY <1>1, <1>4, <1>5, <2>2
    <2>4. Counted'  BY <1>1, <1>6, <2>1, <2>3 DEF RefInv, Counted, InRun, AgentOwed
    <2> QED  BY <1>0, <1>1, <1>3, <2>1, <2>3, <2>4 DEF RefInv, TypeInv
  <1>7. CASE native
    <2>1. LoopCount /\ AgentCount /\ ContextCount  BY <1>1, <1>7 DEF RefInv, Counted
    <2>2. o.agent > 0  BY <1>1, <1>7, OpenExists
    <2> DEFINE n == o.agent - 1
    <2>3. o' = [o EXCEPT !.agent = n]
      <3>1. o' = AgentUnref(o)  BY <1>7, NativeIs DEF CloseAgent
      <3>2. Use(o, o.agent, "g_object_unref") = o  BY <2>2, UseLive
      <3> QED  BY <2>2, <3>1, <3>2 DEF AgentUnref, Less
    <2>4. o.agent \in Nat /\ o.context \in Nat  BY <1>0 DEF TypeInv, Objects
    <2>5. n \in Nat  BY <2>2, <2>4
    <2> HIDE DEF n
    <2>6. /\ o' \in Objects /\ o'.bad = {} /\ o'.loop = o.loop /\ o'.agent = n
          /\ o'.context = o.context /\ o'.pushed = o.pushed
      BY <1>0, <1>1, <2>3, <2>5 DEF TypeInv, Objects
    <2>7. /\ Is(r, LoopRests) = 0 /\ Is(r, ContextRests) = 0
          /\ Is(r, AgentRests) = One(o.agent = 1)
      <3>1. CASE o.agent = 1
        <4>1. r = Disposing  BY <1>7, <3>1
        <4> QED  BY <3>1, <4>1, OwedIn DEF One
      <3>2. CASE o.agent # 1
        <4>1. r = <<>>  BY <3>2
        <4> QED  BY <3>2, <4>1, OwedIn DEF One
      <3> QED  BY <3>1, <3>2
    <2> HIDE DEF r
    <2>8. /\ Each(LoopOwed') = Each(LoopOwed) /\ Each(ContextOwed') = Each(ContextOwed)
          /\ Each(AgentOwed') = Each(AgentOwed) + One(o.agent = 1)
          /\ rest' \in [Threads -> Rests]
      <3>1. One(o.agent = 1) \in Nat  BY DEF One
      <3>2. /\ Each(LoopOwed') = Each(LoopOwed) - Is(<<>>, LoopRests) + Is(r, LoopRests)
            /\ Each(ContextOwed')
                 = Each(ContextOwed) - Is(<<>>, ContextRests) + Is(r, ContextRests)
            /\ Each(AgentOwed') = Each(AgentOwed) - Is(<<>>, AgentRests) + Is(r, AgentRests)
            /\ rest' \in [Threads -> Rests]
        BY <1>1, <1>4, <1>5, OwedByStep
      <3> QED  BY <2>7, <3>1, <3>2, OwedIn, OwedNat
    <2>9. /\ o'.loop = One(app'.context = "open") + Each(LoopOwed')
                        + One(ex'.pc \notin {"idle", "begun"})
          /\ o'.agent = One(app'.agent = "open") + One(ex'.pc \in {"held", "upcall", "release"})
      BY <1>1, <1>3, <2>1, <2>4, <2>6, <2>8 DEF LoopCount, AgentCount, InRun, Holds, One, n
    <2>10. o'.context = One(app'.context = "open") + Each(ContextOwed') + One(o'.loop > 0)
                        + One(o'.agent > 0) + One(ex'.pc = "dispose") + Each(AgentOwed')
                        + Each(o'.pushed)
      <3>1. One(o.agent > 0) = One(o'.agent > 0) + One(o.agent = 1)
        BY <2>2, <2>4, <2>6 DEF One, n
      <3>2. /\ One(o.agent = 1) \in Nat /\ One(o'.agent > 0) \in Nat
            /\ One(app.context = "open") \in Nat /\ One(o.loop > 0) \in Nat
            /\ One(ex.pc = "dispose") \in Nat
        BY DEF One
      <3> QED  BY <1>1, <1>3, <2>1, <2>6, <2>8, <3>1, <3>2, OwedNat DEF ContextCount
    <2>11. Counted'  BY <1>1, <1>3, <1>7, <2>9, <2>10, Recount
    <2> QED  BY <1>0, <1>1, <1>3, <2>6, <2>8, <2>11 DEF RefInv, TypeInv
  <1> QED  BY <1>6, <1>7

\* GLibContext.close() begins: its references are those the call has to drop.
LEMMA CloseStep ==
  ASSUME RefInv, NEW t \in Threads, Close(t)
  PROVE  RefInv'
  <1>0. TypeInv  BY DEF RefInv
  <1>1. /\ o.bad = {} /\ app.left[t] > 0 /\ native' = native /\ ex' = ex /\ o' = o
        /\ app.context = "open" /\ rest[t] = <<>>
        /\ rest' = [rest EXCEPT ![t] = CloseSteps] /\ CloseSteps \in Rests
    BY DEF Close, Calls, Rests
  <1>2. app' = [[app EXCEPT !.left[t] = @ - 1] EXCEPT !.context = "closed"]
    BY <1>0 DEF Close, TypeInv, Applications
  <1>3. app' \in Applications /\ app'.context = "closed" /\ app'.agent = app.agent
    BY <1>0, <1>1, <1>2, CallCounted DEF TypeInv, Applications
  <1>4. rest \in [Threads -> Rests]  BY <1>0 DEF TypeInv
  <1>5. /\ Each(LoopOwed') = Each(LoopOwed) + 1 /\ Each(ContextOwed') = Each(ContextOwed) + 1
        /\ Each(AgentOwed') = Each(AgentOwed) /\ rest' \in [Threads -> Rests]
    <2>1. /\ Each(LoopOwed') = Each(LoopOwed) - Is(<<>>, LoopRests) + Is(CloseSteps, LoopRests)
          /\ Each(ContextOwed')
               = Each(ContextOwed) - Is(<<>>, ContextRests) + Is(CloseSteps, ContextRests)
          /\ Each(AgentOwed')
               = Each(AgentOwed) - Is(<<>>, AgentRests) + Is(CloseSteps, AgentRests)
          /\ rest' \in [Threads -> Rests]
      BY <1>1, <1>4, OwedByStep
    <2> QED  BY <2>1, OwedIn, OwedNat
  <1>6. CASE ~native
    <2>1. CloseSteps \notin AgentRests  BY OwedIn DEF Is
    <2>a. AgentOwed = {}  BY <1>1, <1>6 DEF RefInv, Counted
    <2>b. AgentOwed' = {}  BY <1>1, <1>4, <2>1, <2>a DEF AgentOwed
    <2>2. Counted'  BY <1>1, <1>6, <2>b DEF RefInv, Counted, InRun
    <2> QED  BY <1>0, <1>1, <1>3, <1>5, <2>2 DEF RefInv, TypeInv
  <1>7. CASE native
    <2>1. LoopCount /\ AgentCount /\ ContextCount /\ (Holds => app.agent # "none")
      BY <1>1, <1>7 DEF RefInv, Counted
    <2>2. /\ o'.loop = One(app'.context = "open") + Each(LoopOwed')
                        + One(ex'.pc \notin {"idle", "begun"})
          /\ o'.agent = One(app'.agent = "open") + One(ex'.pc \in {"held", "upcall", "release"})
      BY <1>1, <1>3, <1>5, <2>1, EachNat DEF LoopCount, AgentCount, InRun, Holds, One
    <2>3. o'.context = One(app'.context = "open") + Each(ContextOwed') + One(o'.loop > 0)
                        + One(o'.agent > 0) + One(ex'.pc = "dispose") + Each(AgentOwed')
                        + Each(o'.pushed)
      BY <1>1, <1>3, <1>5, <2>1, EachNat DEF ContextCount, One
    <2>4. Counted'  BY <1>1, <1>3, <1>7, <2>1, <2>2, <2>3, Recount DEF Holds
    <2> QED  BY <1>0, <1>1, <1>3, <1>5, <2>4 DEF RefInv, TypeInv
  <1> QED  BY <1>6, <1>7

\* A thread goes on in its call: it drops the references that it owed.
LEMMA GoesOn ==
  ASSUME RefInv, o.bad = {}, native, UNCHANGED <<native, app>>,
         NEW t \in Threads, NEW r \in Rests, rest' = [rest EXCEPT ![t] = r],
         ex' \in Executors, ex'.pc = ex.pc,
         o' \in Objects, o'.bad = {}, o'.agent = o.agent, o'.pushed = o.pushed,
         o'.loop = o.loop - Is(rest[t], LoopRests) + Is(r, LoopRests),
         o'.context = o.context - One(o.loop > 0) + One(o'.loop > 0)
                        - Is(rest[t], ContextRests) + Is(r, ContextRests)
                        - Is(rest[t], AgentRests) + Is(r, AgentRests)
  PROVE  RefInv'
  <1>0. TypeInv  BY DEF RefInv
  <1>1. LoopCount /\ AgentCount /\ ContextCount /\ (Holds => app.agent # "none")
    BY DEF RefInv, Counted
  <1>2. rest \in [Threads -> Rests]  BY <1>0 DEF TypeInv
  <1>3. /\ Each(LoopOwed') = Each(LoopOwed) - Is(rest[t], LoopRests) + Is(r, LoopRests)
        /\ Each(ContextOwed') = Each(ContextOwed) - Is(rest[t], ContextRests) + Is(r, ContextRests)
        /\ Each(AgentOwed') = Each(AgentOwed) - Is(rest[t], AgentRests) + Is(r, AgentRests)
        /\ rest' \in [Threads -> Rests]
    BY <1>2, OwedChange
  <1>4. \A x, S : Is(x, S) \in Nat  BY DEF Is
  <1>5. /\ One(app.context = "open") \in Nat /\ One(o.loop > 0) \in Nat
        /\ One(o'.loop > 0) \in Nat /\ One(o.agent > 0) \in Nat
        /\ One(ex.pc = "dispose") \in Nat /\ One(ex.pc \notin {"idle", "begun"}) \in Nat
    BY DEF One
  <1>6. o'.loop = One(app'.context = "open") + Each(LoopOwed')
                    + One(ex'.pc \notin {"idle", "begun"})
    BY <1>1, <1>3, <1>4, <1>5, OwedNat DEF LoopCount, InRun
  <1>7. o'.agent = One(app'.agent = "open") + One(ex'.pc \in {"held", "upcall", "release"})
    BY <1>1 DEF AgentCount, Holds
  <1>8. o'.context = One(app'.context = "open") + Each(ContextOwed') + One(o'.loop > 0)
                       + One(o'.agent > 0) + One(ex'.pc = "dispose") + Each(AgentOwed')
                       + Each(o'.pushed)
    BY <1>1, <1>3, <1>4, <1>5, OwedNat DEF ContextCount
  <1>9. Counted'  BY <1>1, <1>6, <1>7, <1>8, Recount DEF Holds
  <1> QED  BY <1>0, <1>3, <1>9 DEF RefInv, TypeInv

\* Without the library nothing is counted.
LEMMA GoesOnWithout ==
  ASSUME RefInv, o.bad = {}, ~native, UNCHANGED <<native, app, o>>,
         NEW t \in Threads, NEW r \in Rests, r # Disposing, rest' = [rest EXCEPT ![t] = r],
         ex' \in Executors, ex'.pc = ex.pc
  PROVE  RefInv'
  <1>0. TypeInv  BY DEF RefInv
  <1>1. rest' \in [Threads -> Rests]  BY <1>0 DEF TypeInv
  <1>2. AgentOwed = {}  BY DEF RefInv, Counted
  <1>3. AgentOwed' = {}  BY <1>0, <1>2 DEF AgentOwed, AgentRests, TypeInv
  <1>4. Counted'  BY <1>3 DEF RefInv, Counted, InRun
  <1> QED  BY <1>0, <1>1, <1>4 DEF RefInv, TypeInv

\* The steps of a call: what is left of it says which references still exist.
LEMMA FinishingSteps ==
  ASSUME RefInv, NEW t \in Threads, Finishing(t)
  PROVE  RefInv'
  <1>0. TypeInv  BY DEF RefInv
  <1>a. o \in Objects /\ ex \in Executors /\ rest[t] \in Rests  BY <1>0 DEF TypeInv
  <1>b. o.loop \in Nat /\ o.context \in Nat  BY <1>a DEF Objects
  <1>1. /\ o.bad = {} /\ native' = native /\ app' = app /\ rest[t] # <<>>
        /\ rest' = [rest EXCEPT ![t] = Tail(rest[t])]
    BY DEF Finishing, CloseQuits, ShutdownNow, UnrefLoop, UnrefContext, DisposeAgent, Continues
  <1>2. /\ AfterQuit \in Rests /\ AfterShut \in Rests /\ AfterLoop \in Rests /\ <<>> \in Rests
        /\ AfterQuit # Disposing /\ AfterShut # Disposing /\ AfterLoop # Disposing
        /\ <<>> # Disposing
    BY RestsDiffer DEF Rests
  <1>c. /\ native /\ rest[t] \in LoopRests => o.loop > 0
        /\ native /\ rest[t] \in ContextRests => o.context > 0
        /\ native /\ rest[t] \in AgentRests => o.context > 0
    <2> SUFFICES ASSUME native
                 PROVE  /\ rest[t] \in LoopRests => o.loop > 0
                        /\ rest[t] \in ContextRests => o.context > 0
                        /\ rest[t] \in AgentRests => o.context > 0
      OBVIOUS
    <2>1. LoopCount /\ ContextCount  BY <1>1 DEF RefInv, Counted
    <2>2. /\ rest[t] \in LoopRests => Each(LoopOwed) > 0
          /\ rest[t] \in ContextRests => Each(ContextOwed) > 0
          /\ rest[t] \in AgentRests => Each(AgentOwed) > 0
      BY EachNat DEF LoopOwed, ContextOwed, AgentOwed
    <2> QED  BY <2>1, <2>2, OwedNat DEF LoopCount, ContextCount, One
  <1>3. CASE CloseQuits(t)
    <2>1. rest[t] = CloseSteps /\ rest' = [rest EXCEPT ![t] = AfterQuit]
      BY <1>1, <1>3, <1>a, NextOfRest DEF CloseQuits, Continues
    <2>2. ex' \in Executors /\ ex'.pc = ex.pc  BY <1>3, <1>a DEF CloseQuits, Executors
    <2>3. CASE ~native
      <3>1. o' = o  BY <1>3, <2>3, NativeIs DEF CloseQuits
      <3> QED  BY <1>1, <1>2, <2>1, <2>2, <2>3, <3>1, GoesOnWithout
    <2>4. CASE native
      <3>1. o.loop > 0  BY <1>c, <2>1, <2>4 DEF LoopRests
      <3>2. o' = [o EXCEPT !.running = FALSE]
        <4>1. o' = LoopQuit(o)  BY <1>3, <2>4, NativeIs DEF CloseQuits
        <4> QED  BY <3>1, <4>1, UseLive DEF LoopQuit
      <3>3. /\ o' \in Objects /\ o'.bad = {} /\ o'.agent = o.agent /\ o'.pushed = o.pushed
            /\ o'.loop = o.loop /\ o'.context = o.context
        BY <1>1, <1>a, <3>2 DEF Objects
      <3>4. /\ o'.loop = o.loop - Is(CloseSteps, LoopRests) + Is(AfterQuit, LoopRests)
            /\ o'.context = o.context - One(o.loop > 0) + One(o'.loop > 0)
                              - Is(CloseSteps, ContextRests) + Is(AfterQuit, ContextRests)
                              - Is(CloseSteps, AgentRests) + Is(AfterQuit, AgentRests)
        BY <1>b, <3>3, OwedIn DEF One
      <3> QED  BY <1>1, <1>2, <2>1, <2>2, <2>4, <3>3, <3>4, GoesOn DEF One
    <2> QED  BY <2>3, <2>4
  <1>4. CASE ShutdownNow(t)
    <2>1. rest[t] = AfterQuit /\ rest' = [rest EXCEPT ![t] = AfterShut] /\ o' = o
      BY <1>1, <1>4, <1>a, NextOfRest DEF ShutdownNow, Continues
    <2>2. ex' \in Executors /\ ex'.pc = ex.pc  BY <1>4, <1>a DEF ShutdownNow, Executors
    <2>3. CASE ~native  BY <1>1, <1>2, <2>1, <2>2, <2>3, GoesOnWithout
    <2>4. CASE native
      <3>1. /\ o'.loop = o.loop - Is(AfterQuit, LoopRests) + Is(AfterShut, LoopRests)
            /\ o'.context = o.context - One(o.loop > 0) + One(o'.loop > 0)
                              - Is(AfterQuit, ContextRests) + Is(AfterShut, ContextRests)
                              - Is(AfterQuit, AgentRests) + Is(AfterShut, AgentRests)
        BY <1>b, <2>1, OwedIn DEF One
      <3> QED  BY <1>1, <1>2, <1>a, <2>1, <2>2, <2>4, <3>1, GoesOn DEF One
    <2> QED  BY <2>3, <2>4
  <1>5. CASE UnrefLoop(t)
    <2>1. rest[t] = AfterShut /\ rest' = [rest EXCEPT ![t] = AfterLoop] /\ ex' = ex
      BY <1>1, <1>5, <1>a, NextOfRest DEF UnrefLoop, Continues
    <2>3. CASE ~native
      <3>1. o' = o  BY <1>5, <2>3, NativeIs DEF UnrefLoop
      <3> QED  BY <1>1, <1>2, <1>a, <2>1, <2>3, <3>1, GoesOnWithout
    <2>4. CASE native
      <3>1. o.loop > 0 /\ o.context > 0  BY <1>c, <2>1, <2>4 DEF LoopRests, ContextRests
      <3>2. o' = LoopUnref(o)  BY <1>5, <2>4, NativeIs DEF UnrefLoop
      <3>3. /\ o' \in Objects /\ o'.bad = {} /\ o'.agent = o.agent /\ o'.pushed = o.pushed
            /\ o'.loop = o.loop - 1
            /\ o'.context = IF o.loop = 1 THEN o.context - 1 ELSE o.context
        BY <1>1, <1>a, <3>1, <3>2, LoopUnrefIs
      <3>4. /\ o'.loop = o.loop - Is(AfterShut, LoopRests) + Is(AfterLoop, LoopRests)
            /\ o'.context = o.context - One(o.loop > 0) + One(o'.loop > 0)
                              - Is(AfterShut, ContextRests) + Is(AfterLoop, ContextRests)
                              - Is(AfterShut, AgentRests) + Is(AfterLoop, AgentRests)
        BY <1>b, <3>1, <3>3, OwedIn DEF One
      <3> QED  BY <1>1, <1>2, <1>a, <2>1, <2>4, <3>3, <3>4, GoesOn DEF One
    <2> QED  BY <2>3, <2>4
  <1>6. CASE UnrefContext(t)
    <2>1. rest[t] = AfterLoop /\ rest' = [rest EXCEPT ![t] = <<>>] /\ ex' = ex
      BY <1>1, <1>6, <1>a, NextOfRest DEF UnrefContext, Continues
    <2>3. CASE ~native
      <3>1. o' = o  BY <1>6, <2>3, NativeIs DEF UnrefContext
      <3> QED  BY <1>1, <1>2, <1>a, <2>1, <2>3, <3>1, GoesOnWithout
    <2>4. CASE native
      <3>1. o.context > 0  BY <1>c, <2>1, <2>4 DEF ContextRests
      <3>2. o' = ContextUnref(o)  BY <1>6, <2>4, NativeIs DEF UnrefContext
      <3>3. /\ o' \in Objects /\ o'.bad = {} /\ o'.agent = o.agent /\ o'.pushed = o.pushed
            /\ o'.loop = o.loop /\ o'.context = o.context - 1
        BY <1>1, <1>a, <3>1, <3>2, ContextUnrefIs
      <3>4. /\ o'.loop = o.loop - Is(AfterLoop, LoopRests) + Is(<<>>, LoopRests)
            /\ o'.context = o.context - One(o.loop > 0) + One(o'.loop > 0)
                              - Is(AfterLoop, ContextRests) + Is(<<>>, ContextRests)
                              - Is(AfterLoop, AgentRests) + Is(<<>>, AgentRests)
        BY <1>b, <3>3, OwedIn DEF One
      <3> QED  BY <1>1, <1>2, <1>a, <2>1, <2>4, <3>3, <3>4, GoesOn DEF One
    <2> QED  BY <2>3, <2>4
  <1>7. CASE DisposeAgent(t)
    <2>1. rest[t] = Disposing /\ rest' = [rest EXCEPT ![t] = <<>>] /\ ex' = ex
      BY <1>1, <1>7, <1>a, NextOfRest DEF DisposeAgent, Continues
    <2>2. rest[t] \in AgentRests  BY <2>1 DEF AgentRests
    <2>3. native
      <3>1. t \in AgentOwed  BY <2>2 DEF AgentOwed
      <3> QED  BY <1>1, <3>1 DEF RefInv, Counted
    <2>4. o.context > 0  BY <1>c, <2>2, <2>3
    <2> DEFINE g == [o EXCEPT !.source = FALSE]
    <2>5. /\ g \in Objects /\ g.bad = {} /\ g.agent = o.agent /\ g.pushed = o.pushed
          /\ g.loop = o.loop /\ g.context = o.context
      BY <1>1, <1>a DEF Objects
    <2>6. o' = ContextUnref(g)  BY <1>7 DEF DisposeAgent, Dispose
    <2> HIDE DEF g
    <2>7. /\ o' \in Objects /\ o'.bad = {} /\ o'.agent = o.agent /\ o'.pushed = o.pushed
          /\ o'.loop = o.loop /\ o'.context = o.context - 1
      BY <2>4, <2>5, <2>6, ContextUnrefIs
    <2>8. /\ o'.loop = o.loop - Is(Disposing, LoopRests) + Is(<<>>, LoopRests)
          /\ o'.context = o.context - One(o.loop > 0) + One(o'.loop > 0)
                            - Is(Disposing, ContextRests) + Is(<<>>, ContextRests)
                            - Is(Disposing, AgentRests) + Is(<<>>, AgentRests)
      BY <1>b, <2>7, OwedIn DEF One
    <2> QED  BY <1>1, <1>2, <1>a, <2>1, <2>3, <2>7, <2>8, GoesOn DEF One
  <1> QED  BY <1>3, <1>4, <1>5, <1>6, <1>7 DEF Finishing

\* A step of the worker: what g_main_loop_run and timeout_cb hold, and what has
\* to be disposed of, changes with the counts.
LEMMA WorkerGoes ==
  ASSUME RefInv, o.bad = {}, native, UNCHANGED <<native, app, rest>>,
         ex' \in Executors, o' \in Objects, o'.bad = {}, o'.pushed = o.pushed,
         o'.loop = o.loop - One(ex.pc \notin {"idle", "begun"})
                     + One(ex'.pc \notin {"idle", "begun"}),
         o'.agent = o.agent - One(ex.pc \in {"held", "upcall", "release"})
                      + One(ex'.pc \in {"held", "upcall", "release"}),
         o'.context = o.context - One(o.loop > 0) + One(o'.loop > 0)
                        - One(o.agent > 0) + One(o'.agent > 0)
                        - One(ex.pc = "dispose") + One(ex'.pc = "dispose"),
         ex'.pc \in {"held", "upcall", "release"} => app.agent # "none"
  PROVE  RefInv'
  <1>0. TypeInv  BY DEF RefInv
  <1>1. LoopCount /\ AgentCount /\ ContextCount  BY DEF RefInv, Counted
  <1>2. /\ LoopOwed' = LoopOwed /\ ContextOwed' = ContextOwed /\ AgentOwed' = AgentOwed
    BY DEF LoopOwed, ContextOwed, AgentOwed
  <1>3. /\ One(app.context = "open") \in Nat /\ One(app.agent = "open") \in Nat
        /\ One(o.loop > 0) \in Nat /\ One(o'.loop > 0) \in Nat
        /\ One(o.agent > 0) \in Nat /\ One(o'.agent > 0) \in Nat
        /\ One(ex.pc = "dispose") \in Nat /\ One(ex'.pc = "dispose") \in Nat
        /\ One(ex.pc \notin {"idle", "begun"}) \in Nat
        /\ One(ex'.pc \notin {"idle", "begun"}) \in Nat
        /\ One(ex.pc \in {"held", "upcall", "release"}) \in Nat
        /\ One(ex'.pc \in {"held", "upcall", "release"}) \in Nat
    BY DEF One
  <1>4. o'.loop = One(app'.context = "open") + Each(LoopOwed')
                    + One(ex'.pc \notin {"idle", "begun"})
    BY <1>1, <1>2, <1>3, OwedNat DEF LoopCount, InRun
  <1>5. o'.agent = One(app'.agent = "open") + One(ex'.pc \in {"held", "upcall", "release"})
    BY <1>1, <1>3 DEF AgentCount, Holds
  <1>6. o'.context = One(app'.context = "open") + Each(ContextOwed') + One(o'.loop > 0)
                       + One(o'.agent > 0) + One(ex'.pc = "dispose") + Each(AgentOwed')
                       + Each(o'.pushed)
    BY <1>1, <1>2, <1>3, OwedNat DEF ContextCount
  <1>7. Counted'  BY <1>4, <1>5, <1>6, Recount
  <1> QED  BY <1>0, <1>7 DEF RefInv, TypeInv

\* The worker takes a task and enters g_main_loop_run, which takes a reference to
\* the loop, unless the loop is gone.
LEMMA WorkerEnters ==
  ASSUME RefInv, TakeTask \/ EnterRun
  PROVE  RefInv'
  <1>0. TypeInv  BY DEF RefInv
  <1>a. o \in Objects /\ ex \in Executors  BY <1>0 DEF TypeInv
  <1>b. o.loop \in Nat /\ o.context \in Nat /\ o.agent \in Nat /\ ex.tasks \in Nat
    BY <1>a DEF Objects, Executors
  <1>1. o.bad = {} /\ native' = native /\ app' = app /\ rest' = rest
    BY DEF TakeTask, EnterRun, At
  <1>2. CASE TakeTask
    <2> DEFINE n == ex.tasks - 1
    <2>1. n \in Nat  BY <1>2, <1>b DEF TakeTask
    <2>2. ex' = [ex EXCEPT !.tasks = n, !.pc = "begun"] /\ o' = o /\ ex.pc = "idle"
      BY <1>2 DEF TakeTask, At
    <2> HIDE DEF n
    <2>3. ex' \in Executors /\ ex'.pc = "begun"  BY <1>a, <2>1, <2>2 DEF Executors
    <2>4. CASE native
      BY <1>1, <1>a, <1>b, <2>2, <2>3, <2>4, WorkerGoes DEF One
    <2>5. CASE ~native
      <3>1. Counted'  BY <1>1, <2>2, <2>3, <2>5 DEF RefInv, Counted, InRun, AgentOwed
      <3> QED  BY <1>0, <1>1, <2>2, <2>3, <3>1 DEF RefInv, TypeInv
    <2> QED  BY <2>4, <2>5
  <1>3. CASE EnterRun /\ ~native
    <2>1. o' = o  BY <1>3, NativeIs DEF EnterRun
    <2>2. ex' \in Executors /\ ex'.pc = "idle"
      BY <1>3, <1>a DEF EnterRun, Executors
    <2>3. Counted'  BY <1>1, <1>3, <2>1, <2>2 DEF RefInv, Counted, InRun, AgentOwed
    <2> QED  BY <1>0, <1>1, <2>1, <2>2, <2>3 DEF RefInv, TypeInv
  <1>4. CASE EnterRun /\ native
    <2> DEFINE n == o.loop + 1
               w == IF o.owner = "" THEN "worker" ELSE o.owner
    <2>1. n \in Nat /\ w \in {""} \cup Threads
      <3>1. o.owner \in {""} \cup Threads  BY <1>a DEF Objects
      <3>2. n \in Nat  BY <1>b
      <3>3. w \in {""} \cup Threads  BY <3>1 DEF Threads
      <3> QED  BY <3>2, <3>3
    <2>2. ex.pc = "begun" /\ ex' \in Executors /\ ex'.pc \in {"loop", "wait"}
      BY <1>4, <1>a DEF EnterRun, At, Executors
    <2>3. o' = [Use(o, o.loop, "g_main_loop_run")
                  EXCEPT !.loop = @ + 1, !.running = TRUE,
                         !.owner = IF @ = "" THEN "worker" ELSE @]
      BY <1>4, NativeIs DEF EnterRun
    <2>4. CASE o.loop > 0
      <3>1. o' = [o EXCEPT !.loop = n, !.running = TRUE, !.owner = w]
        BY <2>3, <2>4, UseLive
      <3> HIDE DEF n, w
      <3>2. /\ o' \in Objects /\ o'.bad = {} /\ o'.pushed = o.pushed /\ o'.agent = o.agent
            /\ o'.loop = n /\ o'.context = o.context
        BY <1>1, <1>a, <2>1, <3>1 DEF Objects
      <3>3. o'.loop = o.loop + 1  BY <3>2 DEF n
      <3> QED  BY <1>1, <1>4, <1>b, <2>2, <2>4, <3>2, <3>3, WorkerGoes DEF One
    <2>5. CASE o.loop = 0
      <3> DEFINE B == o.bad \cup {"g_main_loop_run"}
      <3>1. B \in SUBSET {"g_main_loop_run"} /\ B = {"g_main_loop_run"}  BY <1>1
      <3>2. o' = [o EXCEPT !.bad = B, !.loop = n, !.running = TRUE, !.owner = w]
        BY <1>a, <2>3, <2>5 DEF Use, Objects
      <3> HIDE DEF n, w, B
      <3>3. o' \in Objects /\ o'.bad = B  BY <1>a, <2>1, <3>1, <3>2 DEF Objects
      <3> QED  BY <1>0, <1>1, <2>2, <3>1, <3>3 DEF RefInv, TypeInv
    <2> QED  BY <1>b, <2>4, <2>5
  <1> QED  BY <1>2, <1>3, <1>4

\* The worker waits for the context, leaves g_main_loop_run, serves a timer of the
\* agent and disposes of the agent if it had the last reference.
LEMMA WorkerRuns ==
  ASSUME RefInv,
         \/ GetContext \/ LeaveRun \/ TimeoutCb \/ TimeoutLocked
         \/ UpcallReturns \/ TimeoutReleases \/ WorkerDisposes
  PROVE  RefInv'
  <1>0. TypeInv  BY DEF RefInv
  <1>a. o \in Objects /\ ex \in Executors  BY <1>0 DEF TypeInv
  <1>b. o.loop \in Nat /\ o.context \in Nat /\ o.agent \in Nat  BY <1>a DEF Objects
  <1>1. /\ o.bad = {} /\ native' = native /\ app' = app /\ rest' = rest
        /\ ex.pc \notin {"idle", "begun"}
    BY DEF GetContext, LeaveRun, TimeoutCb, TimeoutLocked, UpcallReturns, TimeoutReleases,
       WorkerDisposes, At
  <1>2. native  BY <1>1 DEF RefInv, Counted, InRun
  <1>3. LoopCount /\ AgentCount /\ ContextCount /\ (Holds => app.agent # "none")
    BY <1>1, <1>2 DEF RefInv, Counted
  <1>4. /\ o.loop > 0 /\ o.context > 0
        /\ ex.pc \in {"held", "upcall", "release"} => o.agent > 0
    <2>1. o.loop > 0  BY <1>1, <1>3, OwedNat DEF LoopCount, InRun, One
    <2> QED  BY <1>1, <1>3, <2>1, OwedNat DEF AgentCount, ContextCount, Holds, One
  <1>5. ASSUME NEW pc \in {"loop", "held", "upcall", "release", "dispose", "idle"}, Goes(pc)
        PROVE  ex' \in Executors /\ ex'.pc = pc
    BY <1>5, <1>a DEF Goes, Executors
  <1>6. CASE GetContext
    <2>1. ex.pc = "wait" /\ ex' \in Executors /\ ex'.pc = "loop"
      BY <1>5, <1>6 DEF GetContext, At
    <2>2. /\ o' \in Objects /\ o'.bad = {} /\ o'.pushed = o.pushed
          /\ o'.loop = o.loop /\ o'.agent = o.agent /\ o'.context = o.context
      BY <1>1, <1>6, <1>a DEF GetContext, Objects, Threads
    <2> QED  BY <1>1, <1>2, <1>b, <2>1, <2>2, WorkerGoes DEF One
  <1>7. CASE LeaveRun
    <2> DEFINE w == IF ex.pc = "loop" /\ "worker" \notin o.pushed THEN "" ELSE o.owner
               g == [o EXCEPT !.owner = w]
    <2>1. ex.pc \in {"loop", "wait"} /\ ex' \in Executors /\ ex'.pc = "idle"
      BY <1>5, <1>7 DEF LeaveRun
    <2>2. o' = LoopUnref(g)  BY <1>7 DEF LeaveRun
    <2>3. w \in {""} \cup Threads
      <3>1. o.owner \in {""} \cup Threads  BY <1>a DEF Objects
      <3> QED  BY <3>1
    <2> HIDE DEF w
    <2>4. /\ g \in Objects /\ g.bad = {} /\ g.pushed = o.pushed
          /\ g.loop = o.loop /\ g.agent = o.agent /\ g.context = o.context
      BY <1>1, <1>a, <2>3 DEF Objects
    <2> HIDE DEF g
    <2>5. /\ o' \in Objects /\ o'.bad = {} /\ o'.pushed = o.pushed
          /\ o'.loop = o.loop - 1 /\ o'.agent = o.agent
          /\ o'.context = IF o.loop = 1 THEN o.context - 1 ELSE o.context
      BY <1>4, <2>2, <2>4, LoopUnrefIs
    <2> QED  BY <1>1, <1>2, <1>4, <1>b, <2>1, <2>5, WorkerGoes, SMTT(30) DEF One
  <1>8. CASE TimeoutCb
    <2>1. CASE o.agent = 0
      <3>1. ex.pc = "loop" /\ ex' \in Executors /\ ex'.pc = "loop"
        BY <1>5, <1>8, <2>1 DEF TimeoutCb, At
      <3>2. /\ o' \in Objects /\ o'.bad = {} /\ o'.pushed = o.pushed
            /\ o'.loop = o.loop /\ o'.agent = o.agent /\ o'.context = o.context
        BY <1>1, <1>8, <1>a, <2>1 DEF TimeoutCb, Objects
      <3> QED  BY <1>1, <1>2, <1>b, <3>1, <3>2, WorkerGoes DEF One
    <2>2. CASE o.agent # 0
      <3> DEFINE n == o.agent + 1
      <3>1. ex.pc = "loop" /\ ex' \in Executors /\ ex'.pc = "held"
        BY <1>5, <1>8, <2>2 DEF TimeoutCb, At
      <3>2. n \in Nat /\ n = o.agent + 1  BY <1>b
      <3>3. o' = [o EXCEPT !.agent = n]  BY <1>8, <2>2 DEF TimeoutCb
      <3> HIDE DEF n
      <3>4. /\ o' \in Objects /\ o'.bad = {} /\ o'.pushed = o.pushed
            /\ o'.loop = o.loop /\ o'.agent = o.agent + 1 /\ o'.context = o.context
        BY <1>1, <1>a, <3>2, <3>3 DEF Objects
      <3>5. app.agent # "none"
        BY <1>3, <2>2, <3>1 DEF AgentCount, Holds, One
      <3> QED  BY <1>1, <1>2, <1>b, <2>2, <3>1, <3>4, <3>5, WorkerGoes DEF One
    <2> QED  BY <2>1, <2>2
  <1>9. CASE TimeoutLocked
    <2>1. ex.pc = "held" /\ ex' \in Executors /\ ex'.pc \in {"upcall", "release"}
      BY <1>5, <1>9 DEF TimeoutLocked, At
    <2>2. /\ o' \in Objects /\ o'.bad = {} /\ o'.pushed = o.pushed
          /\ o'.loop = o.loop /\ o'.agent = o.agent /\ o'.context = o.context
      BY <1>1, <1>9, <1>a DEF TimeoutLocked, Objects
    <2> QED  BY <1>1, <1>2, <1>3, <1>b, <2>1, <2>2, WorkerGoes DEF One, Holds
  <1>10. CASE UpcallReturns
    <2>1. ex.pc = "upcall" /\ ex' \in Executors /\ ex'.pc = "release" /\ o' = o
      BY <1>5, <1>10 DEF UpcallReturns, At
    <2> QED  BY <1>1, <1>2, <1>3, <1>a, <1>b, <2>1, WorkerGoes DEF One, Holds
  <1>11. CASE TimeoutReleases
    <2> DEFINE n == o.agent - 1
    <2>1. ex.pc = "release" /\ ex' \in Executors
          /\ ex'.pc = IF o.agent = 1 THEN "dispose" ELSE "loop"
      BY <1>5, <1>11 DEF TimeoutReleases, At
    <2>2. o.agent > 0  BY <1>4, <2>1
    <2>3. n \in Nat /\ n = o.agent - 1  BY <1>b, <2>2
    <2>4. o' = [o EXCEPT !.agent = n]
      <3>1. o' = AgentUnref(o)  BY <1>11 DEF TimeoutReleases
      <3>2. Use(o, o.agent, "g_object_unref") = o  BY <2>2, UseLive
      <3> QED  BY <2>2, <3>1, <3>2 DEF AgentUnref, Less
    <2> HIDE DEF n
    <2>5. /\ o' \in Objects /\ o'.bad = {} /\ o'.pushed = o.pushed
          /\ o'.loop = o.loop /\ o'.agent = o.agent - 1 /\ o'.context = o.context
      BY <1>1, <1>a, <2>3, <2>4 DEF Objects
    <2> QED  BY <1>1, <1>2, <1>b, <2>1, <2>2, <2>5, WorkerGoes DEF One
  <1>12. CASE WorkerDisposes
    <2> DEFINE g == [o EXCEPT !.source = FALSE]
    <2>1. ex.pc = "dispose" /\ ex' \in Executors /\ ex'.pc = "loop"
      BY <1>5, <1>12 DEF WorkerDisposes, At
    <2>2. o' = ContextUnref(g)  BY <1>12 DEF WorkerDisposes, Dispose
    <2>3. /\ g \in Objects /\ g.bad = {} /\ g.pushed = o.pushed
          /\ g.loop = o.loop /\ g.agent = o.agent /\ g.context = o.context
      BY <1>1, <1>a DEF Objects
    <2> HIDE DEF g
    <2>4. /\ o' \in Objects /\ o'.bad = {} /\ o'.pushed = o.pushed
          /\ o'.loop = o.loop /\ o'.agent = o.agent /\ o'.context = o.context - 1
      BY <1>4, <2>2, <2>3, ContextUnrefIs
    <2> QED  BY <1>1, <1>2, <1>b, <2>1, <2>4, WorkerGoes DEF One
  <1> QED  BY <1>6, <1>7, <1>8, <1>9, <1>10, <1>11, <1>12

\* A step that changes nothing.
LEMMA StutterKeeps ==
  ASSUME RefInv, UNCHANGED vars
  PROVE  RefInv'
  BY DEF vars, RefInv, TypeInv, Counted, LoopCount, AgentCount, ContextCount, Each, One, InRun,
         Holds, LoopOwed, ContextOwed, AgentOwed

\* Whatever order the wrapper's objects are closed in, from either thread, however
\* many calls are made and whatever the worker is doing: no native function but
\* g_main_loop_run is handed a freed object, and nothing is left when all is
\* closed and the worker rests (the property Lifetimes).
THEOREM ReferencesBalance == Spec => []Lifetimes
  <1>1. RefInv /\ [Next]_vars => RefInv'
    <2> SUFFICES ASSUME RefInv, [Next]_vars PROVE RefInv'  OBVIOUS
    <2>1. ASSUME NEW t \in Threads, Application(t) PROVE RefInv'
      BY <2>1, PlainCalls, PushAndPop, NewAgentStep, CloseAgentStep, CloseStep DEF Application
    <2>2. ASSUME NEW t \in Threads, Finishing(t) PROVE RefInv'  BY <2>2, FinishingSteps
    <2>3. ASSUME Worker PROVE RefInv'  BY <2>3, WorkerEnters, WorkerRuns DEF Worker
    <2> QED  BY <2>1, <2>2, <2>3, StutterKeeps DEF Next
  <1> QED  BY <1>1, InitRefInv, RefInvImplies, PTL DEF Spec
=============================================================================
