------------------------------ MODULE JavaWrapper -----------------------------
(***************************************************************************)
(* The Java wrapper around the agent: GLibContext with its main loop in a   *)
(* thread of its own, NiceAgent, and the references that native objects     *)
(* hold on one another.  The application calls the wrapper from its main    *)
(* thread and from the upcalls that the agent's signals make in the loop's  *)
(* thread (the worker of a single-thread executor).  close() does not wait  *)
(* for that thread.                                                         *)
(***************************************************************************)
EXTENDS Naturals, Sequences

CONSTANTS
    Budgets,   \* how many calls each thread of the application may make
    Found      \* whether libnice was found: TRUE, FALSE or both

VARIABLES
    native,    \* libnice was found
    o,         \* the native objects
    ex,        \* the executor and its worker
    app,       \* what the application has open, and the calls it may still make
    rest       \* what is left of the call that each thread is in

vars == <<native, o, ex, app, rest>>
Threads == {"main", "worker"}

ASSUME BudgetsAssumption == Budgets \subseteq [Threads -> Nat] /\ Found \subseteq BOOLEAN

(***************************************************************************)
(* GLib, as far as the wrapper uses it.  o counts the references to each    *)
(* object; a call that is handed a freed object is recorded in `bad`, and   *)
(* nothing is known of the program after it.                                *)
(***************************************************************************)
Use(g, refs, f) == IF refs = 0 THEN [g EXCEPT !.bad = @ \cup {f}] ELSE g
Less(n) == IF n = 0 THEN 0 ELSE n - 1

ContextUnref(g) ==
    LET h == Use(g, g.context, "g_main_context_unref")
    IN  [h EXCEPT !.context = Less(@), !.source = @ /\ h.context > 1]

\* A loop holds a reference to its context.
LoopUnref(g) ==
    LET h == [Use(g, g.loop, "g_main_loop_unref") EXCEPT !.loop = Less(@)]
    IN  IF g.loop = 1 THEN ContextUnref(h) ELSE h

LoopQuit(g) == [Use(g, g.loop, "g_main_loop_quit") EXCEPT !.running = FALSE]

AgentUnref(g) == [Use(g, g.agent, "g_object_unref") EXCEPT !.agent = Less(@)]

\* The context becomes the thread's default only if the thread can own it; the
\* worker does while it runs the loop.
PushThreadDefault(g, t) ==
    LET h == Use(g, g.context, "g_main_context_push_thread_default")
    IN  IF g.owner \notin {"", t} THEN h
        ELSE [h EXCEPT !.owner = t, !.context = @ + 1, !.pushed = @ \cup {t}]

PopThreadDefault(g, t) ==
    IF t \notin g.pushed THEN g
    ELSE ContextUnref([g EXCEPT !.pushed = @ \ {t}, !.owner = IF t = "main" THEN "" ELSE @])

-----------------------------------------------------------------------------
(* The calls of the wrapper.  The application calls what it has open, from   *)
(* either thread, in any order.                                             *)

\* new GLibContext(): the context, with the loop's reference, and the loop.
NewContext ==
    [loop |-> IF native THEN 1 ELSE 0, context |-> IF native THEN 2 ELSE 0,
     agent |-> 0, running |-> FALSE, owner |-> "", pushed |-> {},
     source |-> FALSE, bad |-> {}]

Init ==
    /\ native \in Found
    /\ o = NewContext
    /\ ex = [open |-> TRUE, tasks |-> 0, pc |-> "idle", closing |-> FALSE, lost |-> FALSE]
    /\ app \in [context : {"open"}, agent : {"none"}, left : Budgets]
    /\ rest = [t \in Threads |-> <<>>]

\* Thread t makes a call, or the next step f of the call it is in.  Handles are
\* NULL without the library, and then no native function is called.
Calls(t) ==
    /\ o.bad = {} /\ rest[t] = <<>> /\ app.left[t] > 0
    /\ t = "worker" => ex.pc = "upcall"
    /\ UNCHANGED native
Called(t) == app' = [app EXCEPT !.left[t] = @ - 1] /\ UNCHANGED rest
Continues(t, f) ==
    /\ o.bad = {} /\ rest[t] # <<>> /\ Head(rest[t]) = f
    /\ rest' = [rest EXCEPT ![t] = Tail(@)]
    /\ UNCHANGED <<native, app>>
Native(g) == IF native THEN g ELSE o

\* start(): a task that runs the loop; after close() the executor refuses it.
Start(t) ==
    /\ Calls(t) /\ Called(t)
    /\ ex' = IF ex.open THEN [ex EXCEPT !.tasks = @ + 1] ELSE ex
    /\ UNCHANGED o

Stop(t) ==
    /\ Calls(t) /\ Called(t) /\ app.context = "open"
    /\ o' = Native(LoopQuit(o))
    /\ UNCHANGED ex

\* close() of the context, one native call after the other.
\* Mutant: the loop is not told to quit.
CloseStepsNoStop == <<"shutdownNow", "unref loop", "unref context">>
CloseSteps == <<"quit", "shutdownNow", "unref loop", "unref context">>

Close(t) ==
    /\ Calls(t) /\ app.context = "open"
    /\ app' = [app EXCEPT !.context = "closed", !.left[t] = @ - 1]
    /\ rest' = [rest EXCEPT ![t] = CloseSteps]
    /\ UNCHANGED <<o, ex>>

CloseQuits(t) ==
    /\ Continues(t, "quit")
    /\ o' = Native(LoopQuit(o))
    /\ ex' = [ex EXCEPT !.closing = TRUE]

\* What waits is dropped; a task that has begun goes on (the loop does not
\* look at the interrupt).
ShutdownNow(t) ==
    /\ Continues(t, "shutdownNow")
    /\ ex' = [ex EXCEPT !.open = FALSE, !.tasks = 0]
    /\ UNCHANGED o

UnrefLoop(t) ==
    /\ Continues(t, "unref loop")
    /\ o' = Native(LoopUnref(o))
    /\ UNCHANGED ex

UnrefContext(t) ==
    /\ Continues(t, "unref context")
    /\ o' = Native(ContextUnref(o))
    /\ UNCHANGED ex

Push(t) ==
    /\ Calls(t) /\ Called(t) /\ app.context = "open" /\ t \notin o.pushed
    /\ o' = Native(PushThreadDefault(o, t))
    /\ UNCHANGED ex

Pop(t) ==
    /\ Calls(t) /\ Called(t) /\ app.context = "open"
    /\ o' = Native(PopThreadDefault(o, t))
    /\ UNCHANGED ex

\* An agent holds a reference to its main context (nice_agent_set_property).
\* Mutant: the agent does not.
AgentOnBorrowed(g) == [Use(g, g.context, "nice_agent_new") EXCEPT !.agent = 1]
AgentOn(g) ==
    [Use(g, g.context, "nice_agent_new") EXCEPT !.agent = 1, !.context = @ + 1]

NewAgent(t) ==
    /\ Calls(t) /\ app.context = "open" /\ app.agent = "none"
    /\ app' = [app EXCEPT !.agent = "open", !.left[t] = @ - 1]
    /\ o' = Native(AgentOn(o))
    /\ UNCHANGED <<ex, rest>>

\* Any other method: it may leave the agent with a timer in its context, or
\* without one.
CallAgent(t) ==
    /\ Calls(t) /\ Called(t) /\ app.agent = "open"
    /\ \E timer \in BOOLEAN :
          o' = Native([Use(o, o.agent, "nice_agent") EXCEPT !.source = timer])
    /\ UNCHANGED ex

\* NiceAgent.close(); whoever drops the last reference disposes of the agent.
CloseAgent(t) ==
    /\ Calls(t) /\ app.agent = "open"
    /\ app' = [app EXCEPT !.agent = "closed", !.left[t] = @ - 1]
    /\ o' = Native(AgentUnref(o))
    /\ rest' = [rest EXCEPT ![t] = IF native /\ o.agent = 1 THEN <<"dispose">> ELSE <<>>]
    /\ UNCHANGED ex

\* nice_agent_dispose
Dispose(g) == ContextUnref([g EXCEPT !.source = FALSE])

DisposeAgent(t) ==
    /\ Continues(t, "dispose")
    /\ o' = Dispose(o)
    /\ UNCHANGED ex

Application(t) ==
    \/ Start(t) \/ Stop(t) \/ Push(t) \/ Pop(t) \/ NewAgent(t) \/ CallAgent(t)
    \/ Close(t) \/ CloseAgent(t)

\* A call goes on once it is made.
Finishing(t) ==
    \/ CloseQuits(t) \/ ShutdownNow(t) \/ UnrefLoop(t) \/ UnrefContext(t)
    \/ DisposeAgent(t)

-----------------------------------------------------------------------------
(* The worker.                                                             *)

At(pc) == o.bad = {} /\ ex.pc = pc /\ UNCHANGED <<native, app, rest>>
Goes(pc) == ex' = [ex EXCEPT !.pc = pc]

TakeTask ==
    /\ At("idle") /\ ex.tasks > 0
    /\ ex' = [ex EXCEPT !.tasks = @ - 1, !.pc = "begun"]
    /\ UNCHANGED o

\* The task calls g_main_loop_run, which holds a reference to the loop, says
\* that it runs whatever was said before, and waits for the context if another
\* thread owns it.
EnterRun ==
    /\ At("begun")
    /\ LET h == Use(o, o.loop, "g_main_loop_run")
       IN  o' = Native([h EXCEPT !.loop = @ + 1, !.running = TRUE,
                                 !.owner = IF @ = "" THEN "worker" ELSE @])
    /\ ex' = [ex EXCEPT !.pc = IF ~native THEN "idle"
                               ELSE IF o.owner # "main" THEN "loop" ELSE "wait",
                        !.lost = native /\ ex.closing]

GetContext ==
    /\ At("wait") /\ o.running /\ o.owner = ""
    /\ o' = [o EXCEPT !.owner = "worker"]
    /\ Goes("loop")

\* g_main_loop_run returns.  The worker still owns the context if it is its
\* thread default.
LeaveRun ==
    /\ At(ex.pc) /\ ex.pc \in {"loop", "wait"} /\ ~o.running
    /\ o' = LoopUnref([o EXCEPT !.owner = IF ex.pc = "loop" /\ "worker" \notin o.pushed
                                          THEN "" ELSE @])
    /\ Goes("idle")

\* timeout_cb: a timer of the agent is due; the callback takes a reference, or
\* finds the agent gone.
TimeoutCb ==
    /\ At("loop") /\ o.running /\ o.source
    /\ o' = IF o.agent = 0 THEN [o EXCEPT !.source = FALSE]
            ELSE [o EXCEPT !.agent = @ + 1]
    /\ Goes(IF o.agent = 0 THEN "loop" ELSE "held")

\* With the lock: the function runs, unless the timer was destroyed meanwhile,
\* and the signals it leaves are emitted, which calls the application.
TimeoutLocked ==
    /\ At("held")
    /\ \E keep, signals \in BOOLEAN :
          /\ ~o.source => ~keep /\ ~signals
          /\ o' = [o EXCEPT !.source = keep]
          /\ Goes(IF signals THEN "upcall" ELSE "release")

UpcallReturns ==
    /\ At("upcall") /\ rest["worker"] = <<>>
    /\ Goes("release") /\ UNCHANGED o

TimeoutReleases ==
    /\ At("release")
    /\ o' = AgentUnref(o)
    /\ Goes(IF o.agent = 1 THEN "dispose" ELSE "loop")

WorkerDisposes ==
    /\ At("dispose")
    /\ o' = Dispose(o)
    /\ Goes("loop")

Worker ==
    \/ TakeTask \/ EnterRun \/ GetContext \/ LeaveRun
    \/ TimeoutCb \/ TimeoutLocked \/ UpcallReturns \/ TimeoutReleases \/ WorkerDisposes

Next == Worker \/ \E t \in Threads : Application(t) \/ Finishing(t)
Spec == Init /\ [][Next]_vars

\* The worker goes on, and so does a call that was made; the application need
\* not make any.
FairSpec ==
    Spec /\ WF_vars(Worker) /\ \A t \in Threads : WF_vars(Finishing(t))

-----------------------------------------------------------------------------
(* Properties.                                                             *)

TypeOK ==
    /\ {o.loop, o.context, o.agent, ex.tasks} \subseteq Nat
    /\ o.owner \in {""} \cup Threads
    /\ ex.pc \in {"idle", "begun", "wait", "loop", "held", "upcall", "release", "dispose"}

\* Everything the application opened is closed again.
Closed ==
    /\ app.context = "closed" /\ app.agent # "open" /\ o.pushed = {}
    /\ \A t \in Threads : rest[t] = <<>>

\* Whatever order the agent, the context and the loop are closed in, from
\* whichever thread and in the middle of whatever callback, no native function
\* is handed a freed object, and when everything is closed and the worker rests
\* everything is freed.  The one exception is the task of start() that has
\* begun when close() drops the loop, and hands it to g_main_loop_run.
Lifetimes ==
    /\ TypeOK
    /\ o.bad \subseteq {"g_main_loop_run"}
    /\ Closed /\ ex.pc = "idle" /\ o.bad = {} => o.loop + o.context + o.agent = 0

\* The worker is in g_main_loop_run, was not told to quit, and the application
\* does not keep the context to itself.
Serving ==
    ex.pc \notin {"idle", "begun"} /\ o.running /\ o.owner # "main" /\ o.bad = {}

\* A loop that was started serves the timers of the agent; a stop() that finds
\* the worker in the loop ends it, whatever the worker is doing; and when all is
\* closed the worker comes to rest, unless it entered the loop after close()
\* had told the loop to quit.
LoopObeys ==
    /\ (o.source /\ Serving) ~> (ex.pc = "held" \/ ~o.source \/ ~Serving)
    /\ (ex.pc \notin {"idle", "begun"} /\ ~o.running) ~> (ex.pc = "idle" \/ o.bad # {})
    /\ Closed ~> (ex.pc = "idle" \/ ex.lost \/ o.bad # {})
=============================================================================
