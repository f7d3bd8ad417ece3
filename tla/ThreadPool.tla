----------------------------- MODULE ThreadPool -----------------------------
(***************************************************************************)
(* ThreadPool (src/sdk/Async.h): worker threads that run submitted tasks,  *)
(* each task with a future that its result, or a broken promise, settles.  *)
(*                                                                         *)
(* enqueue() restarts a pool that is stopped or empty.  shutdown() raises  *)
(* m_stopRequested and drops the tasks under the mutex, then walks the     *)
(* vector of threads without it: once to ask each to stop, once to join    *)
(* each, and the destruction of the threads does both again.               *)
(*                                                                         *)
(* Abstractions.  A worker waits 25 ms at most, so notifications are left  *)
(* out.  When the vector grows while shutdown() walks it, the rest of the  *)
(* walk is undefined: here it meets any of the threads it had to meet.     *)
(***************************************************************************)
EXTENDS Naturals, Sequences

CONSTANTS
    Tasks,      \* tasks, each submitted once
    Children,   \* Children[t]: the tasks t submits while it runs and waits for
    PoolSize,   \* threadCount
    MaxThreads, \* threads ever started
    Late        \* tasks may be submitted during a shutdown

ASSUME PoolAssumption ==
    /\ Children \in [Tasks -> SUBSET Tasks]
    /\ PoolSize \in Nat \ {0}
    /\ MaxThreads \in Nat
    /\ Late \in BOOLEAN

Threads == 1..MaxThreads

VARIABLES
    workers,  \* m_workers
    made,     \* threads started so far
    stop,     \* m_stopRequested
    asked,    \* threads whose stop token is set
    tasks,    \* m_tasks
    state,    \* how far a task is, with its future
    worker,   \* what a thread is doing, and with which task
    caller    \* where shutdown() is, and the threads its walk has to meet

vars == <<workers, made, stop, asked, tasks, state, worker, caller>>

-----------------------------------------------------------------------------
Elements(s) == {s[i] : i \in 1..Len(s)}

Settled == {t \in Tasks : state[t] \in {"ready", "broken"}}

Roots == Tasks \ UNION {Children[t] : t \in Tasks}

Holding(w) == worker[w].at \in {"taken", "running"}

\* A thread sees a request to stop.
Told(w) == stop \/ w \in asked

Init ==
    /\ workers = <<>> /\ made = 0 /\ stop = FALSE /\ asked = {}
    /\ tasks = <<>>
    /\ state = [t \in Tasks |-> "new"]
    /\ worker = [w \in Threads |-> [at |-> "none", task |-> "none"]]
    /\ caller = [at |-> "idle", todo |-> {}]

MutStartThreads ==
    /\ made + PoolSize <= MaxThreads
    /\ LET new == (made + 1)..(made + PoolSize)
       IN  /\ workers' = workers \o [i \in 1..PoolSize |-> made + i]
           /\ worker' = [w \in Threads |-> IF w \in new THEN [worker[w] EXCEPT !.at = "look"]
                                                         ELSE worker[w]]
    /\ made' = made + PoolSize
    /\ \E met \in SUBSET caller.todo : caller' = [caller EXCEPT !.todo = met]
    /\ UNCHANGED stop

\* PoolSize more threads, which a walk of shutdown() may or may not survive.
StartThreads ==
    /\ made + PoolSize <= MaxThreads
    /\ LET new == (made + 1)..(made + PoolSize)
       IN  /\ workers' = workers \o [i \in 1..PoolSize |-> made + i]
           /\ worker' = [w \in Threads |-> IF w \in new THEN [worker[w] EXCEPT !.at = "look"]
                                                         ELSE worker[w]]
    /\ made' = made + PoolSize
    /\ stop' = FALSE
    /\ \E met \in SUBSET caller.todo : caller' = [caller EXCEPT !.todo = met]

\* enqueue(), by anybody or by a task that runs.
Enqueue(t) ==
    /\ state[t] = "new"
    /\ Late \/ caller.at = "idle"
    /\ IF workers = <<>> \/ stop THEN StartThreads
       ELSE UNCHANGED <<workers, worker, made, stop, caller>>
    /\ tasks' = Append(tasks, t)
    /\ state' = [state EXCEPT ![t] = "queued"]
    /\ UNCHANGED asked

Submit == \E t \in Roots : Enqueue(t)

SubmitChild(w) ==
    /\ worker[w].at = "running"
    /\ \E t \in Children[worker[w].task] : Enqueue(t)

\* init(), by the constructor and AppCore::start.
Start ==
    /\ caller.at = "idle"
    /\ workers = <<>> \/ stop
    /\ StartThreads
    /\ tasks' = <<>>
    /\ state' = [t \in Tasks |-> IF t \in Elements(tasks) THEN "broken" ELSE state[t]]
    /\ UNCHANGED asked

-----------------------------------------------------------------------------
(* workerLoop(). *)

Goto(w, at) == worker' = [worker EXCEPT ![w].at = at]

Look(w) ==
    /\ worker[w].at = "look"
    /\ Goto(w, IF Told(w) THEN "ended" ELSE "wait")
    /\ UNCHANGED <<workers, made, stop, asked, tasks, state, caller>>

MutTake(w) ==
    /\ worker[w].at = "wait" /\ ~Told(w) /\ tasks # <<>>
    /\ worker' = [worker EXCEPT ![w] = [at |-> "taken", task |-> Head(tasks)]]
    /\ state' = [state EXCEPT ![Head(tasks)] = "taken"]
    /\ UNCHANGED <<workers, made, stop, asked, tasks, caller>>

\* The wait ends; a task is taken under the mutex.
Take(w) ==
    /\ worker[w].at = "wait" /\ ~Told(w) /\ tasks # <<>>
    /\ worker' = [worker EXCEPT ![w] = [at |-> "taken", task |-> Head(tasks)]]
    /\ tasks' = Tail(tasks)
    /\ state' = [state EXCEPT ![Head(tasks)] = "taken"]
    /\ UNCHANGED <<workers, made, stop, asked, caller>>

MutQuit(w) ==
    /\ worker[w].at = "wait" /\ Told(w) /\ tasks # <<>>
    /\ Goto(w, "ended")
    /\ UNCHANGED <<workers, made, stop, asked, tasks, state, caller>>

Quit(w) ==
    /\ worker[w].at = "wait" /\ Told(w)
    /\ Goto(w, "ended")
    /\ UNCHANGED <<workers, made, stop, asked, tasks, state, caller>>

\* The stop requests are looked at once more: a task may be dropped here.
Run(w) ==
    /\ worker[w].at = "taken"
    /\ IF Told(w)
       THEN /\ worker' = [worker EXCEPT ![w] = [at |-> "look", task |-> "none"]]
            /\ state' = [state EXCEPT ![worker[w].task] = "broken"]
       ELSE /\ Goto(w, "running")
            /\ state' = [state EXCEPT ![worker[w].task] = "running"]
    /\ UNCHANGED <<workers, made, stop, asked, tasks, caller>>

MutReturn(w) ==
    /\ worker[w].at = "running"
    /\ \A t \in Children[worker[w].task] : state[t] = "new" \/ t \in Settled
    /\ Goto(w, "look")
    /\ state' = [state EXCEPT ![worker[w].task] = "ready"]
    /\ UNCHANGED <<workers, made, stop, asked, tasks, caller>>

\* The task has its result, after those of the tasks it submitted.
Return(w) ==
    /\ worker[w].at = "running"
    /\ \A t \in Children[worker[w].task] : state[t] = "new" \/ t \in Settled
    /\ worker' = [worker EXCEPT ![w] = [at |-> "look", task |-> "none"]]
    /\ state' = [state EXCEPT ![worker[w].task] = "ready"]
    /\ UNCHANGED <<workers, made, stop, asked, tasks, caller>>

WorkerLoop(w) == Look(w) \/ Take(w) \/ Quit(w) \/ Run(w) \/ Return(w)

-----------------------------------------------------------------------------
(* shutdown(). *)

MutRaise ==
    /\ caller.at = "idle" /\ ~stop
    /\ stop' = TRUE
    /\ caller' = [at |-> "asking", todo |-> Elements(workers)]
    /\ UNCHANGED <<workers, made, asked, tasks, state, worker>>

Raise ==
    /\ caller.at = "idle" /\ ~stop
    /\ stop' = TRUE
    /\ tasks' = <<>>
    /\ state' = [t \in Tasks |-> IF t \in Elements(tasks) THEN "broken" ELSE state[t]]
    /\ caller' = [at |-> "asking", todo |-> Elements(workers)]
    /\ UNCHANGED <<workers, made, asked, worker>>

Ask(w) ==
    /\ caller.at = "asking" /\ w \in caller.todo
    /\ asked' = asked \cup {w}
    /\ caller' = [caller EXCEPT !.todo = @ \ {w}]
    /\ UNCHANGED <<workers, made, stop, tasks, state, worker>>

BeginJoin ==
    /\ caller.at = "asking" /\ caller.todo = {}
    /\ caller' = [at |-> "joining", todo |-> Elements(workers)]
    /\ UNCHANGED <<workers, made, stop, asked, tasks, state, worker>>

Join(w) ==
    /\ caller.at \in {"joining", "clearing"} /\ w \in caller.todo
    /\ worker[w].at = "ended"
    /\ caller' = [caller EXCEPT !.todo = @ \ {w}]
    /\ UNCHANGED <<workers, made, stop, asked, tasks, state, worker>>

\* m_workers.clear(): ~jthread asks and joins whom nobody joined.
BeginClear ==
    /\ caller.at = "joining" /\ caller.todo = {}
    /\ asked' = asked \cup Elements(workers)
    /\ caller' = [at |-> "clearing", todo |-> Elements(workers)]
    /\ UNCHANGED <<workers, made, stop, tasks, state, worker>>

EndClear ==
    /\ caller.at = "clearing" /\ caller.todo = {}
    /\ workers' = <<>>
    /\ caller' = [at |-> "idle", todo |-> {}]
    /\ UNCHANGED <<made, stop, asked, tasks, state, worker>>

Shutdown ==
    \/ BeginJoin \/ BeginClear \/ EndClear
    \/ \E w \in Threads : Ask(w) \/ Join(w)

Next ==
    \/ Start \/ Submit \/ Raise \/ Shutdown
    \/ \E w \in Threads : WorkerLoop(w) \/ SubmitChild(w)

Spec == Init /\ [][Next]_vars

\* Threads keep running, tasks end, and shutdown() goes on.
FairSpec ==
    /\ Spec
    /\ \A w \in Threads : WF_vars(WorkerLoop(w))
    /\ WF_vars(Shutdown)

-----------------------------------------------------------------------------
(* Properties. *)

\* Every variable keeps the type its declaration gives it.
TypeOK ==
    /\ workers \in Seq(Threads) /\ made \in 0..MaxThreads
    /\ stop \in BOOLEAN /\ asked \subseteq Threads
    /\ tasks \in Seq(Tasks)
    /\ state \in [Tasks -> {"new", "queued", "taken", "running", "ready", "broken"}]
    /\ worker \in [Threads -> [at : {"none", "look", "wait", "ended"}, task : {"none"}]
                             \cup [at : {"taken", "running"}, task : Tasks]]
    /\ caller \in [at : {"idle", "asking", "joining", "clearing"}, todo : SUBSET Threads]

\* A task is in the hands of one thread at most, and then no longer queued, so it
\* is run once whichever shutdowns and restarts come in between.
RunByOne ==
    \A w, v \in Threads :
        Holding(w) => /\ worker[w].task \notin Elements(tasks)
                      /\ Holding(v) /\ worker[v].task = worker[w].task => w = v

\* DEVELOPER.md:775: once shutdown() has returned no thread and no task is left,
\* and nobody waits for a future that nothing settles.
Quiet ==
    workers = <<>> =>
        /\ \A w \in Threads : worker[w].at \in {"none", "ended"}
        /\ \A t \in Tasks : state[t] = "new" \/ t \in Settled

\* DEVELOPER.md:769: whoever submits a task gets its result in the end, or learns
\* that the promise is broken.
EverySettles == \A t \in Tasks : state[t] = "queued" ~> t \in Settled

\* DEVELOPER.md:775: shutdown() waits for the threads "to finish", and returns.
ShutdownEnds == caller.at # "idle" ~> caller.at = "idle"
=============================================================================
