------------------------------ MODULE AppCore ------------------------------
(***************************************************************************)
(* The life of the DLL (src/core/dllmain.cpp, src/core/AppCore.cpp), built *)
(* over the life of its modules: injection, start(), the loop of tick(),   *)
(* stop() and the release of the library, while the player joins and       *)
(* leaves worlds, types commands, and threads of the game are inside the   *)
(* Pipeline.                                                               *)
(*                                                                         *)
(* Three locks meet here.  Threads of the game hold the Pipeline's mutex   *)
(* shared, whoever registers handlers needs it exclusively, and tick()     *)
(* sends commands while it holds the mutex of CommandManager, for which a  *)
(* thread in a packet handler may be waiting.                              *)
(*                                                                         *)
(* Abstractions.  Of PlayerTracker, CommandManager and the session of the  *)
(* interceptor only this is left: the sessions whose packets they remember *)
(* (kept), whether CommandManager thinks its handlers are registered, and  *)
(* one request with the session it was made in.  A trap is what a thread   *)
(* does inside the Pipeline; uninstall() waits for it half a second, which *)
(* is long enough if the constant Patient says so.  A request is queued,   *)
(* as when the cooldown of the last is not over, and tick() sends it.  The *)
(* announcement in chat and the log of the connection are left out.        *)
(***************************************************************************)
EXTENDS ModuleLife

CONSTANTS
    MaxSessions,  \* worlds joined in a behaviour
    Callers,      \* who calls CommandManager::execute: "tick", "command", "task"
    Slow,         \* the player stays in the menu until a tick has seen it
    Settled,      \* a world ends when no thread handles a packet of it any more
    Patient       \* no trap takes longer than uninstall() waits

ASSUME AppAssumption ==
    /\ MaxSessions \in Nat
    /\ Callers \subseteq {"tick", "command", "task"}
    /\ Slow \in BOOLEAN /\ Settled \in BOOLEAN /\ Patient \in BOOLEAN

Receivers == Threads \ Typists

VARIABLES
    stage,    \* what run() in dllmain.cpp is doing
    eject,    \* g_ejectRequested
    was,      \* g_wasInWorld
    hooked,   \* the hooks are installed
    pool,     \* the thread pool
    task,     \* a task a module submitted to it
    inited,   \* m_initialized of CommandManager
    request,  \* a request to CommandManager
    asked,    \* session it was queued in, 0 for the menu or without a request
    want,     \* threads that wait for it in a packet handler
    writer,   \* who waits to register the handlers of CommandManager
    world,    \* session the player is in, 0 in the menu
    joined,   \* sessions so far
    of,       \* session of the packet a thread is in a trap with, 0 when handled
    kept,     \* sessions PlayerTracker and the interceptor remember something of
    seen      \* sessions a tick has met

coreVars == <<stage, eject, was, hooked>>
poolVars == <<pool, task>>
lockVars == <<inited, request, asked, want, writer>>
worldVars == <<world, joined, of, kept, seen>>
appVars == <<vars, coreVars, poolVars, lockVars, worldVars>>

-----------------------------------------------------------------------------
AppInit ==
    /\ Init
    /\ stage = "off" /\ eject = FALSE /\ was = FALSE /\ hooked = FALSE
    /\ pool = "off" /\ task = "none"
    /\ inited = FALSE /\ request = "none" /\ asked = 0
    /\ want = {} /\ writer = "none"
    /\ world = 0 /\ joined = 0
    /\ of = [t \in Threads |-> 0]
    /\ kept = {} /\ seen = {}

-----------------------------------------------------------------------------
(* The player and the server. *)

Enter == joined < MaxSessions /\ joined' = joined + 1 /\ world' = joined + 1

Join ==
    /\ world = 0
    /\ Slow => ~was
    /\ Enter
    /\ UNCHANGED <<vars, coreVars, poolVars, lockVars, of, kept, seen>>

Quit ==
    /\ world # 0
    /\ Settled => \A t \in Receivers : of[t] = 0
    /\ world' = 0
    /\ UNCHANGED <<vars, coreVars, poolVars, lockVars, joined, of, kept, seen>>

-----------------------------------------------------------------------------
(* DllMain, run() and start(). *)

Attach ==
    /\ stage = "off" /\ stage' = "addresses"
    /\ UNCHANGED <<vars, eject, was, hooked, poolVars, lockVars, worldVars>>

\* Addresses::init is tried 60 times; if it never succeeds the library is freed.
Resolve ==
    /\ stage = "addresses" /\ stage' \in {"hooking", "gone"}
    /\ UNCHANGED <<vars, eject, was, hooked, poolVars, lockVars, worldVars>>

\* The hooks come first: from here on packets pass through the Pipeline.
Install ==
    /\ stage = "hooking" /\ stage' = "serving"
    /\ pool' = "on" /\ hooked' = TRUE
    /\ UNCHANGED <<vars, eject, was, task, lockVars, worldVars>>

\* CommandDispatcher, CommandManager and PlayerTracker register their handlers.
Serve ==
    /\ stage = "serving" /\ Exclusive
    /\ stage' = "modules"
    /\ inited' = TRUE
    /\ UNCHANGED <<vars, eject, was, hooked, poolVars, request, asked, want, writer,
                   worldVars>>

LoadModules ==
    /\ stage = "modules"
    /\ \E m \in Modules : Load(m) \/ Adopt(m)
    /\ stage' = IF run'.at = "live" THEN "loop" ELSE "modules"
    /\ UNCHANGED <<eject, was, hooked, poolVars, lockVars, worldVars>>

-----------------------------------------------------------------------------
(* tick(). *)

\* CommandManager::shutdown, and what DISCONNECT or TRANSFER leaves of its requests.
Drop == request' = "none" /\ asked' = 0
Shutdown == inited' = FALSE /\ Drop

MutSense ==
    /\ stage = "loop" /\ ~eject
    /\ stage' = "commands"
    /\ seen' = seen \cup ({world} \ {0})
    /\ IF was /\ world = 0
       THEN was' = FALSE /\ kept' = {} /\ Shutdown
       ELSE UNCHANGED <<was, kept, inited, request, asked>>
    /\ UNCHANGED <<vars, eject, hooked, poolVars, want, writer, world, joined, of>>

\* The menu after a world: CommandManager is shut down, PlayerTracker and the
\* session reset.
Sense ==
    /\ stage = "loop" /\ ~eject
    /\ stage' = "commands"
    /\ was' = (world # 0)
    /\ seen' = seen \cup ({world} \ {0})
    /\ IF was /\ world = 0
       THEN kept' = {} /\ Shutdown
       ELSE UNCHANGED <<kept, inited, request, asked>>
    /\ UNCHANGED <<vars, eject, hooked, poolVars, want, writer, world, joined, of>>

\* CommandManager::tick takes its mutex, and holds it while it sends what is due
Dispatch ==
    /\ stage = "commands"
    /\ stage' = IF request = "pending" THEN "sending" ELSE "ticking"
    /\ UNCHANGED <<vars, eject, was, hooked, poolVars, lockVars, worldVars>>

\* through the outbound trap: the Pipeline's mutex is taken shared, unless somebody
\* waits for it exclusively.
Send ==
    /\ stage = "sending" /\ writer = "none"
    /\ stage' = "ticking"
    /\ request' = "sent"
    /\ UNCHANGED <<vars, eject, was, hooked, poolVars, inited, asked, want, writer,
                   worldVars>>

\* CommandManager::execute registers the handlers again after a shutdown, the flag
\* first, and then queues the request.
Queue == request' = "pending" /\ asked' = world

Execute(who) ==
    /\ request = "none" /\ writer = "none"
    /\ IF inited THEN Queue /\ UNCHANGED <<inited, writer>>
                 ELSE inited' = TRUE /\ writer' = who /\ UNCHANGED <<request, asked>>

Register(who) ==
    /\ writer = who /\ Exclusive
    /\ writer' = "none" /\ Queue
    /\ UNCHANGED <<inited, want>>

\* ModuleRegistry::tick in a world: a module may submit a task or a request.
TickModules ==
    /\ stage = "ticking"
    /\ \/ UNCHANGED <<poolVars, lockVars>>
       \/ /\ was /\ task = "none"
          /\ task' = "queued"
          /\ UNCHANGED <<pool, lockVars>>
       \/ /\ was /\ "tick" \in Callers
          /\ Execute("run")
          /\ UNCHANGED <<poolVars, want>>
    /\ stage' = IF writer' = "run" THEN "registering" ELSE "loop"
    /\ UNCHANGED <<vars, eject, was, hooked, worldVars>>

RegisterInTick ==
    /\ stage = "registering" /\ stage' = "loop"
    /\ Register("run")
    /\ UNCHANGED <<vars, eject, was, hooked, poolVars, worldVars>>

-----------------------------------------------------------------------------
(* stop(), and the end of run(). *)

\* The loop is left for the flag or for the DELETE key; stop() sets the flag.
Stop ==
    /\ stage = "loop"
    /\ stage' = "clearing" /\ eject' = TRUE
    /\ UNCHANGED <<vars, was, hooked, poolVars, lockVars, worldVars>>

ClearModules ==
    /\ stage = "clearing"
    /\ BeginClear \/ Clear
    /\ stage' = IF run'.at = "over" THEN "pool" ELSE "clearing"
    /\ UNCHANGED <<eject, was, hooked, poolVars, lockVars, worldVars>>

StopPool ==
    /\ stage = "pool" /\ pool = "on"
    /\ pool' = "stopping"
    /\ task' = IF task = "queued" THEN "none" ELSE task
    /\ UNCHANGED <<vars, coreVars, lockVars, worldVars>>

MutJoinPool ==
    /\ stage = "pool" /\ pool = "stopping"
    /\ pool' = "off" /\ stage' = "hooks"
    /\ UNCHANGED <<vars, eject, was, hooked, task, lockVars, worldVars>>

JoinPool ==
    /\ stage = "pool" /\ pool = "stopping" /\ task # "running"
    /\ pool' = "off" /\ stage' = "hooks"
    /\ UNCHANGED <<vars, eject, was, hooked, task, lockVars, worldVars>>

Unhook ==
    /\ stage = "hooks" /\ hooked
    /\ hooked' = FALSE
    /\ UNCHANGED <<vars, stage, eject, was, poolVars, lockVars, worldVars>>

\* The traps are waited for, half a second at most; then the services are shut down,
\* and the library freed.
Free ==
    /\ stage = "hooks" /\ ~hooked
    /\ Patient => Exclusive
    /\ stage' = "gone"
    /\ kept' = {} /\ Shutdown
    /\ UNCHANGED <<vars, eject, was, hooked, poolVars, want, writer, world, joined,
                   of, seen>>

-----------------------------------------------------------------------------
(* The thread pool runs the task of a module. *)

TakeTask ==
    /\ task = "queued" /\ pool = "on" /\ task' = "running"
    /\ UNCHANGED <<vars, coreVars, pool, lockVars, worldVars>>

SubmitInTask ==
    /\ task = "running" /\ "task" \in Callers
    /\ Execute("task")
    /\ UNCHANGED <<vars, coreVars, poolVars, want, worldVars>>

RegisterInTask ==
    /\ task = "running" /\ Register("task")
    /\ UNCHANGED <<vars, coreVars, poolVars, worldVars>>

FinishTask ==
    /\ task = "running" /\ writer # "task"
    /\ task' = "none"
    /\ UNCHANGED <<vars, coreVars, pool, lockVars, worldVars>>

-----------------------------------------------------------------------------
(* Threads of the game. *)

\* A thread that waits for no lock.
Running(t) == t \notin want /\ writer # t

Offer(t) ==
    /\ hooked /\ writer = "none"
    /\ t \in Typists => world # 0
    /\ Process(t)
    /\ of' = [of EXCEPT ![t] = IF t \in Receivers THEN world ELSE 0]
    /\ UNCHANGED <<coreVars, poolVars, lockVars, world, joined, kept, seen>>

\* The services have their handlers registered, and one of them has the packet.
Reading(t) ==
    /\ stage # "serving"
    /\ t \in Receivers /\ body[t].at = "offer"
    /\ of[t] # 0 /\ t \notin want

\* PlayerTracker learns something from a packet.
Track(t) ==
    /\ Reading(t)
    /\ kept' = kept \cup {of[t]}
    /\ of' = [of EXCEPT ![t] = 0]
    /\ UNCHANGED <<vars, coreVars, poolVars, lockVars, world, joined, seen>>

\* DISCONNECT or TRANSFER: everything of the session is forgotten; after the latter
\* the player is in another world.
Transfer(t) ==
    /\ Reading(t) /\ of[t] = world /\ stage # "sending"
    /\ Settled => \A u \in Receivers \ {t} : of[u] = 0
    /\ kept' = {} /\ Drop
    /\ of' = [of EXCEPT ![t] = 0]
    /\ Enter \/ UNCHANGED <<world, joined>>
    /\ UNCHANGED <<vars, coreVars, poolVars, inited, want, writer, seen>>

\* A text or a form: CommandManager's handler waits for its mutex,
Await(t) ==
    /\ Reading(t)
    /\ want' = want \cup {t}
    /\ of' = [of EXCEPT ![t] = 0]
    /\ UNCHANGED <<vars, coreVars, poolVars, inited, request, asked, writer, world,
                   joined, kept, seen>>

\* and may complete the request.
Hear(t) ==
    /\ t \in want /\ stage # "sending"
    /\ want' = want \ {t}
    /\ UNCHANGED <<request, asked>> \/ (request = "sent" /\ Drop)
    /\ UNCHANGED <<vars, coreVars, poolVars, inited, writer, worldVars>>

\* The commands eject
RequestEject(t) ==
    /\ body[t].at = "callback" /\ Running(t)
    /\ eject' = TRUE
    /\ UNCHANGED <<vars, stage, was, hooked, poolVars, lockVars, worldVars>>

\* and trycmd, which calls execute().  If that has to register handlers it never
\* returns: the thread itself is inside.
Trycmd(t) ==
    /\ body[t].at = "callback" /\ "command" \in Callers /\ Running(t)
    /\ Execute(t)
    /\ UNCHANGED <<vars, coreVars, poolVars, want, worldVars>>

\* The rest is what ModuleLife says of a thread inside.
Inner(t) ==
    /\ Running(t)
    /\ Advance(t) \/ \E m \in Modules : Listen(t, m) \/ Copy(t, m) \/ Find(t, m)
    /\ UNCHANGED <<coreVars, poolVars, lockVars, worldVars>>

Exit(t) ==
    /\ Running(t) /\ Done(t)
    /\ of' = [of EXCEPT ![t] = 0]
    /\ UNCHANGED <<coreVars, poolVars, lockVars, world, joined, kept, seen>>

Game(t) ==
    \/ Offer(t) \/ Track(t) \/ Transfer(t) \/ Await(t) \/ Hear(t)
    \/ RequestEject(t) \/ Trycmd(t) \/ Inner(t) \/ Exit(t)

-----------------------------------------------------------------------------
Start == Resolve \/ Install \/ Serve \/ LoadModules
Tick == Sense \/ Dispatch \/ Send \/ TickModules \/ RegisterInTick
Teardown == ClearModules \/ StopPool \/ JoinPool \/ Unhook \/ Free
Work == TakeTask \/ SubmitInTask \/ RegisterInTask \/ FinishTask

AppNext ==
    \/ Join \/ Quit
    \/ Attach \/ Start \/ Tick \/ Stop \/ Teardown \/ Work
    \/ \E t \in Threads : Game(t)

AppSpec == AppInit /\ [][AppNext]_appVars

RunThread == Start \/ Tick \/ (eject /\ Stop) \/ Teardown

\* Each thread goes on, what runs in a module ends, and a lock that keeps being let
\* go is in the end handed to each thread that waits for it.
AppFairSpec ==
    /\ AppSpec
    /\ SF_appVars(RunThread)
    /\ WF_appVars(RegisterInTask \/ FinishTask)
    /\ \A t \in Threads : WF_appVars(Inner(t)) /\ SF_appVars(Hear(t) \/ Exit(t))

-----------------------------------------------------------------------------
(* Properties. *)

\* Every variable keeps the type its declaration gives it.
AppTypeOK ==
    /\ TypeOK
    /\ stage \in {"off", "addresses", "hooking", "serving", "modules", "loop", "commands",
                  "sending", "ticking", "registering", "clearing", "pool", "hooks", "gone"}
    /\ {eject, was, hooked, inited} \subseteq BOOLEAN
    /\ pool \in {"off", "on", "stopping"} /\ task \in {"none", "queued", "running"}
    /\ request \in {"none", "pending", "sent"} /\ asked \in 0..joined
    /\ want \subseteq Receivers
    /\ writer \in Threads \cup {"none", "run", "task"}
    /\ world \in 0..joined /\ joined \in 0..MaxSessions
    /\ of \in [Threads -> 0..joined]
    /\ kept \subseteq 1..joined /\ seen \subseteq 1..joined

\* A session a tick has met leaves nothing behind: what the services remember of players
\* and packets, and a request CommandManager still has, is of the world the player is in,
\* or of the one it just left, until the next tick.
SeenSessionsForgotten ==
    \A s \in (kept \cup {asked}) \cap seen : s = world \/ (world = 0 /\ was)

\* When the library is freed nothing runs in it any more: no thread of the game, if none
\* is inside for longer than uninstall() waits, no task, and no hook leads into it.
NothingAfterFree ==
    stage = "gone" => Exclusive /\ task # "running" /\ ~hooked

\* Somebody registers handlers and holds, or keeps from being let go, what it waits for.
Stuck == writer \in Threads \cup {"task"}

\* An ejection ends with the library freed, however busy the game is: unless somebody
\* waits for ever to register the handlers of CommandManager.
EjectEnds == (eject ~> stage = "gone") \/ <>[]Stuck

\* src/DEVELOPER.md:382: trycmd "executes a silent server command and captures the
\* response": its callback returns.
TrycmdReturns == \A t \in Threads : writer = t ~> writer # t
=============================================================================
