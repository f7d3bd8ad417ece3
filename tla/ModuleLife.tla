----------------------------- MODULE ModuleLife -----------------------------
(***************************************************************************)
(* Modules, their registry and their commands (src/modules/Module.h,       *)
(* src/modules/ModuleRegistry.cpp, src/core/CommandDispatcher.cpp).        *)
(*                                                                         *)
(* The run thread loads the modules, and unloads and destroys them at the  *)
(* end.  Meanwhile threads of the game offer packets: to the listeners of  *)
(* the modules, and, when the player types one, to the dispatcher, which   *)
(* copies a command and calls its callback.  One of the commands toggles a *)
(* module it finds in the registry.  All this happens inside the Pipeline, *)
(* whose mutex a module needs exclusively to add or remove a listener.     *)
(*                                                                         *)
(* Abstractions.  Each module has one command, and one listener unless it  *)
(* is silent.  onTick runs on the run thread and changes nothing here.     *)
(***************************************************************************)
EXTENDS Naturals, FiniteSets

CONSTANTS
    N,          \* modules are 1..N, in the order of the registry
    Silent,     \* modules that listen to no packet
    DefaultOn,  \* modules enabled when constructed
    Requiring,  \* modules whose commands have the flag RequiresEnabled
    Threads,    \* threads of the game
    Typists     \* those on which the player's chat is sent

\* The module of the commands ;;eject, ;;toggle and so on is always there.
ASSUME LifeAssumption ==
    /\ N \in Nat \ {0}
    /\ IsFiniteSet(Threads)
    /\ Silent \subseteq 1..N /\ DefaultOn \subseteq 1..N /\ Requiring \subseteq 1..N
    /\ Typists \subseteq Threads

Modules == 1..N

VARIABLES
    run,       \* what the run thread does, and with which module
    life,      \* life of each module
    found,     \* modules find() meets in m_modules
    enabled,   \* modules whose m_enabled is set
    last,      \* what the last hook, onEnable or onDisable, made of a module
    listens,   \* modules with a listener in the Pipeline
    commands,  \* modules whose command the dispatcher has
    body       \* what a thread of the game does inside the Pipeline

vars == <<run, life, found, enabled, last, listens, commands, body>>

-----------------------------------------------------------------------------
Outside == [at |-> "out", m |-> 0, on |-> FALSE]
Inside == [at |-> "offer", m |-> 0, on |-> FALSE]

\* m_mutex of the Pipeline, held shared by every thread inside.
Exclusive == \A t \in Threads : body[t].at = "out"

Init ==
    /\ run = [at |-> "load", m |-> 1]
    /\ life = [m \in Modules |-> "none"]
    /\ found = {}
    /\ enabled = DefaultOn
    /\ last = [m \in Modules |-> "off"]
    /\ listens = {} /\ commands = {}
    /\ body = [t \in Threads |-> Outside]

-----------------------------------------------------------------------------
(* ModuleRegistry::init. *)

\* onLoad registers the listener and the command.
Load(m) ==
    /\ run = [at |-> "load", m |-> m]
    /\ m \notin Silent => Exclusive
    /\ life' = [life EXCEPT ![m] = "loaded"]
    /\ listens' = listens \cup ({m} \ Silent)
    /\ commands' = commands \cup {m}
    /\ run' = [at |-> "enable", m |-> m]
    /\ UNCHANGED <<found, enabled, last, body>>

MutAdopt(m) ==
    /\ run = [at |-> "enable", m |-> m]
    /\ last' = [last EXCEPT ![m] = "on"]
    /\ found' = found \cup {m}
    /\ run' = IF m = N THEN [at |-> "live", m |-> 1] ELSE [at |-> "load", m |-> m + 1]
    /\ UNCHANGED <<life, enabled, listens, commands, body>>

\* onEnable, if enabled by default, and m_modules.push_back.
Adopt(m) ==
    /\ run = [at |-> "enable", m |-> m]
    /\ last' = IF m \in enabled THEN [last EXCEPT ![m] = "on"] ELSE last
    /\ found' = found \cup {m}
    /\ run' = IF m = N THEN [at |-> "live", m |-> 1] ELSE [at |-> "load", m |-> m + 1]
    /\ UNCHANGED <<life, enabled, listens, commands, body>>

-----------------------------------------------------------------------------
(* ModuleRegistry::clear: each module is disabled and unloaded, then each is *)
(* destroyed: the derived part, the listeners, the commands. *)

BeginClear ==
    /\ run.at = "live"
    /\ run' = [at |-> "disable", m |-> 1]
    /\ UNCHANGED <<life, found, enabled, last, listens, commands, body>>

DisableHook(m) ==
    /\ run = [at |-> "disable", m |-> m]
    /\ last' = IF m \in enabled THEN [last EXCEPT ![m] = "off"] ELSE last
    /\ run' = [at |-> "unload", m |-> m]
    /\ UNCHANGED <<life, found, enabled, listens, commands, body>>

MutUnload(m) ==
    /\ run = [at |-> "unload", m |-> m]
    /\ life' = [life EXCEPT ![m] = "unloaded"]
    /\ run' = IF m > N THEN [at |-> "derived", m |-> 1] ELSE [at |-> "disable", m |-> m + 1]
    /\ UNCHANGED <<found, enabled, last, listens, commands, body>>

Unload(m) ==
    /\ run = [at |-> "unload", m |-> m]
    /\ life' = [life EXCEPT ![m] = "unloaded"]
    /\ run' = IF m = N THEN [at |-> "derived", m |-> 1] ELSE [at |-> "disable", m |-> m + 1]
    /\ UNCHANGED <<found, enabled, last, listens, commands, body>>

DestroyDerived(m) ==
    /\ run = [at |-> "derived", m |-> m]
    /\ life' = [life EXCEPT ![m] = "dying"]
    /\ run' = [at |-> "detach", m |-> m]
    /\ UNCHANGED <<found, enabled, last, listens, commands, body>>

\* ~Module: Pipeline::off of every listener is called,
CallOff(m) ==
    /\ run = [at |-> "detach", m |-> m]
    /\ run' = [at |-> IF m \in listens THEN "off" ELSE "forget", m |-> m]
    /\ UNCHANGED <<life, found, enabled, last, listens, commands, body>>

MutDetach(m) ==
    /\ run = [at |-> "off", m |-> m]
    /\ listens' = listens \ {m}
    /\ run' = [at |-> "forget", m |-> m]
    /\ UNCHANGED <<life, found, enabled, last, commands, body>>

\* and waits for the threads inside.
Detach(m) ==
    /\ run = [at |-> "off", m |-> m]
    /\ Exclusive
    /\ listens' = listens \ {m}
    /\ run' = [at |-> "forget", m |-> m]
    /\ UNCHANGED <<life, found, enabled, last, commands, body>>

\* ~Module: unregisterModuleCommands, and the module is gone.
Destroy(m) ==
    /\ run = [at |-> "forget", m |-> m]
    /\ commands' = commands \ {m}
    /\ life' = [life EXCEPT ![m] = "gone"]
    /\ run' = IF m = N THEN [at |-> "over", m |-> m] ELSE [at |-> "derived", m |-> m + 1]
    /\ found' = IF m = N THEN {} ELSE found
    /\ UNCHANGED <<enabled, last, listens, body>>

Clear ==
    \E m \in Modules :
        \/ DisableHook(m) \/ Unload(m) \/ DestroyDerived(m)
        \/ CallOff(m) \/ Detach(m) \/ Destroy(m)

-----------------------------------------------------------------------------
(* A thread of the game in Pipeline::process. *)

Become(t, b) == body' = [body EXCEPT ![t] = b]

MutProcess(t) ==
    /\ body[t].at = "out"
    /\ Become(t, Inside)
    /\ UNCHANGED <<run, life, found, enabled, last, listens, commands>>

\* A thread that waits for the mutex exclusively is let in first.
Process(t) ==
    /\ body[t].at = "out" /\ run.at # "off"
    /\ Become(t, Inside)
    /\ UNCHANGED <<run, life, found, enabled, last, listens, commands>>

\* A listener is called; its gate is open.
Listen(t, m) ==
    /\ body[t].at = "offer"
    /\ m \in listens /\ m \in enabled
    /\ Become(t, [at |-> "listener", m |-> m, on |-> FALSE])
    /\ UNCHANGED <<run, life, found, enabled, last, listens, commands>>

\* CommandDispatcher::dispatch copies the command ...
Copy(t, m) ==
    /\ t \in Typists
    /\ body[t].at = "offer" /\ m \in commands
    /\ Become(t, [at |-> "copied", m |-> m, on |-> FALSE])
    /\ UNCHANGED <<run, life, found, enabled, last, listens, commands>>

\* ... looks whether its module must be and is enabled, and calls the callback.
Command(t) ==
    /\ body[t].at = "copied"
    /\ Become(t, IF body[t].m \in Requiring \ enabled THEN Inside
                 ELSE [body[t] EXCEPT !.at = "callback"])
    /\ UNCHANGED <<run, life, found, enabled, last, listens, commands>>

\* The callback of a command finds a module and calls toggle(): the flag is read,
Find(t, m) ==
    /\ body[t].at = "callback" /\ m \in found
    /\ Become(t, [at |-> "toggle", m |-> m, on |-> m \notin enabled])
    /\ UNCHANGED <<run, life, found, enabled, last, listens, commands>>

\* exchanged if it is still what it was,
Exchange(t) ==
    /\ body[t].at = "toggle"
    /\ LET m == body[t].m
       IN  IF (m \in enabled) = body[t].on
           THEN Become(t, Inside) /\ UNCHANGED enabled
           ELSE /\ enabled' = IF body[t].on THEN enabled \cup {m} ELSE enabled \ {m}
                /\ Become(t, [body[t] EXCEPT !.at = "hook"])
    /\ UNCHANGED <<run, life, found, last, listens, commands>>

\* and onEnable or onDisable called.
Hook(t) ==
    /\ body[t].at = "hook"
    /\ last' = [last EXCEPT ![body[t].m] = IF body[t].on THEN "on" ELSE "off"]
    /\ Become(t, Inside)
    /\ UNCHANGED <<run, life, found, enabled, listens, commands>>

Return(t) ==
    /\ body[t].at \in {"listener", "callback"}
    /\ Become(t, Inside)
    /\ UNCHANGED <<run, life, found, enabled, last, listens, commands>>

Done(t) ==
    /\ body[t].at = "offer"
    /\ Become(t, Outside)
    /\ UNCHANGED <<run, life, found, enabled, last, listens, commands>>

Advance(t) == Command(t) \/ Exchange(t) \/ Hook(t) \/ Return(t)

Next ==
    \/ \E m \in Modules : Load(m) \/ Adopt(m)
    \/ BeginClear \/ Clear
    \/ \E t \in Threads :
        \/ Process(t) \/ Advance(t) \/ Done(t)
        \/ \E m \in Modules : Listen(t, m) \/ Copy(t, m) \/ Find(t, m)

Spec == Init /\ [][Next]_vars

\* Bodies end, a packet is not offered for ever, and the run thread goes on.
FairSpec ==
    /\ Spec
    /\ \A t \in Threads : WF_vars(Advance(t)) /\ SF_vars(Done(t))
    /\ WF_vars(Clear)

-----------------------------------------------------------------------------
(* Properties. *)

Busy(t) == body[t].at \in {"listener", "callback", "toggle", "hook"}

\* Every variable keeps the type its declaration gives it.
TypeOK ==
    /\ run \in [at : {"load", "enable", "live", "disable", "unload", "derived", "detach",
                      "off", "forget", "over"}, m : Modules]
    /\ life \in [Modules -> {"none", "loaded", "unloaded", "dying", "gone"}]
    /\ found \subseteq Modules /\ enabled \subseteq Modules
    /\ last \in [Modules -> {"on", "off"}]
    /\ listens \subseteq Modules \ Silent /\ commands \subseteq Modules
    /\ body \in [Threads -> [at : {"out", "offer", "listener", "copied", "callback",
                                   "toggle", "hook"},
                             m : 0..N, on : BOOLEAN]]

\* No listener runs in a module that is gone: ~Module waits for the threads that
\* are inside the Pipeline, and those that come later do not meet it.
ListenersDetached ==
    \A t \in Threads : body[t].at = "listener" => life[body[t].m] # "gone"

\* What a listener captured is whole: none runs in a module whose derived part is
\* destroyed.  ModuleRegistry::clear destroys that part before ~Module calls off().
ListenersWhole ==
    \A t \in Threads : body[t].at = "listener" => life[body[t].m] \notin {"dying", "gone"}

\* DEVELOPER.md:280: onEnable and onDisable tell a module what it is: with one
\* thread that toggles, beside the one that loads, the last hook called agrees with
\* the flag until the modules are unloaded, except while a thread is between the two.
HooksAgree ==
    Cardinality(Typists) <= 1 =>
    \A m \in Modules :
        /\ m \in found
        /\ run.at \in {"load", "enable", "live"}
        /\ \A t \in Threads : body[t].at = "hook" => body[t].m # m
        => (last[m] = "on") = (m \in enabled)

\* Unloading ends, however busy the Pipeline is.
UnloadEnds == run.at = "disable" ~> run.at = "over"

\* DEVELOPER.md:285: when a module is unloaded its "hooks and commands are
\* automatically detached": once onUnload was called, no listener, command or
\* hook of the module begins.
DetachedOnUnload ==
    [][\A t \in Threads :
          body'[t].at \in {"listener", "callback", "hook"} /\ body'[t].at # body[t].at
              => life[body'[t].m] = "loaded"]_vars

\* DEVELOPER.md:285: all commands "are tracked through RAII": none runs in a module
\* that is gone.
CommandsDetached ==
    \A t \in Threads : body[t].at \in {"callback", "toggle"} => life[body[t].m] # "gone"

\* DEVELOPER.md:285: when a module is disabled its commands are "automatically
\* detached": none begins.
DetachedOnDisable ==
    [][\A t \in Threads :
          body'[t].at = "callback" /\ body[t].at # "callback" => body'[t].m \in enabled]_vars
=============================================================================
