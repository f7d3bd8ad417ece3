------------------------------ MODULE Pipeline ------------------------------
(***************************************************************************)
(* Pipeline (src/pipeline/Pipeline.cpp): packets offered to the handlers   *)
(* registered for them.                                                    *)
(*                                                                         *)
(* process() reads two atomic counts without a lock and, unless both are   *)
(* zero, walks the lists under the mutex held shared; on(), off() and      *)
(* clear() change a list and then its count under the mutex held           *)
(* exclusively.  Packets are processed by several threads at once, and a   *)
(* handler that sends a packet is inside process() twice.                  *)
(*                                                                         *)
(* Abstractions.  A handler's body may send one packet, may call on() or   *)
(* off(), and then drops its own packet or leaves it.  The gate of an      *)
(* entry is the enabled flag of the thread that registered it, which       *)
(* stands for the module.  std::shared_mutex is a slim reader/writer lock  *)
(* on Windows: a thread that asks for it while a writer is queued waits    *)
(* behind the writer, and one that asks for it exclusively while it holds  *)
(* it shared waits for itself.                                             *)
(***************************************************************************)
EXTENDS Naturals, Sequences

CONSTANTS
    Threads,    \* threads that process packets
    Modules,    \* threads that register handlers, each for its module
    Services,   \* those that register for a service, which removes nothing
    Ids,        \* packet IDs
    Any,        \* kAnyPacket
    MaxHandle,  \* handles are given out up to this one
    Senders,    \* threads whose handlers, of inbound packets, send packets
    Registrars  \* threads whose handlers call on() or off() themselves

ASSUME PipelineAssumption ==
    /\ Any \notin Ids
    /\ Services \subseteq Modules
    /\ MaxHandle \in Nat
    /\ Senders \subseteq Threads
    /\ Registrars \subseteq Threads

Keys == Ids \cup {Any}
Handles == 1..MaxHandle

VARIABLES
    entries,  \* m_anyEntries and m_handlersById
    count,    \* m_anyCount and m_handlerCount
    next,     \* m_next
    enabled,  \* modules whose enabled flag is set
    held,     \* the handles a module has of registrations it made
    op,       \* what a module is doing to the lists
    frames    \* the calls of process() a thread is in, the innermost last

vars == <<entries, count, next, enabled, held, op, frames>>

-----------------------------------------------------------------------------
Entry == [handle : Handles, owner : Modules]

NoOp == [at |-> "idle", kind |-> "on", key |-> Any, handle |-> 0]

Frame == [at : {"any", "own", "lock", "walk", "handler", "sent", "enrol", "done"},
          id : Ids, pos : Nat, must : SUBSET Handles, dropped : BOOLEAN]

Top(t) == frames[t][Len(frames[t])]

SetTop(t, frame) ==
    frames' = [frames EXCEPT ![t] = [@ EXCEPT ![Len(@)] = frame]]

\* What process() walks for a packet, in this order.
Offered(id) == entries[Any] \o entries[id]

\* A handler runs: before or after it has sent a packet, or while it waits to
\* change the lists itself.
Handling(frame) == frame.at \in {"handler", "sent", "enrol"}

\* m_mutex: held shared by calls that walk, exclusively by one operation.
Walking(frame) == frame.at = "walk" \/ Handling(frame)
Shared == \E t \in Threads : \E i \in 1..Len(frames[t]) : Walking(frames[t][i])
Exclusive == \E m \in Modules : op[m].at = "inside"
Enrolling == \E t \in Threads : \E i \in 1..Len(frames[t]) : frames[t][i].at = "enrol"
Queued == Enrolling \/ \E m \in Modules : op[m].at = "queued"

MutFree == ~Exclusive

Free == ~Shared /\ ~Exclusive

\* Handlers whose on() returned, whose off() did not begin, and whose gate is
\* open: those a packet with this ID must be offered to.
Owed(id) ==
    {h \in Handles : \E key \in {Any, id}, m \in enabled :
        \E i \in 1..Len(entries[key]) :
            /\ entries[key][i] = [handle |-> h, owner |-> m]
            /\ h \in held[m]}

\* A packet being processed when a handler is removed, or its gate closed, need
\* not be offered to it any more.
Excuse(gone) ==
    frames' = [t \in Threads |-> [i \in 1..Len(frames[t]) |->
                 [frames[t][i] EXCEPT !.must = @ \ gone]]]

-----------------------------------------------------------------------------
Init ==
    /\ entries = [key \in Keys |-> <<>>]
    /\ count = [key \in Keys |-> 0]
    /\ next = 1
    /\ enabled = Modules
    /\ held = [m \in Modules |-> {}]
    /\ op = [m \in Modules |-> NoOp]
    /\ frames = [t \in Threads |-> <<>>]

\* A module calls on(), off() of a handle of its own, and waits for m_mutex.
CallOn(m, key) ==
    /\ op[m].at = "idle"
    /\ next <= MaxHandle
    /\ op' = [op EXCEPT ![m] = [NoOp EXCEPT !.at = "queued", !.key = key]]
    /\ UNCHANGED <<entries, count, next, enabled, held, frames>>

CallOff(m, h) ==
    /\ op[m].at = "idle"
    /\ m \notin Services /\ h \in held[m]
    /\ op' = [op EXCEPT ![m] = [NoOp EXCEPT !.at = "queued", !.kind = "off",
                                            !.handle = h]]
    /\ held' = [held EXCEPT ![m] = @ \ {h}]
    /\ Excuse({h})
    /\ UNCHANGED <<entries, count, next, enabled>>

\* The lock is taken and the list changed; its count follows.
Change(m) ==
    /\ op[m].at = "queued"
    /\ Free
    /\ \/ /\ op[m].kind = "on" /\ next <= MaxHandle
          /\ entries' = [entries EXCEPT ![op[m].key] =
                           Append(@, [handle |-> next, owner |-> m])]
          /\ next' = next + 1
          /\ op' = [op EXCEPT ![m].at = "inside", ![m].handle = next]
       \/ /\ op[m].kind = "on" /\ next > MaxHandle
          /\ op' = [op EXCEPT ![m] = NoOp]
          /\ UNCHANGED <<entries, next>>
       \/ /\ op[m].kind = "off"
          /\ \E key \in Keys : \E i \in 1..Len(entries[key]) :
                /\ entries[key][i].handle = op[m].handle
                /\ entries' = [entries EXCEPT ![key] =
                                 SubSeq(@, 1, i - 1) \o SubSeq(@, i + 1, Len(@))]
                /\ op' = [op EXCEPT ![m].at = "inside", ![m].key = key]
          /\ UNCHANGED next
    /\ UNCHANGED <<count, enabled, held, frames>>

MutFinish(m) ==
    /\ op[m].at = "inside"
    /\ IF op[m].kind = "on"
       THEN /\ count' = [count EXCEPT ![op[m].key] = @ + 1]
            /\ held' = [held EXCEPT ![m] = @ \cup {op[m].handle}]
       ELSE count' = [count EXCEPT ![Any] = @ - 1] /\ UNCHANGED held
    /\ op' = [op EXCEPT ![m] = NoOp]
    /\ UNCHANGED <<entries, next, enabled, frames>>

\* The count is changed, the lock let go, the call returns.
Finish(m) ==
    /\ op[m].at = "inside"
    /\ LET key == op[m].key
       IN  \/ /\ op[m].kind = "on"
              /\ count' = [count EXCEPT ![key] = @ + 1]
              /\ held' = [held EXCEPT ![m] = @ \cup {op[m].handle}]
           \/ /\ op[m].kind = "off"
              /\ count' = [count EXCEPT ![key] = @ - 1]
              /\ UNCHANGED held
    /\ op' = [op EXCEPT ![m] = NoOp]
    /\ UNCHANGED <<entries, next, enabled, frames>>

\* clear(), which AppCore::stop calls when every module is gone: the services'
\* handlers go, and the handles start again at 1.
Clear ==
    /\ Free
    /\ \A m \in Modules : op[m].at = "idle" /\ (m \notin Services => held[m] = {})
    /\ next > 1
    /\ entries' = [key \in Keys |-> <<>>]
    /\ count' = [key \in Keys |-> 0]
    /\ next' = 1
    /\ held' = [m \in Modules |-> {}]
    /\ Excuse(Handles)
    /\ UNCHANGED <<enabled, op>>

\* Module::setEnabled: the gate, read with no lock, opens or closes.
SetEnabled(m) ==
    /\ op[m].at = "idle" /\ m \notin Services
    /\ IF m \in enabled
       THEN enabled' = enabled \ {m} /\ Excuse(held[m])
       ELSE enabled' = enabled \cup {m} /\ UNCHANGED frames
    /\ UNCHANGED <<entries, count, next, held, op>>

-----------------------------------------------------------------------------
(* process(). *)

NewFrame(id) == [at |-> "any", id |-> id, pos |-> 1, must |-> Owed(id),
                 dropped |-> FALSE]

\* A packet arrives, or is sent, outside any handler.
Process(t, id) ==
    /\ frames[t] = <<>>
    /\ frames' = [frames EXCEPT ![t] = <<NewFrame(id)>>]
    /\ UNCHANGED <<entries, count, next, enabled, held, op>>

\* A handler of an inbound packet sends one; t_isProcessing stops further
\* nesting.
Send(t, id) ==
    /\ t \in Senders
    /\ Len(frames[t]) = 1 /\ Top(t).at = "handler"
    /\ frames' = [frames EXCEPT ![t] = <<[Top(t) EXCEPT !.at = "sent"], NewFrame(id)>>]
    /\ UNCHANGED <<entries, count, next, enabled, held, op>>

\* A handler calls on() or off(), as the command that starts the history of
\* commands does: process() holds m_mutex shared, so it is never Free for it.
Enrol(t) ==
    /\ t \in Registrars
    /\ frames[t] # <<>> /\ Top(t).at \in {"handler", "sent"}
    /\ SetTop(t, [Top(t) EXCEPT !.at = "enrol"])
    /\ UNCHANGED <<entries, count, next, enabled, held, op>>

MutLoadCount(t) ==
    /\ frames[t] # <<>> /\ Top(t).at = "any"
    /\ SetTop(t, [Top(t) EXCEPT !.at =
                    IF count[Any] = 0 \/ count[Top(t).id] = 0 THEN "done" ELSE "lock"])
    /\ UNCHANGED <<entries, count, next, enabled, held, op>>

\* The two counts are loaded one after the other, with no lock.
LoadCount(t) ==
    /\ frames[t] # <<>>
    /\ \/ /\ Top(t).at = "any"
          /\ SetTop(t, [Top(t) EXCEPT !.at = IF count[Any] = 0 THEN "own" ELSE "lock"])
       \/ /\ Top(t).at = "own"
          /\ SetTop(t, [Top(t) EXCEPT !.at = IF count[Top(t).id] = 0 THEN "done"
                                             ELSE "lock"])
    /\ UNCHANGED <<entries, count, next, enabled, held, op>>

Lock(t) ==
    /\ frames[t] # <<>> /\ Top(t).at = "lock"
    /\ ~Exclusive /\ ~Queued
    /\ SetTop(t, [Top(t) EXCEPT !.at = "walk"])
    /\ UNCHANGED <<entries, count, next, enabled, held, op>>

MutOffer(t) ==
    /\ frames[t] # <<>> /\ Top(t).at = "walk"
    /\ LET frame == Top(t)
           list == Offered(frame.id)
       IN  SetTop(t,
             IF frame.pos > Len(list) THEN [frame EXCEPT !.at = "done"]
             ELSE IF list[frame.pos].owner \in enabled
             THEN [frame EXCEPT !.at = "handler", !.must = @ \ {list[frame.pos].handle}]
             ELSE frame)
    /\ UNCHANGED <<entries, count, next, enabled, held, op>>

\* The gate of the next entry is read; an open one lets its handler run.
Offer(t) ==
    /\ frames[t] # <<>> /\ Top(t).at = "walk"
    /\ LET frame == Top(t)
           list == Offered(frame.id)
       IN  SetTop(t,
             IF frame.pos > Len(list) THEN [frame EXCEPT !.at = "done"]
             ELSE IF list[frame.pos].owner \in enabled
             THEN [frame EXCEPT !.at = "handler", !.must = @ \ {list[frame.pos].handle}]
             ELSE [frame EXCEPT !.pos = @ + 1])
    /\ UNCHANGED <<entries, count, next, enabled, held, op>>

\* The handler returns; a dropped packet is offered to nobody else.
Return(t) ==
    /\ frames[t] # <<>> /\ Top(t).at \in {"handler", "sent"}
    /\ SetTop(t, [Top(t) EXCEPT !.at = "walk", !.pos = @ + 1])
       \/ SetTop(t, [Top(t) EXCEPT !.at = "done", !.dropped = TRUE])
    /\ UNCHANGED <<entries, count, next, enabled, held, op>>

\* process() returns.
Done(t) ==
    /\ frames[t] # <<>> /\ Top(t).at = "done"
    /\ frames' = [frames EXCEPT ![t] = SubSeq(@, 1, Len(@) - 1)]
    /\ UNCHANGED <<entries, count, next, enabled, held, op>>

Advance(t) == LoadCount(t) \/ Lock(t) \/ Offer(t) \/ Return(t) \/ Done(t)

Next ==
    \/ \E m \in Modules :
        \/ \E key \in Keys : CallOn(m, key)
        \/ \E h \in Handles : CallOff(m, h)
        \/ Change(m) \/ Finish(m) \/ SetEnabled(m)
    \/ Clear
    \/ \E t \in Threads :
        \/ \E id \in Ids : Process(t, id) \/ Send(t, id)
        \/ Enrol(t) \/ Advance(t)

Spec == Init /\ [][Next]_vars

\* Handlers return, threads keep running, and whoever
\* waits for m_mutex gets it when it is free again and again.
FairSpec ==
    /\ Spec
    /\ \A t \in Threads : WF_vars(LoadCount(t) \/ Offer(t) \/ Return(t) \/ Done(t))
    /\ \A t \in Threads : SF_vars(Lock(t))
    /\ \A m \in Modules : SF_vars(Change(m)) /\ WF_vars(Finish(m))

-----------------------------------------------------------------------------
(* Properties. *)

\* Every variable keeps the type its declaration gives it.
TypeOK ==
    /\ entries \in [Keys -> Seq(Entry)]
    /\ count \in [Keys -> Nat]
    /\ next \in 1..(MaxHandle + 1)
    /\ enabled \subseteq Modules
    /\ held \in [Modules -> SUBSET Handles]
    /\ op \in [Modules -> [at : {"idle", "queued", "inside"}, kind : {"on", "off"},
                           key : Keys, handle : 0..MaxHandle]]
    /\ frames \in [Threads -> Seq(Frame)]

\* No handler is missed: a packet nobody dropped was offered to every handler
\* that was registered and enabled during the whole of process(), though the
\* two counts are read apart and without the lock, and lists change meanwhile.
NoneMissed ==
    \A t \in Threads : \A i \in 1..Len(frames[t]) :
        frames[t][i].at = "done" /\ ~frames[t][i].dropped => frames[t][i].must = {}

\* Once off() has returned the handler is not running and never runs again:
\* what it captured may be destroyed.
NoneAfterOff ==
    \A t \in Threads : \A i \in 1..Len(frames[t]) :
        LET frame == frames[t][i]
        IN  Handling(frame) =>
              /\ frame.pos <= Len(Offered(frame.id))
              /\ LET e == Offered(frame.id)[frame.pos]
                 IN  \/ e.handle \in held[e.owner]
                     \/ op[e.owner].at = "queued" /\ op[e.owner].handle = e.handle

\* A handler waits for the mutex its own process() holds: one that sends, behind
\* somebody who waits for it to be let go, or one that registers or removes a
\* handler.  It never goes on.
SelfLocked ==
    \/ Queued /\ \E t \in Threads : Len(frames[t]) = 2 /\ Top(t).at = "lock"
    \/ Enrolling

\* Whoever registers or removes a handler gets it done, and every packet is
\* processed to its end, in spite of all the others, unless a handler waits for
\* the mutex that process() holds for it: by sending a packet while somebody is
\* queued (Pipeline.cpp:99), or by calling on() or off(), as the command trycmd
\* may through execute() (CommandManager.cpp:145, Pipeline.cpp:24, 45).
EverybodyGoesOn ==
    /\ \A m \in Modules : op[m].at = "queued" ~> op[m].at = "idle" \/ SelfLocked
    /\ \A t \in Threads : frames[t] # <<>> ~> frames[t] = <<>> \/ SelfLocked

\* CommandManager.cpp:477: a handler answers a form by sending a packet
\* "Immediately", so what a handler sends gets through process().
SendsImmediately ==
    \A t \in Threads : Len(frames[t]) = 2 ~> Len(frames[t]) < 2
=============================================================================
