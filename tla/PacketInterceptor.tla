-------------------------- MODULE PacketInterceptor --------------------------
(***************************************************************************)
(* PacketInterceptor (src/intercept/PacketInterceptor.cpp): the traps that *)
(* MinHook puts in place of the game's packet functions, the queue of      *)
(* packets injected for the client, and the removal of it all.             *)
(*                                                                         *)
(* A thread of the game jumps into a trap, is counted, and looks whether   *)
(* the hooks are being uninstalled.  An inbound trap then learns from the  *)
(* packet who the client's handler is, delivers what is queued, offers its *)
(* packet to the Pipeline and goes on to the original function; an         *)
(* outbound trap does the last two.  uninstall() sets its flag, disables   *)
(* the hooks, waits for the traps it counted, and removes the hooks.       *)
(*                                                                         *)
(* Abstractions.  The Pipeline drops a packet or does not.  A handler of   *)
(* the game is the client's or another (a local server's); its pointer and *)
(* vtable are one thing, but the stored pointer and the stored vtable are  *)
(* two.  resetSession() is one step, and so is the choice of the handler a *)
(* packet is delivered to.  That the traps are empty when uninstall() has  *)
(* looked 50 times, 10 ms apart, is an assumption about time (Patient).    *)
(* The names of the servers, the harvest of DataItem vtables and the ring  *)
(* buffer that keeps delivered packets alive are left out.                 *)
(***************************************************************************)
EXTENDS Naturals, Sequences, FiniteSets

CONSTANTS
    Receivers,  \* threads on which the game handles inbound packets
    Senders,    \* threads on which it sends packets
    Packets,    \* packets injected, each once
    MaxResets,  \* no reset begins after this many
    Patient     \* no trap takes longer than uninstall() waits

ASSUME InterceptorAssumption ==
    /\ Receivers \cap Senders = {}
    /\ IsFiniteSet(Receivers \cup Senders)
    /\ MaxResets \in Nat
    /\ Patient \in BOOLEAN

Threads == Receivers \cup Senders

VARIABLES
    run,      \* what the run thread has done: install ... uninstall
    hooked,   \* directions whose hooks are enabled
    tables,   \* directions whose original functions the tables hold
    active,   \* m_activeTraps
    trap,     \* what a thread is doing in a trap
    batch,    \* toFlush, of a thread in flushInbound()
    queue,    \* m_inboundQueue
    count,    \* m_inboundQueueCount
    inject,   \* how far injectInbound(p) is
    pushed,   \* packets in the order injectInbound() pushed them
    handled,  \* injected packets delivered, each with whom it was delivered to
    lost,     \* injected packets taken from the queue and not delivered
    cb,       \* m_clientCb
    vt,       \* m_clientVtable is set, to the client's
    resets    \* resets of the session so far

sessionVars == <<cb, vt, resets>>
queueVars == <<queue, count, inject, pushed, handled, lost, batch>>
hookVars == <<run, hooked, tables>>
vars == <<hookVars, active, trap, queueVars, sessionVars>>

-----------------------------------------------------------------------------
Dir(t) == IF t \in Receivers THEN "in" ELSE "out"

\* Inbound packets: those only a client receives, texts, DISCONNECT and others;
\* and calls without a packet.  A packet that comes without a netId, or without a
\* handler and then tells nothing about it, is not whole.
Kinds == {"spawn", "text", "disconnect", "other", "null"}

Out == [at |-> "out", kind |-> "other", live |-> "client", whole |-> FALSE,
        orig |-> FALSE, must |-> {}]

Elements(s) == {s[i] : i \in 1..Len(s)}

\* The steps of a trap in which it calls no handler of a module.
Brief == {"entered", "guarded", "passing", "leaving"}

MutUninstalling == run \in {"removed", "cleared"}

Uninstalling == run \in {"flagged", "disabled", "drained", "removed", "cleared"}

-----------------------------------------------------------------------------
Init ==
    /\ run = "start" /\ hooked = {} /\ tables = {}
    /\ active = 0
    /\ trap = [t \in Threads |-> Out]
    /\ batch = [t \in Receivers |-> <<>>]
    /\ queue = <<>> /\ count = 0
    /\ inject = [p \in Packets |-> "new"]
    /\ pushed = <<>> /\ handled = <<>> /\ lost = {}
    /\ cb = "none" /\ vt = FALSE /\ resets = 0

(* install() and hookSender(). *)

Fill ==
    /\ run = "start"
    /\ run' = "filled" /\ tables' = {"in"}
    /\ UNCHANGED <<hooked, active, trap, queueVars, sessionVars>>

Enable ==
    /\ run = "filled"
    /\ run' = "live" /\ hooked' = {"in"}
    /\ UNCHANGED <<tables, active, trap, queueVars, sessionVars>>

MutHookSender ==
    /\ run = "live" /\ tables = {"in"}
    /\ IF "out" \in hooked THEN tables' = tables \cup {"out"} /\ UNCHANGED hooked
                           ELSE hooked' = hooked \cup {"out"} /\ UNCHANGED tables
    /\ UNCHANGED <<run, active, trap, queueVars, sessionVars>>

\* hookSender() stores the original function, then enables the hook.
HookSender ==
    /\ run = "live" /\ "out" \notin hooked
    /\ IF "out" \in tables THEN hooked' = hooked \cup {"out"} /\ UNCHANGED tables
                           ELSE tables' = tables \cup {"out"} /\ UNCHANGED hooked
    /\ UNCHANGED <<run, active, trap, queueVars, sessionVars>>

-----------------------------------------------------------------------------
(* injectInbound(): the packet is pushed under the mutex, counted after it. *)

Push(p) ==
    /\ inject[p] = "new"
    /\ inject' = [inject EXCEPT ![p] = "pushed"]
    /\ queue' = Append(queue, p)
    /\ pushed' = Append(pushed, p)
    /\ UNCHANGED <<count, handled, lost, batch, hookVars, active, trap, sessionVars>>

MutCountUp(p) ==
    /\ inject[p] = "pushed"
    /\ inject' = [inject EXCEPT ![p] = "done"]
    /\ UNCHANGED <<queue, count, pushed, handled, lost, batch, hookVars, active,
                   trap, sessionVars>>

CountUp(p) ==
    /\ inject[p] = "pushed"
    /\ inject' = [inject EXCEPT ![p] = "done"]
    /\ count' = count + 1
    /\ UNCHANGED <<queue, pushed, handled, lost, batch, hookVars, active, trap,
                   sessionVars>>

-----------------------------------------------------------------------------
(* The traps. *)

Goto(t, at) == trap' = [trap EXCEPT ![t].at = at]

\* A thread of the game calls a hooked function.  Whose the handler is, is asked only
\* of a text or to deliver.  The packets it must deliver are those whose injectInbound()
\* has returned.
Enter(t, kind, live, whole) ==
    /\ trap[t].at = "out" /\ Dir(t) \in hooked
    /\ LET must == IF whole THEN {p \in Elements(queue) : inject[p] = "done"} ELSE {}
       IN  trap' = [trap EXCEPT ![t] = [at |-> "entered", kind |-> kind, live |-> live,
                                        whole |-> whole, orig |-> FALSE, must |-> must]]
    /\ UNCHANGED <<hookVars, active, queueVars, sessionVars>>

EnterInbound(t) ==
    \E kind \in Kinds, live \in {"client", "server"}, whole \in BOOLEAN :
        /\ kind \in {"spawn", "disconnect"} \/ (~whole /\ kind # "text") => live = "client"
        /\ kind = "disconnect" => resets < MaxResets
        /\ kind = "null" => ~whole
        /\ Enter(t, kind, live, whole)

EnterOutbound(t) == Enter(t, "other", "client", FALSE)

MutGuard(t) ==
    /\ trap[t].at = "entered"
    /\ active' = IF t \in Receivers THEN active + 1 ELSE active
    /\ Goto(t, "guarded")
    /\ UNCHANGED <<hookVars, queueVars, sessionVars>>

Guard(t) ==
    /\ trap[t].at = "entered"
    /\ active' = active + 1
    /\ Goto(t, "guarded")
    /\ UNCHANGED <<hookVars, queueVars, sessionVars>>

\* A trap on its way to the original function: nobody looks at its packet any more.
Going(at, found) == [Out EXCEPT !.at = at, !.orig = found]

\* The original function is looked up, then m_uninstalled.
Check(t) ==
    /\ trap[t].at = "guarded"
    /\ LET found == Dir(t) \in tables
       IN  IF Uninstalling \/ trap[t].kind = "null"
           THEN trap' = [trap EXCEPT ![t] = Going("passing", found)]
           ELSE trap' = [trap EXCEPT ![t].at = IF t \in Receivers THEN "session" ELSE "offer",
                                     ![t].orig = found]
    /\ UNCHANGED <<hookVars, active, queueVars, sessionVars>>

\* resetSession(): the count goes, the queue stays.
Forget ==
    /\ cb' = "none" /\ vt' = FALSE
    /\ count' = 0
    /\ resets' = resets + 1

\* The trap knows what its packet tells, and goes on to flush the queue.
Told(t) ==
    trap' = [trap EXCEPT ![t].at = IF trap[t].whole THEN "flush" ELSE "offer",
                         ![t].kind = "other"]

\* What the packet tells about the client's handler: its vtable, or a handler that
\* has the vtable stored, if one is; DISCONNECT resets.
Session(t) ==
    /\ trap[t].at = "session"
    /\ \/ trap[t].kind = "disconnect" /\ Forget /\ Told(t) /\ UNCHANGED queue
       \/ /\ trap[t].kind = "spawn"
          /\ vt' = TRUE
          /\ Goto(t, "store")
          /\ UNCHANGED <<cb, resets, queue, count>>
       \/ /\ trap[t].kind = "text"
          /\ IF vt /\ trap[t].live # "client" THEN Told(t) ELSE Goto(t, "store")
          /\ UNCHANGED <<sessionVars, queue, count>>
       \/ /\ trap[t].kind = "other"
          /\ Told(t)
          /\ UNCHANGED <<sessionVars, queue, count>>
    /\ UNCHANGED <<hookVars, active, inject, pushed, handled, lost, batch>>

\* The handler itself is stored after that.
Store(t) ==
    /\ trap[t].at = "store"
    /\ cb' = trap[t].live
    /\ Told(t)
    /\ UNCHANGED <<hookVars, active, queueVars, vt, resets>>

MutReadCount(t) ==
    /\ trap[t].at = "flush"
    /\ Goto(t, IF count <= 1 THEN "offer" ELSE "swap")
    /\ UNCHANGED <<hookVars, active, queueVars, sessionVars>>

\* flushInbound(): the count is read, the queue taken under the mutex.
ReadCount(t) ==
    /\ trap[t].at = "flush"
    /\ Goto(t, IF count = 0 THEN "offer" ELSE "swap")
    /\ UNCHANGED <<hookVars, active, queueVars, sessionVars>>

MutSwap(t) ==
    /\ trap[t].at = "swap"
    /\ batch' = [batch EXCEPT ![t] = queue] /\ count' = 0
    /\ Goto(t, "deliver")
    /\ UNCHANGED <<hookVars, active, queue, inject, pushed, handled, lost, sessionVars>>

Swap(t) ==
    /\ trap[t].at = "swap"
    /\ IF queue = <<>> THEN UNCHANGED <<batch, queue, count>>
       ELSE batch' = [batch EXCEPT ![t] = queue] /\ queue' = <<>> /\ count' = 0
    /\ Goto(t, "deliver")
    /\ UNCHANGED <<hookVars, active, inject, pushed, handled, lost, sessionVars>>

\* Whom dispatchInboundDirect() delivers to: the live handler if it is the
\* client's, or the stored one if it is and still exists; else nobody.
Targets(live) ==
    CASE cb = "none" \/ ~vt                   -> {"none"}
      [] cb # "none" /\ vt /\ live = "client" -> {"client"}
      [] cb # "none" /\ vt /\ live # "client" ->
            {"none"} \cup (IF cb = "client" THEN {cb} ELSE {})

Deliver(t) ==
    /\ trap[t].at = "deliver" /\ batch[t] # <<>>
    /\ batch' = [batch EXCEPT ![t] = Tail(@)]
    /\ \E target \in Targets(trap[t].live) :
          IF target = "none" \/ "in" \notin tables
          THEN lost' = lost \cup {Head(batch[t])} /\ UNCHANGED handled
          ELSE handled' = Append(handled, <<Head(batch[t]), target>>) /\ UNCHANGED lost
    /\ UNCHANGED <<hookVars, active, trap, queue, count, inject, pushed, sessionVars>>

EndFlush(t) ==
    /\ trap[t].at = "deliver" /\ batch[t] = <<>>
    /\ Goto(t, "offer")
    /\ UNCHANGED <<hookVars, active, queueVars, sessionVars>>

\* Pipeline::process; an outbound trap loads the original function again.
Offer(t) ==
    /\ trap[t].at = "offer"
    /\ LET found == IF t \in Senders THEN "out" \in tables ELSE trap[t].orig
       IN  trap' = [trap EXCEPT ![t] = Going("call", found)]
    /\ UNCHANGED <<hookVars, active, queueVars, sessionVars>>

MutDrop(t) ==
    /\ trap[t].at = "offer"
    /\ trap' = [trap EXCEPT ![t] = [Out EXCEPT !.at = "leaving"]]
    /\ UNCHANGED <<hookVars, active, queueVars, sessionVars>>

Drop(t) ==
    /\ trap[t].at = "offer"
    /\ active' = active - 1
    /\ trap' = [trap EXCEPT ![t] = [Out EXCEPT !.at = "leaving"]]
    /\ UNCHANGED <<hookVars, queueVars, sessionVars>>

\* The original function returns, and the trap's guard is destroyed.
Call(t) ==
    /\ trap[t].at \in {"call", "passing"}
    /\ active' = active - 1
    /\ trap' = [trap EXCEPT ![t] = [Out EXCEPT !.at = "leaving"]]
    /\ UNCHANGED <<hookVars, queueVars, sessionVars>>

Leave(t) ==
    /\ trap[t].at = "leaving"
    /\ trap' = [trap EXCEPT ![t] = Out]
    /\ UNCHANGED <<hookVars, active, queueVars, sessionVars>>

Advance(t) ==
    \/ Guard(t) \/ Check(t) \/ Offer(t) \/ Drop(t) \/ Call(t) \/ Leave(t)
    \/ /\ t \in Receivers
       /\ Session(t) \/ Store(t) \/ ReadCount(t) \/ Swap(t) \/ Deliver(t) \/ EndFlush(t)

-----------------------------------------------------------------------------
(* resetSession() on the run thread, and uninstall(). *)

Reset ==
    /\ run \in {"live", "cleared"} /\ resets < MaxResets
    /\ Forget
    /\ UNCHANGED <<hookVars, active, trap, queue, inject, pushed, handled, lost, batch>>

SetFlag ==
    /\ run = "live"
    /\ run' = "flagged"
    /\ UNCHANGED <<hooked, tables, active, trap, queueVars, sessionVars>>

Disable ==
    /\ run = "flagged"
    /\ run' = "disabled" /\ hooked' = {}
    /\ UNCHANGED <<tables, active, trap, queueVars, sessionVars>>

\* The count is looked at 50 times, 10 ms apart, and then no more.
Drain ==
    /\ run = "disabled"
    /\ active = 0 \/ ~Patient
    /\ run' = "drained"
    /\ UNCHANGED <<hooked, tables, active, trap, queueVars, sessionVars>>

\* 50 ms later, time for the steps no handler is called in, MinHook frees the
\* trampolines.
Remove ==
    /\ run = "drained"
    /\ Patient => \A t \in Threads : trap[t].at \notin Brief
    /\ run' = "removed"
    /\ UNCHANGED <<hooked, tables, active, trap, queueVars, sessionVars>>

ClearTables ==
    /\ run = "removed"
    /\ run' = "cleared" /\ tables' = {}
    /\ cb' = "none" /\ vt' = FALSE
    /\ UNCHANGED <<hooked, active, trap, queueVars, resets>>

Uninstall == SetFlag \/ Disable \/ Drain \/ Remove \/ ClearTables

Next ==
    \/ Fill \/ Enable \/ HookSender \/ Reset \/ Uninstall
    \/ \E p \in Packets : Push(p) \/ CountUp(p)
    \/ \E t \in Receivers : EnterInbound(t)
    \/ \E t \in Senders : EnterOutbound(t)
    \/ \E t \in Threads : Advance(t)

Spec == Init /\ [][Next]_vars

\* Threads keep running, the server sends whole packets again and again, the run thread
\* goes on with what it began.
FairSpec ==
    /\ Spec
    /\ \A t \in Threads : WF_vars(Advance(t))
    /\ \A t \in Receivers : SF_vars(Enter(t, "other", "client", TRUE))
    /\ \A p \in Packets : WF_vars(CountUp(p))
    /\ WF_vars(Fill) /\ WF_vars(Enable)
    /\ WF_vars(Disable \/ Drain \/ Remove \/ ClearTables)

-----------------------------------------------------------------------------
(* Properties. *)

\* Every variable keeps the type its declaration gives it.
TypeOK ==
    /\ run \in {"start", "filled", "live", "flagged", "disabled", "drained",
                "removed", "cleared"}
    /\ hooked \subseteq {"in", "out"} /\ tables \subseteq {"in", "out"}
    /\ active \in Nat /\ count \in Nat /\ resets \in Nat
    /\ trap \in [Threads -> [at : Brief \cup {"out", "session", "store", "flush", "swap",
                                              "deliver", "offer", "call"},
                             kind : Kinds, live : {"client", "server"},
                             whole : BOOLEAN, orig : BOOLEAN, must : SUBSET Packets]]
    /\ batch \in [Receivers -> Seq(Packets)]
    /\ queue \in Seq(Packets) /\ pushed \in Seq(Packets)
    /\ inject \in [Packets -> {"new", "pushed", "done"}]
    /\ handled \in Seq(Packets \X {"client", "server"}) /\ lost \subseteq Packets
    /\ cb \in {"none", "client", "server"} /\ vt \in BOOLEAN

\* The packets of the queue, and of the batches taken from it.
Waiting == Elements(queue) \cup UNION {Elements(batch[t]) : t \in Receivers}

Box == INSTANCE Mailbox WITH posted <- pushed, waiting <- Waiting,
                             Ordered <- Cardinality(Receivers) = 1

\* PacketInterceptor.h:33: queue, batches and count together are the mailbox
\* injectInbound() promises: no packet vanishes or is delivered twice, none goes to a
\* handler that is not the client's, and by one receiving thread they are delivered
\* in the order of their injection, whatever is reset or removed meanwhile.
Delivers == Box!Spec

\* PacketInterceptor.h:35: a packet is delivered "when trapInbound runs": no trap
\* leaves in the queue a packet that was injected before it began.
FlushedByTrap ==
    \A t \in Receivers :
        trap[t].at = "offer" => trap[t].must \cap Elements(queue) = {}

\* A packet no handler dropped goes on to the game: the tables hold the original
\* function as long as a trap may look for it.
NoneSwallowed == \A t \in Threads : trap[t].at \in {"call", "passing"} => trap[t].orig

\* PacketInterceptor.h:31: uninstall() drains "in-flight trap executions": when
\* the hooks are removed, no trap is at work.
Drained ==
    run \in {"removed", "cleared"} => \A t \in Threads : trap[t].at \in {"out", "leaving"}

\* Every packet injected is taken to be delivered, unless the hooks go first.
EventuallyTaken ==
    \A p \in Packets : inject[p] = "pushed" ~> p \notin Elements(queue) \/ Uninstalling

\* uninstall() comes to its end.  In the code it stops waiting for the traps after half
\* a second; this is more: the traps it counted leave and none is counted any more, so
\* that it would end if it waited for them without a limit.
UninstallEnds == run = "flagged" ~> run = "cleared"
=============================================================================
