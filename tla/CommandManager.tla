--------------------------- MODULE CommandManager ---------------------------
(***************************************************************************)
(* CommandManager (src/sdk/CommandManager.cpp): commands a module sends to *)
(* the server, and the replies matched to them.                            *)
(*                                                                         *)
(* A request waits in m_pendingQueue for the cooldown, is sent, captures   *)
(* reply lines or a form, answers its caller through onComplete, and then  *)
(* squelches late replies until it is erased.  The network thread brings   *)
(* the packets, the run thread ticks, any thread may submit.               *)
(*                                                                         *)
(* Abstractions.  A request is a model value with constant attributes.     *)
(* Both containers keep submission order, which stamp records: a command   *)
(* overtakes the queue only when it is empty.  The clocks are the set of   *)
(* timers that ran out since they were last restarted; the durations are   *)
(* left open.  capturedLines is its length, up to LineCap, kept after the  *)
(* lines were handed over; capturingBatch is "some line was captured".     *)
(* A packet is offered once to each of the regs handlers that init()       *)
(* registered, until one drops it.                                         *)
(***************************************************************************)
EXTENDS Naturals, Sequences

CONSTANTS
    Reqs,        \* command requests, each submitted at most once
    Users,       \* threads that submit commands
    Net,         \* the network thread
    Run,         \* the thread that ticks
    Lines,       \* text lines the server may send
    ErrorLines,  \* those isServerErrorOrCooldown recognises
    ChatLines,   \* those that come in chat packets (TextPacket type 1 or 4)
    Forms,       \* modal forms the server may send
    TextPackets, \* the packets' lines, after splitting at newlines
    Bases,       \* base commands, as extractBaseCommand reduces them
    Attr,        \* Attr[r]: the attributes of request r
    LineCap,     \* lines are counted up to this bound
    MaxRegs,     \* registrations of the handlers are counted up to this bound
    NoFilter,    \* a null textFilter or formFilter
    Null         \* nothing

Outcomes == {"Text", "Form", "Timeout", "Error"}
Threads == Users \cup {Net, Run}

Attributes ==
    [base : Bases, expects : {"Any", "Text", "Form"}, silent : BOOLEAN,
     expectedLines : Nat, text : (SUBSET Lines) \cup {NoFilter},
     form : (SUBSET Forms) \cup {NoFilter}, callback : BOOLEAN]

ASSUME ManagerAssumption ==
    /\ Attr \in [Reqs -> Attributes]
    /\ ErrorLines \subseteq Lines /\ ChatLines \subseteq Lines
    /\ TextPackets \subseteq Seq(Lines) \ {<<>>}
    /\ Net # Run /\ Net \notin Users /\ Run \notin Users
    /\ Null \notin Threads \cup Reqs \cup Forms
    /\ LineCap \in Nat /\ \A r \in Reqs : Attr[r].expectedLines < LineCap
    /\ MaxRegs \in Nat \ {0}

VARIABLES
    phase,       \* where a request is in its life
    stamp,       \* when it was submitted
    clock,       \* the last stamp given
    got,         \* capturedLines.size()
    expired,     \* the request's timers that ran out
    held,        \* requests whose onComplete the manager still holds
    owed,        \* callbacks a thread collected and has yet to make
    told,        \* the outcomes onComplete was called with
    cool,        \* the cooldown since m_lastDispatchTime is over
    initialized, \* m_initialized
    regs,        \* registrations of the packet handlers in the Pipeline
    caller,      \* where a thread is inside execute()
    net,         \* the packet the network thread is handling
    lockOwner    \* who keeps m_mutex across several steps

reqVars == <<phase, stamp, clock, got, expired, held>>
vars == <<phase, stamp, clock, got, expired, held, owed, told, cool,
          initialized, regs, caller, net, lockOwner>>

-----------------------------------------------------------------------------
Phases == {"new", "submitting", "pending", "capturing", "squelching",
           "done",      \* answered, or nobody asked for an answer
           "dropped"}   \* cancelled, or cleared unanswered

Timers == {"timeout", "debounce", "squelch"}

Idle == [at |-> "idle", lines |-> <<>>, left |-> <<>>, form |-> Null,
         pass |-> 0, dropped |-> FALSE]

Pending == {r \in Reqs : phase[r] = "pending"}
Capturing == {r \in Reqs : phase[r] = "capturing"}
Squelching == {r \in Reqs : phase[r] = "squelching"}
Active == Capturing \cup Squelching

\* m_pendingQueue.front() and the like: the one submitted first.
First(S) == {r \in S : \A s \in S : stamp[r] <= stamp[s]}

Silent(r) == Attr[r].silent

\* The request wants this line: its filter's say, or anything but chat.
Matches(r, line) == IF Attr[r].text = NoFilter THEN line \notin ChatLines
                    ELSE line \in Attr[r].text

MatchesForm(r, form) == Attr[r].form = NoFilter \/ form \in Attr[r].form

Enough(r, n) == Attr[r].expectedLines > 0 /\ n >= Attr[r].expectedLines

MutTaking(line) == {r \in Capturing : line \notin ErrorLines /\ Matches(r, line)}

\* Capturing requests an error line completes, and those a line is captured for.
Erring(line) == {r \in Capturing : line \in ErrorLines /\ got[r] = 0}
Taking(line) == {r \in Capturing \ Erring(line) :
                   Attr[r].expects # "Form" /\ Matches(r, line)}

\* Squelching requests a line is late for: it is what the filter wants, or any
\* error without one.
Late(line) == {r \in Squelching : /\ Attr[r].expects # "Form"
                                  /\ IF Attr[r].text = NoFilter
                                     THEN line \in ErrorLines
                                     ELSE line \in Attr[r].text}

MutErased == {r \in Squelching : got[r] > 0 /\ "squelch" \in expired[r]}

MutOver == {r \in Capturing : got[r] > 0 /\ "timeout" \in expired[r]}

\* What tick() finds complete by its lines, past its timeout, or to erase.
Sealed == {r \in Capturing : got[r] > 0
                             /\ ("debounce" \in expired[r] \/ Enough(r, got[r]))}
Over == {r \in Capturing \ Sealed : "timeout" \in expired[r]}
Erased == {r \in Squelching : "squelch" \in expired[r]}

MutCollect(t, S, outcome) ==
    owed' = [owed EXCEPT ![t] = @ \cup {<<r, outcome[r]>> : r \in S}]

\* Calls moved out of the completed requests: onComplete is null afterwards.
Collect(t, S, outcome) ==
    owed' = [owed EXCEPT ![t] = @ \cup {<<r, outcome[r]>> : r \in S \cap held}]

Free == lockOwner = Null

-----------------------------------------------------------------------------
Init ==
    /\ phase = [r \in Reqs |-> "new"]
    /\ stamp = [r \in Reqs |-> 0]
    /\ clock = 0
    /\ got = [r \in Reqs |-> 0]
    /\ expired = [r \in Reqs |-> {}]
    /\ held = {r \in Reqs : Attr[r].callback}
    /\ owed = [t \in Threads |-> {}]
    /\ told = [r \in Reqs |-> <<>>]
    /\ cool = TRUE
    /\ initialized = TRUE
    /\ regs = 1
    /\ caller = [t \in Users |-> [at |-> "out", req |-> Null]]
    /\ net = Idle
    /\ lockOwner = Null

\* execute() begins with init(), which reads m_initialized under no lock.
Execute(t, r) ==
    /\ caller[t].at = "out"
    /\ phase[r] = "new"
    /\ phase' = [phase EXCEPT ![r] = "submitting"]
    /\ caller' = [caller EXCEPT ![t] =
                    [at |-> IF initialized THEN "submit" ELSE "register", req |-> r]]
    /\ UNCHANGED <<stamp, clock, got, expired, held, owed, told, cool,
                   initialized, regs, net, lockOwner>>

\* init() registers the handlers again: shutdown() took none of them off.
\* Pipeline::on waits for the packet being processed.
Register(t) ==
    /\ caller[t].at = "register"
    /\ net.at = "idle" /\ owed[Net] = {}
    /\ initialized' = TRUE
    /\ regs' = IF regs < MaxRegs THEN regs + 1 ELSE regs
    /\ caller' = [caller EXCEPT ![t].at = "submit"]
    /\ UNCHANGED <<reqVars, owed, told, cool, net, lockOwner>>

MutDispatch(r, sent) ==
    /\ phase' = [phase EXCEPT ![r] = IF sent THEN "capturing" ELSE "done"]
    /\ held' = IF sent THEN held ELSE held \ {r}
    /\ UNCHANGED told

\* dispatchInternal(r): sent, or failed for want of a sender or a packet.
\* The failure calls onComplete on the spot.
Dispatch(r, sent) ==
    IF sent
    THEN /\ phase' = [phase EXCEPT ![r] = "capturing"]
         /\ UNCHANGED <<held, told>>
    ELSE /\ phase' = [phase EXCEPT ![r] = "done"]
         /\ held' = held \ {r}
         /\ told' = IF r \in held THEN [told EXCEPT ![r] = Append(@, "Error")]
                    ELSE told

\* The rest of execute(), under m_mutex.
Submit(t) ==
    /\ caller[t].at = "submit"
    /\ Free
    /\ LET r == caller[t].req
       IN  /\ clock' = clock + 1
           /\ stamp' = [stamp EXCEPT ![r] = clock + 1]
           /\ IF Pending = {} /\ cool
              THEN cool' = FALSE /\ \E sent \in BOOLEAN : Dispatch(r, sent)
              ELSE /\ phase' = [phase EXCEPT ![r] = "pending"]
                   /\ UNCHANGED <<held, told, cool>>
    /\ caller' = [caller EXCEPT ![t] = [at |-> "out", req |-> Null]]
    /\ UNCHANGED <<got, expired, owed, initialized, regs, net, lockOwner>>

MutCancelPending(base) ==
    /\ Free
    /\ LET these == {r \in Pending \cup Capturing : Attr[r].base = base}
       IN  /\ phase' = [r \in Reqs |-> IF r \in these THEN "dropped" ELSE phase[r]]
           /\ held' = held \ these
    /\ UNCHANGED <<stamp, clock, got, expired, owed, told, cool,
                   initialized, regs, caller, net, lockOwner>>

CancelPending(base) ==
    /\ Free
    /\ phase' = [r \in Reqs |-> IF r \in Pending /\ Attr[r].base = base
                                THEN "dropped" ELSE phase[r]]
    /\ held' = held \ {r \in Pending : Attr[r].base = base}
    /\ UNCHANGED <<stamp, clock, got, expired, owed, told, cool,
                   initialized, regs, caller, net, lockOwner>>

-----------------------------------------------------------------------------
(* The network thread. *)

ReceiveText(lines) ==
    /\ net.at = "idle" /\ owed[Net] = {}
    /\ net' = [Idle EXCEPT !.at = "check", !.lines = lines, !.pass = 1]
    /\ UNCHANGED <<reqVars, owed, told, cool, initialized, regs, caller, lockOwner>>

\* handleInboundText looks under m_mutex whether anything is active, and lets
\* go to read the packet.
CheckText ==
    /\ net.at = "check"
    /\ Free
    /\ net' = [net EXCEPT !.at = IF Active = {} THEN "fire" ELSE "lock"]
    /\ UNCHANGED <<reqVars, owed, told, cool, initialized, regs, caller, lockOwner>>

LockText ==
    /\ net.at = "lock"
    /\ Free
    /\ lockOwner' = Net
    /\ net' = [net EXCEPT !.at = "scan", !.left = net.lines]
    /\ UNCHANGED <<reqVars, owed, told, cool, initialized, regs, caller>>

\* What one line does to the requests; m_mutex is kept from line to line.
ScanLine ==
    /\ net.at = "scan"
    /\ LET line == Head(net.left)
           full == {r \in Taking(line) : Enough(r, got[r] + 1)}
           complete == Erring(line) \cup full
           hiding == Late(line) \cup Taking(line)
                       \cup (IF line \in ErrorLines THEN Capturing ELSE {})
       IN  /\ got' = [r \in Reqs |-> IF r \in Taking(line) /\ got[r] < LineCap
                                     THEN got[r] + 1 ELSE got[r]]
           /\ expired' = [r \in Reqs |->
                            IF r \in complete THEN {}
                            ELSE IF r \in Taking(line) THEN expired[r] \ {"debounce"}
                            ELSE expired[r]]
           /\ phase' = [r \in Reqs |-> IF r \in complete THEN "squelching"
                                       ELSE phase[r]]
           /\ Collect(Net, complete,
                      [r \in complete |->
                         IF r \in Erring(line) THEN "Error" ELSE "Text"])
           /\ held' = held \ complete
           /\ LET left == Tail(net.left)
              IN  /\ net' = [net EXCEPT !.left = left,
                                        !.at = IF left = <<>> THEN "fire" ELSE @,
                                        !.dropped = @ \/ \E r \in hiding : Silent(r)]
                  /\ lockOwner' = IF left = <<>> THEN Null ELSE lockOwner
    /\ UNCHANGED <<stamp, clock, told, cool, initialized, regs, caller>>

ReceiveForm(form) ==
    /\ net.at = "idle" /\ owed[Net] = {}
    /\ net' = [Idle EXCEPT !.at = "form", !.form = form, !.pass = 1]
    /\ UNCHANGED <<reqVars, owed, told, cool, initialized, regs, caller, lockOwner>>

\* handleInboundForm: the first capturing request it suits takes the form;
\* squelching requests before that one may hide it.
HandleForm ==
    /\ net.at = "form"
    /\ Free
    /\ LET form == net.form
           taker == First({r \in Capturing : Attr[r].expects # "Text"
                                             /\ MatchesForm(r, form)})
           late == {r \in Squelching : /\ Attr[r].form # NoFilter
                                       /\ form \in Attr[r].form
                                       /\ \A s \in taker : stamp[r] < stamp[s]}
       IN  /\ phase' = [r \in Reqs |-> IF r \in taker THEN "squelching"
                                       ELSE phase[r]]
           /\ expired' = [r \in Reqs |-> IF r \in taker THEN {} ELSE expired[r]]
           /\ Collect(Net, taker, [r \in taker |-> "Form"])
           /\ held' = held \ taker
           /\ net' = [net EXCEPT !.at = "fire",
                        !.dropped = \E r \in taker \cup late : Silent(r)]
    /\ UNCHANGED <<stamp, clock, got, told, cool, initialized, regs, caller,
                   lockOwner>>

\* Pipeline::process goes on to the next registered handler unless the packet
\* was dropped.
NextHandler ==
    /\ net.at = "fire"
    /\ owed[Net] = {}
    /\ net' = IF net.dropped \/ net.pass >= regs THEN Idle
              ELSE [net EXCEPT !.pass = @ + 1,
                               !.at = IF net.form = Null THEN "check" ELSE "form"]
    /\ UNCHANGED <<reqVars, owed, told, cool, initialized, regs, caller, lockOwner>>

-----------------------------------------------------------------------------
(* The run thread, and what any thread does. *)

\* tick(): the head of the queue when the cooldown is over, then every active
\* request by its own timers.
Tick ==
    /\ Free
    /\ owed[Run] = {}
    /\ LET due == IF cool THEN First(Pending) ELSE {}
           complete == Sealed \cup Over
       IN  \E sent \in SUBSET due :
            LET failed == due \ sent
            IN  /\ cool' = (cool /\ due = {})
                /\ phase' = [r \in Reqs |->
                               IF r \in sent THEN "capturing"
                               ELSE IF r \in failed \cup Erased THEN "done"
                               ELSE IF r \in complete THEN "squelching"
                               ELSE phase[r]]
                /\ expired' = [r \in Reqs |-> IF r \in complete THEN {}
                                              ELSE expired[r]]
                /\ Collect(Run, complete,
                           [r \in complete |->
                              IF got[r] > 0 THEN "Text" ELSE "Timeout"])
                /\ told' = [r \in Reqs |-> IF r \in failed \cap held
                                           THEN Append(told[r], "Error") ELSE told[r]]
                /\ held' = held \ (complete \cup failed)
    /\ UNCHANGED <<stamp, clock, got, initialized, regs, caller, net, lockOwner>>

\* A callback of what a handler, tick() or reset() collected, m_mutex released.
Fire(t) ==
    /\ t = Net => net.at \in {"fire", "idle"}
    /\ \E c \in owed[t] :
        /\ owed' = [owed EXCEPT ![t] = @ \ {c}]
        /\ told' = [told EXCEPT ![c[1]] = Append(@, c[2])]
    /\ UNCHANGED <<reqVars, cool, initialized, regs, caller, net, lockOwner>>

\* reset(), on ChangeDimension, Transfer or Disconnect: queued commands are
\* forgotten, active ones answered with what they have.
Reset ==
    /\ net.at = "idle" /\ owed[Net] = {}
    /\ Free
    /\ phase' = [r \in Reqs |-> IF r \in Pending THEN "dropped"
                                ELSE IF r \in Active THEN "done" ELSE phase[r]]
    /\ Collect(Net, Active,
               [r \in Active |-> IF got[r] > 0 THEN "Text" ELSE "Error"])
    /\ held' = held \ (Pending \cup Active)
    /\ cool' = TRUE
    /\ UNCHANGED <<stamp, clock, got, expired, told, initialized, regs, caller,
                   net, lockOwner>>

\* shutdown(), when AppCore::tick sees the return to the menu, or at ejection.
Shutdown ==
    /\ Free
    /\ owed[Run] = {}
    /\ phase' = [r \in Reqs |-> IF r \in Pending \cup (Active \cap held)
                                THEN "dropped"
                                ELSE IF r \in Active THEN "done" ELSE phase[r]]
    /\ held' = held \ (Pending \cup Active)
    /\ cool' = TRUE
    /\ initialized' = FALSE
    /\ UNCHANGED <<stamp, clock, got, expired, owed, told, regs, caller, net,
                   lockOwner>>

\* Time passes: a timer that tick() would read runs out.
Expire(r, timer) ==
    /\ timer \notin expired[r]
    /\ \/ timer = "timeout" /\ phase[r] = "capturing"
       \/ timer = "debounce" /\ phase[r] = "capturing" /\ got[r] > 0
       \/ timer = "squelch" /\ phase[r] = "squelching"
    /\ expired' = [expired EXCEPT ![r] = @ \cup {timer}]
    /\ UNCHANGED <<phase, stamp, clock, got, held, owed, told, cool,
                   initialized, regs, caller, net, lockOwner>>

CooldownEnds ==
    /\ ~cool
    /\ cool' = TRUE
    /\ UNCHANGED <<reqVars, owed, told, initialized, regs, caller, net, lockOwner>>

HandlePacket == CheckText \/ LockText \/ ScanLine \/ HandleForm \/ NextHandler

Next ==
    \/ \E t \in Users : \/ \E r \in Reqs : Execute(t, r)
                        \/ Register(t) \/ Submit(t)
    \/ \E base \in Bases : CancelPending(base)
    \/ \E lines \in TextPackets : ReceiveText(lines)
    \/ \E form \in Forms : ReceiveForm(form)
    \/ HandlePacket
    \/ Tick
    \/ \E t \in Threads : Fire(t)
    \/ Reset \/ Shutdown
    \/ \E r \in Reqs, timer \in Timers : Expire(r, timer)
    \/ CooldownEnds

Spec == Init /\ [][Next]_vars

\* The network thread finishes its packets and every thread its callbacks; a
\* thread that keeps coming for m_mutex gets it in the end; AppCore::tick runs
\* again and again; and clocks advance.
Fairness ==
    /\ WF_vars(HandlePacket)
    /\ SF_vars(Tick)
    /\ \A t \in Threads : WF_vars(Fire(t))
    /\ \A r \in Reqs : /\ WF_vars(Expire(r, "timeout"))
                       /\ WF_vars(Expire(r, "squelch"))
    /\ WF_vars(CooldownEnds)

FairSpec == Spec /\ Fairness

-----------------------------------------------------------------------------
(* Properties. *)

Calls == Reqs \X Outcomes

\* Every variable keeps the type its declaration gives it.
TypeOK ==
    /\ phase \in [Reqs -> Phases]
    /\ stamp \in [Reqs -> Nat]
    /\ clock \in Nat
    /\ got \in [Reqs -> 0..LineCap]
    /\ expired \in [Reqs -> SUBSET Timers]
    /\ held \subseteq Reqs
    /\ owed \in [Threads -> SUBSET Calls]
    /\ told \in [Reqs -> Seq(Outcomes)]
    /\ cool \in BOOLEAN /\ initialized \in BOOLEAN
    /\ regs \in 1..MaxRegs
    /\ caller \in [Users -> [at : {"out", "register", "submit"},
                            req : Reqs \cup {Null}]]
    /\ net \in [at : {"idle", "check", "lock", "scan", "form", "fire"},
                lines : Seq(Lines), left : Seq(Lines),
                form : Forms \cup {Null}, pass : 0..MaxRegs, dropped : BOOLEAN]
    /\ lockOwner \in {Null, Net}

\* Some thread is about to call a request's onComplete.
IsOwed(r) == \E t \in Threads, o \in Outcomes : <<r, o>> \in owed[t]

\* onComplete is called at most once, though replies, timeouts, resets and
\* ticks race to complete the request on two threads, and though handlers may
\* be registered twice: moving it out of the request under m_mutex makes
\* whoever comes second find it null.
AtMostOnce == \A r \in Reqs : Len(told[r]) <= 1

\* No completed request leaves its caller waiting: once it squelches or is
\* erased, its onComplete was called or some thread is about to call it; only
\* cancellation, reset of the queue and shutdown forget callers.
NobodyForgotten ==
    \A r \in Reqs : (phase[r] \in {"squelching", "done"} /\ Attr[r].callback) =>
        told[r] # <<>> \/ IsOwed(r)

Answers(r) ==
    {o \in Outcomes : \/ \E i \in 1..Len(told[r]) : told[r][i] = o
                      \/ \E t \in Threads : <<r, o>> \in owed[t]}

\* The outcomes a request of this kind can have.
Suiting(r) == {o \in Outcomes : /\ o = "Text" => Attr[r].expects # "Form"
                                /\ o = "Form" => Attr[r].expects # "Text"}

\* Where a request stands for its caller.
Standing(r) ==
    CASE phase[r] \in {"new", "submitting"} -> "away"
      [] phase[r] = "pending"               -> "waiting"
      [] phase[r] = "capturing"             -> "sent"
      [] OTHER                              -> "over"

\* The kind of answer fits the request and what was captured for it: a request
\* for a form never gets text nor one for text a form, a Text answer carries at
\* least one line, and nothing captured is thrown away for a Timeout or Error.
FittingAnswer ==
    \A r \in Reqs : \A o \in Answers(r) :
        /\ o \in Suiting(r)
        /\ o = "Text" => got[r] > 0
        /\ o \in {"Timeout", "Error"} => got[r] = 0

\* What execute() promises, without packets, timers and threads: the manager is a desk
\* where requests draw numbers.  A request is over once it is answered or forgotten,
\* though it squelches for a while, and its answer is decided once it is owed.
AtDesk == INSTANCE Desk WITH
    Callers <- {r \in Reqs : Attr[r].callback},
    Failure <- "Error",
    Fitting <- [r \in Reqs |-> Suiting(r)],
    Groups <- {{r \in Reqs : Attr[r].base = base} : base \in Bases},
    state <- [r \in Reqs |-> Standing(r)],
    number <- stamp, last <- clock, ready <- cool,
    answer <- [r \in Reqs |-> Answers(r)]

\* Each request is sent in its turn, one in a cooldown, and closed once, whatever replies,
\* timeouts, resets and ticks race for it; only waiting requests are cancelled; and what
\* its caller is told is what it was closed with.
Serves == AtDesk!Spec

\* Commands reach the server in the order they were submitted: nothing that
\* was sent was submitted after something that still waits.
InOrder ==
    \A r \in Pending, s \in Active : stamp[s] < stamp[r]

\* A command waits in the queue only for something: the cooldown, or the next
\* tick; and whoever waits for an answer is eventually told.
EventuallyAnswered ==
    \A r \in Reqs : Attr[r].callback =>
        (phase[r] = "pending" ~> (told[r] # <<>> \/ phase[r] = "dropped"))

\* No request stays active for ever, swallowing replies meant for others.
EventuallyErased ==
    \A r \in Reqs : phase[r] = "capturing" ~> phase[r] \in {"done", "dropped"}

=============================================================================
