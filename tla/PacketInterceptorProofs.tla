----------------------- MODULE PacketInterceptorProofs -----------------------
(***************************************************************************)
(* Proofs about PacketInterceptor, for every number of threads and of      *)
(* packets, and that it implements Mailbox.                                *)
(***************************************************************************)
EXTENDS PacketInterceptor, FiniteSetTheorems, SequenceTheorems, TLAPS

-----------------------------------------------------------------------------
(* Queues. *)

Distinct(s) == \A i, j \in 1..Len(s) : s[i] = s[j] => i = j

\* m_inboundQueue.push_back().
LEMMA AppendElements ==
    ASSUME NEW S, NEW s \in Seq(S), NEW e \in S
    PROVE  /\ Append(s, e) \in Seq(S)
           /\ Elements(Append(s, e)) = Elements(s) \cup {e}
           /\ Distinct(s) /\ e \notin Elements(s) => Distinct(Append(s, e))
<1> USE DEF Elements, Distinct
<1>1. /\ Append(s, e) \in Seq(S) /\ Len(Append(s, e)) = Len(s) + 1
      /\ \A i \in 1..Len(s) : Append(s, e)[i] = s[i]
      /\ Append(s, e)[Len(s) + 1] = e
  BY AppendProperties
<1>2. Len(s) \in Nat
  BY LenProperties
<1>3. Elements(Append(s, e)) = Elements(s) \cup {e}
  <2>1. ASSUME NEW x \in Elements(Append(s, e)) PROVE x \in Elements(s) \cup {e}
    <3>1. PICK i \in 1..(Len(s) + 1) : x = Append(s, e)[i]
      BY <1>1, <2>1
    <3> QED BY <1>1, <1>2, <3>1
  <2>2. ASSUME NEW x \in Elements(s) PROVE x \in Elements(Append(s, e))
    <3>1. PICK i \in 1..Len(s) : x = s[i]
      BY <2>2
    <3> QED BY <1>1, <1>2, <3>1
  <2>3. e \in Elements(Append(s, e))
    BY <1>1, <1>2
  <2> QED BY <2>1, <2>2, <2>3
<1>4. ASSUME Distinct(s), e \notin Elements(s) PROVE Distinct(Append(s, e))
  <2> SUFFICES ASSUME NEW i \in 1..(Len(s) + 1), NEW j \in 1..(Len(s) + 1),
                      Append(s, e)[i] = Append(s, e)[j]
               PROVE  i = j
    BY <1>1
  <2>1. \A k \in 1..Len(s) : Append(s, e)[k] # e
    BY <1>1, <1>4
  <2> QED BY <1>1, <1>2, <1>4, <2>1
<1> QED BY <1>1, <1>3, <1>4

\* flushInbound() takes the packets of its batch one by one.
LEMMA TailElements ==
    ASSUME NEW S, NEW s \in Seq(S), s # <<>>, Distinct(s)
    PROVE  /\ Head(s) \in S /\ Head(s) \in Elements(s)
           /\ Tail(s) \in Seq(S) /\ Distinct(Tail(s))
           /\ Elements(Tail(s)) = Elements(s) \ {Head(s)}
<1> USE DEF Elements, Distinct
<1>1. /\ Len(s) \in Nat \ {0} /\ Head(s) = s[1]
      /\ Tail(s) \in Seq(S) /\ Len(Tail(s)) = Len(s) - 1
      /\ \A i \in 1..(Len(s) - 1) : Tail(s)[i] = s[i + 1]
  BY HeadTailProperties, EmptySeq
<1>2. Head(s) \in S /\ Head(s) \in Elements(s)
  BY <1>1, HeadTailProperties
<1>3. Distinct(Tail(s))
  <2> SUFFICES ASSUME NEW i \in 1..(Len(s) - 1), NEW j \in 1..(Len(s) - 1),
                      s[i + 1] = s[j + 1]
               PROVE  i = j
    BY <1>1
  <2>1. i + 1 \in 1..Len(s) /\ j + 1 \in 1..Len(s)
    BY <1>1
  <2> QED BY <1>1, <2>1
<1>4. ASSUME NEW x \in Elements(Tail(s)) PROVE x \in Elements(s) \ {Head(s)}
  <2>1. PICK i \in 1..(Len(s) - 1) : x = s[i + 1]
    BY <1>1, <1>4
  <2>2. i + 1 \in 1..Len(s) /\ i + 1 # 1 /\ 1 \in 1..Len(s)
    BY <1>1
  <2> QED BY <1>1, <2>1, <2>2
<1>5. ASSUME NEW x \in Elements(s) \ {Head(s)} PROVE x \in Elements(Tail(s))
  <2>1. PICK i \in 1..Len(s) : x = s[i]
    BY <1>5
  <2>2. i - 1 \in 1..(Len(s) - 1) /\ Tail(s)[i - 1] = s[i]
    BY <1>1, <1>5, <2>1
  <2> QED BY <1>1, <2>1, <2>2
<1> QED BY <1>1, <1>2, <1>3, <1>4, <1>5

-----------------------------------------------------------------------------
(* The invariants. *)

\* Traps the guard has counted and not uncounted yet.
Counted == {t \in Threads : trap[t].at \notin {"out", "entered", "leaving"}}

\* m_activeTraps counts them.
CountInv == active = Cardinality(Counted)

\* A hook is enabled only while the table holds its original function, and while
\* no trap may run the tables may change.
HookInv ==
    /\ hooked \subseteq tables
    /\ run \in {"start", "filled", "disabled", "drained", "removed", "cleared"} => hooked = {}
    /\ run = "start" => \A t \in Threads : trap[t].at = "out"
    /\ run \notin {"start", "cleared"} => "in" \in tables

\* What a trap may still do once nobody is counted, and once the trampolines are gone.
DrainInv ==
    /\ run = "drained" => \A t \in Threads : trap[t].at \in Brief \cup {"out"}
    /\ run \in {"removed", "cleared"} => \A t \in Threads : trap[t].at = "out"

\* A trap finds its original function, and has it once it has looked for it.
OriginalInv ==
    \A t \in Threads :
        /\ trap[t].at \notin {"out", "leaving"} => Dir(t) \in tables
        /\ trap[t].at \notin {"out", "entered", "guarded", "leaving"} => trap[t].orig

\* A packet waits in one place only, and was pushed; a batch is there while it is
\* delivered.
PlaceInv ==
    /\ Distinct(queue) /\ Distinct(pushed)
    /\ \A p \in Packets : p \in Elements(pushed) <=> inject[p] # "new"
    /\ Elements(queue) \subseteq Elements(pushed)
    /\ \A t \in Receivers :
         /\ Distinct(batch[t])
         /\ Elements(batch[t]) \subseteq Elements(pushed)
         /\ Elements(batch[t]) \cap Elements(queue) = {}
         /\ trap[t].at # "deliver" => batch[t] = <<>>
         /\ \A u \in Receivers : u # t => Elements(batch[t]) \cap Elements(batch[u]) = {}

\* With one receiver, what waits is the end of what was pushed, the batch first.
OrderInv ==
    \A t \in Receivers : Receivers = {t} =>
        LET n == Len(pushed)
            b == Len(batch[t])
            q == Len(queue)
        IN  /\ b + q <= n
            /\ \A i \in 1..b : batch[t][i] = pushed[n - q - b + i]
            /\ \A i \in 1..q : queue[i] = pushed[n - q + i]

\* Until a reset, whatever was injected and waits in the queue is counted, and a trap that
\* has been at the queue left nothing in it that it must deliver.
MustInv ==
    \A t \in Threads :
        /\ \A p \in trap[t].must : inject[p] = "done"
        /\ ~trap[t].whole => trap[t].must = {}
        /\ t \in Senders => trap[t].must = {}
        /\ resets = 0 /\ trap[t].at \in {"deliver", "offer"}
             => trap[t].must \cap Elements(queue) = {}

QueueCounted ==
    resets = 0 => \A p \in Elements(queue) : inject[p] = "done" => count > 0
-----------------------------------------------------------------------------
(* What the actions of a trap do to it. *)

At == Brief \cup {"out", "session", "store", "flush", "swap", "deliver", "offer", "call"}

Traps == [at : At, kind : Kinds, live : {"client", "server"}, whole : BOOLEAN,
          orig : BOOLEAN, must : SUBSET Packets]

\* Only this thread moves.
Moves(t, from, to) ==
    /\ trap[t].at \in from /\ trap'[t].at \in to
    /\ trap' \in [Threads -> Traps]
    /\ \A u \in Threads : u # t => trap'[u] = trap[u]

LEMMA GotoEffect ==
    ASSUME TypeOK, NEW t \in Threads, NEW at \in At, Goto(t, at)
    PROVE  /\ Moves(t, {trap[t].at}, {at})
           /\ trap'[t].whole = trap[t].whole /\ trap'[t].orig = trap[t].orig
           /\ trap'[t].must = trap[t].must
BY ZenonT(60) DEF TypeOK, Goto, Moves, Traps, At

LEMMA OutTrap == Out \in Traps /\ \A at \in At : [Out EXCEPT !.at = at] \in Traps
BY DEF Out, Traps, At, Kinds

\* A trap begins; an outbound one delivers nothing.
Enters(t) ==
    \E kind \in Kinds, live \in {"client", "server"}, whole \in BOOLEAN :
        Enter(t, kind, live, whole) /\ (t \in Senders => ~whole)

LEMMA EntersIs ==
    /\ \A t \in Receivers : EnterInbound(t) => Enters(t) /\ t \in Threads
    /\ \A t \in Senders : EnterOutbound(t) => Enters(t) /\ t \in Threads
<1>1. ASSUME NEW t \in Receivers, EnterInbound(t) PROVE Enters(t) /\ t \in Threads
  <2>1. t \notin Senders
    BY InterceptorAssumption
  <2> QED BY <1>1, <2>1 DEF EnterInbound, Enters, Threads
<1>2. ASSUME NEW t \in Senders, EnterOutbound(t) PROVE Enters(t) /\ t \in Threads
  <2>1. "other" \in Kinds
    BY DEF Kinds
  <2> QED BY <1>2, <2>1 DEF EnterOutbound, Enters, Threads
<1> QED BY <1>1, <1>2

LEMMA EnterEffect ==
    ASSUME TypeOK, NEW t \in Threads, NEW kind \in Kinds, NEW live \in {"client", "server"},
           NEW whole \in BOOLEAN, Enter(t, kind, live, whole)
    PROVE  /\ Moves(t, {"out"}, {"entered"})
           /\ trap'[t].whole = whole /\ trap'[t].orig = FALSE
           /\ \A p \in trap'[t].must : inject[p] = "done"
           /\ ~whole => trap'[t].must = {}
<1> DEFINE must == IF whole THEN {p \in Elements(queue) : inject[p] = "done"} ELSE {}
           r == [at |-> "entered", kind |-> kind, live |-> live, whole |-> whole,
                 orig |-> FALSE, must |-> must]
<1>1. must \subseteq Packets
  <2>1. Elements(queue) \subseteq Packets
    BY SeqDef DEF TypeOK, Elements
  <2> QED BY <2>1
<1>2. r \in Traps
  BY <1>1 DEF Traps, At, Brief
<1>3. trap[t].at = "out" /\ trap' = [trap EXCEPT ![t] = r]
  BY Zenon DEF Enter
<1>4. trap \in [Threads -> Traps]
  BY DEF TypeOK, Traps, At
<1>5. r.at = "entered" /\ r.whole = whole /\ r.orig = FALSE /\ r.must = must
  OBVIOUS
<1>6. (\A p \in must : inject[p] = "done") /\ (~whole => must = {})
  OBVIOUS
<1> HIDE DEF must, r
<1> QED BY <1>2, <1>3, <1>4, <1>5, <1>6 DEF Moves

LEMMA GoingTrap ==
    ASSUME NEW at \in At, NEW found \in BOOLEAN
    PROVE  /\ Going(at, found) \in Traps
           /\ Going(at, found).at = at /\ Going(at, found).orig = found
           /\ Going(at, found).must = {}
BY DEF Going, Out, Traps, At, Kinds

LEMMA CheckEffect ==
    ASSUME TypeOK, NEW t \in Threads, Check(t)
    PROVE  /\ trap'[t].orig = (Dir(t) \in tables)
           /\ \/ /\ Uninstalling \/ trap[t].kind = "null"
                 /\ Moves(t, {"guarded"}, {"passing"}) /\ trap'[t].must = {}
              \/ /\ ~Uninstalling
                 /\ trap'[t].must = trap[t].must /\ trap'[t].whole = trap[t].whole
                 /\ \/ t \in Receivers /\ Moves(t, {"guarded"}, {"session"})
                    \/ t \in Senders /\ Moves(t, {"guarded"}, {"offer"})
<1> DEFINE found == Dir(t) \in tables
           next == IF t \in Receivers THEN "session" ELSE "offer"
           quick == Uninstalling \/ trap[t].kind = "null"
           r == Going("passing", found)
<1>1. trap \in [Threads -> Traps] /\ trap[t].at = "guarded" /\ found \in BOOLEAN
  BY DEF TypeOK, Traps, At, Check
<1>2. /\ quick => trap' = [trap EXCEPT ![t] = r]
      /\ ~quick => trap' = [trap EXCEPT ![t].at = next, ![t].orig = found]
  BY Zenon DEF Check
<1>3. (t \in Receivers => next = "session") /\ (t \notin Receivers => t \in Senders /\ next = "offer")
  BY DEF Threads
<1>4. r \in Traps /\ r.at = "passing" /\ r.orig = found /\ r.must = {}
  BY <1>1, GoingTrap DEF At, Brief
<1> HIDE DEF found, next, r
<1>5. CASE quick
  <2>1. Moves(t, {"guarded"}, {"passing"})
    BY <1>1, <1>2, <1>4, <1>5 DEF Moves
  <2>2. trap'[t].orig = found /\ trap'[t].must = {}
    BY <1>1, <1>2, <1>4, <1>5
  <2> QED BY <1>5, <2>1, <2>2 DEF found
<1>6. CASE ~quick
  <2>1. Moves(t, {"guarded"}, {next})
    BY <1>1, <1>2, <1>3, <1>6 DEF Moves, Traps, At, Brief
  <2>2. /\ trap'[t].orig = found
        /\ trap'[t].must = trap[t].must /\ trap'[t].whole = trap[t].whole
    BY <1>1, <1>2, <1>6 DEF Traps
  <2> QED BY <1>3, <1>6, <2>1, <2>2 DEF found
<1> QED BY <1>5, <1>6

LEMMA ToldEffect ==
    ASSUME TypeOK, NEW t \in Threads, Told(t)
    PROVE  /\ trap'[t].whole = trap[t].whole /\ trap'[t].orig = trap[t].orig
           /\ trap'[t].must = trap[t].must
           /\ \/ ~trap[t].whole /\ Moves(t, {trap[t].at}, {"offer"})
              \/ trap[t].whole /\ Moves(t, {trap[t].at}, {"flush"})
<1> DEFINE next == IF trap[t].whole THEN "flush" ELSE "offer"
<1>1. trap \in [Threads -> Traps]
  BY DEF TypeOK, Traps, At
<1>2. trap' = [trap EXCEPT ![t].at = next, ![t].kind = "other"]
  BY DEF Told
<1>3. next \in At /\ "other" \in Kinds
  BY DEF At, Kinds
<1>4. (~trap[t].whole => next = "offer") /\ (trap[t].whole => next = "flush")
  OBVIOUS
<1> HIDE DEF next
<1>5. Moves(t, {trap[t].at}, {next})
  BY <1>1, <1>2, <1>3 DEF Moves, Traps
<1>6. /\ trap'[t].whole = trap[t].whole /\ trap'[t].orig = trap[t].orig
      /\ trap'[t].must = trap[t].must
  BY <1>1, <1>2 DEF Traps
<1>7. trap[t].whole \in BOOLEAN
  BY <1>1 DEF Traps
<1> QED BY <1>4, <1>5, <1>6, <1>7

\* The steps in which a trap stores what its packet tells.
Learn(t) == Session(t) \/ Store(t)

LEMMA LearnEffect ==
    ASSUME TypeOK, NEW t \in Threads, Learn(t)
    PROVE  /\ trap'[t].whole = trap[t].whole /\ trap'[t].orig = trap[t].orig
           /\ trap'[t].must = trap[t].must
           /\ \/ ~trap[t].whole /\ Moves(t, {"session", "store"}, {"offer"})
              \/ Moves(t, {"session", "store"}, {"store", "flush"})
           /\ cb' \in {"none", "client", "server"} /\ vt' \in BOOLEAN
           /\ \/ count' = 0 /\ resets' = resets + 1
              \/ UNCHANGED <<count, resets>>
<1>1. trap[t].at \in {"session", "store"}
  BY DEF Learn, Session, Store
<1> DEFINE Goes == /\ trap'[t].whole = trap[t].whole /\ trap'[t].orig = trap[t].orig
                   /\ trap'[t].must = trap[t].must
                   /\ \/ ~trap[t].whole /\ Moves(t, {"session", "store"}, {"offer"})
                      \/ Moves(t, {"session", "store"}, {"store", "flush"})
<1>2. ASSUME Told(t) PROVE Goes
  BY <1>1, <1>2, ToldEffect DEF Moves
<1>3. ASSUME Goto(t, "store") PROVE Goes
  BY <1>1, <1>3, GotoEffect DEF At, Moves
<1>4. Told(t) \/ Goto(t, "store")
  BY Zenon DEF Learn, Session, Store
<1>5. /\ cb' \in {"none", "client", "server"} /\ vt' \in BOOLEAN
      /\ \/ count' = 0 /\ resets' = resets + 1
         \/ UNCHANGED <<count, resets>>
  <2>1. trap[t].live \in {"client", "server"} /\ cb \in {"none", "client", "server"} /\ vt \in BOOLEAN
    <3>1. trap \in [Threads -> Traps]
      BY DEF TypeOK, Traps, At
    <3> QED BY <3>1 DEF TypeOK, Traps
  <2>2. CASE Session(t)
    <3>1. \/ Forget
          \/ UNCHANGED <<cb, count, resets>> /\ vt' \in {vt, TRUE}
      BY Zenon, <2>2 DEF Session, sessionVars
    <3> QED BY <2>1, <3>1 DEF Forget
  <2>3. CASE Store(t)
    BY <2>1, <2>3 DEF Store, queueVars
  <2> QED BY <2>2, <2>3 DEF Learn
<1> QED BY <1>2, <1>3, <1>4, <1>5

LEMMA OfferEffect ==
    ASSUME TypeOK, NEW t \in Threads, Offer(t)
    PROVE  /\ Moves(t, {"offer"}, {"call"})
           /\ trap'[t].must = {}
           /\ t \in Senders => trap'[t].orig = ("out" \in tables)
           /\ t \notin Senders => trap'[t].orig = trap[t].orig
<1>1. trap \in [Threads -> Traps] /\ trap[t].at = "offer"
  BY DEF TypeOK, Traps, At, Offer
<1>2. PICK found \in BOOLEAN :
         /\ trap' = [trap EXCEPT ![t] = Going("call", found)]
         /\ t \in Senders => found = ("out" \in tables)
         /\ t \notin Senders => found = trap[t].orig
  <2>1. /\ ("out" \in tables) \in BOOLEAN /\ trap[t].orig \in BOOLEAN
    BY <1>1 DEF Traps
  <2>2. CASE t \in Senders
    BY Zenon, <2>1, <2>2 DEF Offer
  <2>3. CASE t \notin Senders
    BY Zenon, <2>1, <2>3 DEF Offer
  <2> QED BY <2>2, <2>3
<1> DEFINE r == Going("call", found)
<1>3. r \in Traps /\ r.at = "call" /\ r.orig = found /\ r.must = {}
  BY GoingTrap DEF At
<1>4. trap' = [trap EXCEPT ![t] = r]
  BY Zenon, <1>2
<1> HIDE DEF r
<1>5. Moves(t, {"offer"}, {"call"})
  BY <1>1, <1>3, <1>4 DEF Moves
<1>6. trap'[t].must = {} /\ trap'[t].orig = found
  BY <1>1, <1>3, <1>4
<1>7. (t \in Senders => trap'[t].orig = ("out" \in tables))
      /\ (t \notin Senders => trap'[t].orig = trap[t].orig)
  BY Zenon, <1>2, <1>6
<1> QED BY <1>5, <1>6, <1>7

LEMMA LeavingEffect ==
    ASSUME TypeOK, NEW t \in Threads, Drop(t) \/ Call(t)
    PROVE  /\ Moves(t, {"offer", "call", "passing"}, {"leaving"})
           /\ trap'[t].must = {}
<1>1. /\ trap \in [Threads -> Traps] /\ trap[t].at \in {"offer", "call", "passing"}
      /\ trap' = [trap EXCEPT ![t] = [Out EXCEPT !.at = "leaving"]]
  BY DEF TypeOK, Traps, At, Drop, Call
<1> DEFINE r == [Out EXCEPT !.at = "leaving"]
<1>2. r \in Traps /\ r.at = "leaving" /\ r.must = {}
  BY DEF Out, Traps, At, Brief, Kinds
<1> HIDE DEF r
<1>3. trap' = [trap EXCEPT ![t] = r]
  BY <1>1 DEF r
<1> QED BY <1>1, <1>2, <1>3 DEF Moves

LEMMA LeaveEffect ==
    ASSUME TypeOK, NEW t \in Threads, Leave(t)
    PROVE  /\ Moves(t, {"leaving"}, {"out"})
           /\ trap'[t].must = {}
<1>1. trap \in [Threads -> Traps] /\ trap[t].at = "leaving" /\ trap' = [trap EXCEPT ![t] = Out]
  BY DEF TypeOK, Traps, At, Leave
<1>2. Out \in Traps /\ Out.at = "out" /\ Out.must = {}
  BY DEF Out, Traps, At, Kinds
<1> QED BY <1>1, <1>2 DEF Moves

\* The steps of a counted trap between its look at m_uninstalled and its end.
Busy == {"session", "store", "flush", "swap", "deliver", "offer", "call"}

\* The flush of an inbound trap.
Flush(t) == ReadCount(t) \/ Swap(t) \/ Deliver(t) \/ EndFlush(t)

LEMMA FlushEffect ==
    ASSUME TypeOK, NEW t \in Threads, Flush(t)
    PROVE  /\ trap \in [Threads -> Traps] /\ UNCHANGED <<hookVars, active, sessionVars, pushed, inject>>
           /\ trap'[t].whole = trap[t].whole /\ trap'[t].orig = trap[t].orig
           /\ trap'[t].must = trap[t].must
           /\ \/ count = 0 /\ Moves(t, {"flush"}, {"offer"})
              \/ count # 0 /\ Moves(t, {"flush"}, {"swap"})
              \/ Swap(t) /\ Moves(t, {"swap"}, {"deliver"})
              \/ Deliver(t) /\ Moves(t, {"deliver"}, {"deliver"})
              \/ batch[t] = <<>> /\ Moves(t, {"deliver"}, {"offer"})
           /\ ~Swap(t) => UNCHANGED <<queue, count>>
           /\ ~Swap(t) /\ ~Deliver(t) => UNCHANGED <<batch, handled, lost>>
<1>1. trap \in [Threads -> Traps]
  BY DEF TypeOK, Traps, At
<1>2. {"offer", "swap", "deliver"} \subseteq At
  BY DEF At
<1>3. CASE ReadCount(t)
  BY <1>1, <1>2, <1>3, GotoEffect DEF ReadCount, queueVars
<1>4. CASE Swap(t)
  BY <1>1, <1>2, <1>4, GotoEffect DEF Swap
<1>5. CASE Deliver(t)
  <2>1. UNCHANGED trap /\ trap[t].at = "deliver"
    BY <1>5 DEF Deliver
  <2>2. Moves(t, {"deliver"}, {"deliver"})
    BY <1>1, <2>1 DEF Moves
  <2> QED BY <1>1, <1>5, <2>1, <2>2 DEF Deliver
<1>6. CASE EndFlush(t)
  BY <1>1, <1>2, <1>6, GotoEffect DEF EndFlush, queueVars
<1> QED BY <1>3, <1>4, <1>5, <1>6 DEF Flush

\* A step of a trap, as far as the hooks and the count are concerned.
LEMMA TrapMoves ==
    ASSUME TypeOK, NEW t \in Threads,
           \/ Enters(t)
           \/ Advance(t)
    PROVE  /\ UNCHANGED hookVars
           /\ \/ /\ Moves(t, {"out"}, {"entered"}) /\ active' = active
                 /\ Dir(t) \in hooked
              \/ Moves(t, {"entered"}, {"guarded"}) /\ active' = active + 1
              \/ /\ Moves(t, {"guarded"}, {"passing", "session", "offer"}) /\ active' = active
                 /\ trap'[t].orig = (Dir(t) \in tables)
                 /\ Uninstalling => trap'[t].at = "passing"
              \/ /\ Moves(t, Busy, Busy) /\ active' = active
                 /\ trap'[t].orig = trap[t].orig \/ trap'[t].orig = (Dir(t) \in tables)
              \/ Moves(t, {"offer", "call", "passing"}, {"leaving"}) /\ active' = active - 1
              \/ Moves(t, {"leaving"}, {"out"}) /\ active' = active
<1>1. CASE Enters(t)
  <2>1. PICK kind \in Kinds, live \in {"client", "server"}, whole \in BOOLEAN :
            Enter(t, kind, live, whole) /\ (t \in Senders => ~whole)
    BY <1>1 DEF Enters
  <2> QED BY <2>1, EnterEffect DEF Enter
<1>2. CASE Guard(t)
  <2>1. Moves(t, {"entered"}, {"guarded"})
    BY <1>2, GotoEffect DEF Guard, At, Brief
  <2> QED BY <1>2, <2>1 DEF Guard
<1>3. CASE Check(t)
  <2>1. UNCHANGED <<hookVars, active>>
    BY <1>3 DEF Check
  <2>2. /\ Moves(t, {"guarded"}, {"passing", "session", "offer"})
        /\ Uninstalling => trap'[t].at = "passing"
    BY <1>3, CheckEffect DEF Moves
  <2> QED BY <1>3, <2>1, <2>2, CheckEffect
<1>4. CASE Learn(t)
  <2>1. Moves(t, Busy, Busy)
    BY <1>4, LearnEffect DEF Moves, Busy
  <2> QED BY <1>4, <2>1, LearnEffect DEF Learn, Session, Store
<1>5. CASE Flush(t)
  <2>1. Moves(t, Busy, Busy)
    BY <1>5, FlushEffect DEF Moves, Busy
  <2> QED BY <1>5, <2>1, FlushEffect
<1>6. CASE Offer(t)
  <2>1. Moves(t, Busy, Busy)
    BY <1>6, OfferEffect DEF Moves, Busy
  <2>2. trap'[t].orig = trap[t].orig \/ trap'[t].orig = (Dir(t) \in tables)
    BY <1>6, OfferEffect, InterceptorAssumption DEF Dir
  <2> QED BY <1>6, <2>1, <2>2 DEF Offer
<1>7. CASE Drop(t) \/ Call(t)
  BY <1>7, LeavingEffect DEF Drop, Call
<1>8. CASE Leave(t)
  BY <1>8, LeaveEffect DEF Leave
<1> QED BY <1>1, <1>2, <1>3, <1>4, <1>5, <1>6, <1>7, <1>8 DEF Advance, Flush, Learn

-----------------------------------------------------------------------------
(* Types, and the count of the traps. *)

LEMMA FiniteThreads == IsFiniteSet(Counted) /\ IsFiniteSet(Receivers)
BY InterceptorAssumption, FS_Subset DEF Counted, Threads

\* Where a trap is not counted.
Free == {"out", "entered", "leaving"}

\* m_activeTraps follows a trap that is counted, or uncounted, or neither.
LEMMA CountStep ==
    ASSUME CountInv, NEW t \in Threads, \A u \in Threads : u # t => trap'[u] = trap[u],
           \/ trap[t].at \in Free /\ trap'[t].at \notin Free /\ active' = active + 1
           \/ trap[t].at \notin Free /\ trap'[t].at \in Free /\ active' = active - 1
           \/ (trap[t].at \in Free <=> trap'[t].at \in Free) /\ active' = active
    PROVE  CountInv'
<1>1. IsFiniteSet(Counted) /\ Cardinality(Counted) \in Nat /\ active = Cardinality(Counted)
  BY FiniteThreads, FS_CardinalityType DEF CountInv
<1>2. CASE trap[t].at \in Free /\ trap'[t].at \notin Free /\ active' = active + 1
  <2>1. Counted' = Counted \cup {t} /\ t \notin Counted
    BY <1>2 DEF Counted, Free
  <2>2. Cardinality(Counted') = Cardinality(Counted) + 1
    BY <1>1, <2>1, FS_AddElement
  <2> QED BY <1>1, <1>2, <2>2 DEF CountInv
<1>3. CASE trap[t].at \notin Free /\ trap'[t].at \in Free /\ active' = active - 1
  <2>1. Counted' = Counted \ {t} /\ t \in Counted
    BY <1>3 DEF Counted, Free
  <2>2. Cardinality(Counted') = Cardinality(Counted) - 1
    BY <1>1, <2>1, FS_RemoveElement
  <2> QED BY <1>1, <1>3, <2>2 DEF CountInv
<1>4. CASE (trap[t].at \in Free <=> trap'[t].at \in Free) /\ active' = active
  <2>1. Counted' = Counted
    BY <1>4 DEF Counted, Free
  <2> QED BY <1>1, <1>4, <2>1 DEF CountInv
<1> QED BY <1>2, <1>3, <1>4

LEMMA CountNext == ASSUME TypeOK, CountInv, [Next]_vars PROVE CountInv'
<1>1. ASSUME UNCHANGED <<trap, active>> PROVE CountInv'
  BY <1>1 DEF CountInv, Counted
<1>2. ASSUME NEW t \in Threads,
             \/ Enters(t)
             \/ Advance(t)
      PROVE  CountInv'
  <2>1. CASE Moves(t, {"out"}, {"entered"}) /\ active' = active
    BY <2>1, CountStep DEF Moves, Free
  <2>2. CASE Moves(t, {"entered"}, {"guarded"}) /\ active' = active + 1
    BY <2>2, CountStep DEF Moves, Free
  <2>3. CASE Moves(t, {"guarded"}, {"passing", "session", "offer"}) /\ active' = active
    BY <2>3, CountStep DEF Moves, Free
  <2>4. CASE Moves(t, Busy, Busy) /\ active' = active
    BY <2>4, CountStep DEF Moves, Free, Busy
  <2>5. CASE Moves(t, {"offer", "call", "passing"}, {"leaving"}) /\ active' = active - 1
    BY <2>5, CountStep DEF Moves, Free
  <2>6. CASE Moves(t, {"leaving"}, {"out"}) /\ active' = active
    BY <2>6, CountStep DEF Moves, Free
  <2> QED BY <1>2, <2>1, <2>2, <2>3, <2>4, <2>5, <2>6, TrapMoves
<1>3. CASE \/ Fill \/ Enable \/ HookSender \/ Reset \/ Uninstall
           \/ (\E p \in Packets : Push(p) \/ CountUp(p)) \/ UNCHANGED vars
  <2>1. UNCHANGED <<trap, active>>
    BY <1>3 DEF Fill, Enable, HookSender, Reset, Uninstall, SetFlag, Disable, Drain,
                Remove, ClearTables, Push, CountUp, vars
  <2> QED BY <1>1, <2>1
<1>4. CASE \E t \in Receivers : EnterInbound(t)
  BY <1>2, <1>4, EntersIs
<1>5. CASE \E t \in Senders : EnterOutbound(t)
  BY <1>2, <1>5, EntersIs
<1>6. CASE \E t \in Threads : Advance(t)
  BY <1>2, <1>6
<1> QED BY <1>3, <1>4, <1>5, <1>6 DEF Next

LEMMA TypeInit == Init => TypeOK /\ CountInv
<1> SUFFICES ASSUME Init PROVE TypeOK /\ CountInv
  OBVIOUS
<1>1. CountInv
  <2>1. Counted = {}
    BY DEF Init, Counted, Out
  <2> QED BY <2>1, FS_EmptySet DEF Init, CountInv
<1>2. trap \in [Threads -> Traps]
  BY OutTrap DEF Init
<1>3. <<>> \in Seq(Packets) /\ <<>> \in Seq(Packets \X {"client", "server"})
  OBVIOUS
<1> QED BY <1>1, <1>2, <1>3 DEF Init, TypeOK, Traps, At

LEMMA DeliverType ==
    ASSUME TypeOK, NEW t \in Receivers, Deliver(t)
    PROVE  /\ batch' \in [Receivers -> Seq(Packets)]
           /\ handled' \in Seq(Packets \X {"client", "server"}) /\ lost' \subseteq Packets
<1>1. batch[t] \in Seq(Packets) /\ batch[t] # <<>> /\ batch' = [batch EXCEPT ![t] = Tail(@)]
  BY DEF TypeOK, Deliver
<1>2. Head(batch[t]) \in Packets /\ Tail(batch[t]) \in Seq(Packets)
  BY <1>1, HeadTailProperties
<1>3. \A target \in Targets(trap[t].live) : target \in {"none", "client"}
  BY DEF Targets
<1>4. \/ lost' = lost \cup {Head(batch[t])} /\ UNCHANGED handled
      \/ handled' = Append(handled, <<Head(batch[t]), "client">>) /\ UNCHANGED lost
  BY <1>3 DEF Deliver
<1>5. <<Head(batch[t]), "client">> \in Packets \X {"client", "server"}
  BY <1>2
<1>6. batch \in [Receivers -> Seq(Packets)] /\ handled \in Seq(Packets \X {"client", "server"})
      /\ lost \subseteq Packets
  BY DEF TypeOK
<1>7. batch' \in [Receivers -> Seq(Packets)]
  BY <1>1, <1>2, <1>6
<1>8. lost' \subseteq Packets
  BY <1>2, <1>4, <1>6
<1>9. handled' \in Seq(Packets \X {"client", "server"})
  <2>1. Append(handled, <<Head(batch[t]), "client">>) \in Seq(Packets \X {"client", "server"})
    BY <1>5, <1>6, AppendProperties
  <2> QED BY <1>4, <1>6, <2>1
<1> QED BY <1>7, <1>8, <1>9

\* What a flush does to the queue and the batches.
LEMMA FlushType ==
    ASSUME TypeOK, NEW t \in Receivers, Flush(t)
    PROVE  /\ batch' \in [Receivers -> Seq(Packets)] /\ queue' \in Seq(Packets) /\ count' \in Nat
           /\ handled' \in Seq(Packets \X {"client", "server"}) /\ lost' \subseteq Packets
<1>1. CASE Swap(t)
  <2>1. /\ UNCHANGED <<handled, lost>>
        /\ \/ UNCHANGED <<batch, queue, count>>
           \/ batch' = [batch EXCEPT ![t] = queue] /\ queue' = <<>> /\ count' = 0
    <3>1. CASE queue = <<>>
      BY <1>1, <3>1 DEF Swap
    <3>2. CASE queue # <<>>
      BY <1>1, <3>2 DEF Swap
    <3> QED BY <3>1, <3>2
  <2>2. /\ <<>> \in Seq(Packets) /\ queue \in Seq(Packets) /\ count \in Nat
        /\ batch \in [Receivers -> Seq(Packets)]
    BY DEF TypeOK
  <2>3. CASE UNCHANGED <<batch, queue, count>>
    BY <2>2, <2>3, <2>1 DEF TypeOK
  <2>4. CASE batch' = [batch EXCEPT ![t] = queue] /\ queue' = <<>> /\ count' = 0
    <3>1. batch' \in [Receivers -> Seq(Packets)]
      BY <2>2, <2>4
    <3>2. queue' \in Seq(Packets) /\ count' \in Nat
      BY <2>2, <2>4
    <3> QED BY <2>1, <3>1, <3>2 DEF TypeOK
  <2> QED BY <2>1, <2>3, <2>4
<1>2. CASE Deliver(t)
  BY <1>2, DeliverType DEF Deliver, TypeOK
<1>3. CASE ReadCount(t) \/ EndFlush(t)
  BY <1>3 DEF ReadCount, EndFlush, queueVars, TypeOK
<1> QED BY <1>1, <1>2, <1>3 DEF Flush

LEMMA TypeNext == ASSUME TypeOK, CountInv, [Next]_vars PROVE TypeOK'
<1>1. active' \in Nat
  <2>1. CountInv'
    BY CountNext
  <2>2. IsFiniteSet(Counted)'
    BY InterceptorAssumption, FS_Subset DEF Counted, Threads
  <2>3. Cardinality(Counted)' \in Nat
    BY <2>2, FS_CardinalityType
  <2> QED BY <2>1, <2>3 DEF CountInv
<1> USE <1>1
<1>2. /\ count \in Nat /\ resets \in Nat /\ cb \in {"none", "client", "server"} /\ vt \in BOOLEAN
  BY DEF TypeOK
<1>3. /\ queue \in Seq(Packets) /\ pushed \in Seq(Packets)
      /\ inject \in [Packets -> {"new", "pushed", "done"}]
  BY DEF TypeOK
<1>4. CASE Fill \/ Enable \/ HookSender \/ Reset \/ Uninstall \/ UNCHANGED vars
  <2>1. UNCHANGED <<trap, queue, inject, pushed, handled, lost, batch>>
    BY <1>4 DEF Fill, Enable, HookSender, Reset, Uninstall, SetFlag, Disable, Drain,
                Remove, ClearTables, vars, queueVars
  <2>2. /\ run' \in {"start", "filled", "live", "flagged", "disabled", "drained",
                    "removed", "cleared"}
        /\ hooked' \subseteq {"in", "out"} /\ tables' \subseteq {"in", "out"}
    BY <1>4 DEF Fill, Enable, HookSender, Reset, Uninstall, SetFlag, Disable, Drain,
                Remove, ClearTables, vars, hookVars, TypeOK
  <2>3. \/ UNCHANGED sessionVars /\ UNCHANGED count
        \/ UNCHANGED <<count, resets>> /\ cb' = "none" /\ vt' = FALSE
        \/ Forget
    BY <1>4 DEF Fill, Enable, HookSender, Reset, Forget, Uninstall, SetFlag, Disable, Drain,
                Remove, ClearTables, vars, queueVars, sessionVars
  <2>4. cb' \in {"none", "client", "server"} /\ vt' \in BOOLEAN
    BY Zenon, <1>2, <2>3 DEF sessionVars, Forget
  <2>5. count' = count \/ count' = 0
    BY Zenon, <2>3 DEF Forget
  <2>6. resets' = resets \/ resets' = resets + 1
    BY Zenon, <2>3 DEF sessionVars, Forget
  <2>7. count' \in Nat /\ resets' \in Nat
    <3>1. count \in Nat /\ resets \in Nat
      BY <1>2
    <3> QED BY <2>5, <2>6, <3>1
  <2> QED BY <2>1, <2>2, <2>4, <2>7 DEF TypeOK
<1>5. CASE \E p \in Packets : Push(p) \/ CountUp(p)
  <2>1. PICK p \in Packets : Push(p) \/ CountUp(p)
    BY <1>5
  <2>2. UNCHANGED <<trap, hookVars, sessionVars, handled, lost, batch>>
    BY <2>1 DEF Push, CountUp
  <2>3. inject' \in [Packets -> {"new", "pushed", "done"}] /\ count' \in Nat
    <3>1. count \in Nat
      BY <1>2
    <3>2. count' = count \/ count' = count + 1
      BY <2>1 DEF Push, CountUp
    <3>3. inject' = [inject EXCEPT ![p] = "pushed"] \/ inject' = [inject EXCEPT ![p] = "done"]
      BY <2>1 DEF Push, CountUp
    <3> QED BY <1>3, <3>1, <3>2, <3>3
  <2>4. queue' \in Seq(Packets) /\ pushed' \in Seq(Packets)
    <3>1. Append(queue, p) \in Seq(Packets) /\ Append(pushed, p) \in Seq(Packets)
      BY <1>3, AppendProperties
    <3> QED BY <1>3, <2>1, <3>1 DEF Push, CountUp
  <2>5. resets' \in Nat /\ cb' \in {"none", "client", "server"} /\ vt' \in BOOLEAN
    BY <1>2, <2>2 DEF sessionVars
  <2> QED BY <2>2, <2>3, <2>4, <2>5 DEF TypeOK, hookVars
<1>6. ASSUME NEW t \in Threads,
             \/ Enters(t)
             \/ t \notin Receivers /\ Advance(t)
             \/ Guard(t) \/ Check(t) \/ Offer(t) \/ Drop(t) \/ Call(t) \/ Leave(t)
      PROVE  TypeOK'
  <2>1. trap' \in [Threads -> Traps]
    BY <1>6, TrapMoves DEF Moves, Advance
  <2>2. UNCHANGED <<hookVars, queueVars, sessionVars>>
    BY <1>6 DEF Advance, Enters, Enter, Guard, Check, Offer, Drop, Call, Leave
  <2> QED BY <2>1, <2>2 DEF TypeOK, Traps, At, hookVars, queueVars, sessionVars
<1>7. ASSUME NEW t \in Receivers, Flush(t) PROVE TypeOK'
  <2>1. trap' \in [Threads -> Traps]
    BY <1>7, FlushEffect DEF Moves, Threads
  <2>2. UNCHANGED <<hookVars, sessionVars, pushed, inject>>
    BY <1>7, FlushEffect DEF Threads
  <2> QED BY <1>7, <2>1, <2>2, FlushType DEF TypeOK, Traps, At, hookVars, sessionVars
<1>8. ASSUME NEW t \in Receivers, Learn(t) PROVE TypeOK'
  <2>1. trap' \in [Threads -> Traps]
    BY <1>8, LearnEffect DEF Moves, Threads
  <2>2. /\ cb' \in {"none", "client", "server"} /\ vt' \in BOOLEAN
        /\ count' \in Nat /\ resets' \in Nat
    <3>1. /\ cb' \in {"none", "client", "server"} /\ vt' \in BOOLEAN
          /\ count' = 0 \/ count' = count
          /\ resets' = resets + 1 \/ resets' = resets
      BY <1>8, LearnEffect DEF Threads
    <3>2. count \in Nat /\ resets \in Nat
      BY <1>2
    <3>3. count' \in Nat /\ resets' \in Nat
      BY <3>1, <3>2
    <3> QED BY Zenon, <3>1, <3>3
  <2>3. UNCHANGED <<hookVars, active, queue, inject, pushed, handled, lost, batch>>
    BY <1>8 DEF Learn, Session, Store, queueVars
  <2> QED BY <2>1, <2>2, <2>3 DEF TypeOK, Traps, At, hookVars
<1>9. CASE \E t \in Threads : Advance(t)
  BY <1>6, <1>7, <1>8, <1>9 DEF Advance, Flush, Learn, Threads
<1>10. CASE (\E t \in Receivers : EnterInbound(t)) \/ \E t \in Senders : EnterOutbound(t)
  BY <1>6, <1>10, EntersIs
<1> QED BY <1>4, <1>5, <1>9, <1>10 DEF Next

\* Every variable keeps the type its declaration gives it; above all, the count of the traps
\* at work, a counter that goes up and down on every thread of the game, is never negative.
THEOREM TypeCorrect == Spec => []TypeOK
<1>1. Init => TypeOK /\ CountInv
  BY TypeInit
<1>2. TypeOK /\ CountInv /\ [Next]_vars => (TypeOK /\ CountInv)'
  BY TypeNext, CountNext
<1> QED BY <1>1, <1>2, PTL DEF Spec

-----------------------------------------------------------------------------
(* The hooks, while no trap takes longer than uninstall() waits. *)

HInv == HookInv /\ DrainInv /\ OriginalInv

LEMMA RunNext ==
    ASSUME TypeOK, CountInv, HInv, Patient,
           Fill \/ Enable \/ HookSender \/ Reset \/ Uninstall
    PROVE  HInv'
<1> USE DEF HInv, HookInv, DrainInv, OriginalInv
<1>1. \A t \in Threads : Dir(t)' = Dir(t)
  BY DEF Dir
<1>2. UNCHANGED trap
  BY DEF Fill, Enable, HookSender, Reset, Uninstall, SetFlag, Disable, Drain, Remove, ClearTables
<1>3. CASE Fill
  BY <1>1, <1>2, <1>3 DEF Fill
<1>4. CASE Enable
  BY <1>1, <1>2, <1>4 DEF Enable
<1>5. CASE HookSender
  BY <1>1, <1>2, <1>5 DEF HookSender
<1>6. CASE Reset
  BY <1>1, <1>2, <1>6 DEF Reset, hookVars
<1>7. CASE SetFlag \/ Disable
  BY <1>1, <1>2, <1>7 DEF SetFlag, Disable
<1>8. CASE Drain
  <2>1. Counted = {}
    BY <1>8, FiniteThreads, FS_EmptySet DEF Drain, CountInv
  <2>2. \A t \in Threads : trap[t].at \in Brief \cup {"out"}
    BY <2>1 DEF Counted, Brief
  <2> QED BY <1>1, <1>2, <1>8, <2>2 DEF Drain
<1>9. CASE Remove
  BY <1>1, <1>2, <1>9 DEF Remove
<1>10. CASE ClearTables
  BY <1>1, <1>2, <1>10 DEF ClearTables
<1> QED BY <1>3, <1>4, <1>5, <1>6, <1>7, <1>8, <1>9, <1>10 DEF Uninstall

LEMMA TrapNext ==
    ASSUME TypeOK, HInv, NEW t \in Threads,
           \/ Enters(t)
           \/ Advance(t)
    PROVE  HInv'
<1> USE DEF HInv, HookInv, DrainInv, OriginalInv, Moves
<1>1. UNCHANGED <<run, hooked, tables>>
  BY TrapMoves DEF hookVars
<1>2. Dir(t) \in {"in", "out"} /\ \A u \in Threads : Dir(u)' = Dir(u)
  BY DEF Dir
<1>3. CASE Moves(t, {"out"}, {"entered"}) /\ Dir(t) \in hooked
  BY <1>1, <1>2, <1>3
<1>4. CASE Moves(t, {"entered"}, {"guarded"})
  BY <1>1, <1>2, <1>4 DEF Brief
<1>5. CASE /\ Moves(t, {"guarded"}, {"passing", "session", "offer"})
           /\ trap'[t].orig = (Dir(t) \in tables)
           /\ Uninstalling => trap'[t].at = "passing"
  <2>1. Dir(t) \in tables
    BY <1>5
  <2>2. trap'[t].orig
    BY <1>5, <2>1
  <2> QED BY <1>1, <1>2, <1>5, <2>1, <2>2 DEF Brief, Uninstalling
<1>6. CASE /\ Moves(t, Busy, Busy)
           /\ trap'[t].orig = trap[t].orig \/ trap'[t].orig = (Dir(t) \in tables)
  <2>1. Dir(t) \in tables /\ trap[t].orig
    BY <1>6 DEF Busy
  <2>2. trap'[t].orig
    BY <1>6, <2>1
  <2>3. run \notin {"drained", "removed", "cleared", "start"}
    BY <1>6 DEF Busy, Brief
  <2> QED BY <1>1, <1>2, <1>6, <2>1, <2>2, <2>3 DEF Busy
<1>7. CASE Moves(t, {"offer", "call", "passing"}, {"leaving"})
  BY <1>1, <1>2, <1>7 DEF Brief
<1>8. CASE Moves(t, {"leaving"}, {"out"})
  BY <1>1, <1>2, <1>8
<1> QED BY <1>3, <1>4, <1>5, <1>6, <1>7, <1>8, TrapMoves

LEMMA HookNext == ASSUME TypeOK, CountInv, HInv, Patient, [Next]_vars PROVE HInv'
<1>1. CASE UNCHANGED vars \/ \E p \in Packets : Push(p) \/ CountUp(p)
  <2>1. UNCHANGED <<run, hooked, tables, trap>>
    BY <1>1 DEF Push, CountUp, vars, hookVars
  <2> QED BY <2>1 DEF HInv, HookInv, DrainInv, OriginalInv, Dir
<1>2. CASE Fill \/ Enable \/ HookSender \/ Reset \/ Uninstall
  BY <1>2, RunNext
<1>3. CASE \E t \in Receivers : EnterInbound(t)
  BY <1>3, TrapNext, EntersIs
<1>4. CASE \E t \in Senders : EnterOutbound(t)
  BY <1>4, TrapNext, EntersIs
<1>5. CASE \E t \in Threads : Advance(t)
  BY <1>5, TrapNext
<1> QED BY <1>1, <1>2, <1>3, <1>4, <1>5 DEF Next

LEMMA HooksCorrect == ASSUME Patient PROVE Spec => [](DrainInv /\ OriginalInv)
<1> DEFINE I == TypeOK /\ CountInv /\ HInv
<1>1. Init => I
  BY TypeInit DEF Init, HInv, HookInv, DrainInv, OriginalInv, Out, Brief
<1>2. I /\ [Next]_vars => I'
  BY TypeNext, CountNext, HookNext
<1>3. I => DrainInv /\ OriginalInv
  BY DEF HInv
<1> HIDE DEF I
<1> QED BY <1>1, <1>2, <1>3, PTL DEF Spec

\* uninstall() removes no hook a trap is at work in, however many threads the game runs:
\* the count it waits for, and the pause after it, leave nobody behind.
THEOREM DrainedBeforeRemoval == Patient => (Spec => []Drained)
<1> SUFFICES ASSUME Patient PROVE Spec => []Drained
  OBVIOUS
<1>1. DrainInv /\ OriginalInv => Drained
  BY DEF DrainInv, Drained
<1> QED BY <1>1, HooksCorrect, PTL

\* A trap finds the function it stands for, on install, while hooks are added and till the
\* last trap leaves: no packet is swallowed that no handler dropped.
THEOREM NothingSwallowed == Patient => (Spec => []NoneSwallowed)
<1> SUFFICES ASSUME Patient PROVE Spec => []NoneSwallowed
  OBVIOUS
<1>1. DrainInv /\ OriginalInv => NoneSwallowed
  BY DEF OriginalInv, NoneSwallowed
<1> QED BY <1>1, HooksCorrect, PTL

-----------------------------------------------------------------------------
(* What a flush leaves in the queue, while the session is not reset. *)

MInv == MustInv /\ QueueCounted

\* What MustInv says of one trap.
MustOf(t) ==
    /\ \A p \in trap[t].must : inject[p] = "done"
    /\ ~trap[t].whole => trap[t].must = {}
    /\ t \in Senders => trap[t].must = {}
    /\ resets = 0 /\ trap[t].at \in {"deliver", "offer"}
         => trap[t].must \cap Elements(queue) = {}

\* A trap that moves touches neither the queue nor its count.
LEMMA MustStep ==
    ASSUME MInv, NEW t \in Threads, NEW from, NEW to, Moves(t, from, to), MustOf(t)',
           UNCHANGED <<queue, count, inject, resets>>
    PROVE  MInv'
<1>1. Elements(queue)' = Elements(queue)
  BY DEF Elements
<1>2. ASSUME NEW u \in Threads PROVE MustOf(u)'
  <2>1. MustOf(u)
    BY DEF MInv, MustInv, MustOf
  <2>2. CASE u = t
    BY <2>2
  <2>3. CASE u # t
    BY <1>1, <2>1, <2>3 DEF MustOf, Moves
  <2> QED BY <2>2, <2>3
<1>3. MustInv'
  BY <1>2 DEF MustInv, MustOf
<1>4. QueueCounted'
  BY <1>1 DEF MInv, QueueCounted
<1> QED BY <1>3, <1>4 DEF MInv

\* A reset allows everything afterwards.
LEMMA MustReset ==
    ASSUME TypeOK, MInv, NEW t \in Threads, resets' = resets + 1, UNCHANGED <<queue, inject>>,
           UNCHANGED trap \/ (Moves(t, {"session", "store"}, {"store", "flush", "offer"})
                             /\ trap'[t].must = trap[t].must
                             /\ trap'[t].whole = trap[t].whole)
    PROVE  MInv'
<1>1. resets' # 0
  BY DEF TypeOK
<1>2. \A u \in Threads : trap'[u].must = trap[u].must
                         /\ trap'[u].whole = trap[u].whole
  BY DEF Moves
<1> QED BY <1>1, <1>2 DEF MInv, MustInv, QueueCounted

LEMMA MustTrap ==
    ASSUME TypeOK, MInv, NEW t \in Threads,
           \/ Enters(t)
           \/ Guard(t) \/ Check(t) \/ Offer(t) \/ Drop(t) \/ Call(t) \/ Leave(t)
    PROVE  MInv'
<1>1. UNCHANGED <<queue, count, inject, resets>>
  BY DEF Enters, Enter, Guard, Check, Offer, Drop, Call, Leave, queueVars, sessionVars
<1>2. MustOf(t) /\ Elements(queue)' = Elements(queue)
  BY <1>1 DEF MInv, MustInv, MustOf, Elements
<1>3. CASE Enters(t)
  <2>1. PICK kind \in Kinds, live \in {"client", "server"}, whole \in BOOLEAN :
            Enter(t, kind, live, whole) /\ (t \in Senders => ~whole)
    BY <1>3 DEF Enters
  <2>2. Moves(t, {"out"}, {"entered"}) /\ MustOf(t)'
    BY ZenonT(60), <1>1, <2>1, EnterEffect DEF MustOf, Moves
  <2> QED BY <1>1, <2>2, MustStep
<1>4. CASE Guard(t)
  <2>1. Moves(t, {"entered"}, {"guarded"}) /\ MustOf(t)'
    BY <1>1, <1>2, <1>4, GotoEffect DEF Guard, At, Brief, MustOf, Moves
  <2> QED BY <1>1, <2>1, MustStep
<1>5. CASE Check(t)
  <2>1. MustOf(t)'
    <3>1. CASE trap'[t].must = {}
      BY <3>1 DEF MustOf
    <3>2. CASE trap'[t].must = trap[t].must /\ trap'[t].at = "session"
      BY <1>1, <1>2, <1>5, <3>2, CheckEffect DEF MustOf
    <3>3. CASE trap'[t].must = trap[t].must /\ t \in Senders
      BY <1>2, <3>3 DEF MustOf
    <3> QED BY <1>5, <3>1, <3>2, <3>3, CheckEffect DEF Moves
  <2>2. Moves(t, {"guarded"}, {"passing", "session", "offer"})
    BY <1>5, CheckEffect DEF Moves
  <2> QED BY <1>1, <2>1, <2>2, MustStep
<1>6. CASE Offer(t)
  <2>1. Moves(t, {"offer"}, {"call"}) /\ MustOf(t)'
    BY <1>6, OfferEffect DEF MustOf
  <2> QED BY <1>1, <2>1, MustStep
<1>7. CASE Drop(t) \/ Call(t)
  <2>1. Moves(t, {"offer", "call", "passing"}, {"leaving"}) /\ MustOf(t)'
    BY <1>7, LeavingEffect DEF MustOf
  <2> QED BY <1>1, <2>1, MustStep
<1>8. CASE Leave(t)
  <2>1. Moves(t, {"leaving"}, {"out"}) /\ MustOf(t)'
    BY <1>8, LeaveEffect DEF MustOf
  <2> QED BY <1>1, <2>1, MustStep
<1> QED BY <1>3, <1>4, <1>5, <1>6, <1>7, <1>8

LEMMA MustLearn == ASSUME TypeOK, MInv, NEW t \in Threads, Learn(t) PROVE MInv'
<1>1. UNCHANGED <<queue, inject>>
  BY DEF Learn, Session, Store, queueVars
<1>2. MustOf(t)
  BY DEF MInv, MustInv, MustOf
<1>3. Moves(t, {"session", "store"}, {"store", "flush", "offer"})
  BY LearnEffect DEF Moves
<1>4. CASE resets' = resets + 1
  BY <1>1, <1>3, <1>4, MustReset, LearnEffect
<1>5. CASE UNCHANGED <<count, resets>>
  <2>1. MustOf(t)'
    BY <1>1, <1>2, <1>5, LearnEffect DEF MustOf, Moves
  <2> QED BY <1>1, <1>3, <1>5, <2>1, MustStep
<1> QED BY <1>4, <1>5, LearnEffect

LEMMA MustFlush == ASSUME TypeOK, MInv, NEW t \in Threads, Flush(t) PROVE MInv'
<1>1. UNCHANGED <<inject, resets>>
  BY FlushEffect DEF sessionVars
<1>2. MustOf(t)
  BY DEF MInv, MustInv, MustOf
<1>3. CASE Swap(t)
  <2>1. Elements(queue)' = {}
    <3>1. queue' = <<>>
      BY <1>3 DEF Swap
    <3> QED BY <3>1 DEF Elements
  <2>2. \A u \in Threads : trap'[u].must = trap[u].must /\ trap'[u].whole = trap[u].whole
    BY FlushEffect DEF Moves
  <2> QED BY <1>1, <2>1, <2>2 DEF MInv, MustInv, QueueCounted
<1>4. CASE ~Swap(t)
  <2>1. UNCHANGED <<queue, count, inject, resets>> /\ Elements(queue)' = Elements(queue)
    BY <1>1, <1>4, FlushEffect DEF Elements
  <2>2. CASE count = 0 /\ Moves(t, {"flush"}, {"offer"})
    <3>1. resets = 0 => trap[t].must \cap Elements(queue) = {}
      BY <1>2, <2>2 DEF MInv, QueueCounted, MustOf
    <3>2. MustOf(t)'
      BY <1>2, <2>1, <3>1, FlushEffect DEF MustOf
    <3> QED BY <2>1, <2>2, <3>2, MustStep
  <2>3. CASE Moves(t, {"flush"}, {"swap"})
    <3>1. MustOf(t)'
      BY <1>2, <2>1, <2>3, FlushEffect DEF MustOf, Moves
    <3> QED BY <2>1, <2>3, <3>1, MustStep
  <2>4. CASE Moves(t, {"deliver"}, {"deliver", "offer"})
    <3>1. MustOf(t)'
      BY <1>2, <2>1, <2>4, FlushEffect DEF MustOf, Moves
    <3> QED BY <2>1, <2>4, <3>1, MustStep
  <2>5. Moves(t, {"deliver"}, {"deliver"}) \/ Moves(t, {"deliver"}, {"offer"})
          => Moves(t, {"deliver"}, {"deliver", "offer"})
    BY DEF Moves
  <2> QED BY <1>4, <2>2, <2>3, <2>4, <2>5, FlushEffect
<1> QED BY <1>3, <1>4

LEMMA MustNext == ASSUME TypeOK, MInv, [Next]_vars PROVE MInv'
<1> USE DEF MInv, MustInv, QueueCounted
<1>1. ASSUME NEW p \in Packets, Push(p) PROVE MInv'
  <2>1. Elements(queue)' = Elements(queue) \cup {p}
    BY <1>1, AppendElements DEF TypeOK, Push, Elements
  <2>2. inject[p] = "new" /\ inject' = [inject EXCEPT ![p] = "pushed"]
    BY <1>1 DEF Push
  <2>3. UNCHANGED <<trap, count, resets>>
    BY <1>1 DEF Push, sessionVars
  <2>4. \A t \in Threads : p \notin trap[t].must
    BY <2>2
  <2>5. \A q \in DOMAIN inject : q # p => inject'[q] = inject[q]
    BY <2>2
  <2>6. inject'[p] = "pushed" /\ DOMAIN inject = Packets /\ Elements(queue) \subseteq Packets
        /\ \A t \in Threads : trap[t].must \subseteq Packets
    BY <2>2, SeqDef DEF TypeOK, Elements
  <2> QED BY <2>1, <2>3, <2>4, <2>5, <2>6
<1>2. ASSUME NEW p \in Packets, CountUp(p) PROVE MInv'
  <2>1. UNCHANGED <<trap, queue, resets>> /\ Elements(queue)' = Elements(queue)
    BY <1>2 DEF CountUp, sessionVars, Elements
  <2>2. count' > 0
    BY <1>2 DEF CountUp, TypeOK
  <2>3. \A q : inject[q] = "done" => inject'[q] = "done"
    BY <1>2 DEF CountUp
  <2> QED BY <2>1, <2>2, <2>3
<1>3. CASE Reset
  <2>1. UNCHANGED <<trap, queue, inject>> /\ resets' = resets + 1
    BY <1>3 DEF Reset, Forget
  <2>2. resets' # 0
    BY <2>1 DEF TypeOK
  <2> QED BY <2>1, <2>2
<1>4. CASE Fill \/ Enable \/ HookSender \/ Uninstall \/ UNCHANGED vars
  <2>1. UNCHANGED <<trap, queue, inject, count, resets>>
    BY <1>4 DEF Fill, Enable, HookSender, Uninstall, SetFlag, Disable, Drain, Remove,
                ClearTables, vars, queueVars, sessionVars
  <2> QED BY <2>1 DEF Elements
<1>5. CASE \E t \in Receivers : EnterInbound(t)
  BY <1>5, MustTrap, EntersIs
<1>6. CASE \E t \in Senders : EnterOutbound(t)
  BY <1>6, MustTrap, EntersIs
<1>7. CASE \E t \in Threads : Advance(t)
  BY <1>7, MustTrap, MustLearn, MustFlush DEF Advance, Flush, Learn
<1> QED BY <1>1, <1>2, <1>3, <1>4, <1>5, <1>6, <1>7 DEF Next

\* As long as nobody resets the session, a trap that goes on to the Pipeline has left in the
\* queue no packet that was injected before it began: the count is never behind the queue.
THEOREM FlushedBeforeReset == Spec => [](resets = 0 => FlushedByTrap)
<1> DEFINE I == TypeOK /\ CountInv /\ MInv
<1>1. Init => I
  <2>1. Init => MInv
    BY DEF Init, MInv, MustInv, QueueCounted, Out, Elements
  <2> QED BY <2>1, TypeInit
<1>2. I /\ [Next]_vars => I'
  BY TypeNext, CountNext, MustNext
<1>3. I => (resets = 0 => FlushedByTrap)
  BY DEF MInv, MustInv, FlushedByTrap, Threads
<1> HIDE DEF I
<1> QED BY <1>1, <1>2, <1>3, PTL DEF Spec

-----------------------------------------------------------------------------
(* The mailbox the queue, its count and the batches implement. *)

\* Nothing moves between the queue and the batches.
LEMMA PlaceQuiet ==
    ASSUME PlaceInv, OrderInv, UNCHANGED <<queue, batch, pushed>>,
           \A p \in Packets : inject'[p] = "new" <=> inject[p] = "new",
           \A t \in Receivers : \/ trap[t].at # "deliver" \/ trap'[t].at = "deliver"
                                \/ batch[t] = <<>>
    PROVE  PlaceInv' /\ OrderInv' /\ Waiting' = Waiting
<1>1. /\ Elements(queue)' = Elements(queue) /\ Elements(pushed)' = Elements(pushed)
      /\ Distinct(queue)' = Distinct(queue) /\ Distinct(pushed)' = Distinct(pushed)
      /\ \A t \in Receivers : /\ Elements(batch[t])' = Elements(batch[t])
                              /\ Distinct(batch[t])' = Distinct(batch[t])
  BY DEF Elements, Distinct
<1>2. Waiting' = Waiting
  BY <1>1 DEF Waiting
<1>3. PlaceInv'
  <2>1. /\ Distinct(queue) /\ Distinct(pushed)
        /\ \A p \in Packets : p \in Elements(pushed) <=> inject'[p] # "new"
        /\ Elements(queue) \subseteq Elements(pushed)
    BY DEF PlaceInv
  <2>2. ASSUME NEW t \in Receivers
        PROVE  /\ Distinct(batch[t])
               /\ Elements(batch[t]) \subseteq Elements(pushed)
               /\ Elements(batch[t]) \cap Elements(queue) = {}
               /\ trap'[t].at # "deliver" => batch[t] = <<>>
               /\ \A u \in Receivers : u # t => Elements(batch[t]) \cap Elements(batch[u]) = {}
    BY DEF PlaceInv
  <2> QED BY <1>1, <2>1, <2>2 DEF PlaceInv
<1>4. OrderInv'
  BY DEF OrderInv
<1> QED BY <1>2, <1>3, <1>4

LEMMA PlacePush ==
    ASSUME TypeOK, PlaceInv, OrderInv, NEW p \in Packets, Push(p)
    PROVE  PlaceInv' /\ OrderInv' /\ Waiting' = Waiting \cup {p} /\ p \notin Elements(pushed)
<1>1. /\ queue \in Seq(Packets) /\ pushed \in Seq(Packets)
      /\ queue' = Append(queue, p) /\ pushed' = Append(pushed, p)
      /\ UNCHANGED <<batch, trap>>
  BY DEF TypeOK, Push
<1>2. inject[p] = "new" /\ inject' = [inject EXCEPT ![p] = "pushed"]
      /\ inject \in [Packets -> {"new", "pushed", "done"}]
  BY DEF TypeOK, Push
<1>3. p \notin Elements(pushed) /\ p \notin Elements(queue)
      /\ \A t \in Receivers : p \notin Elements(batch[t])
  BY <1>2 DEF PlaceInv
<1>4. /\ Elements(queue') = Elements(queue) \cup {p}
      /\ Elements(pushed') = Elements(pushed) \cup {p}
      /\ Distinct(queue') /\ Distinct(pushed')
  BY <1>1, <1>3, AppendElements DEF PlaceInv
<1>5. Waiting' = Waiting \cup {p}
  BY <1>1, <1>4 DEF Waiting, Elements
<1>6. PlaceInv'
  <2>1. \A q \in Packets : q \in Elements(pushed') <=> inject'[q] # "new"
    BY <1>2, <1>4 DEF PlaceInv
  <2>2. Elements(queue') \subseteq Elements(pushed')
    BY <1>4 DEF PlaceInv
  <2>3. ASSUME NEW t \in Receivers
        PROVE  /\ Distinct(batch[t])
               /\ Elements(batch[t]) \subseteq Elements(pushed')
               /\ Elements(batch[t]) \cap Elements(queue') = {}
               /\ trap[t].at # "deliver" => batch[t] = <<>>
               /\ \A u \in Receivers : u # t => Elements(batch[t]) \cap Elements(batch[u]) = {}
    BY <1>3, <1>4 DEF PlaceInv
  <2>4. /\ Distinct(queue)' /\ Distinct(pushed)'
        /\ Elements(queue)' = Elements(queue') /\ Elements(pushed)' = Elements(pushed')
        /\ \A t \in Receivers : Distinct(batch[t])' = Distinct(batch[t])
                                /\ Elements(batch[t])' = Elements(batch[t])
    <3>1. Elements(queue)' = Elements(queue') /\ Elements(pushed)' = Elements(pushed')
      BY DEF Elements
    <3>2. Distinct(queue)' = Distinct(queue') /\ Distinct(pushed)' = Distinct(pushed')
      BY DEF Distinct
    <3>3. UNCHANGED batch
      BY <1>1
    <3>4. \A t \in Receivers : Distinct(batch[t])' = Distinct(batch[t])
      BY <3>3 DEF Distinct
    <3>5. \A t \in Receivers : Elements(batch[t])' = Elements(batch[t])
      BY <3>3 DEF Elements
    <3> QED BY <1>4, <3>1, <3>2, <3>4, <3>5
  <2> QED BY <1>1, <2>1, <2>2, <2>3, <2>4 DEF PlaceInv
<1>7. OrderInv'
  <2> SUFFICES ASSUME NEW t \in Receivers, Receivers = {t}
               PROVE  /\ Len(batch[t]) + Len(queue') <= Len(pushed')
                      /\ \A i \in 1..Len(batch[t]) :
                           batch[t][i] = pushed'[Len(pushed') - Len(queue') - Len(batch[t]) + i]
                      /\ \A i \in 1..Len(queue') : queue'[i] = pushed'[Len(pushed') - Len(queue') + i]
    BY <1>1 DEF OrderInv
  <2> DEFINE n == Len(pushed)
             b == Len(batch[t])
             q == Len(queue)
  <2>1. n \in Nat /\ b \in Nat /\ q \in Nat
    BY <1>1 DEF TypeOK
  <2>2. /\ b + q <= n
        /\ \A i \in 1..b : batch[t][i] = pushed[n - q - b + i]
        /\ \A i \in 1..q : queue[i] = pushed[n - q + i]
    BY DEF OrderInv
  <2>3. /\ Len(pushed') = n + 1 /\ Len(queue') = q + 1
        /\ \A i \in 1..n : pushed'[i] = pushed[i]
        /\ \A i \in 1..q : queue'[i] = queue[i]
        /\ pushed'[n + 1] = p /\ queue'[q + 1] = p
    <3>1. /\ Len(pushed') = n + 1 /\ pushed'[n + 1] = p
          /\ \A i \in 1..n : pushed'[i] = pushed[i]
      BY <1>1, AppendProperties
    <3>2. /\ Len(queue') = q + 1 /\ queue'[q + 1] = p
          /\ \A i \in 1..q : queue'[i] = queue[i]
      BY <1>1, AppendProperties
    <3> QED BY <3>1, <3>2
  <2> HIDE DEF n, b, q
  <2>4. ASSUME NEW i \in 1..b PROVE batch[t][i] = pushed'[(n + 1) - (q + 1) - b + i]
    <3>1. n - q - b + i \in 1..n /\ (n + 1) - (q + 1) - b + i = n - q - b + i
      BY <2>1, <2>2
    <3> QED BY <2>2, <2>3, <3>1
  <2>5. ASSUME NEW i \in 1..(q + 1) PROVE queue'[i] = pushed'[(n + 1) - (q + 1) + i]
    <3>1. CASE i = q + 1
      <4>1. (n + 1) - (q + 1) + i = n + 1
        BY <2>1, <3>1
      <4> QED BY <2>3, <3>1, <4>1
    <3>2. CASE i # q + 1
      <4>1. i \in 1..q /\ (n + 1) - (q + 1) + i = n - q + i /\ n - q + i \in 1..n
        BY <2>1, <2>2, <3>2
      <4> QED BY <2>2, <2>3, <4>1
    <3> QED BY <3>1, <3>2
  <2>6. b + (q + 1) <= n + 1
    BY <2>1, <2>2
  <2> QED BY <2>3, <2>4, <2>5, <2>6 DEF b
<1> QED BY <1>3, <1>5, <1>6, <1>7

LEMMA PlaceSwap ==
    ASSUME TypeOK, PlaceInv, OrderInv, NEW t \in Receivers, Swap(t)
    PROVE  PlaceInv' /\ OrderInv' /\ Waiting' = Waiting
<1>1. UNCHANGED <<pushed, inject, handled, lost>>
  BY DEF Swap
<1>2. /\ trap[t].at = "swap" /\ trap'[t].at = "deliver"
      /\ \A u \in Receivers : u # t => trap'[u] = trap[u]
  BY GotoEffect DEF Swap, Threads, At, Moves
<1>3. CASE queue = <<>>
  <2>1. UNCHANGED <<queue, batch>>
    BY <1>3 DEF Swap
  <2> QED BY <1>1, <1>2, <2>1, PlaceQuiet
<1>4. CASE queue # <<>>
  <2>1. /\ batch \in [Receivers -> Seq(Packets)] /\ batch' = [batch EXCEPT ![t] = queue]
        /\ queue' = <<>>
    BY <1>4 DEF Swap, TypeOK
  <2>2. batch[t] = <<>>
    BY <1>2 DEF PlaceInv
  <2>3. /\ Elements(queue)' = {} /\ Elements(batch[t]) = {} /\ Distinct(queue)'
        /\ Len(queue') = 0 /\ Len(batch[t]) = 0
    BY <2>1, <2>2 DEF Elements, Distinct
  <2>4. batch'[t] = queue /\ \A u \in Receivers : u # t => batch'[u] = batch[u]
    BY <2>1
  <2>5. /\ Elements(batch[t])' = Elements(queue) /\ Distinct(batch[t])' = Distinct(queue)
        /\ \A u \in Receivers : u # t => /\ Elements(batch[u])' = Elements(batch[u])
                                         /\ Distinct(batch[u])' = Distinct(batch[u])
    BY <2>4 DEF Elements, Distinct
  <2>6. Waiting' = Waiting
    BY <2>3, <2>5 DEF Waiting
  <2>7. Elements(pushed)' = Elements(pushed) /\ Distinct(pushed)' = Distinct(pushed)
    BY <1>1 DEF Elements, Distinct
  <2>8. PlaceInv'
    <3>1. /\ Distinct(queue)' /\ Distinct(pushed)'
          /\ \A p \in Packets : p \in Elements(pushed)' <=> inject'[p] # "new"
          /\ Elements(queue)' \subseteq Elements(pushed)'
      BY <1>1, <2>3, <2>7 DEF PlaceInv
    <3>2. ASSUME NEW u \in Receivers
          PROVE  /\ Distinct(batch[u])'
                 /\ Elements(batch[u])' \subseteq Elements(pushed)'
                 /\ Elements(batch[u])' \cap Elements(queue)' = {}
                 /\ trap'[u].at # "deliver" => batch'[u] = <<>>
                 /\ \A v \in Receivers : v # u => Elements(batch[u])' \cap Elements(batch[v])' = {}
      BY <1>2, <2>3, <2>4, <2>5, <2>7 DEF PlaceInv
    <3> QED BY <3>1, <3>2 DEF PlaceInv
  <2>9. OrderInv'
    <3> SUFFICES ASSUME Receivers = {t}
                 PROVE  /\ Len(queue) + 0 <= Len(pushed)
                        /\ \A i \in 1..Len(queue) : queue[i] = pushed[Len(pushed) - 0 - Len(queue) + i]
                        /\ \A i \in 1..0 : queue'[i] = pushed[Len(pushed) - 0 + i]
      BY <1>1, <2>3, <2>4 DEF OrderInv
    <3>1. Len(queue) \in Nat /\ Len(pushed) \in Nat
      BY DEF TypeOK
    <3>2. /\ 0 + Len(queue) <= Len(pushed)
          /\ \A i \in 1..Len(queue) : queue[i] = pushed[Len(pushed) - Len(queue) + i]
      BY <2>3 DEF OrderInv
    <3> QED BY <3>1, <3>2
  <2> QED BY <2>6, <2>8, <2>9
<1> QED BY <1>3, <1>4

LEMMA PlaceDeliver ==
    ASSUME TypeOK, PlaceInv, OrderInv, NEW t \in Receivers, Deliver(t),
           NEW p, p = Head(batch[t])
    PROVE  /\ PlaceInv' /\ OrderInv'
           /\ p \in Packets /\ p \in Waiting /\ Waiting' = Waiting \ {p}
           /\ Receivers = {t} => \E i \in 1..Len(pushed) :
                /\ pushed[i] = p
                /\ \A j \in 1..(i - 1) : pushed[j] \notin Waiting
<1>1. /\ trap[t].at = "deliver" /\ UNCHANGED <<trap, queue, inject, pushed>>
      /\ batch \in [Receivers -> Seq(Packets)] /\ batch' = [batch EXCEPT ![t] = Tail(@)]
      /\ batch[t] \in Seq(Packets) /\ batch[t] # <<>>
  BY DEF Deliver, TypeOK
<1>2. Distinct(batch[t])
  BY DEF PlaceInv
<1>3. /\ p \in Packets /\ p \in Elements(batch[t])
      /\ Distinct(Tail(batch[t])) /\ Elements(Tail(batch[t])) = Elements(batch[t]) \ {p}
  BY <1>1, <1>2, TailElements
<1>4. batch'[t] = Tail(batch[t]) /\ \A u \in Receivers : u # t => batch'[u] = batch[u]
  BY <1>1
<1>5. /\ Elements(batch[t])' = Elements(batch[t]) \ {p} /\ Distinct(batch[t])'
      /\ \A u \in Receivers : u # t => /\ Elements(batch[u])' = Elements(batch[u])
                                       /\ Distinct(batch[u])' = Distinct(batch[u])
  <2>1. Elements(batch[t])' = Elements(Tail(batch[t])) /\ Distinct(batch[t])' = Distinct(Tail(batch[t]))
    BY <1>4 DEF Elements, Distinct
  <2>2. \A u \in Receivers : u # t => /\ Elements(batch[u])' = Elements(batch[u])
                                      /\ Distinct(batch[u])' = Distinct(batch[u])
    BY <1>4 DEF Elements, Distinct
  <2> QED BY <1>3, <2>1, <2>2
<1>6. /\ Elements(pushed)' = Elements(pushed) /\ Distinct(pushed)' = Distinct(pushed)
      /\ Elements(queue)' = Elements(queue) /\ Distinct(queue)' = Distinct(queue)
  BY <1>1 DEF Elements, Distinct
<1>7. p \notin Elements(queue) /\ \A u \in Receivers : u # t => p \notin Elements(batch[u])
  BY <1>3 DEF PlaceInv
<1>8. p \in Waiting /\ Waiting' = Waiting \ {p}
  BY <1>3, <1>5, <1>6, <1>7 DEF Waiting
<1>9. PlaceInv'
  <2>1. /\ Distinct(queue)' /\ Distinct(pushed)'
        /\ \A q \in Packets : q \in Elements(pushed)' <=> inject'[q] # "new"
        /\ Elements(queue)' \subseteq Elements(pushed)'
    BY <1>1, <1>6 DEF PlaceInv
  <2>2. ASSUME NEW u \in Receivers
        PROVE  /\ Distinct(batch[u])'
               /\ Elements(batch[u])' \subseteq Elements(pushed)'
               /\ Elements(batch[u])' \cap Elements(queue)' = {}
               /\ trap'[u].at # "deliver" => batch'[u] = <<>>
               /\ \A v \in Receivers : v # u => Elements(batch[u])' \cap Elements(batch[v])' = {}
    BY <1>1, <1>4, <1>5, <1>6 DEF PlaceInv
  <2> QED BY <2>1, <2>2 DEF PlaceInv
<1> DEFINE n == Len(pushed)
           b == Len(batch[t])
           q == Len(queue)
<1>10. /\ n \in Nat /\ b \in Nat \ {0} /\ q \in Nat /\ p = batch[t][1]
       /\ Len(Tail(batch[t])) = b - 1
       /\ \A i \in 1..(b - 1) : Tail(batch[t])[i] = batch[t][i + 1]
  <2>1. n \in Nat /\ q \in Nat
    BY DEF TypeOK
  <2> QED BY <1>1, <2>1, HeadTailProperties, EmptySeq, LenProperties
<1>11. ASSUME Receivers = {t}
       PROVE  /\ b + q <= n
              /\ \A i \in 1..b : batch[t][i] = pushed[n - q - b + i]
              /\ \A i \in 1..q : queue[i] = pushed[n - q + i]
  BY <1>11 DEF OrderInv
<1>12. OrderInv'
  <2> SUFFICES ASSUME Receivers = {t}
               PROVE  /\ (b - 1) + q <= n
                      /\ \A i \in 1..(b - 1) : Tail(batch[t])[i] = pushed[n - q - (b - 1) + i]
                      /\ \A i \in 1..q : queue[i] = pushed[n - q + i]
    BY <1>1, <1>4, <1>10 DEF OrderInv
  <2> HIDE DEF n, b, q
  <2>1. ASSUME NEW i \in 1..(b - 1) PROVE Tail(batch[t])[i] = pushed[n - q - (b - 1) + i]
    <3>1. i + 1 \in 1..b /\ n - q - (b - 1) + i = n - q - b + (i + 1)
      BY <1>10
    <3> QED BY <1>10, <1>11, <3>1
  <2> QED BY <1>10, <1>11, <2>1
<1>13. ASSUME Receivers = {t}
       PROVE  \E i \in 1..n : pushed[i] = p /\ \A j \in 1..(i - 1) : pushed[j] \notin Waiting
  <2>1. Waiting = Elements(batch[t]) \cup Elements(queue)
    BY <1>13 DEF Waiting
  <2>2. Distinct(pushed)
    BY DEF PlaceInv
  <2> DEFINE k == n - q - b + 1
  <2>3. k \in 1..n /\ pushed[k] = p
    <3> HIDE DEF n, b, q
    <3> QED BY <1>10, <1>11, <1>13
  <2>4. ASSUME NEW j \in 1..(k - 1) PROVE pushed[j] \notin Waiting
    <3> SUFFICES ASSUME pushed[j] \in Waiting PROVE FALSE
      OBVIOUS
    <3>1. j \in 1..n
      <4> HIDE DEF n, b, q
      <4> QED BY <1>10, <2>3
    <3>2. CASE pushed[j] \in Elements(batch[t])
      <4>1. PICK i \in 1..b : pushed[j] = batch[t][i]
        BY <3>2 DEF Elements
      <4>2. pushed[j] = pushed[n - q - b + i]
        BY <1>11, <1>13, <4>1
      <4>3. n - q - b + i \in 1..n /\ n - q - b + i # j
        <5> HIDE DEF n, b, q
        <5> QED BY <1>10, <1>11, <1>13, <2>3
      <4> QED BY <2>2, <3>1, <4>2, <4>3 DEF Distinct
    <3>3. CASE pushed[j] \in Elements(queue)
      <4>1. PICK i \in 1..q : pushed[j] = queue[i]
        BY <3>3 DEF Elements
      <4>2. pushed[j] = pushed[n - q + i]
        BY <1>11, <1>13, <4>1
      <4>3. n - q + i \in 1..n /\ n - q + i # j
        <5> HIDE DEF n, b, q
        <5> QED BY <1>10, <1>11, <1>13, <2>3
      <4> QED BY <2>2, <3>1, <4>2, <4>3 DEF Distinct
    <3> QED BY <2>1, <3>2, <3>3
  <2> HIDE DEF k
  <2> QED BY <2>3, <2>4
<1> QED BY <1>3, <1>8, <1>9, <1>12, <1>13

PInv == PlaceInv /\ OrderInv

\* The steps that are the mailbox's own, and the rest, which it does not see.
Quiet(t) ==
    \/ Enters(t)
    \/ Guard(t) \/ Check(t) \/ Learn(t) \/ ReadCount(t) \/ EndFlush(t)
    \/ Offer(t) \/ Drop(t) \/ Call(t) \/ Leave(t)

LEMMA QuietTrap ==
    ASSUME TypeOK, PInv, NEW t \in Threads, Quiet(t)
    PROVE  PInv' /\ UNCHANGED <<pushed, Waiting, handled, lost>>
<1>1. UNCHANGED <<queue, batch, pushed, inject, handled, lost>>
  BY DEF Quiet, Enters, Enter, Guard, Check, Learn, Session, Store, ReadCount, EndFlush, Offer, Drop, Call, Leave,
         queueVars
<1>2. /\ trap[t].at # "deliver" \/ (t \in Receivers => batch[t] = <<>>)
      /\ \A u \in Threads : u # t => trap'[u] = trap[u]
  <2>1. CASE Enters(t)
    <3>1. PICK kind \in Kinds, live \in {"client", "server"}, whole \in BOOLEAN :
              Enter(t, kind, live, whole)
      BY <2>1 DEF Enters
    <3> QED BY Zenon, <3>1, EnterEffect DEF Moves
  <2>2. CASE Guard(t) \/ EndFlush(t) \/ ReadCount(t)
    BY <2>2 DEF Guard, EndFlush, ReadCount, Goto, TypeOK
  <2>3. CASE Check(t)
    BY <2>3, CheckEffect DEF Moves
  <2>4. CASE Learn(t)
    BY <2>4, LearnEffect DEF Moves
  <2>5. CASE Offer(t)
    BY <2>5, OfferEffect DEF Moves
  <2>6. CASE Drop(t) \/ Call(t)
    BY <2>6, LeavingEffect DEF Moves
  <2>7. CASE Leave(t)
    BY <2>7, LeaveEffect DEF Moves
  <2> QED BY <2>1, <2>2, <2>3, <2>4, <2>5, <2>6, <2>7 DEF Quiet
<1>3. \A u \in Receivers : \/ trap[u].at # "deliver" \/ trap'[u].at = "deliver"
                           \/ batch[u] = <<>>
  BY <1>2 DEF Threads
<1> QED BY <1>1, <1>3, PlaceQuiet DEF PInv

LEMMA BoxPush ==
    ASSUME TypeOK, PInv, NEW p \in Packets, Push(p)
    PROVE  PInv' /\ Box!Post(p)
<1>1. /\ PInv' /\ Waiting' = Waiting \cup {p} /\ p \notin Elements(pushed)
  BY PlacePush DEF PInv
<1>2. pushed' = Append(pushed, p) /\ UNCHANGED <<handled, lost>>
  BY DEF Push
<1>3. \A i \in 1..Len(pushed) : pushed[i] # p
  BY <1>1 DEF Elements
<1> QED BY <1>1, <1>2, <1>3 DEF Box!Post

LEMMA BoxDeliver ==
    ASSUME TypeOK, PInv, NEW t \in Receivers, Deliver(t)
    PROVE  PInv' /\ Box!Next
<1> DEFINE p == Head(batch[t])
<1>1. /\ PInv' /\ p \in Packets /\ p \in Waiting /\ Waiting' = Waiting \ {p}
      /\ Receivers = {t} => \E i \in 1..Len(pushed) :
           pushed[i] = p /\ \A j \in 1..(i - 1) : pushed[j] \notin Waiting
  BY PlaceDeliver DEF PInv
<1>2. Cardinality(Receivers) = 1 => Receivers = {t}
  <2> SUFFICES ASSUME Cardinality(Receivers) = 1 PROVE Receivers = {t}
    OBVIOUS
  <2>1. PICK u : Receivers = {u}
    BY FiniteThreads, FS_Singleton
  <2> QED BY <2>1
<1>3. UNCHANGED pushed /\ \A target \in Targets(trap[t].live) : target \in {"none", "client"}
  BY DEF Deliver, Targets
<1>4. \/ lost' = lost \cup {p} /\ UNCHANGED handled
      \/ handled' = Append(handled, <<p, "client">>) /\ UNCHANGED lost
  BY <1>3 DEF Deliver
<1> HIDE DEF p
<1>5. Box!Take(p)
  BY <1>1, <1>2, <1>3 DEF Box!Take, Box!First
<1>6. Box!HandOver(p) \/ Box!GiveUp(p)
  BY <1>4, <1>5 DEF Box!HandOver, Box!GiveUp
<1> QED BY <1>1, <1>6 DEF Box!Next

LEMMA BoxNext ==
    ASSUME TypeOK, PInv, [Next]_vars
    PROVE  PInv' /\ [Box!Next]_<<pushed, Waiting, handled, lost>>
<1>1. CASE \E p \in Packets : Push(p)
  BY <1>1, BoxPush DEF Box!Next
<1>2. ASSUME \/ \E p \in Packets : CountUp(p)
             \/ Fill \/ Enable \/ HookSender \/ Reset \/ Uninstall \/ UNCHANGED vars
      PROVE  PInv' /\ UNCHANGED <<pushed, Waiting, handled, lost>>
  <2>1. UNCHANGED <<queue, batch, pushed, handled, lost, trap>>
    BY <1>2 DEF CountUp, Fill, Enable, HookSender, Reset, Uninstall, SetFlag, Disable, Drain,
                Remove, ClearTables, vars, queueVars
  <2>2. \A p \in Packets : inject'[p] = "new" <=> inject[p] = "new"
    <3>1. CASE UNCHANGED inject
      BY <3>1
    <3>2. ASSUME NEW q \in Packets, CountUp(q)
          PROVE  \A p \in Packets : inject'[p] = "new" <=> inject[p] = "new"
      BY <3>2 DEF CountUp, TypeOK
    <3>3. CASE Fill \/ Enable \/ HookSender \/ Reset \/ Uninstall \/ UNCHANGED vars
      BY <3>1, <3>3 DEF Fill, Enable, HookSender, Reset, Uninstall, SetFlag, Disable, Drain,
                  Remove, ClearTables, vars, queueVars
    <3> QED BY <1>2, <3>2, <3>3
  <2> QED BY <2>1, <2>2, PlaceQuiet DEF PInv
<1>3. ASSUME NEW t \in Receivers, Swap(t)
      PROVE  PInv' /\ UNCHANGED <<pushed, Waiting, handled, lost>>
  BY <1>3, PlaceSwap DEF PInv, Swap
<1>4. ASSUME NEW t \in Receivers, Deliver(t) PROVE PInv' /\ Box!Next
  BY <1>4, BoxDeliver
<1>5. CASE \E t \in Receivers : EnterInbound(t)
  BY <1>5, QuietTrap, EntersIs DEF Quiet
<1>6. CASE \E t \in Senders : EnterOutbound(t)
  BY <1>6, QuietTrap, EntersIs DEF Quiet
<1>7. CASE \E t \in Threads : Advance(t)
  <2>1. PICK t \in Threads : Advance(t)
    BY <1>7
  <2>2. Quiet(t) \/ (t \in Receivers /\ (Swap(t) \/ Deliver(t)))
    BY <2>1 DEF Advance, Quiet, Learn
  <2> QED BY <1>3, <1>4, <2>2, QuietTrap
<1> QED BY <1>1, <1>2, <1>5, <1>6, <1>7 DEF Next

\* The queue, its atomic count, the batches taken from it and the trap that empties them are
\* together the mailbox injectInbound() promises, on any number of threads: every step either
\* posts a packet, or takes one that waits, or is not seen.  Nothing vanishes or is delivered
\* twice, whatever is reset, removed or swapped meanwhile.
THEOREM ImplementsMailbox == Spec => Delivers
<1> DEFINE I == TypeOK /\ CountInv /\ PInv
<1>1. Init => I /\ Box!Init
  <2> SUFFICES ASSUME Init PROVE PInv /\ Box!Init
    BY TypeInit
  <2>1. /\ queue = <<>> /\ pushed = <<>> /\ \A t \in Receivers : batch[t] = <<>>
        /\ \A p \in Packets : inject[p] = "new"
    BY DEF Init
  <2>2. /\ Elements(queue) = {} /\ Elements(pushed) = {} /\ Distinct(queue) /\ Distinct(pushed)
        /\ \A t \in Receivers : Elements(batch[t]) = {} /\ Distinct(batch[t])
    BY <2>1 DEF Elements, Distinct
  <2>3. PInv
    BY <2>1, <2>2 DEF PInv, PlaceInv, OrderInv
  <2>4. Waiting = {}
    BY <2>2 DEF Waiting
  <2> QED BY <2>3, <2>4 DEF Init, Box!Init
<1>2. I /\ [Next]_vars => I' /\ [Box!Next]_<<pushed, Waiting, handled, lost>>
  BY TypeNext, CountNext, BoxNext
<1> HIDE DEF I
<1> QED BY <1>1, <1>2, PTL DEF Spec, Delivers, Box!Spec
=============================================================================
