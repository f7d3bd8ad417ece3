--------------------------- MODULE PipelineProofs ---------------------------
(***************************************************************************)
(* Proofs about Pipeline, for every number of threads, modules, packet IDs *)
(* and handles.                                                            *)
(***************************************************************************)
EXTENDS Pipeline, SequenceTheorems, TLAPS

-----------------------------------------------------------------------------
(* The invariant. *)

\* m_mutex: an operation is alone, and no call of process() walks meanwhile.
ExclusiveInv ==
    \A m \in Modules : op[m].at = "inside" =>
        /\ ~Shared
        /\ \A n \in Modules : n # m => op[n].at # "inside"

\* m is taking the handler with this handle off the lists.
Removing(m, h) == op[m].at # "idle" /\ op[m].kind = "off" /\ op[m].handle = h

\* m has put it into a list and not counted it yet.
Adding(m, h) == op[m].at = "inside" /\ op[m].kind = "on" /\ op[m].handle = h

\* Every entry has a handle of its own, and is held by its owner unless that is adding
\* or removing it.
EntryInv ==
    /\ \A key \in Keys : \A i \in 1..Len(entries[key]) :
         LET e == entries[key][i]
         IN  /\ e.handle < next
             /\ \/ e.handle \in held[e.owner]
                \/ op[e.owner].at = "queued" /\ Removing(e.owner, e.handle)
                \/ Adding(e.owner, e.handle)
    /\ \A key, k \in Keys : \A i \in 1..Len(entries[key]), j \in 1..Len(entries[k]) :
         entries[key][i].handle = entries[k][j].handle => key = k /\ i = j

\* A handle is held by one module, which is neither adding nor removing it.
HandleInv ==
    /\ \A m \in Modules : \A h \in held[m] :
         /\ h < next
         /\ \A n \in Modules : n # m => h \notin held[n]
         /\ \A n \in Modules : ~Removing(n, h) /\ ~Adding(n, h)
    /\ \A m \in Modules, h \in 0..MaxHandle :
         /\ Removing(m, h) \/ Adding(m, h) => h < next
         /\ Removing(m, h) => \A n \in Modules : ~Adding(n, h)

\* A count differs from the length of its list only while an operation is between the two;
\* what is being added is the last entry.
CountInv ==
    \A key \in Keys :
        LET busy(m, kind) == op[m].at = "inside" /\ op[m].kind = kind /\ op[m].key = key
        IN  /\ (\A m \in Modules : ~busy(m, "on") /\ ~busy(m, "off"))
                 => count[key] = Len(entries[key])
            /\ \A m \in Modules : busy(m, "off") => count[key] = Len(entries[key]) + 1
            /\ \A m \in Modules : busy(m, "on") =>
                 /\ Len(entries[key]) = count[key] + 1
                 /\ entries[key][Len(entries[key])].handle = op[m].handle

\* A registered handler whose gate is open, in this list.
Listed(key, h) ==
    \E m \in enabled, i \in 1..Len(entries[key]) :
        entries[key][i] = [handle |-> h, owner |-> m] /\ h \in held[m]

\* The same, at or behind a place of what is walked.
Ahead(id, h, pos) ==
    \E m \in enabled, i \in pos..Len(Offered(id)) :
        Offered(id)[i] = [handle |-> h, owner |-> m] /\ h \in held[m]

\* Whoever a packet must still be offered to is registered, and lies ahead.
FrameInv(f) ==
    /\ f.pos >= 1
    /\ f.at \in {"any", "own", "lock"} => f.pos = 1
    /\ Handling(f) => f.pos <= Len(Offered(f.id))
    /\ f.at \in {"any", "lock"} => \A h \in f.must : Listed(Any, h) \/ Listed(f.id, h)
    /\ f.at = "own" => \A h \in f.must : Listed(f.id, h)
    /\ f.at = "walk" => \A h \in f.must : Ahead(f.id, h, f.pos)
    /\ Handling(f) => \A h \in f.must : Ahead(f.id, h, f.pos + 1)
    /\ f.at = "done" /\ ~f.dropped => f.must = {}

FramesInv == \A t \in Threads : \A i \in 1..Len(frames[t]) : FrameInv(frames[t][i])

Inv == TypeOK /\ ExclusiveInv /\ EntryInv /\ HandleInv /\ CountInv /\ FramesInv

-----------------------------------------------------------------------------
(* Steps of process(): they leave the lists alone. *)

Lists == <<entries, count, next, enabled, held, op>>

\* What the invariant says of the lists, and of a frame, depends on the lists only.
LEMMA Unmoved ==
    ASSUME EntryInv, HandleInv, CountInv, UNCHANGED Lists
    PROVE  /\ EntryInv' /\ HandleInv' /\ CountInv'
           /\ \A f \in Frame : FrameInv(f) => FrameInv(f)'
<1> USE DEF Lists
<1>1. EntryInv'
  BY DEF EntryInv, Removing, Adding
<1>2. HandleInv'
  BY DEF HandleInv, Removing, Adding
<1>3. CountInv'
  BY DEF CountInv
<1>4. \A f \in Frame : FrameInv(f) => FrameInv(f)'
  BY ZenonT(60) DEF FrameInv, Listed, Ahead, Offered, Handling
<1> QED BY <1>1, <1>2, <1>3, <1>4

LEMMA SetTopEffect ==
    ASSUME TypeOK, NEW t \in Threads, frames[t] # <<>>, NEW f \in Frame, SetTop(t, f)
    PROVE  /\ Len(frames[t]) \in Nat \ {0} /\ Top(t) \in Frame
           /\ frames' \in [Threads -> Seq(Frame)]
           /\ Len(frames'[t]) = Len(frames[t]) /\ frames'[t][Len(frames[t])] = f
           /\ \A i \in 1..Len(frames[t]) : i # Len(frames[t]) => frames'[t][i] = frames[t][i]
           /\ \A u \in Threads : u # t => frames'[u] = frames[u]
<1> DEFINE s == frames[t]
           n == Len(frames[t])
           s1 == [s EXCEPT ![n] = f]
<1>1. s \in Seq(Frame) /\ frames \in [Threads -> Seq(Frame)]
  BY DEF TypeOK
<1>2. n \in Nat \ {0} /\ s[n] \in Frame
  BY <1>1, EmptySeq, LenProperties
<1>3. /\ s1 \in Seq(Frame) /\ Len(s1) = n
      /\ \A j \in 1..n : s1[j] = IF j = n THEN f ELSE s[j]
  BY <1>1, <1>2, ExceptSeq
<1>4. frames' = [frames EXCEPT ![t] = s1]
  BY DEF SetTop
<1> HIDE DEF s1
<1>5. frames'[t] = s1 /\ frames' \in [Threads -> Seq(Frame)]
      /\ \A u \in Threads : u # t => frames'[u] = frames[u]
  BY <1>1, <1>3, <1>4
<1> QED BY <1>2, <1>3, <1>5 DEF Top

\* The top of a stack is replaced by a frame that is right; it walks only if it did or nobody
\* is inside.
LEMMA TopStep ==
    ASSUME Inv, NEW t \in Threads, frames[t] # <<>>, NEW f \in Frame, SetTop(t, f),
           UNCHANGED Lists, FrameInv(f), Walking(f) => Walking(Top(t)) \/ ~Exclusive
    PROVE  Inv'
<1>1. TypeOK'
  BY SetTopEffect DEF Inv, TypeOK, Lists
<1>2. EntryInv' /\ HandleInv' /\ CountInv' /\ \A g \in Frame : FrameInv(g) => FrameInv(g)'
  BY Unmoved DEF Inv
<1>3. FramesInv'
  <2>1. \A u \in Threads : \A i \in 1..Len(frames'[u]) :
          /\ frames'[u][i] \in Frame
          /\ frames'[u][i] = f \/ FrameInv(frames'[u][i])
    BY SetTopEffect DEF Inv, FramesInv
  <2> QED BY <1>2, <2>1 DEF FramesInv
<1>4. ExclusiveInv'
  <2> SUFFICES ASSUME NEW m \in Modules, op[m].at = "inside"
               PROVE  ~Shared'
    BY DEF Inv, ExclusiveInv, Lists
  <2>1. Exclusive /\ ~Shared
    BY DEF Inv, ExclusiveInv, Exclusive
  <2>2. ~Walking(Top(t))
    BY <2>1, SetTopEffect DEF Inv, Shared, Top
  <2>3. \A u \in Threads : \A i \in 1..Len(frames'[u]) : ~Walking(frames'[u][i])
    BY <2>1, <2>2, SetTopEffect DEF Inv, Shared
  <2> QED BY <2>3 DEF Shared
<1> QED BY <1>1, <1>2, <1>3, <1>4 DEF Inv

LEMMA NewFrameInv ==
    ASSUME TypeOK, NEW id \in Ids
    PROVE  NewFrame(id) \in Frame /\ FrameInv(NewFrame(id)) /\ ~Walking(NewFrame(id))
<1>1. NewFrame(id) \in Frame /\ ~Walking(NewFrame(id)) /\ ~Handling(NewFrame(id))
  BY DEF NewFrame, Frame, Owed, Walking, Handling
<1>2. \A h \in Owed(id) : Listed(Any, h) \/ Listed(id, h)
  BY DEF Owed, Listed
<1> QED BY <1>1, <1>2 DEF NewFrame, FrameInv

\* A stack of frames that are right, where nobody walks who did not.
LEMMA StackStep ==
    ASSUME Inv, NEW t \in Threads, NEW s \in Seq(Frame), frames' = [frames EXCEPT ![t] = s],
           UNCHANGED Lists,
           \A i \in 1..Len(s) : /\ FrameInv(s[i])
                                /\ Walking(s[i]) => \E j \in 1..Len(frames[t]) : Walking(frames[t][j])
    PROVE  Inv'
<1>1. /\ frames' \in [Threads -> Seq(Frame)] /\ frames'[t] = s
      /\ \A u \in Threads : u # t => frames'[u] = frames[u]
  BY DEF Inv, TypeOK
<1>2. TypeOK'
  BY <1>1 DEF Inv, TypeOK, Lists
<1>3. EntryInv' /\ HandleInv' /\ CountInv' /\ \A g \in Frame : FrameInv(g) => FrameInv(g)'
  BY Unmoved DEF Inv
<1>4. FramesInv'
  <2>1. \A u \in Threads : \A i \in 1..Len(frames'[u]) :
          frames'[u][i] \in Frame /\ FrameInv(frames'[u][i])
    BY <1>1 DEF Inv, FramesInv
  <2> QED BY <1>3, <2>1 DEF FramesInv
<1>5. ExclusiveInv'
  <2> SUFFICES ASSUME NEW m \in Modules, op[m].at = "inside"
               PROVE  ~Shared'
    BY DEF Inv, ExclusiveInv, Lists
  <2>1. ~Shared
    BY DEF Inv, ExclusiveInv
  <2>2. \A u \in Threads : \A i \in 1..Len(frames'[u]) : ~Walking(frames'[u][i])
    BY <1>1, <2>1 DEF Shared
  <2> QED BY <2>2 DEF Shared
<1> QED BY <1>2, <1>3, <1>4, <1>5 DEF Inv

LEMMA TopFacts ==
    ASSUME Inv, NEW t \in Threads, frames[t] # <<>>
    PROVE  /\ Top(t) \in Frame /\ FrameInv(Top(t))
           /\ Len(frames[t]) \in Nat \ {0} /\ frames[t] \in Seq(Frame)
           /\ Top(t) = frames[t][Len(frames[t])]
BY EmptySeq, LenProperties DEF Inv, TypeOK, FramesInv, Top

LEMMA ProcessNext == ASSUME Inv, NEW t \in Threads, NEW id \in Ids, Process(t, id) PROVE Inv'
<1> DEFINE f == NewFrame(id)
           s == <<f>>
<1>1. f \in Frame /\ FrameInv(f) /\ ~Walking(f)
  BY NewFrameInv DEF Inv
<1> HIDE DEF f
<1>2. s \in Seq(Frame) /\ Len(s) = 1 /\ s[1] = f
  BY <1>1
<1>3. frames' = [frames EXCEPT ![t] = s] /\ UNCHANGED Lists
  BY DEF Process, Lists, f
<1> HIDE DEF s
<1>4. \A i \in 1..Len(s) : FrameInv(s[i]) /\ ~Walking(s[i])
  BY <1>1, <1>2
<1> QED BY <1>2, <1>3, <1>4, StackStep

LEMMA SendNext == ASSUME Inv, NEW t \in Threads, NEW id \in Ids, Send(t, id) PROVE Inv'
<1> DEFINE f == NewFrame(id)
           g == [Top(t) EXCEPT !.at = "sent"]
           s == <<g, f>>
<1>1. f \in Frame /\ FrameInv(f) /\ ~Walking(f)
  BY NewFrameInv DEF Inv
<1> HIDE DEF f
<1>2. frames[t] # <<>> /\ Len(frames[t]) = 1 /\ Top(t).at = "handler"
  BY DEF Send
<1>3. /\ Top(t) \in Frame /\ FrameInv(Top(t)) /\ Top(t) = frames[t][1]
  BY <1>2, TopFacts
<1>4. g \in Frame /\ g.at = "sent" /\ g.id = Top(t).id /\ g.pos = Top(t).pos /\ g.must = Top(t).must
  BY <1>3 DEF Frame
<1>5. FrameInv(g)
  BY <1>2, <1>3, <1>4 DEF FrameInv, Handling
<1>6. Walking(frames[t][1])
  BY <1>2, <1>3 DEF Walking, Handling
<1>7. frames' = [frames EXCEPT ![t] = s] /\ UNCHANGED Lists
  BY DEF Send, Lists, f
<1> HIDE DEF g
<1>8. s \in Seq(Frame) /\ Len(s) = 2 /\ s[1] = g /\ s[2] = f
  BY <1>1, <1>4
<1> HIDE DEF s
<1>9. \A i \in 1..Len(s) : i = 1 \/ i = 2
  BY <1>8
<1>10. \A i \in 1..Len(s) : FrameInv(s[i])
  BY <1>1, <1>5, <1>8, <1>9
<1>11. \E j \in 1..Len(frames[t]) : Walking(frames[t][j])
  BY <1>2, <1>6
<1> QED BY <1>7, <1>8, <1>10, <1>11, StackStep

LEMMA EnrolNext == ASSUME Inv, NEW t \in Threads, Enrol(t) PROVE Inv'
<1> DEFINE f == [Top(t) EXCEPT !.at = "enrol"]
<1>1. /\ frames[t] # <<>> /\ Handling(Top(t)) /\ Top(t).at # "walk"
      /\ SetTop(t, f) /\ UNCHANGED Lists
  BY DEF Enrol, Handling, Lists
<1>2. Top(t) \in Frame /\ FrameInv(Top(t))
  BY <1>1, TopFacts
<1>3. /\ f \in Frame /\ f.at = "enrol" /\ f.id = Top(t).id /\ f.pos = Top(t).pos
      /\ f.must = Top(t).must
  BY <1>2 DEF Frame
<1>4. FrameInv(f)
  BY <1>1, <1>2, <1>3 DEF FrameInv, Handling
<1>5. Walking(Top(t))
  BY <1>1 DEF Walking
<1> HIDE DEF f
<1> QED BY <1>1, <1>3, <1>4, <1>5, TopStep

LEMMA DoneNext == ASSUME Inv, NEW t \in Threads, Done(t) PROVE Inv'
<1> DEFINE n == Len(frames[t])
           s == SubSeq(frames[t], 1, n - 1)
<1>1. frames[t] \in Seq(Frame) /\ n \in Nat \ {0}
  BY TopFacts DEF Done
<1>2. s \in Seq(Frame) /\ Len(s) = n - 1 /\ \A i \in 1..(n - 1) : s[i] = frames[t][i]
  <2>1. \A i \in 1..(n - 1) : frames[t][i] \in Frame
    BY <1>1, LenProperties
  <2> QED BY <1>1, <2>1, SubSeqProperties
<1>3. frames' = [frames EXCEPT ![t] = s] /\ UNCHANGED Lists
  BY DEF Done, Lists
<1> HIDE DEF s
<1>4. \A i \in 1..Len(s) : s[i] = frames[t][i] /\ i \in 1..Len(frames[t])
  BY <1>1, <1>2
<1>5. \A i \in 1..Len(s) : FrameInv(s[i])
  BY <1>4 DEF Inv, FramesInv
<1> QED BY <1>2, <1>3, <1>4, <1>5, StackStep

\* A count that is zero tells the truth about the handlers a packet is owed to: what is being
\* added is not owed yet, and what is being removed is not any more.
LEMMA CountTells ==
    ASSUME Inv, NEW key \in Keys, count[key] = 0
    PROVE  \A h \in Handles : ~Listed(key, h)
<1> SUFFICES ASSUME NEW h \in Handles, Listed(key, h) PROVE FALSE
  OBVIOUS
<1> PICK m \in enabled, i \in 1..Len(entries[key]) :
      entries[key][i] = [handle |-> h, owner |-> m] /\ h \in held[m]
  BY DEF Listed
<1>0. m \in Modules /\ entries[key][i].handle = h
  BY DEF Inv, TypeOK
<1>1. Len(entries[key]) \in Nat
  BY DEF Inv, TypeOK
<1>2. CASE \E n \in Modules : op[n].at = "inside" /\ op[n].kind = "on" /\ op[n].key = key
  <2>1. PICK n \in Modules : op[n].at = "inside" /\ op[n].kind = "on" /\ op[n].key = key
    BY <1>2
  <2>2. Len(entries[key]) = 1 /\ entries[key][1].handle = op[n].handle
    <3>1. /\ Len(entries[key]) = count[key] + 1
          /\ entries[key][Len(entries[key])].handle = op[n].handle
      BY <2>1 DEF Inv, CountInv
    <3> QED BY <3>1
  <2>3. i = 1 /\ Adding(n, h)
    BY <1>0, <2>1, <2>2 DEF Adding
  <2> QED BY <1>0, <2>3 DEF Inv, HandleInv
<1>3. CASE \E n \in Modules : op[n].at = "inside" /\ op[n].kind = "off" /\ op[n].key = key
  BY <1>1, <1>3 DEF Inv, CountInv
<1>4. CASE \A n \in Modules : ~(op[n].at = "inside" /\ op[n].key = key)
  BY <1>1, <1>4 DEF Inv, CountInv
<1>5. \A n \in Modules : op[n].kind \in {"on", "off"}
  BY DEF Inv, TypeOK
<1> QED BY <1>2, <1>3, <1>4, <1>5

LEMMA LoadCountNext == ASSUME Inv, NEW t \in Threads, LoadCount(t) PROVE Inv'
<1>1. frames[t] # <<>> /\ Top(t).at \in {"any", "own"} /\ UNCHANGED Lists
  BY DEF LoadCount, Lists
<1>2. Top(t) \in Frame /\ FrameInv(Top(t))
  BY <1>1, TopFacts
<1> DEFINE key == IF Top(t).at = "any" THEN Any ELSE Top(t).id
           next1 == IF count[key] = 0 THEN IF Top(t).at = "any" THEN "own" ELSE "done" ELSE "lock"
           f == [Top(t) EXCEPT !.at = next1]
<1>3. SetTop(t, f)
  BY <1>1 DEF LoadCount
<1>4. key \in Keys /\ Top(t).must \subseteq Handles
  BY <1>2 DEF Keys, Frame
<1>5. count[key] = 0 => \A h \in Top(t).must : ~Listed(key, h)
  BY <1>4, CountTells
<1>6. /\ f \in Frame /\ f.at = next1 /\ f.id = Top(t).id /\ f.pos = Top(t).pos
      /\ f.must = Top(t).must
  BY <1>1, <1>2 DEF Frame
<1>7. FrameInv(f)
  <2>1. CASE count[key] # 0
    BY <1>1, <1>2, <1>6, <2>1 DEF FrameInv, Handling
  <2>2. CASE count[key] = 0 /\ Top(t).at = "any"
    BY <1>2, <1>5, <1>6, <2>2 DEF FrameInv, Handling
  <2>3. CASE count[key] = 0 /\ Top(t).at = "own"
    <3>1. f.must = {}
      BY <1>2, <1>5, <1>6, <2>3 DEF FrameInv
    <3> QED BY <1>2, <1>6, <2>3, <3>1 DEF FrameInv, Handling
  <2> QED BY <1>1, <2>1, <2>2, <2>3
<1>8. ~Walking(f)
  BY <1>6 DEF Walking, Handling
<1> HIDE DEF f
<1> QED BY <1>1, <1>3, <1>6, <1>7, <1>8, TopStep

\* Where the entries of two lists are in their concatenation.
LEMMA ConcatFacts ==
    ASSUME NEW S, NEW a \in Seq(S), NEW b \in Seq(S)
    PROVE  /\ Len(a) \in Nat /\ Len(b) \in Nat
           /\ a \o b \in Seq(S) /\ Len(a \o b) = Len(a) + Len(b)
           /\ \A i \in 1..Len(a) : (a \o b)[i] = a[i]
           /\ \A i \in 1..Len(b) : (a \o b)[Len(a) + i] = b[i]
           /\ \A i \in 1..Len(a \o b) : \/ i \in 1..Len(a) /\ (a \o b)[i] = a[i]
                                        \/ i - Len(a) \in 1..Len(b) /\ (a \o b)[i] = b[i - Len(a)]
<1> DEFINE m == Len(a)
           n == Len(b)
           c == a \o b
<1>1. m \in Nat /\ n \in Nat
  BY LenProperties
<1>2. c \in Seq(S) /\ Len(c) = m + n
  BY ConcatProperties
<1>3. \A i \in 1..(m + n) : c[i] = IF i <= m THEN a[i] ELSE b[i - m]
  BY ConcatProperties
<1> HIDE DEF m, n, c
<1>4. \A i \in 1..m : c[i] = a[i]
  BY <1>1, <1>3
<1>5. \A i \in 1..n : c[m + i] = b[i]
  <2> SUFFICES ASSUME NEW i \in 1..n PROVE c[m + i] = b[i]
    OBVIOUS
  <2>1. m + i \in 1..(m + n) /\ ~(m + i <= m) /\ (m + i) - m = i
    BY <1>1
  <2> QED BY <1>3, <2>1
<1>6. ASSUME NEW i \in 1..(m + n)
      PROVE  \/ i \in 1..m /\ c[i] = a[i]
             \/ i - m \in 1..n /\ c[i] = b[i - m]
  <2>1. i \in 1..m \/ (~(i <= m) /\ i - m \in 1..n)
    BY <1>1
  <2> QED BY <1>3, <1>4, <2>1
<1>7. \A i \in 1..Len(c) : \/ i \in 1..m /\ c[i] = a[i]
                           \/ i - m \in 1..n /\ c[i] = b[i - m]
  BY <1>2, <1>6
<1> QED BY <1>1, <1>2, <1>4, <1>5, <1>7 DEF c, m, n

\* What is walked: the list for any packet, then the packet's own.
LEMMA OfferedFacts ==
    ASSUME TypeOK, NEW id \in Ids
    PROVE  /\ Offered(id) \in Seq(Entry)
           /\ Len(entries[Any]) \in Nat /\ Len(entries[id]) \in Nat
           /\ Len(Offered(id)) = Len(entries[Any]) + Len(entries[id])
           /\ \A i \in 1..Len(entries[Any]) : Offered(id)[i] = entries[Any][i]
           /\ \A i \in 1..Len(entries[id]) :
                Offered(id)[Len(entries[Any]) + i] = entries[id][i]
           /\ \A i \in 1..Len(Offered(id)) : \E key \in Keys : \E j \in 1..Len(entries[key]) :
                Offered(id)[i] = entries[key][j]
<1> DEFINE a == entries[Any]
           b == entries[id]
<1>1. a \in Seq(Entry) /\ b \in Seq(Entry) /\ Any \in Keys /\ id \in Keys
  BY DEF TypeOK, Keys
<1>2. Offered(id) = a \o b
  BY DEF Offered
<1>3. \A i \in 1..Len(a \o b) : \/ i \in 1..Len(a) /\ (a \o b)[i] = a[i]
                                \/ i - Len(a) \in 1..Len(b) /\ (a \o b)[i] = b[i - Len(a)]
  <2> HIDE DEF a, b
  <2> QED BY <1>1, ConcatFacts
<1>4. ASSUME NEW i \in 1..Len(Offered(id))
      PROVE  \E key \in Keys : \E j \in 1..Len(entries[key]) : Offered(id)[i] = entries[key][j]
  <2>1. CASE i \in 1..Len(a) /\ Offered(id)[i] = a[i]
    BY <1>1, <2>1
  <2>2. CASE i - Len(a) \in 1..Len(b) /\ Offered(id)[i] = b[i - Len(a)]
    <3>1. \E j \in 1..Len(entries[id]) : Offered(id)[i] = entries[id][j]
      BY Zenon, <2>2
    <3> QED BY <1>1, <3>1
  <2> QED BY <1>2, <1>3, <2>1, <2>2
<1> HIDE DEF a, b
<1>5. /\ Offered(id) \in Seq(Entry) /\ Len(a) \in Nat /\ Len(b) \in Nat
      /\ Len(Offered(id)) = Len(a) + Len(b)
      /\ \A i \in 1..Len(a) : Offered(id)[i] = a[i]
      /\ \A i \in 1..Len(b) : Offered(id)[Len(a) + i] = b[i]
  BY <1>1, <1>2, ConcatFacts
<1> QED BY <1>4, <1>5 DEF a, b

LEMMA ListedAhead ==
    ASSUME TypeOK, NEW id \in Ids, NEW h, Listed(Any, h) \/ Listed(id, h)
    PROVE  Ahead(id, h, 1)
<1>1. CASE Listed(Any, h)
  <2>1. PICK m \in enabled, i \in 1..Len(entries[Any]) :
          entries[Any][i] = [handle |-> h, owner |-> m] /\ h \in held[m]
    BY <1>1 DEF Listed
  <2>2. i \in 1..Len(Offered(id)) /\ Offered(id)[i] = entries[Any][i]
    <3> DEFINE p == Len(entries[Any])
               q == Len(entries[id])
    <3>1. /\ p \in Nat /\ q \in Nat /\ Len(Offered(id)) = p + q
          /\ \A j \in 1..p : Offered(id)[j] = entries[Any][j]
      BY OfferedFacts
    <3>2. i \in 1..p
      OBVIOUS
    <3> HIDE DEF p, q
    <3> QED BY <3>1, <3>2
  <2> QED BY <2>1, <2>2 DEF Ahead
<1>2. CASE Listed(id, h)
  <2>1. PICK m \in enabled, i \in 1..Len(entries[id]) :
          entries[id][i] = [handle |-> h, owner |-> m] /\ h \in held[m]
    BY <1>2 DEF Listed
  <2>2. /\ Len(entries[Any]) + i \in 1..Len(Offered(id))
        /\ Offered(id)[Len(entries[Any]) + i] = entries[id][i]
    <3> DEFINE p == Len(entries[Any])
               q == Len(entries[id])
    <3>1. /\ p \in Nat /\ q \in Nat /\ Len(Offered(id)) = p + q
          /\ \A j \in 1..q : Offered(id)[p + j] = entries[id][j]
      BY OfferedFacts
    <3>2. i \in 1..q
      OBVIOUS
    <3> HIDE DEF q
    <3> SUFFICES p + i \in 1..Len(Offered(id)) /\ Offered(id)[p + i] = entries[id][i]
      OBVIOUS
    <3> HIDE DEF p
    <3> QED BY <3>1, <3>2
  <2> QED BY <2>1, <2>2 DEF Ahead
<1> QED BY <1>1, <1>2

LEMMA LockNext == ASSUME Inv, NEW t \in Threads, Lock(t) PROVE Inv'
<1> DEFINE f == [Top(t) EXCEPT !.at = "walk"]
<1>1. frames[t] # <<>> /\ Top(t).at = "lock" /\ ~Exclusive /\ UNCHANGED Lists /\ SetTop(t, f)
  BY DEF Lock, Lists
<1>2. Top(t) \in Frame /\ FrameInv(Top(t))
  BY <1>1, TopFacts
<1>3. /\ f \in Frame /\ f.at = "walk" /\ f.id = Top(t).id /\ f.pos = Top(t).pos
      /\ f.must = Top(t).must /\ f.id \in Ids
  BY <1>2 DEF Frame
<1> HIDE DEF f
<1>4. f.pos = 1 /\ \A h \in f.must : Ahead(f.id, h, f.pos)
  BY <1>1, <1>2, <1>3, ListedAhead DEF FrameInv, Inv
<1>5. FrameInv(f)
  BY <1>3, <1>4 DEF FrameInv, Handling
<1> QED BY <1>1, <1>3, <1>5, TopStep

LEMMA OfferNext == ASSUME Inv, NEW t \in Threads, Offer(t) PROVE Inv'
<1> DEFINE f == Top(t)
           list == Offered(f.id)
<1>1. frames[t] # <<>> /\ f.at = "walk" /\ UNCHANGED Lists
  BY DEF Offer, Lists
<1>2. f \in Frame /\ FrameInv(f)
  BY <1>1, TopFacts
<1>3. /\ f.pos \in Nat /\ f.pos >= 1 /\ Walking(f) /\ \A h \in f.must : Ahead(f.id, h, f.pos)
      /\ list \in Seq(Entry) /\ Len(list) \in Nat /\ f.must \subseteq Handles
  <2>1. f.id \in Ids /\ f.pos \in Nat /\ f.must \subseteq Handles
    BY <1>2 DEF Frame
  <2>2. list \in Seq(Entry)
    BY <2>1, OfferedFacts DEF Inv
  <2>3. Len(list) \in Nat
    BY <2>2
  <2> HIDE DEF list
  <2> QED BY <1>1, <1>2, <2>1, <2>2, <2>3 DEF FrameInv, Walking
<1>4. CASE f.pos > Len(list)
  <2> DEFINE g == [f EXCEPT !.at = "done"]
  <2>1. SetTop(t, g)
    BY <1>4 DEF Offer
  <2>2. g \in Frame /\ g.at = "done" /\ g.pos = f.pos /\ g.must = f.must
    BY <1>2 DEF Frame
  <2>3. g.must = {}
    <3>1. \A i \in f.pos..Len(list) : FALSE
      <4> HIDE DEF list
      <4> QED BY <1>3, <1>4
    <3>2. \A h \in f.must : FALSE
      BY <1>3, <3>1 DEF Ahead
    <3> QED BY <2>2, <3>2
  <2> HIDE DEF g
  <2>4. FrameInv(g) /\ ~Walking(g)
    BY <1>3, <2>2, <2>3 DEF FrameInv, Handling, Walking
  <2> QED BY <1>1, <2>1, <2>2, <2>4, TopStep
<1>5. CASE ~(f.pos > Len(list)) /\ list[f.pos].owner \in enabled
  <2> DEFINE g == [f EXCEPT !.at = "handler", !.must = @ \ {list[f.pos].handle}]
  <2>1. SetTop(t, g)
    BY <1>5 DEF Offer
  <2>2. /\ g \in Frame /\ g.at = "handler" /\ g.pos = f.pos /\ g.id = f.id
        /\ g.must = f.must \ {list[f.pos].handle}
    BY <1>2 DEF Frame
  <2> HIDE DEF g
  <2>3. ASSUME NEW h \in g.must PROVE Ahead(f.id, h, f.pos + 1)
    <3>1. PICK m \in enabled, i \in f.pos..Len(list) :
            list[i] = [handle |-> h, owner |-> m] /\ h \in held[m]
      BY <1>3, <2>2, <2>3 DEF Ahead
    <3>2. i # f.pos
      BY <2>2, <2>3, <3>1
    <3>3. i \in (f.pos + 1)..Len(list)
      BY <1>3, <3>2
    <3> QED BY <3>1, <3>3 DEF Ahead
  <2>4. FrameInv(g)
    BY <1>3, <1>5, <2>2, <2>3 DEF FrameInv, Handling
  <2> QED BY <1>1, <1>3, <2>1, <2>2, <2>4, TopStep
<1>6. CASE ~(f.pos > Len(list)) /\ list[f.pos].owner \notin enabled
  <2> DEFINE g == [f EXCEPT !.pos = @ + 1]
  <2>1. SetTop(t, g)
    BY <1>6 DEF Offer
  <2>2. /\ g \in Frame /\ g.at = "walk" /\ g.pos = f.pos + 1 /\ g.id = f.id /\ g.must = f.must
    BY <1>1, <1>2, <1>3 DEF Frame
  <2> HIDE DEF g
  <2>3. ASSUME NEW h \in g.must PROVE Ahead(f.id, h, f.pos + 1)
    <3>1. PICK m \in enabled, i \in f.pos..Len(list) :
            list[i] = [handle |-> h, owner |-> m] /\ h \in held[m]
      BY <1>3, <2>2, <2>3 DEF Ahead
    <3>2. i # f.pos
      BY <1>6, <3>1
    <3>3. i \in (f.pos + 1)..Len(list)
      BY <1>3, <3>2
    <3> QED BY <3>1, <3>3 DEF Ahead
  <2>4. FrameInv(g)
    BY <1>3, <2>2, <2>3 DEF FrameInv, Handling
  <2> QED BY <1>1, <1>3, <2>1, <2>2, <2>4, TopStep
<1> QED BY <1>4, <1>5, <1>6

LEMMA ReturnNext == ASSUME Inv, NEW t \in Threads, Return(t) PROVE Inv'
<1> DEFINE f == Top(t)
           on == [f EXCEPT !.at = "walk", !.pos = @ + 1]
           off == [f EXCEPT !.at = "done", !.dropped = TRUE]
<1>1. frames[t] # <<>> /\ Handling(f) /\ UNCHANGED Lists
  BY DEF Return, Handling, Lists
<1>2. f \in Frame /\ FrameInv(f)
  BY <1>1, TopFacts
<1>3. /\ f.pos \in Nat /\ f.pos >= 1 /\ Walking(f)
      /\ \A h \in f.must : Ahead(f.id, h, f.pos + 1)
  BY <1>1, <1>2 DEF FrameInv, Frame, Walking
<1>4. CASE SetTop(t, on)
  <2>1. /\ on \in Frame /\ on.at = "walk" /\ on.pos = f.pos + 1 /\ on.id = f.id /\ on.must = f.must
    <3> HIDE DEF f
    <3>1. f.pos + 1 \in Nat
      BY <1>3
    <3> QED BY <1>2, <3>1 DEF Frame
  <2> HIDE DEF on
  <2>2. FrameInv(on)
    BY <1>3, <2>1 DEF FrameInv, Handling
  <2> QED BY <1>1, <1>3, <1>4, <2>1, <2>2, TopStep
<1>5. CASE SetTop(t, off)
  <2>1. off \in Frame /\ off.at = "done" /\ off.pos = f.pos /\ off.dropped
    BY <1>2 DEF Frame
  <2> HIDE DEF off
  <2>2. FrameInv(off)
    BY <1>3, <2>1 DEF FrameInv, Handling
  <2> QED BY <1>1, <1>3, <1>5, <2>1, <2>2, TopStep
<1> QED BY <1>4, <1>5 DEF Return

-----------------------------------------------------------------------------
(* Steps of on(), off(), clear() and setEnabled(). *)

\* The frame, with less to be offered to.
Less(f, g, gone) ==
    /\ g \in Frame /\ g.at = f.at /\ g.id = f.id /\ g.pos = f.pos /\ g.dropped = f.dropped
    /\ g.must = f.must \ gone

LEMMA ExcuseEffect ==
    ASSUME TypeOK, NEW gone, Excuse(gone)
    PROVE  /\ frames' \in [Threads -> Seq(Frame)]
           /\ \A t \in Threads : /\ Len(frames'[t]) = Len(frames[t])
                                 /\ \A i \in 1..Len(frames[t]) : Less(frames[t][i], frames'[t][i], gone)
<1> SUFFICES ASSUME NEW t \in Threads
             PROVE  /\ frames'[t] \in Seq(Frame) /\ Len(frames'[t]) = Len(frames[t])
                    /\ \A i \in 1..Len(frames[t]) : Less(frames[t][i], frames'[t][i], gone)
  BY DEF Excuse
<1> DEFINE n == Len(frames[t])
           g(i) == [frames[t][i] EXCEPT !.must = @ \ gone]
           s == [i \in 1..n |-> g(i)]
<1>1. frames'[t] = s
  BY DEF Excuse
<1>2. n \in Nat /\ \A i \in 1..n : frames[t][i] \in Frame
  BY DEF TypeOK
<1>3. \A i \in 1..n : g(i) \in Frame /\ Less(frames[t][i], g(i), gone)
  BY <1>2 DEF Frame, Less
<1> HIDE DEF g
<1>4. s \in [1..n -> Frame] /\ \A i \in 1..n : s[i] = g(i)
  BY <1>3
<1> HIDE DEF s
<1>5. s \in Seq(Frame) /\ Len(s) = n
  <2>1. s \in Seq(Frame)
    BY <1>2, <1>4, SeqDef
  <2>2. DOMAIN s = 1..n /\ DOMAIN s = 1..Len(s) /\ Len(s) \in Nat
    BY <1>4, <2>1, LenProperties
  <2>3. Len(s) = n
    <3> HIDE DEF n
    <3> QED BY <1>2, <2>2
  <2> QED BY <2>1, <2>3
<1> QED BY <1>1, <1>3, <1>4, <1>5

\* Who is registered and open stays so, but for those the packets are excused from.
LEMMA LessInv ==
    ASSUME UNCHANGED entries, NEW gone, NEW f \in Frame, NEW g \in Frame, Less(f, g, gone), FrameInv(f),
           \A m \in enabled : \A h \in held[m] : h \notin gone => m \in enabled' /\ h \in held'[m]
    PROVE  FrameInv(g)'
<1> USE DEF Less
<1>1. \A key, h : h \notin gone /\ Listed(key, h) => Listed(key, h)'
  BY DEF Listed
<1>2. \A id, h, pos : h \notin gone /\ Ahead(id, h, pos) => Ahead(id, h, pos)'
  BY DEF Ahead, Offered
<1>3. Handling(g) <=> Handling(f)
  BY DEF Handling
<1>4. Offered(g.id)' = Offered(f.id)
  BY DEF Offered
<1> QED BY <1>1, <1>2, <1>3, <1>4 DEF FrameInv

LEMMA LessFrames ==
    ASSUME TypeOK, FramesInv, UNCHANGED entries, NEW gone, Excuse(gone),
           \A m \in enabled : \A h \in held[m] : h \notin gone => m \in enabled' /\ h \in held'[m]
    PROVE  FramesInv' /\ (Shared' <=> Shared)
<1>1. \A t \in Threads : \A i \in 1..Len(frames[t]) : frames[t][i] \in Frame /\ FrameInv(frames[t][i])
  BY DEF TypeOK, FramesInv
<1>2. \A t \in Threads : \A i \in 1..Len(frames'[t]) :
        /\ i \in 1..Len(frames[t]) /\ frames'[t][i] \in Frame
        /\ Less(frames[t][i], frames'[t][i], gone)
  BY ExcuseEffect DEF Less
<1>3. FramesInv'
  BY <1>1, <1>2, LessInv DEF FramesInv
<1>4. Shared' <=> Shared
  BY ExcuseEffect DEF Shared, Walking, Handling, Less
<1> QED BY <1>3, <1>4

Ops == [at : {"idle", "queued", "inside"}, kind : {"on", "off"}, key : Keys, handle : 0..MaxHandle]

LEMMA EntryFacts ==
    ASSUME TypeOK, NEW key \in Keys
    PROVE  /\ entries[key] \in Seq(Entry) /\ Len(entries[key]) \in Nat
           /\ \A i \in 1..Len(entries[key]) : /\ entries[key][i] \in Entry
                                              /\ entries[key][i].handle \in Handles
                                              /\ entries[key][i].owner \in Modules
<1>1. entries[key] \in Seq(Entry) /\ Len(entries[key]) \in Nat
  BY DEF TypeOK
<1>2. \A i \in 1..Len(entries[key]) : entries[key][i] \in Entry
  BY <1>1
<1> QED BY <1>1, <1>2 DEF Entry

\* Only m's operation goes on.
Steps(m, to) == op'[m].at = to /\ \A n \in Modules : n # m => op'[n] = op[n]

LEMMA OpEffect ==
    ASSUME TypeOK, NEW m \in Modules, NEW r, op' = [op EXCEPT ![m] = r]
    PROVE  Steps(m, r.at) /\ op'[m] = r
BY DEF TypeOK, Steps

LEMMA CallOffNext == ASSUME Inv, NEW m \in Modules, NEW h \in Handles, CallOff(m, h) PROVE Inv'
<1> DEFINE r == [NoOp EXCEPT !.at = "queued", !.kind = "off", !.handle = h]
<1>1. /\ op[m].at = "idle" /\ h \in held[m] /\ op' = [op EXCEPT ![m] = r]
      /\ held' = [held EXCEPT ![m] = @ \ {h}] /\ Excuse({h})
      /\ UNCHANGED <<entries, count, next, enabled>>
  BY DEF CallOff
<1>2. r.at = "queued" /\ r.kind = "off" /\ r.handle = h /\ r.key = Any
  BY DEF NoOp
<1>3. r \in Ops
  <2>1. h \in 0..MaxHandle /\ Any \in Keys
    BY PipelineAssumption DEF Handles, Keys
  <2> QED BY <2>1 DEF NoOp, Ops
<1> HIDE DEF r
<1>4. op'[m] = r /\ \A n \in Modules : n # m => op'[n] = op[n]
  BY <1>1, OpEffect DEF Inv, Steps
<1>5. /\ held'[m] = held[m] \ {h} /\ \A n \in Modules : n # m => held'[n] = held[n]
      /\ held' \in [Modules -> SUBSET Handles]
  BY <1>1 DEF Inv, TypeOK
<1>6. TypeOK'
  BY <1>1, <1>3, <1>5, ExcuseEffect DEF Inv, TypeOK, Ops
<1>7. FramesInv' /\ (Shared' <=> Shared)
  BY <1>1, <1>5, LessFrames DEF Inv, TypeOK
<1>8. ExclusiveInv'
  BY <1>1, <1>2, <1>4, <1>7 DEF Inv, ExclusiveInv
<1>9. \A n \in Modules, k \in 0..MaxHandle :
        /\ Adding(n, k)' <=> Adding(n, k)
        /\ Removing(n, k)' <=> Removing(n, k) \/ (n = m /\ k = h)
  BY <1>1, <1>2, <1>4 DEF Adding, Removing
<1>10. EntryInv'
  <2> USE <1>1
  <2> SUFFICES ASSUME NEW key \in Keys, NEW i \in 1..Len(entries[key]),
                      NEW e, e = entries[key][i]
               PROVE  \/ e.handle \in held'[e.owner]
                      \/ op'[e.owner].at = "queued" /\ Removing(e.owner, e.handle)'
                      \/ Adding(e.owner, e.handle)'
    BY DEF Inv, EntryInv
  <2>1. e.owner \in Modules /\ e.handle \in Handles
    BY EntryFacts DEF Inv
  <2>2. \/ e.handle \in held[e.owner]
        \/ op[e.owner].at = "queued" /\ Removing(e.owner, e.handle)
        \/ Adding(e.owner, e.handle)
    BY DEF Inv, EntryInv
  <2> QED BY <1>2, <1>4, <1>5, <1>9, <2>1, <2>2 DEF Removing, Adding
<1>11. HandleInv'
  BY <1>1, <1>5, <1>9 DEF Inv, HandleInv, Handles
<1>12. CountInv'
  BY <1>1, <1>2, <1>4 DEF Inv, CountInv
<1> QED BY <1>6, <1>7, <1>8, <1>10, <1>11, <1>12 DEF Inv

\* Frames that stay right while the lists stay, and nobody is let down.
LEMMA SameFrames ==
    ASSUME TypeOK, FramesInv, UNCHANGED <<entries, frames>>,
           \A m \in enabled : m \in enabled' /\ held[m] \subseteq held'[m]
    PROVE  FramesInv' /\ (Shared' <=> Shared)
<1>1. \A key, h : Listed(key, h) => Listed(key, h)'
  BY DEF Listed
<1>2. \A id, h, pos : Ahead(id, h, pos) => Ahead(id, h, pos)'
  BY DEF Ahead, Offered
<1>3. \A f \in Frame : FrameInv(f) => FrameInv(f)'
  BY <1>1, <1>2 DEF FrameInv, Offered, Handling
<1>4. \A t \in Threads : \A i \in 1..Len(frames[t]) : frames[t][i] \in Frame
  BY DEF TypeOK
<1>5. FramesInv'
  BY <1>3, <1>4 DEF FramesInv
<1> QED BY <1>5 DEF Shared

\* An operation begins, or is given up: nothing else changes.
LEMMA CallOnNext == ASSUME Inv, NEW m \in Modules, NEW key \in Keys, CallOn(m, key) PROVE Inv'
<1> DEFINE r == [NoOp EXCEPT !.at = "queued", !.key = key]
<1>1. /\ op[m].at = "idle" /\ op' = [op EXCEPT ![m] = r]
      /\ UNCHANGED <<entries, count, next, enabled, held, frames>>
  BY DEF CallOn
<1>2. r.at = "queued" /\ r.kind = "on"
  BY DEF NoOp
<1>3. r \in Ops
  <2>1. 0 \in 0..MaxHandle
    BY PipelineAssumption
  <2> QED BY <2>1 DEF NoOp, Ops
<1> HIDE DEF r
<1>4. op'[m] = r /\ \A n \in Modules : n # m => op'[n] = op[n]
  BY <1>1, OpEffect DEF Inv, Steps
<1>5. TypeOK'
  BY <1>1, <1>3 DEF Inv, TypeOK, Ops
<1>6. FramesInv' /\ (Shared' <=> Shared)
  BY <1>1, SameFrames DEF Inv
<1>7. ExclusiveInv'
  BY <1>1, <1>2, <1>4, <1>6 DEF Inv, ExclusiveInv
<1>8. \A n \in Modules : \A k : /\ Adding(n, k)' <=> Adding(n, k)
                                /\ Removing(n, k)' <=> Removing(n, k)
  BY <1>1, <1>2, <1>4 DEF Adding, Removing
<1>9. EntryInv'
  <2> SUFFICES ASSUME NEW k \in Keys, NEW i \in 1..Len(entries[k]), NEW e, e = entries[k][i]
               PROVE  \/ e.handle \in held[e.owner]
                      \/ op'[e.owner].at = "queued" /\ Removing(e.owner, e.handle)'
                      \/ Adding(e.owner, e.handle)'
    BY <1>1 DEF Inv, EntryInv
  <2>1. e.owner \in Modules
    BY EntryFacts DEF Inv
  <2>2. \/ e.handle \in held[e.owner]
        \/ op[e.owner].at = "queued" /\ Removing(e.owner, e.handle)
        \/ Adding(e.owner, e.handle)
    BY DEF Inv, EntryInv
  <2> QED BY <1>1, <1>4, <1>8, <2>1, <2>2
<1>10. HandleInv'
  BY <1>1, <1>8 DEF Inv, HandleInv
<1>11. CountInv'
  BY <1>1, <1>2, <1>4 DEF Inv, CountInv
<1> QED BY <1>5, <1>6, <1>7, <1>9, <1>10, <1>11 DEF Inv

LEMMA SetEnabledNext == ASSUME Inv, NEW m \in Modules, SetEnabled(m) PROVE Inv'
<1>1. UNCHANGED <<entries, count, next, held, op>>
  BY DEF SetEnabled
<1>2. EntryInv' /\ HandleInv' /\ CountInv'
  <2>1. EntryInv'
    BY <1>1 DEF Inv, EntryInv, Removing, Adding
  <2>2. HandleInv'
    BY <1>1 DEF Inv, HandleInv, Removing, Adding
  <2>3. CountInv'
    BY <1>1 DEF Inv, CountInv
  <2> QED BY <2>1, <2>2, <2>3
<1>3. TypeOK' /\ FramesInv' /\ (Shared' <=> Shared)
  <2>1. CASE m \in enabled
    <3>1. enabled' = enabled \ {m} /\ Excuse(held[m])
      BY <2>1 DEF SetEnabled
    <3>2. TypeOK'
      BY <1>1, <3>1, ExcuseEffect DEF Inv, TypeOK
    <3>3. \A n \in enabled : \A h \in held[n] : h \notin held[m] => n \in enabled' /\ h \in held'[n]
      BY <1>1, <3>1
    <3> QED BY <1>1, <3>1, <3>2, <3>3, LessFrames DEF Inv
  <2>2. CASE m \notin enabled
    <3>1. enabled' = enabled \cup {m} /\ UNCHANGED frames
      BY <2>2 DEF SetEnabled
    <3>2. TypeOK'
      BY <1>1, <3>1 DEF Inv, TypeOK
    <3> QED BY <1>1, <3>1, <3>2, SameFrames DEF Inv
  <2> QED BY <2>1, <2>2
<1>4. ExclusiveInv'
  BY <1>1, <1>3 DEF Inv, ExclusiveInv
<1> QED BY <1>2, <1>3, <1>4 DEF Inv

LEMMA FinishNext == ASSUME Inv, NEW m \in Modules, Finish(m) PROVE Inv'
<1> DEFINE key == op[m].key
           h == op[m].handle
<1>1. /\ op[m].at = "inside" /\ op' = [op EXCEPT ![m] = NoOp]
      /\ UNCHANGED <<entries, next, enabled, frames>>
  BY DEF Finish
<1>2. key \in Keys /\ h \in 0..MaxHandle /\ NoOp \in Ops /\ NoOp.at = "idle"
  BY PipelineAssumption DEF Inv, TypeOK, NoOp, Ops, Keys
<1>3. op'[m] = NoOp /\ \A n \in Modules : n # m => op'[n] = op[n]
  BY <1>1, OpEffect DEF Inv, Steps
<1>4. \A n \in Modules : op'[n].at # "inside"
  BY <1>1, <1>2, <1>3 DEF Inv, ExclusiveInv
<1>5. \A n \in Modules : \A k : /\ ~Adding(n, k)'
                                /\ Removing(n, k)' <=> Removing(n, k) /\ n # m
                                /\ Adding(n, k) => n = m /\ k = h /\ op[m].kind = "on"
  BY <1>1, <1>2, <1>3, <1>4 DEF Adding, Removing, Inv, ExclusiveInv
<1>6. ExclusiveInv'
  BY <1>4 DEF ExclusiveInv
<1>7. \A k \in Keys : k # key => count[k] = Len(entries[k])
  BY <1>1 DEF Inv, ExclusiveInv, CountInv
<1>8. \A k \in Keys : count[k] \in Nat /\ Len(entries[k]) \in Nat
  BY EntryFacts DEF Inv, TypeOK
<1>9. CASE op[m].kind = "on"
  <2>1. count' = [count EXCEPT ![key] = @ + 1] /\ held' = [held EXCEPT ![m] = @ \cup {h}]
    BY <1>9 DEF Finish
  <2>2. Len(entries[key]) = count[key] + 1 /\ entries[key][Len(entries[key])].handle = h
    BY <1>1, <1>2, <1>9 DEF Inv, CountInv
  <2>3. Adding(m, h)
    BY <1>1, <1>9 DEF Adding
  <2> HIDE DEF key, h
  <2>4. h \in Handles
    <3>1. Len(entries[key]) \in 1..Len(entries[key])
      BY <1>2, <1>8, <2>2
    <3> QED BY <1>2, <2>2, <3>1, EntryFacts DEF Inv
  <2>5. /\ held' \in [Modules -> SUBSET Handles] /\ held'[m] = held[m] \cup {h}
        /\ \A n \in Modules : n # m => held'[n] = held[n]
    BY <2>1, <2>4 DEF Inv, TypeOK
  <2>6. /\ count' \in [Keys -> Nat] /\ count'[key] = count[key] + 1
        /\ \A k \in Keys : k # key => count'[k] = count[k]
    BY <1>2, <1>8, <2>1 DEF Inv, TypeOK
  <2>7. TypeOK'
    BY <1>1, <1>2, <2>5, <2>6 DEF Inv, TypeOK, Ops
  <2>8. FramesInv'
    BY <1>1, <2>5, SameFrames DEF Inv, TypeOK
  <2>9. CountInv'
    BY <1>1, <1>4, <1>7, <2>2, <2>6 DEF CountInv
  <2>10. EntryInv'
    <3> SUFFICES ASSUME NEW k \in Keys, NEW i \in 1..Len(entries[k]), NEW e, e = entries[k][i]
                 PROVE  \/ e.handle \in held'[e.owner]
                        \/ op'[e.owner].at = "queued" /\ Removing(e.owner, e.handle)'
      BY <1>1 DEF Inv, EntryInv
    <3>1. e.owner \in Modules
      BY EntryFacts DEF Inv
    <3>2. \/ e.handle \in held[e.owner]
          \/ op[e.owner].at = "queued" /\ Removing(e.owner, e.handle)
          \/ Adding(e.owner, e.handle)
      BY DEF Inv, EntryInv
    <3> QED BY <1>1, <1>3, <1>5, <2>5, <3>1, <3>2
  <2>11. HandleInv'
    <3>1. /\ h < next
          /\ \A n \in Modules : h \notin held[n] /\ ~Removing(n, h)
      BY <1>2, <2>3 DEF Inv, HandleInv
    <3> QED BY <1>1, <1>5, <2>5, <3>1 DEF Inv, HandleInv
  <2> QED BY <1>6, <2>7, <2>8, <2>9, <2>10, <2>11 DEF Inv
<1>10. CASE op[m].kind = "off"
  <2>1. count' = [count EXCEPT ![key] = @ - 1] /\ UNCHANGED held
    BY <1>10 DEF Finish
  <2>2. count[key] = Len(entries[key]) + 1
    BY <1>1, <1>2, <1>10 DEF Inv, CountInv
  <2> HIDE DEF key, h
  <2>3. count[key] - 1 \in Nat /\ count[key] - 1 = Len(entries[key])
    BY <1>2, <1>8, <2>2
  <2>4. /\ count' \in [Keys -> Nat] /\ count'[key] = Len(entries[key])
        /\ \A k \in Keys : k # key => count'[k] = count[k]
    BY <1>2, <2>1, <2>3 DEF Inv, TypeOK
  <2>5. TypeOK'
    BY <1>1, <1>2, <2>1, <2>4 DEF Inv, TypeOK, Ops
  <2>6. FramesInv'
    BY <1>1, <2>1, SameFrames DEF Inv
  <2>7. CountInv'
    BY <1>1, <1>4, <1>7, <2>4 DEF CountInv
  <2>8. EntryInv'
    <3> SUFFICES ASSUME NEW k \in Keys, NEW i \in 1..Len(entries[k]), NEW e, e = entries[k][i]
                 PROVE  \/ e.handle \in held[e.owner]
                        \/ op'[e.owner].at = "queued" /\ Removing(e.owner, e.handle)'
      BY SMTT(30), <1>1, <2>1 DEF Inv, EntryInv
    <3>1. e.owner \in Modules
      BY EntryFacts DEF Inv
    <3>2. \/ e.handle \in held[e.owner]
          \/ op[e.owner].at = "queued" /\ Removing(e.owner, e.handle)
          \/ Adding(e.owner, e.handle)
      BY DEF Inv, EntryInv
    <3> QED BY <1>1, <1>3, <1>5, <1>10, <3>1, <3>2
  <2>9. HandleInv'
    BY <1>1, <1>5, <2>1 DEF Inv, HandleInv
  <2> QED BY <1>6, <2>5, <2>6, <2>7, <2>8, <2>9 DEF Inv
<1> QED BY <1>9, <1>10 DEF Finish

\* A sequence without the entry at a place.
LEMMA RemoveFacts ==
    ASSUME NEW S, NEW s \in Seq(S), NEW i \in 1..Len(s)
    PROVE  LET r == SubSeq(s, 1, i - 1) \o SubSeq(s, i + 1, Len(s))
           IN  /\ r \in Seq(S) /\ Len(r) = Len(s) - 1
               /\ \A j \in 1..Len(r) : r[j] = s[IF j < i THEN j ELSE j + 1]
<1> DEFINE n == Len(s)
           a == SubSeq(s, 1, i - 1)
           b == SubSeq(s, i + 1, n)
           r == a \o b
<1>1. n \in Nat /\ i \in 1..n /\ \A j \in 1..n : s[j] \in S
  BY LenProperties
<1>2. a \in Seq(S) /\ Len(a) = i - 1 /\ \A j \in 1..(i - 1) : a[j] = s[j]
  <2>1. \A j \in 1..(i - 1) : s[j] \in S
    BY <1>1
  <2> HIDE DEF n
  <2> QED BY <1>1, <2>1, SubSeqProperties
<1>3. b \in Seq(S) /\ Len(b) = n - i /\ \A j \in 1..(n - i) : b[j] = s[i + j]
  <2>1. \A j \in (i + 1)..n : s[j] \in S
    BY <1>1
  <2>2. b \in Seq(S) /\ Len(b) = IF i + 1 <= n THEN n - (i + 1) + 1 ELSE 0
    BY <1>1, <2>1, SubSeqProperties
  <2>3. \A j \in 1..Len(b) : b[j] = s[(i + 1) + j - 1]
    BY <1>1, <2>1, SubSeqProperties
  <2> HIDE DEF b, n
  <2>4. Len(b) = n - i
    BY <1>1, <2>2
  <2>5. \A j \in 1..(n - i) : b[j] = s[i + j]
    <3> SUFFICES ASSUME NEW j \in 1..(n - i) PROVE b[j] = s[i + j]
      OBVIOUS
    <3>1. j \in Int /\ (i + 1) + j - 1 = i + j
      BY <1>1
    <3> QED BY <2>3, <2>4, <3>1
  <2> QED BY <2>2, <2>4, <2>5
<1>4. /\ r \in Seq(S) /\ Len(r) = Len(a) + Len(b)
      /\ \A j \in 1..Len(r) : \/ j \in 1..Len(a) /\ r[j] = a[j]
                              \/ j - Len(a) \in 1..Len(b) /\ r[j] = b[j - Len(a)]
  <2> HIDE DEF a, b
  <2> QED BY <1>2, <1>3, ConcatFacts
<1> HIDE DEF a, b, r, n
<1>5. Len(r) = n - 1
  BY <1>1, <1>2, <1>3, <1>4
<1>6. ASSUME NEW j \in 1..Len(r)
      PROVE  r[j] = s[IF j < i THEN j ELSE j + 1]
  <2>1. CASE j \in 1..Len(a) /\ r[j] = a[j]
    <3>1. j \in 1..(i - 1) /\ j < i
      BY <1>1, <1>2, <2>1
    <3> QED BY <1>2, <2>1, <3>1
  <2>2. CASE j - Len(a) \in 1..Len(b) /\ r[j] = b[j - Len(a)]
    <3>1. j - (i - 1) \in 1..(n - i) /\ ~(j < i) /\ i + (j - (i - 1)) = j + 1
      BY <1>1, <1>2, <1>3, <1>5, <2>2
    <3>2. r[j] = s[i + (j - (i - 1))]
      BY <1>2, <1>3, <2>2, <3>1
    <3> QED BY <3>1, <3>2
  <2> QED BY <1>4, <2>1, <2>2
<1> QED BY <1>4, <1>5, <1>6 DEF n, r, a, b

\* Nobody walks; whatever is listed stays so.
LEMMA IdleFrames ==
    ASSUME TypeOK, FramesInv, UNCHANGED frames, ~Shared,
           \A key \in Keys : \A h \in Handles : Listed(key, h) => Listed(key, h)'
    PROVE  FramesInv' /\ ~Shared'
<1>1. \A t \in Threads : \A i \in 1..Len(frames[t]) :
        frames[t][i] \in Frame /\ FrameInv(frames[t][i]) /\ ~Walking(frames[t][i])
  BY DEF TypeOK, FramesInv, Shared
<1>2. ASSUME NEW f \in Frame, FrameInv(f), ~Walking(f)
      PROVE  FrameInv(f)'
  <2>1. f.id \in Keys /\ Any \in Keys /\ f.must \subseteq Handles
    BY DEF Frame, Keys
  <2> QED BY <1>2, <2>1 DEF FrameInv, Walking, Handling
<1>3. FramesInv'
  BY <1>1, <1>2 DEF FramesInv
<1> QED BY <1>3 DEF Shared

\* What an operation that gets the lock starts from.
LEMMA FreeFacts ==
    ASSUME Inv, Free
    PROVE  /\ ~Shared /\ \A n \in Modules : op[n].at # "inside"
           /\ \A n \in Modules : \A k : ~Adding(n, k)
           /\ \A k \in Keys : count[k] = Len(entries[k])
<1>1. ~Shared /\ \A n \in Modules : op[n].at # "inside"
  BY DEF Free, Exclusive
<1> QED BY <1>1 DEF Adding, Inv, CountInv

LEMMA AppendNext ==
    ASSUME Inv, NEW m \in Modules, Change(m), op[m].kind = "on", next <= MaxHandle
    PROVE  Inv'
<1> DEFINE key == op[m].key
           e == [handle |-> next, owner |-> m]
           s == Append(entries[key], e)
           r == [op[m] EXCEPT !.at = "inside", !.handle = next]
<1>1. /\ op[m].at = "queued" /\ Free /\ UNCHANGED <<count, enabled, held, frames>>
      /\ entries' = [entries EXCEPT ![key] = s]
      /\ next' = next + 1 /\ op' = [op EXCEPT ![m] = r]
  <2>1. /\ op[m].at = "queued" /\ Free /\ UNCHANGED <<count, enabled, held, frames>>
        /\ entries' = [entries EXCEPT ![key] = s]
        /\ next' = next + 1 /\ op' = [op EXCEPT ![m].at = "inside", ![m].handle = next]
    <3>1. op[m].kind # "off" /\ ~(next > MaxHandle)
      BY PipelineAssumption DEF Inv, TypeOK
    <3> QED BY Zenon, <3>1 DEF Change
  <2> QED BY <2>1 DEF Inv, TypeOK
<1>2. next \in Handles /\ next' \in 1..(MaxHandle + 1) /\ next \in 0..MaxHandle
  BY <1>1, PipelineAssumption DEF Inv, TypeOK, Handles
<1>3. op[m] \in Ops /\ key \in Keys
  BY DEF Inv, TypeOK, Ops
<1>4. r \in Ops /\ r.at = "inside" /\ r.kind = "on" /\ r.key = key /\ r.handle = next
  BY <1>2, <1>3 DEF Ops
<1>5. e \in Entry /\ e.handle = next /\ e.owner = m
  BY <1>2 DEF Entry
<1> HIDE DEF key, r, e
<1>6. /\ s \in Seq(Entry) /\ Len(s) = Len(entries[key]) + 1 /\ s[Len(s)] = e
      /\ \A i \in 1..Len(entries[key]) : s[i] = entries[key][i]
  BY <1>3, <1>5, EntryFacts, AppendProperties DEF Inv
<1> HIDE DEF s
<1>7. op'[m] = r /\ \A n \in Modules : n # m => op'[n] = op[n]
  BY <1>1, OpEffect DEF Inv, Steps
<1>8. /\ entries' \in [Keys -> Seq(Entry)] /\ entries'[key] = s
      /\ \A k \in Keys : k # key => entries'[k] = entries[k]
  BY <1>1, <1>3, <1>6 DEF Inv, TypeOK
<1>9. TypeOK'
  BY <1>1, <1>2, <1>4, <1>8 DEF Inv, TypeOK, Ops
<1>10. /\ ~Shared /\ \A n \in Modules : op[n].at # "inside"
       /\ \A n \in Modules : \A k : ~Adding(n, k)
       /\ \A k \in Keys : count[k] = Len(entries[k])
  BY <1>1, FreeFacts
<1>11. \A n \in Modules : \A k : /\ Adding(n, k)' <=> n = m /\ k = next
                                 /\ Removing(n, k)' <=> Removing(n, k)
  BY <1>1, <1>4, <1>7, <1>10 DEF Adding, Removing
<1>12. \A k \in Keys : \A i \in 1..Len(entries'[k]) :
         \/ i \in 1..Len(entries[k]) /\ entries'[k][i] = entries[k][i]
         \/ k = key /\ i = Len(s) /\ entries'[k][i] = e
  <2> SUFFICES ASSUME NEW i \in 1..Len(s)
               PROVE  i \in 1..Len(entries[key]) \/ i = Len(s)
    BY <1>6, <1>8
  <2>1. Len(entries[key]) \in Nat
    BY <1>3, EntryFacts DEF Inv
  <2> QED BY <1>6, <2>1
<1>13. FramesInv' /\ ~Shared'
  <2>1. Len(entries[key]) \in Nat /\ Len(s) \in Nat
    BY <1>3, <1>6, EntryFacts DEF Inv
  <2>2. \A k \in Keys : \A i \in 1..Len(entries[k]) :
          i \in 1..Len(entries'[k]) /\ entries'[k][i] = entries[k][i]
    BY <1>6, <1>8, <2>1
  <2>3. ASSUME NEW k \in Keys, NEW h \in Handles, Listed(k, h)
        PROVE  Listed(k, h)'
    BY <1>1, <2>2, <2>3 DEF Listed
  <2> QED BY <1>1, <1>10, <2>3, IdleFrames DEF Inv
<1>14. ExclusiveInv'
  BY <1>7, <1>10, <1>13 DEF ExclusiveInv
<1>15. EntryInv'
  <2>1. \A k \in Keys : \A i \in 1..Len(entries[k]) :
          /\ entries[k][i].handle < next /\ entries[k][i].owner \in Modules
          /\ entries[k][i].handle \in Int
    BY EntryFacts DEF Inv, EntryInv, Handles
  <2>2. ASSUME NEW k \in Keys, NEW i \in 1..Len(entries'[k])
        PROVE  LET x == entries'[k][i]
                   o == op'[x.owner]
               IN  /\ x.handle < next'
                   /\ \/ x.handle \in held'[x.owner]
                      \/ o.at = "queued" /\ o.kind = "off" /\ o.handle = x.handle
                      \/ o.at = "inside" /\ o.kind = "on" /\ o.handle = x.handle
    <3>1. CASE i \in 1..Len(entries[k]) /\ entries'[k][i] = entries[k][i]
      <4> DEFINE x == entries[k][i]
      <4>1. /\ x.handle < next /\ x.owner \in Modules /\ x.handle \in Int
            /\ x.handle \in held[x.owner] \/ (op[x.owner].at = "queued" /\ Removing(x.owner, x.handle))
        BY <1>10, <2>1, <3>1 DEF Inv, EntryInv
      <4>2. Removing(x.owner, x.handle) => x.owner # m
        BY DEF Removing
      <4>4. entries'[k][i] = x
        BY <3>1
      <4> HIDE DEF x
      <4>3. x.handle < next'
        BY <1>1, <1>2, <4>1 DEF Handles
      <4> QED BY <1>1, <1>7, <4>1, <4>2, <4>3, <4>4 DEF Removing
    <3>2. CASE entries'[k][i] = e
      <4>1. next < next'
        BY <1>1, <1>2 DEF Handles
      <4> QED BY <1>4, <1>5, <1>7, <3>2, <4>1
    <3> QED BY <1>12, <3>1, <3>2
  <2>3. ASSUME NEW k \in Keys, NEW l \in Keys,
               NEW i \in 1..Len(entries'[k]), NEW j \in 1..Len(entries'[l]),
               entries'[k][i].handle = entries'[l][j].handle
        PROVE  k = l /\ i = j
    <3>1. next \in Int /\ e.handle = next
      BY <1>2, <1>5
    <3>2. ASSUME i \in 1..Len(entries[k]), entries'[k][i] = entries[k][i],
                 j \in 1..Len(entries[l]), entries'[l][j] = entries[l][j]
          PROVE  k = l /\ i = j
      <4>1. entries[k][i].handle = entries[l][j].handle
        BY <2>3, <3>2
      <4> QED BY <3>2, <4>1 DEF Inv, EntryInv
    <3>3. ASSUME i \in 1..Len(entries[k]), entries'[k][i] = entries[k][i], entries'[l][j] = e
          PROVE  FALSE
      BY <2>1, <2>3, <3>1, <3>3
    <3>4. ASSUME j \in 1..Len(entries[l]), entries'[l][j] = entries[l][j], entries'[k][i] = e
          PROVE  FALSE
      BY <2>1, <2>3, <3>1, <3>4
    <3> QED BY <1>12, <3>2, <3>3, <3>4
  <2> QED BY <2>2, <2>3 DEF EntryInv, Removing, Adding
<1>16. HandleInv'
  <2>1. \A n \in Modules : \A k \in held[n] : k \in Int /\ k < next
    BY DEF Inv, TypeOK, HandleInv, Handles
  <2>2. ASSUME NEW n \in Modules, NEW k \in held'[n]
        PROVE  /\ k < next'
               /\ \A o \in Modules : o # n => k \notin held'[o]
               /\ \A o \in Modules : ~Removing(o, k)' /\ ~Adding(o, k)'
    <3>1. k \in held[n] /\ k < next /\ k \in Int
      BY <1>1, <2>1
    <3>2. k < next' /\ k # next
      BY <1>1, <1>2, <3>1
    <3> QED BY <1>1, <1>11, <3>1, <3>2 DEF Inv, HandleInv
  <2>3. ASSUME NEW n \in Modules, NEW k \in 0..MaxHandle
        PROVE  /\ Removing(n, k)' \/ Adding(n, k)' => k < next'
               /\ Removing(n, k)' => \A o \in Modules : ~Adding(o, k)'
    <3>1. Removing(n, k) => k < next
      BY DEF Inv, HandleInv
    <3>2. k < next => k < next' /\ k # next
      BY <1>1, <1>2
    <3>3. next < next'
      BY <1>1, <1>2
    <3> QED BY <1>11, <3>1, <3>2, <3>3
  <2> QED BY <2>2, <2>3 DEF HandleInv
<1>17. CountInv'
  <2>1. Len(entries'[key]) = count'[key] + 1 /\ entries'[key][Len(entries'[key])].handle = next
    BY <1>1, <1>3, <1>5, <1>6, <1>8, <1>10
  <2>2. \A k \in Keys : k # key => count'[k] = Len(entries'[k])
    BY <1>1, <1>8, <1>10
  <2>3. \A n \in Modules : n # m => op'[n].at # "inside"
    BY <1>7, <1>10
  <2> QED BY <1>4, <1>7, <2>1, <2>2, <2>3 DEF CountInv
<1> QED BY <1>9, <1>13, <1>14, <1>15, <1>16, <1>17 DEF Inv

LEMMA GiveUpNext ==
    ASSUME Inv, NEW m \in Modules, op[m].at = "queued", op[m].kind = "on", op' = [op EXCEPT ![m] = NoOp],
           UNCHANGED <<entries, count, next, enabled, held, frames>>
    PROVE  Inv'
<1>1. NoOp \in Ops /\ NoOp.at = "idle"
  <2>1. 0 \in 0..MaxHandle
    BY PipelineAssumption
  <2> QED BY <2>1 DEF NoOp, Ops, Keys
<1>2. op'[m] = NoOp /\ \A n \in Modules : n # m => op'[n] = op[n]
  BY OpEffect DEF Inv, Steps
<1>3. TypeOK'
  BY <1>1 DEF Inv, TypeOK, Ops
<1>4. FramesInv' /\ (Shared' <=> Shared)
  BY SameFrames DEF Inv
<1>5. ExclusiveInv'
  BY <1>1, <1>2, <1>4 DEF Inv, ExclusiveInv
<1>6. \A n \in Modules : \A k : /\ Adding(n, k)' <=> Adding(n, k)
                                /\ Removing(n, k)' <=> Removing(n, k)
  BY <1>1, <1>2 DEF Adding, Removing
<1>7. EntryInv'
  <2> SUFFICES ASSUME NEW k \in Keys, NEW i \in 1..Len(entries[k]), NEW e, e = entries[k][i]
               PROVE  \/ e.handle \in held[e.owner]
                      \/ op'[e.owner].at = "queued" /\ Removing(e.owner, e.handle)'
                      \/ Adding(e.owner, e.handle)'
    BY DEF Inv, EntryInv
  <2>1. e.owner \in Modules
    BY EntryFacts DEF Inv
  <2>2. \/ e.handle \in held[e.owner]
        \/ op[e.owner].at = "queued" /\ Removing(e.owner, e.handle)
        \/ Adding(e.owner, e.handle)
    BY DEF Inv, EntryInv
  <2> QED BY <1>2, <1>6, <2>1, <2>2 DEF Removing
<1>8. HandleInv'
  BY <1>6 DEF Inv, HandleInv
<1>9. CountInv'
  BY <1>1, <1>2 DEF Inv, CountInv
<1> QED BY <1>3, <1>4, <1>5, <1>7, <1>8, <1>9 DEF Inv

LEMMA RemoveNext == ASSUME Inv, NEW m \in Modules, Change(m), op[m].kind = "off" PROVE Inv'
<1> DEFINE Removed(key, p) ==
             /\ entries[key][p].handle = op[m].handle
             /\ entries' = [entries EXCEPT ![key] = SubSeq(@, 1, p - 1) \o SubSeq(@, p + 1, Len(@))]
             /\ op' = [op EXCEPT ![m].at = "inside", ![m].key = key]
<1>20. PICK key \in Keys : \E p \in 1..Len(entries[key]) : Removed(key, p)
  BY DEF Change
<1>21. PICK p \in 1..Len(entries[key]) : Removed(key, p)
  BY <1>20
<1> DEFINE old == entries[key]
           h == op[m].handle
           s == SubSeq(old, 1, p - 1) \o SubSeq(old, p + 1, Len(old))
           r == [op[m] EXCEPT !.at = "inside", !.key = key]
<1>22. /\ op[m].at = "queued" /\ Free /\ old[p].handle = h
       /\ UNCHANGED <<count, next, enabled, held, frames>>
  BY <1>21 DEF Change
<1>1. op' = [op EXCEPT ![m] = r] /\ op[m] \in Ops
  BY <1>21 DEF Inv, TypeOK, Ops
<1>2. r \in Ops /\ r.at = "inside" /\ r.kind = "off" /\ r.key = key /\ r.handle = h
  BY <1>1 DEF Ops
<1>3. entries' = [entries EXCEPT ![key] = s]
  BY <1>21
<1>4. /\ s \in Seq(Entry) /\ Len(s) = Len(old) - 1
      /\ \A j \in 1..Len(s) : s[j] = old[IF j < p THEN j ELSE j + 1]
  BY EntryFacts, RemoveFacts DEF Inv
<1> HIDE DEF s, r, Removed
<1>5. op'[m] = r /\ \A n \in Modules : n # m => op'[n] = op[n]
  BY <1>1, OpEffect DEF Inv, Steps
<1>6. /\ entries' \in [Keys -> Seq(Entry)] /\ entries'[key] = s
      /\ \A k \in Keys : k # key => entries'[k] = entries[k]
  BY <1>3, <1>4 DEF Inv, TypeOK
<1>7. TypeOK'
  BY <1>1, <1>22, <1>2, <1>6 DEF Inv, TypeOK, Ops
<1>8. /\ ~Shared /\ \A n \in Modules : op[n].at # "inside"
      /\ \A n \in Modules : \A k : ~Adding(n, k)
      /\ \A k \in Keys : count[k] = Len(entries[k])
  BY <1>22, FreeFacts
<1>9. \A n \in Modules : \A k : /\ ~Adding(n, k)'
                                /\ Removing(n, k)' <=> Removing(n, k)
  BY <1>1, <1>2, <1>5, <1>8, <1>22 DEF Adding, Removing
<1>10. Len(old) \in Nat /\ Len(s) \in Nat /\ p \in 1..Len(old)
  BY <1>4, EntryFacts DEF Inv
<1> DEFINE was(k, i) == IF k = key /\ ~(i < p) THEN i + 1 ELSE i
<1>11. \A k \in Keys : \A i \in 1..Len(entries'[k]) :
         /\ was(k, i) \in 1..Len(entries[k]) /\ entries'[k][i] = entries[k][was(k, i)]
         /\ k = key => was(k, i) # p
  <2>1. ASSUME NEW i \in 1..Len(s)
        PROVE  was(key, i) \in 1..Len(old) /\ was(key, i) # p
    <3> HIDE DEF old
    <3> QED BY <1>4, <1>10
  <2>2. \A i \in 1..Len(s) : s[i] = old[was(key, i)]
    BY <1>4
  <2>3. \A k \in Keys : k # key => \A i : was(k, i) = i
    OBVIOUS
  <2> HIDE DEF was
  <2> QED BY <1>6, <2>1, <2>2, <2>3
<1>12. \A k \in Keys : \A i \in 1..Len(entries'[k]), j \in 1..Len(entries'[k]) :
         was(k, i) = was(k, j) => i = j
  <2>1. \A k \in Keys : Len(entries'[k]) \in Nat
    BY <1>6
  <2> QED BY <2>1
<1>13. \A k \in Keys : \A i \in 1..Len(entries[k]) :
         entries[k][i].handle # h => \E j \in 1..Len(entries'[k]) : entries'[k][j] = entries[k][i]
  <2>1. ASSUME NEW i \in 1..Len(old), i # p
        PROVE  \E j \in 1..Len(s) : s[j] = old[i]
    <3>1. CASE i < p
      <4>1. i \in 1..Len(s)
        <5> HIDE DEF old
        <5> QED BY <1>4, <1>10, <3>1
      <4> QED BY <1>4, <3>1, <4>1
    <3>2. CASE ~(i < p)
      <4>1. i - 1 \in 1..Len(s) /\ ~(i - 1 < p) /\ (i - 1) + 1 = i
        <5> HIDE DEF old
        <5> QED BY <1>4, <1>10, <2>1, <3>2
      <4> QED BY <1>4, <4>1
    <3> QED BY <3>1, <3>2
  <2> SUFFICES ASSUME NEW k \in Keys, NEW i \in 1..Len(entries[k]), entries[k][i].handle # h
               PROVE  \E j \in 1..Len(entries'[k]) : entries'[k][j] = entries[k][i]
    OBVIOUS
  <2>2. CASE k = key
    BY <1>6, <1>22, <2>1, <2>2
  <2>3. CASE k # key
    BY <1>6, <2>3
  <2> QED BY <2>2, <2>3
<1> HIDE DEF was
<1>14. \A n \in Modules : h \notin held[n]
  <2>1. Removing(m, h)
    BY <1>22 DEF Removing
  <2> QED BY <2>1 DEF Inv, HandleInv
<1>15. FramesInv' /\ ~Shared'
  <2>1. ASSUME NEW k \in Keys, NEW x \in Handles, Listed(k, x)
        PROVE  Listed(k, x)'
    <3>1. PICK n \in enabled, i \in 1..Len(entries[k]) :
            entries[k][i] = [handle |-> x, owner |-> n] /\ x \in held[n]
      BY <2>1 DEF Listed
    <3>2. x # h
      BY <1>14, <3>1 DEF Inv, TypeOK
    <3>3. \E j \in 1..Len(entries'[k]) : entries'[k][j] = entries[k][i]
      BY <1>13, <3>1, <3>2
    <3> QED BY <1>22, <3>1, <3>3 DEF Listed
  <2> QED BY <1>8, <1>22, <2>1, IdleFrames DEF Inv
<1>16. ExclusiveInv'
  BY <1>5, <1>8, <1>15 DEF ExclusiveInv
<1>17. EntryInv'
  <2>1. \A k \in Keys : \A i \in 1..Len(entries[k]) :
          LET x == entries[k][i]
          IN  /\ x.owner \in Modules /\ x.handle < next
              /\ x.handle \in held[x.owner] \/ (op[x.owner].at = "queued" /\ Removing(x.owner, x.handle))
    BY <1>8, EntryFacts DEF Inv, EntryInv
  <2>2. \A k \in Keys : \A i \in 1..Len(entries[k]) :
          entries[k][i].handle = h => k = key /\ i = p
    BY <1>22 DEF Inv, EntryInv
  <2>3. ASSUME NEW k \in Keys, NEW i \in 1..Len(entries'[k])
        PROVE  LET x == entries'[k][i]
                   o == op'[x.owner]
               IN  /\ x.handle < next'
                   /\ \/ x.handle \in held'[x.owner]
                      \/ o.at = "queued" /\ o.kind = "off" /\ o.handle = x.handle
    <3> DEFINE j == was(k, i)
               x == entries[k][j]
    <3>1. j \in 1..Len(entries[k]) /\ entries'[k][i] = x /\ (k = key => j # p)
      BY <1>11
    <3> HIDE DEF j
    <3>2. /\ x.owner \in Modules /\ x.handle < next
          /\ x.handle \in held[x.owner] \/ (op[x.owner].at = "queued" /\ Removing(x.owner, x.handle))
      BY <2>1, <3>1
    <3>3. x.handle # h
      BY <2>2, <3>1
    <3>4. Removing(x.owner, x.handle) => x.owner # m
      BY <3>3 DEF Removing
    <3> HIDE DEF x
    <3> QED BY <1>5, <1>22, <3>1, <3>2, <3>4 DEF Removing
  <2>4. ASSUME NEW k \in Keys, NEW l \in Keys,
               NEW i \in 1..Len(entries'[k]), NEW j \in 1..Len(entries'[l]),
               entries'[k][i].handle = entries'[l][j].handle
        PROVE  k = l /\ i = j
    <3>1. /\ was(k, i) \in 1..Len(entries[k]) /\ entries'[k][i] = entries[k][was(k, i)]
          /\ was(l, j) \in 1..Len(entries[l]) /\ entries'[l][j] = entries[l][was(l, j)]
      BY <1>11
    <3>2. k = l /\ was(k, i) = was(l, j)
      BY <2>4, <3>1 DEF Inv, EntryInv
    <3> QED BY <1>12, <3>2
  <2> QED BY <2>3, <2>4 DEF EntryInv, Removing, Adding
<1>18. HandleInv'
  BY <1>9, <1>22 DEF Inv, HandleInv
<1>19. CountInv'
  <2>1. count'[key] = Len(entries'[key]) + 1
    BY <1>4, <1>6, <1>8, <1>10, <1>22
  <2>2. \A k \in Keys : k # key => count'[k] = Len(entries'[k])
    BY <1>6, <1>8, <1>22
  <2>3. \A n \in Modules : n # m => op'[n].at # "inside"
    BY <1>5, <1>8
  <2> QED BY <1>2, <1>5, <2>1, <2>2, <2>3 DEF CountInv
<1> QED BY <1>7, <1>15, <1>16, <1>17, <1>18, <1>19 DEF Inv

LEMMA ChangeNext == ASSUME Inv, NEW m \in Modules, Change(m) PROVE Inv'
<1>1. CASE op[m].kind = "on" /\ next <= MaxHandle
  BY <1>1, AppendNext
<1>2. CASE op[m].kind = "on" /\ next > MaxHandle
  <2>1. ~(next <= MaxHandle) /\ op[m].kind # "off"
    BY <1>2, PipelineAssumption DEF Inv, TypeOK
  <2>2. /\ op[m].at = "queued" /\ op' = [op EXCEPT ![m] = NoOp]
        /\ UNCHANGED <<entries, count, next, enabled, held, frames>>
    BY Zenon, <2>1 DEF Change
  <2> QED BY <1>2, <2>2, GiveUpNext
<1>3. CASE op[m].kind = "off"
  BY <1>3, RemoveNext
<1> QED BY <1>1, <1>2, <1>3 DEF Change

LEMMA ClearNext == ASSUME Inv, Clear PROVE Inv'
<1>1. /\ \A m \in Modules : op[m].at = "idle"
      /\ entries' = [key \in Keys |-> <<>>] /\ count' = [key \in Keys |-> 0] /\ next' = 1
      /\ held' = [m \in Modules |-> {}] /\ Excuse(Handles) /\ UNCHANGED <<enabled, op>>
  BY DEF Clear
<1>2. ~Shared
  BY DEF Clear, Free
<1>3. TypeOK'
  <2>1. 1 \in 1..(MaxHandle + 1)
    BY PipelineAssumption
  <2>2. \A key \in Keys : entries'[key] \in Seq(Entry)
    BY <1>1, EmptySeq
  <2> QED BY <1>1, <2>1, <2>2, ExcuseEffect DEF Inv, TypeOK
<1>4. \A t \in Threads : \A i \in 1..Len(frames[t]) :
        frames[t][i] \in Frame /\ FrameInv(frames[t][i]) /\ ~Walking(frames[t][i])
  BY <1>2 DEF Inv, TypeOK, FramesInv, Shared
<1>5. \A t \in Threads : \A i \in 1..Len(frames'[t]) :
        /\ i \in 1..Len(frames[t]) /\ Less(frames[t][i], frames'[t][i], Handles)
  BY ExcuseEffect, <1>1 DEF Inv
<1>6. \A f, g : f \in Frame /\ FrameInv(f) /\ ~Walking(f) /\ Less(f, g, Handles)
                  => FrameInv(g)' /\ ~Walking(g)
  <2> SUFFICES ASSUME NEW f \in Frame, NEW g, FrameInv(f), ~Walking(f), Less(f, g, Handles)
               PROVE  FrameInv(g)' /\ ~Walking(g)
    OBVIOUS
  <2>1. g.must = {}
    BY DEF Less, Frame
  <2> QED BY <2>1 DEF FrameInv, Walking, Handling, Less
<1>7. FramesInv'
  BY <1>4, <1>5, <1>6 DEF FramesInv
<1>8. ~Shared'
  BY <1>4, <1>5, <1>6 DEF Shared, Walking, Handling
<1>9. ExclusiveInv'
  BY <1>1 DEF ExclusiveInv
<1>10. \A key \in Keys : Len(entries'[key]) = 0 /\ count'[key] = 0
  BY <1>1
<1>11. EntryInv'
  BY <1>10 DEF EntryInv
<1>12. HandleInv'
  BY <1>1 DEF HandleInv, Removing, Adding
<1>13. CountInv'
  BY <1>1, <1>10 DEF CountInv
<1> QED BY <1>3, <1>7, <1>9, <1>11, <1>12, <1>13 DEF Inv

-----------------------------------------------------------------------------
(* The theorems. *)

LEMMA InitInv == Init => Inv
<1> SUFFICES ASSUME Init PROVE Inv
  OBVIOUS
<1>1. NoOp \in Ops /\ NoOp.at = "idle"
  <2>1. 0 \in 0..MaxHandle
    BY PipelineAssumption
  <2> QED BY <2>1 DEF NoOp, Ops, Keys
<1>2. TypeOK
  <2>1. 1 \in 1..(MaxHandle + 1)
    BY PipelineAssumption
  <2> QED BY <1>1, <2>1, EmptySeq DEF Init, TypeOK, Ops
<1>3. ExclusiveInv /\ HandleInv
  BY <1>1 DEF Init, ExclusiveInv, HandleInv, Removing, Adding
<1>4. \A key \in Keys : Len(entries[key]) = 0 /\ count[key] = 0
  BY DEF Init
<1>5. EntryInv
  BY <1>4 DEF EntryInv
<1>6. CountInv
  BY <1>1, <1>4 DEF Init, CountInv
<1>7. \A t \in Threads : Len(frames[t]) = 0
  BY DEF Init
<1>8. FramesInv
  BY <1>7 DEF FramesInv
<1> QED BY <1>2, <1>3, <1>5, <1>6, <1>8 DEF Inv

LEMMA StepInv == Inv /\ [Next]_vars => Inv'
<1> SUFFICES ASSUME Inv, [Next]_vars PROVE Inv'
  OBVIOUS
<1>1. ASSUME NEW m \in Modules, NEW key \in Keys, CallOn(m, key) PROVE Inv'
  BY <1>1, CallOnNext
<1>2. ASSUME NEW m \in Modules, NEW h \in Handles, CallOff(m, h) PROVE Inv'
  BY <1>2, CallOffNext
<1>3. ASSUME NEW m \in Modules, Change(m) \/ Finish(m) \/ SetEnabled(m) PROVE Inv'
  BY <1>3, ChangeNext, FinishNext, SetEnabledNext
<1>4. CASE Clear
  BY <1>4, ClearNext
<1>5. ASSUME NEW t \in Threads, NEW id \in Ids, Process(t, id) \/ Send(t, id) PROVE Inv'
  BY <1>5, ProcessNext, SendNext
<1>6. ASSUME NEW t \in Threads, Enrol(t) \/ Advance(t) PROVE Inv'
  BY <1>6, EnrolNext, LoadCountNext, LockNext, OfferNext, ReturnNext, DoneNext DEF Advance
<1>7. CASE UNCHANGED vars
  <2>1. UNCHANGED Lists /\ UNCHANGED frames
    BY <1>7 DEF vars, Lists
  <2>2. EntryInv' /\ HandleInv' /\ CountInv'
    BY <2>1, Unmoved DEF Inv
  <2>3. FramesInv' /\ (Shared' <=> Shared)
    BY <2>1, SameFrames DEF Inv, Lists
  <2> QED BY <2>1, <2>2, <2>3 DEF Inv, TypeOK, ExclusiveInv, Lists
<1> QED BY <1>1, <1>2, <1>3, <1>4, <1>5, <1>6, <1>7 DEF Next

LEMMA AlwaysInv == Spec => []Inv
<1> QED BY InitInv, StepInv, PTL DEF Spec

\* Every variable of Pipeline keeps its type, for any number of threads, modules and handles:
\* no counter of the lists goes below zero.
THEOREM TypeCorrect == Spec => []TypeOK
<1>1. Inv => TypeOK
  BY DEF Inv
<1> QED BY <1>1, AlwaysInv, PTL

\* Pipeline::process (Pipeline.cpp:85-135): a packet that ends undropped was offered to every
\* handler registered and enabled throughout, though the counts are read apart, with no lock.
THEOREM HandlersAreNotMissed == Spec => []NoneMissed
<1>1. Inv => NoneMissed
  BY DEF Inv, FramesInv, FrameInv, NoneMissed
<1> QED BY <1>1, AlwaysInv, PTL

\* Pipeline::off (Pipeline.cpp:43-70): a handler whose off() has returned does not run, on any
\* thread, nested or not.
THEOREM HandlersEndWithOff == Spec => []NoneAfterOff
<1>1. Inv => NoneAfterOff
  <2> SUFFICES ASSUME Inv, NEW t \in Threads, NEW i \in 1..Len(frames[t]),
                      NEW f, f = frames[t][i], Handling(f)
               PROVE  /\ f.pos <= Len(Offered(f.id))
                      /\ LET e == Offered(f.id)[f.pos]
                         IN  \/ e.handle \in held[e.owner]
                             \/ op[e.owner].at = "queued" /\ op[e.owner].handle = e.handle
    BY DEF NoneAfterOff
  <2>1. f \in Frame /\ FrameInv(f)
    BY DEF Inv, TypeOK, FramesInv
  <2>2. f.pos >= 1 /\ f.pos <= Len(Offered(f.id)) /\ f.id \in Ids /\ f.pos \in Nat
    BY <2>1 DEF FrameInv, Frame
  <2>3. f.pos \in 1..Len(Offered(f.id))
    <3>1. Len(Offered(f.id)) \in Nat
      BY <2>2, OfferedFacts DEF Inv
    <3> QED BY <2>2, <3>1
  <2>4. PICK key \in Keys : \E j \in 1..Len(entries[key]) : Offered(f.id)[f.pos] = entries[key][j]
    BY <2>2, <2>3, OfferedFacts DEF Inv
  <2>8. PICK j \in 1..Len(entries[key]) : Offered(f.id)[f.pos] = entries[key][j]
    BY <2>4
  <2>5. \A m \in Modules : op[m].at # "inside"
    <3>1. Shared
      BY DEF Shared, Walking
    <3> QED BY <3>1 DEF Inv, ExclusiveInv
  <2> DEFINE e == entries[key][j]
  <2>6. e.owner \in Modules
    BY EntryFacts DEF Inv
  <2>7. e.handle \in held[e.owner] \/ (op[e.owner].at = "queued" /\ Removing(e.owner, e.handle))
    BY <2>5, <2>6 DEF Inv, EntryInv, Adding
  <2> QED BY <2>2, <2>7, <2>8 DEF Removing
<1> QED BY <1>1, AlwaysInv, PTL
=============================================================================
