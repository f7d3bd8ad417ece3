------------------------- MODULE PacketDumperProofs -------------------------
(***************************************************************************)
(* Proofs about PacketDumper, for every set of packet ids and any number   *)
(* of threads and of requests.                                             *)
(***************************************************************************)
EXTENDS PacketDumper, SequenceTheorems, TLAPS

Latest == wanted[Len(wanted)]

\* A packet id that a request asked for, or none.
Known(id) == id = 0 \/ \E j \in 1..Len(wanted) : wanted[j].id = id

\* The request under way is the latest, the latch holds what its stores have
\* reached, and an armed latch was asked for: by a finished arm() if there was but one.
LatchInv ==
    /\ wanted = <<>> => Ready /\ ~latch.armed
    /\ wanted # <<>> => user.arg = Latest
    /\ wanted # <<>> /\ user.done >= 1 => latch.id = Latest.id
    /\ wanted # <<>> /\ user.done >= 2 => latch.dir = Latest.dir
    /\ wanted # <<>> /\ user.done >= 3 => latch.any = Latest.any
    /\ Len(wanted) = 1 /\ latch.armed => Ready
    /\ Known(latch.id)

\* The check's request cannot be mixed with another.
Sole(t) == check[t].alone \/ Len(wanted) = 1

\* A check that went on from m_armed was asked for; if its request is the only one,
\* what it has loaded so far is what that request stored.
CheckInv ==
    \A t \in Threads :
        /\ check[t].at # Away => check[t].packet \in Packets
        /\ check[t].at # Away /\ check[t].alone => Ready
        /\ check[t].at >= 2 => wanted # <<>> /\ (Len(wanted) = 1 => Ready)
        /\ check[t].at >= 3 => Known(check[t].seen.id)
        /\ check[t].at >= 3 /\ Sole(t) => check[t].seen.id = Latest.id
        /\ check[t].at >= 4 /\ Sole(t) => check[t].seen.any = Latest.any
        /\ check[t].at >= 5 /\ Sole(t) => check[t].seen.dir = Latest.dir
        /\ check[t].at = Dumping => Matches(check[t].seen, check[t].packet)

Inv == TypeOK /\ LatchInv /\ CheckInv

\* A request more leaves those there were where they are.
LEMMA Wanted ==
    ASSUME TypeOK, NEW r \in Requests
    PROVE  /\ Append(wanted, r) \in Seq(Requests)
           /\ Len(Append(wanted, r)) = Len(wanted) + 1 /\ Len(wanted) \in Nat
           /\ Append(wanted, r)[Len(wanted) + 1] = r
           /\ \A j \in 1..Len(wanted) : Append(wanted, r)[j] = wanted[j]
           /\ wanted = <<>> <=> Len(wanted) = 0
<1>1. wanted \in Seq(Requests)
  BY DEF TypeOK
<1> QED BY <1>1, AppendProperties, LenProperties, EmptySeq

\* The orders of the stores and of the loads, number by number.
LEMMA Orders ==
    /\ Len(Stores) = 4 /\ Stores[1] = "id" /\ Stores[2] = "dir" /\ Stores[3] = "any"
    /\ Stores[4] = "armed"
    /\ Len(Loads) = 4 /\ Loads[1] = "armed" /\ Loads[2] = "id" /\ Loads[3] = "any"
    /\ Loads[4] = "dir"
    /\ Testing = 5 /\ Dumping = 6 /\ Away = 0
BY DEF Stores, Loads, Testing, Dumping, Away

LEMMA InitInv == Init => Inv
<1> SUFFICES ASSUME Init PROVE Inv
  OBVIOUS
<1> USE DumperAssumption, Orders DEF Init
<1>1. wanted \in Seq(Requests) /\ Len(wanted) = 0
  BY EmptySeq
<1>2. Unset \in Latches
  BY DEF Unset, Latches, Directions
<1>3. TypeOK
  BY <1>1, <1>2 DEF TypeOK, NoCheck, Nothing
<1>4. LatchInv
  BY <1>1 DEF LatchInv, Ready, Known, Unset
<1>5. CheckInv
  <2> SUFFICES ASSUME NEW t \in Threads, check[t].at = 0
               PROVE  /\ check[t].at = Away /\ check[t].at # Dumping
                      /\ ~(check[t].at >= 2) /\ ~(check[t].at >= 3)
                      /\ ~(check[t].at >= 4) /\ ~(check[t].at >= 5)
    BY Zenon DEF CheckInv, NoCheck
  <2> HIDE DEF Init
  <2> QED BY Orders
<1> QED BY <1>3, <1>4, <1>5 DEF Inv

LEMMA ArmInv == Inv /\ Arm => Inv'
<1> SUFFICES ASSUME Inv, Arm PROVE Inv'
  OBVIOUS
<1> USE DumperAssumption, Orders DEF Inv
<1>1. PICK r \in Requests : /\ user' = [done |-> 0, arg |-> r]
                            /\ wanted' = Append(wanted, r)
  BY DEF Arm
<1>2. /\ check' = [t \in Threads |-> [check[t] EXCEPT !.alone = check[t].at = Away]]
      /\ Len(wanted) < MaxArms /\ UNCHANGED <<latch, dumps>>
  BY DEF Arm
<1>3. /\ wanted' \in Seq(Requests) /\ Len(wanted') = Len(wanted) + 1 /\ Len(wanted) \in Nat
      /\ Latest' = r /\ \A j \in 1..Len(wanted) : wanted'[j] = wanted[j]
      /\ wanted = <<>> <=> Len(wanted) = 0 /\ wanted' # <<>>
  BY <1>1, Wanted DEF Latest
<1>4. \A t \in Threads : check[t] \in [at : Away..Dumping, packet : Packets \cup {Nothing},
                                      seen : Latches, alone : BOOLEAN]
  BY DEF TypeOK
<1>5. \A t \in Threads : /\ check'[t] \in [at : Away..Dumping, packet : Packets \cup {Nothing},
                                          seen : Latches, alone : BOOLEAN]
                         /\ check'[t].at = check[t].at /\ check'[t].seen = check[t].seen
                         /\ check'[t].packet = check[t].packet
                         /\ check'[t].alone = (check[t].at = Away)
  BY <1>2, <1>4
<1>6. TypeOK'
  <2>1. check' \in [Threads -> [at : Away..Dumping, packet : Packets \cup {Nothing},
                               seen : Latches, alone : BOOLEAN]]
    BY <1>2, <1>5
  <2>2. user' \in [done : 0..Len(Stores), arg : Requests \cup {Unset}]
    BY <1>1
  <2> QED BY <1>2, <1>3, <2>1, <2>2 DEF TypeOK
<1>7. \A id : Known(id) => Known(id)'
  BY <1>3 DEF Known
<1>8. LatchInv'
  BY <1>1, <1>2, <1>3, <1>7 DEF LatchInv, Ready
<1>9. CheckInv'
  <2> SUFFICES ASSUME NEW t \in Threads
               PROVE  (/\ check[t].at # Away => check[t].packet \in Packets
                       /\ check[t].at # Away /\ check[t].alone => Ready
                       /\ check[t].at >= 2 => wanted # <<>> /\ (Len(wanted) = 1 => Ready)
                       /\ check[t].at >= 3 => Known(check[t].seen.id)
                       /\ check[t].at >= 3 /\ Sole(t) => check[t].seen.id = Latest.id
                       /\ check[t].at >= 4 /\ Sole(t) => check[t].seen.any = Latest.any
                       /\ check[t].at >= 5 /\ Sole(t) => check[t].seen.dir = Latest.dir
                       /\ check[t].at = Dumping => Matches(check[t].seen, check[t].packet))'
    BY DEF CheckInv
  <2>1. check[t].at \in 0..6
    BY <1>4
  <2>2. check[t].at >= 2 => Len(wanted') # 1
    BY <1>3, <2>1 DEF CheckInv
  <2>3. check[t].at >= 2 => ~Sole(t)'
    BY <1>5, <2>1, <2>2 DEF Sole
  <2> QED BY <1>3, <1>5, <1>7, <2>1, <2>2, <2>3 DEF CheckInv, Matches
<1> QED BY <1>6, <1>8, <1>9

\* What no step but Arm changes: the requests, and through them what is known.
LEMMA SameChecks ==
    ASSUME Inv, UNCHANGED <<wanted, check>>, Ready => Ready',
           TypeOK', LatchInv'
    PROVE  Inv'
<1>1. \A t \in Threads : Sole(t)' <=> Sole(t)
  BY DEF Sole
<1>2. \A id : Known(id)' <=> Known(id)
  BY DEF Known
<1>3. Latest' = Latest
  BY DEF Latest
<1>4. CheckInv'
  BY <1>1, <1>2, <1>3 DEF CheckInv, Inv, Matches
<1> QED BY <1>4 DEF Inv

LEMMA StoreInv == Inv /\ Store => Inv'
<1> SUFFICES ASSUME Inv, Store PROVE Inv'
  OBVIOUS
<1> USE DumperAssumption, Orders DEF Inv
<1>1. /\ user.done \in 0..3 /\ user' = [user EXCEPT !.done = @ + 1]
      /\ latch' = [latch EXCEPT ![Stores[user.done + 1]] = user.arg[Stores[user.done + 1]]]
      /\ UNCHANGED <<wanted, check, dumps>>
  BY DEF Store, TypeOK, Ready
<1>2. wanted # <<>> /\ user.arg = Latest /\ Latest \in Requests /\ Len(wanted) \in 1..Len(wanted)
  <2>1. wanted # <<>>
    BY <1>1 DEF LatchInv, Ready
  <2>2. Len(wanted) \in 1..Len(wanted) /\ wanted \in Seq(Requests)
    BY <2>1, EmptySeq DEF TypeOK
  <2> QED BY <2>1, <2>2, ElementOfSeq DEF LatchInv, Latest
<1>3. latch \in Latches
  BY DEF TypeOK
<1>4. /\ Latest.id \in Ids /\ Latest.dir \in Directions /\ Latest.any \in BOOLEAN
      /\ Latest.armed = TRUE
  BY <1>2 DEF Requests
<1>5. user'.done = user.done + 1 /\ user'.arg = user.arg /\ Latest' = Latest
  BY <1>1 DEF TypeOK, Latest
<1>6. ASSUME NEW field \in {"id", "dir", "any", "armed"}, Stores[user.done + 1] = field
      PROVE  latch' = [latch EXCEPT ![field] = Latest[field]]
  BY <1>1, <1>2, <1>6
<1>7. /\ latch' \in Latches
      /\ latch'.id = IF user.done = 0 THEN Latest.id ELSE latch.id
      /\ latch'.dir = IF user.done = 1 THEN Latest.dir ELSE latch.dir
      /\ latch'.any = IF user.done = 2 THEN Latest.any ELSE latch.any
      /\ latch'.armed = IF user.done = 3 THEN TRUE ELSE latch.armed
  <2>1. CASE user.done = 0
    <3>1. latch' = [latch EXCEPT !.id = Latest.id]
      BY <1>6, <2>1
    <3> QED BY <1>3, <1>4, <2>1, <3>1 DEF Latches
  <2>2. CASE user.done = 1
    <3>1. latch' = [latch EXCEPT !.dir = Latest.dir]
      BY <1>6, <2>2
    <3> QED BY <1>3, <1>4, <2>2, <3>1 DEF Latches
  <2>3. CASE user.done = 2
    <3>1. latch' = [latch EXCEPT !.any = Latest.any]
      BY <1>6, <2>3
    <3> QED BY <1>3, <1>4, <2>3, <3>1 DEF Latches
  <2>4. CASE user.done = 3
    <3>1. latch' = [latch EXCEPT !.armed = Latest.armed]
      BY <1>6, <2>4
    <3> QED BY <1>3, <1>4, <2>4, <3>1 DEF Latches
  <2>5. user.done = 0 \/ user.done = 1 \/ user.done = 2 \/ user.done = 3
    BY <1>1
  <2> QED BY <2>1, <2>2, <2>3, <2>4, <2>5
<1>8. TypeOK'
  BY <1>1, <1>7 DEF TypeOK
<1>9. LatchInv'
  <2>1. Known(Latest.id) /\ \A id : Known(id)' <=> Known(id)
    BY <1>1, <1>2 DEF Known, Latest
  <2>2. wanted' # <<>> /\ wanted' = wanted
    BY <1>1, <1>2
  <2>3. CASE user.done = 0
    <3>1. latch'.id = Latest.id /\ latch'.armed = latch.armed /\ user'.done = 1
      BY <1>5, <1>7, <2>3
    <3>2. ~(Len(wanted) = 1 /\ latch.armed)
      BY <2>3 DEF LatchInv, Ready
    <3> QED BY <1>2, <1>5, <2>1, <2>2, <3>1, <3>2 DEF LatchInv
  <2>4. CASE user.done = 1
    <3>1. /\ latch'.id = latch.id /\ latch'.dir = Latest.dir
          /\ latch'.armed = latch.armed /\ user'.done = 2
      BY <1>5, <1>7, <2>4
    <3>2. ~(Len(wanted) = 1 /\ latch.armed) /\ latch.id = Latest.id
      BY <1>2, <2>4 DEF LatchInv, Ready
    <3> QED BY <1>2, <1>5, <2>1, <2>2, <3>1, <3>2 DEF LatchInv
  <2>5. CASE user.done = 2
    <3>1. /\ latch'.id = latch.id /\ latch'.dir = latch.dir /\ latch'.any = Latest.any
          /\ latch'.armed = latch.armed /\ user'.done = 3
      BY <1>5, <1>7, <2>5
    <3>2. ~(Len(wanted) = 1 /\ latch.armed) /\ latch.id = Latest.id /\ latch.dir = Latest.dir
      BY <1>2, <2>5 DEF LatchInv, Ready
    <3> QED BY <1>2, <1>5, <2>1, <2>2, <3>1, <3>2 DEF LatchInv
  <2>6. CASE user.done = 3
    <3>1. /\ latch'.id = latch.id /\ latch'.dir = latch.dir /\ latch'.any = latch.any
          /\ user'.done = 4
      BY <1>5, <1>7, <2>6
    <3>2. latch.id = Latest.id /\ latch.dir = Latest.dir /\ latch.any = Latest.any
      BY <1>2, <2>6 DEF LatchInv
    <3> QED BY <1>2, <1>5, <2>1, <2>2, <3>1, <3>2 DEF LatchInv, Ready
  <2> QED BY <1>1, <2>3, <2>4, <2>5, <2>6
<1> QED BY <1>1, <1>8, <1>9, SameChecks DEF Ready

LEMMA CancelInv == Inv /\ Cancel => Inv'
<1> SUFFICES ASSUME Inv, Cancel PROVE Inv'
  OBVIOUS
<1> USE DEF Inv
<1>1. latch' = [latch EXCEPT !.armed = FALSE] /\ UNCHANGED <<user, wanted, check, dumps>>
  BY DEF Cancel
<1>2. /\ latch' \in Latches /\ latch'.armed = FALSE /\ latch'.id = latch.id
      /\ latch'.dir = latch.dir /\ latch'.any = latch.any
  BY <1>1 DEF TypeOK, Latches
<1>3. TypeOK'
  BY <1>1, <1>2 DEF TypeOK
<1>4. LatchInv'
  BY <1>1, <1>2 DEF LatchInv, Ready, Known, Latest
<1> QED BY <1>1, <1>3, <1>4, SameChecks DEF Ready

\* One thread's check moves; the latch can only be let go.
LEMMA CheckStep ==
    ASSUME Inv, NEW t \in Threads, UNCHANGED <<user, wanted>>, dumps' \in Nat,
           latch' = latch \/ latch' = [latch EXCEPT !.armed = FALSE],
           check' \in [Threads -> [at : Away..Dumping, packet : Packets \cup {Nothing},
                                  seen : Latches, alone : BOOLEAN]],
           \A u \in Threads : u # t => check'[u] = check[u],
           check'[t].at # Away => check'[t].packet \in Packets,
           check'[t].at # Away /\ check'[t].alone => Ready,
           check'[t].at >= 2 => wanted # <<>> /\ (Len(wanted) = 1 => Ready),
           check'[t].at >= 3 => Known(check'[t].seen.id),
           check'[t].at >= 3 /\ (check'[t].alone \/ Len(wanted) = 1)
             => check'[t].seen.id = Latest.id,
           check'[t].at >= 4 /\ (check'[t].alone \/ Len(wanted) = 1)
             => check'[t].seen.any = Latest.any,
           check'[t].at >= 5 /\ (check'[t].alone \/ Len(wanted) = 1)
             => check'[t].seen.dir = Latest.dir,
           check'[t].at = Dumping => Matches(check'[t].seen, check'[t].packet)
    PROVE  Inv'
<1> USE DEF Inv
<1>1. /\ latch' \in Latches /\ (latch'.armed => latch.armed) /\ latch'.id = latch.id
      /\ latch'.dir = latch.dir /\ latch'.any = latch.any
  BY DEF TypeOK, Latches
<1>2. TypeOK'
  BY <1>1 DEF TypeOK
<1>3. Latest' = Latest /\ (Ready' <=> Ready) /\ \A id : Known(id)' <=> Known(id)
  BY DEF Latest, Ready, Known
<1>4. LatchInv'
  BY <1>1, <1>3 DEF LatchInv
<1>5. CheckInv'
  <2> SUFFICES ASSUME NEW u \in Threads
               PROVE  (/\ check[u].at # Away => check[u].packet \in Packets
                       /\ check[u].at # Away /\ check[u].alone => Ready
                       /\ check[u].at >= 2 => wanted # <<>> /\ (Len(wanted) = 1 => Ready)
                       /\ check[u].at >= 3 => Known(check[u].seen.id)
                       /\ check[u].at >= 3 /\ Sole(u) => check[u].seen.id = Latest.id
                       /\ check[u].at >= 4 /\ Sole(u) => check[u].seen.any = Latest.any
                       /\ check[u].at >= 5 /\ Sole(u) => check[u].seen.dir = Latest.dir
                       /\ check[u].at = Dumping => Matches(check[u].seen, check[u].packet))'
    BY DEF CheckInv
  <2>1. CASE u = t
    BY <1>3, <2>1 DEF Sole, Matches
  <2>2. CASE u # t
    BY <1>3, <2>2 DEF CheckInv, Sole, Matches
  <2> QED BY <2>1, <2>2
<1> QED BY <1>2, <1>4, <1>5
Checks == [at : Away..Dumping, packet : Packets \cup {Nothing}, seen : Latches, alone : BOOLEAN]

LEMMA ArriveInv ==
    ASSUME Inv, NEW t \in Threads, Arrive(t)
    PROVE  Inv'
<1> USE DEF Inv
<1>1. PICK p \in Packets :
        check' = [check EXCEPT ![t] = [at |-> 1, packet |-> p, seen |-> Unset, alone |-> Ready]]
  BY DEF Arrive
<1>2. UNCHANGED <<latch, user, wanted, dumps>>
  BY DEF Arrive
<1>3. check \in [Threads -> Checks] /\ dumps \in Nat
  BY DEF TypeOK, Checks
<1>4. Ready \in BOOLEAN /\ Unset \in Latches
  BY DEF Ready, Unset, Latches, Directions
<1>5. [at |-> 1, packet |-> p, seen |-> Unset, alone |-> Ready] \in Checks
  BY <1>4, Orders DEF Checks
<1>6. /\ check' \in [Threads -> Checks] /\ \A u \in Threads : u # t => check'[u] = check[u]
      /\ check'[t].at = 1 /\ check'[t].packet \in Packets /\ check'[t].alone = Ready
  BY <1>1, <1>3, <1>5
<1> QED BY <1>2, <1>3, <1>6, CheckStep, Orders DEF Checks

LEMMA GoneInv ==
    ASSUME Inv, NEW t \in Threads, check' = [check EXCEPT ![t] = NoCheck],
           UNCHANGED <<user, wanted>>, dumps' \in Nat, latch' = latch
    PROVE  Inv'
<1>1. check \in [Threads -> Checks]
  BY DEF Inv, TypeOK, Checks
<1>2. NoCheck \in Checks /\ NoCheck.at = 0
  BY Orders DEF Checks, NoCheck, Nothing, Unset, Latches, Directions
<1>3. /\ check' \in [Threads -> Checks] /\ \A u \in Threads : u # t => check'[u] = check[u]
      /\ check'[t].at = 0
  BY <1>1, <1>2
<1> QED BY <1>3, CheckStep, Orders DEF Checks

LEMMA LoadInv ==
    ASSUME Inv, NEW t \in Threads, Load(t)
    PROVE  Inv'
<1> USE DEF Inv
<1> DEFINE c == check[t]
           field == Loads[c.at]
<1>1. /\ check \in [Threads -> Checks] /\ c \in Checks /\ latch \in Latches /\ dumps \in Nat
      /\ c.at \in 1..4 /\ UNCHANGED <<latch, user, wanted, dumps>>
  BY Orders DEF TypeOK, Checks, Load, Loading
<1>2. CASE ~(field # "armed" \/ latch.armed)
  <2>1. check' = [check EXCEPT ![t] = NoCheck]
    BY <1>2 DEF Load
  <2> QED BY <1>1, <2>1, GoneInv
<1>3. CASE field # "armed" \/ latch.armed
  <2> DEFINE d == check'[t]
  <2>1. check' = [check EXCEPT ![t].seen[field] = latch[field], ![t].at = @ + 1]
    BY <1>3 DEF Load
  <2> HIDE DEF field
  <2>2. /\ d.at = c.at + 1 /\ d.packet = c.packet /\ d.alone = c.alone
        /\ d.seen = [c.seen EXCEPT ![field] = latch[field]]
        /\ \A u \in Threads : u # t => check'[u] = check[u]
        /\ check' = [u \in Threads |-> IF u = t THEN d ELSE check[u]]
        /\ d = [c EXCEPT !.seen = d.seen, !.at = c.at + 1]
    BY <1>1, <2>1 DEF Checks
  <2>3. ASSUME NEW f \in {"id", "dir", "any", "armed"}, field = f
        PROVE  d.seen = [c.seen EXCEPT ![f] = latch[f]]
    BY <2>2, <2>3
  <2> HIDE DEF d, field
  <2>4. /\ d.seen \in Latches
        /\ d.seen.id = IF c.at = 2 THEN latch.id ELSE c.seen.id
        /\ d.seen.any = IF c.at = 3 THEN latch.any ELSE c.seen.any
        /\ d.seen.dir = IF c.at = 4 THEN latch.dir ELSE c.seen.dir
    <3>1. c.seen \in Latches
      BY <1>1 DEF Checks
    <3>2. CASE c.at = 1
      <4>1. d.seen = [c.seen EXCEPT !.armed = latch.armed]
        BY <2>3, <3>2, Orders DEF field
      <4> QED BY <1>1, <3>1, <3>2, <4>1 DEF Latches
    <3>3. CASE c.at = 2
      <4>1. d.seen = [c.seen EXCEPT !.id = latch.id]
        BY <2>3, <3>3, Orders DEF field
      <4> QED BY <1>1, <3>1, <3>3, <4>1 DEF Latches
    <3>4. CASE c.at = 3
      <4>1. d.seen = [c.seen EXCEPT !.any = latch.any]
        BY <2>3, <3>4, Orders DEF field
      <4> QED BY <1>1, <3>1, <3>4, <4>1 DEF Latches
    <3>5. CASE c.at = 4
      <4>1. d.seen = [c.seen EXCEPT !.dir = latch.dir]
        BY <2>3, <3>5, Orders DEF field
      <4> QED BY <1>1, <3>1, <3>5, <4>1 DEF Latches
    <3>6. c.at = 1 \/ c.at = 2 \/ c.at = 3 \/ c.at = 4
      BY <1>1
    <3> QED BY <3>2, <3>3, <3>4, <3>5, <3>6
  <2>5. check' \in [Threads -> Checks]
    <3>1. d \in Checks
      BY <1>1, <2>2, <2>4, Orders DEF Checks
    <3> QED BY <1>1, <2>2, <3>1
  <2>6. d.packet \in Packets /\ (d.alone => Ready)
    BY <1>1, <2>2, Orders DEF CheckInv
  <2>7. wanted # <<>> /\ (Len(wanted) = 1 => Ready)
    <3>1. CASE c.at = 1
      BY <1>3, <3>1, Orders DEF LatchInv, field
    <3>2. CASE c.at # 1
      BY <1>1, <3>2 DEF CheckInv
    <3> QED BY <3>1, <3>2
  <2>8. d.alone \/ Len(wanted) = 1
          => latch.id = Latest.id /\ latch.any = Latest.any /\ latch.dir = Latest.dir
    BY <2>6, <2>7, Orders DEF LatchInv, Ready
  <2>9. d.at >= 3 => Known(d.seen.id)
    BY <1>1, <2>2, <2>4 DEF CheckInv, LatchInv
  <2>10. d.alone \/ Len(wanted) = 1 =>
           /\ d.at >= 3 => d.seen.id = Latest.id
           /\ d.at >= 4 => d.seen.any = Latest.any
           /\ d.at >= 5 => d.seen.dir = Latest.dir
    BY <1>1, <2>2, <2>4, <2>8 DEF CheckInv, Sole
  <2>11. d.at # Dumping
    BY <1>1, <2>2, Orders
  <2> QED BY <1>1, <2>2, <2>5, <2>6, <2>7, <2>9, <2>10, <2>11, CheckStep DEF d, Checks
<1> QED BY <1>2, <1>3

LEMMA ReleaseInv ==
    ASSUME Inv, NEW t \in Threads, Release(t)
    PROVE  Inv'
<1> USE DEF Inv
<1> DEFINE c == check[t]
<1>1. /\ check \in [Threads -> Checks] /\ c \in Checks /\ dumps' \in Nat /\ c.at = 5
      /\ UNCHANGED <<user, wanted, dumps>>
  BY Orders DEF TypeOK, Checks, Release
<1>2. CASE ~Matches(c.seen, c.packet)
  BY <1>1, <1>2, GoneInv DEF Release
<1>3. CASE Matches(c.seen, c.packet)
  <2> DEFINE d == check'[t]
  <2>1. latch' = [latch EXCEPT !.armed = FALSE] /\ check' = [check EXCEPT ![t].at = 6]
    BY <1>3, Orders DEF Release
  <2>2. /\ d.at = 6 /\ d.packet = c.packet /\ d.alone = c.alone /\ d.seen = c.seen
        /\ \A u \in Threads : u # t => check'[u] = check[u]
        /\ check' \in [Threads -> Checks]
    BY <1>1, <2>1, Orders DEF Checks
  <2> HIDE DEF d
  <2>3. /\ c.packet \in Packets /\ (c.alone => Ready)
        /\ wanted # <<>> /\ (Len(wanted) = 1 => Ready)
        /\ Known(c.seen.id)
        /\ (c.alone \/ Len(wanted) = 1
              => c.seen.id = Latest.id /\ c.seen.any = Latest.any /\ c.seen.dir = Latest.dir)
    BY <1>1, Orders DEF CheckInv, Sole
  <2> QED BY <1>1, <1>3, <2>1, <2>2, <2>3, CheckStep, Orders DEF d, Checks
<1> QED BY <1>2, <1>3

LEMMA NextInv == Inv /\ [Next]_vars => Inv'
<1> SUFFICES ASSUME Inv, [Next]_vars PROVE Inv'
  OBVIOUS
<1>1. ASSUME NEW t \in Threads, Dump(t) PROVE Inv'
  <2>1. dumps \in Nat
    BY DEF Inv, TypeOK
  <2>2. dumps' \in Nat
    BY <1>1, <2>1 DEF Dump
  <2> QED BY <1>1, <2>2, GoneInv DEF Dump
<1>2. CASE UNCHANGED vars
  <2>1. TypeOK' /\ LatchInv'
    <3>1. UNCHANGED <<latch, user, wanted, check, dumps>>
      BY <1>2 DEF vars
    <3> QED BY <3>1 DEF Inv, TypeOK, LatchInv, Ready, Known, Latest
  <2> QED BY <1>2, <2>1, SameChecks DEF vars, Ready
<1> QED BY <1>1, <1>2, ArmInv, StoreInv, CancelInv, ArriveInv, LoadInv, ReleaseInv DEF Next

LEMMA Invariance == Spec => []Inv
BY InitInv, NextInv, PTL DEF Spec

\* The latch, the requests and the checks (services/PacketDumper.h:42) keep their types.
THEOREM TypeCorrect == Spec => []TypeOK
BY Invariance, PTL DEF Inv

\* checkPacket() (services/PacketDumper.cpp:61) reads the target in four loads and arm()
\* writes it in four stores, with no lock: still, whatever is dumped is what some request asked
\* for, and what the latest asked for unless an older one was there to mix it with; for any
\* number of requests, of threads that carry packets and of packet ids.
THEOREM DumpsAsAsked == Spec => []AsAsked
<1>1. Inv => AsAsked
  <2> SUFFICES ASSUME Inv, NEW t \in Threads, check[t].at = Dumping
               PROVE  /\ \E j \in 1..Len(wanted) : wanted[j].id = check[t].packet.id
                      /\ check[t].alone \/ Len(wanted) = 1
                           => Asked(wanted[Len(wanted)], check[t].packet)
    BY DEF AsAsked
  <2>1. check[t].packet.id \in Ids /\ Matches(check[t].seen, check[t].packet)
    BY Orders DEF Inv, CheckInv, Packets
  <2>2. Known(check[t].seen.id) /\ check[t].packet.id # 0
    BY <2>1, Orders DEF Inv, CheckInv, Matches
  <2>3. Sole(t) => /\ check[t].seen.id = Latest.id /\ check[t].seen.any = Latest.any
                   /\ check[t].seen.dir = Latest.dir
    BY Orders DEF Inv, CheckInv
  <2> QED BY <2>1, <2>2, <2>3 DEF Known, Matches, Asked, Sole, Latest
<1> QED BY <1>1, Invariance, PTL

=============================================================================
