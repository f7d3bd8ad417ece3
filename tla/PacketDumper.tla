---------------------------- MODULE PacketDumper ----------------------------
(***************************************************************************)
(* PacketDumper (src/services/PacketDumper.cpp): a latch that the user     *)
(* arms for one kind of packet and that the first such packet releases.    *)
(*                                                                         *)
(* The latch is five atomics and no lock.  arm() stores them one after the *)
(* other, m_armed last; checkPacket(), which Pipeline::process calls on    *)
(* whatever thread carries a packet, loads them one after the other,       *)
(* m_armed first.  Loads and stores keep the order of the source: those of *)
(* the build are plain moves of x64.                                       *)
(*                                                                         *)
(* Abstractions.  m_dumpBytes is left out: no decision depends on it.  A   *)
(* dump is recorded, its report is not.                                    *)
(***************************************************************************)
EXTENDS Naturals, Sequences

CONSTANTS
    Threads,  \* threads that carry packets
    Ids,      \* packet ids; a packet whose id cannot be read has 0
    MaxArms   \* calls of arm()

ASSUME DumperAssumption == Ids \subseteq Nat /\ MaxArms \in Nat

Directions == {"Inbound", "Outbound"}

VARIABLES
    latch,   \* m_targetId, m_targetDirection, m_anyDirection, m_armed
    user,    \* the arm() under way: its argument and the stores it has made
    wanted,  \* history: the arguments of arm() so far
    check,   \* per thread: its packet, what checkPacket has loaded, and whether
             \* no arm() was under way meanwhile
    dumps    \* history: how many packets were dumped

vars == <<latch, user, wanted, check, dumps>>

Requests == [id : Ids, dir : Directions, any : BOOLEAN, armed : {TRUE}]

Packets == [id : Ids, dir : Directions]

Latches == [id : Ids \cup {0}, dir : Directions, any : BOOLEAN, armed : BOOLEAN]

Stores == <<"id", "dir", "any", "armed">>

Loads == <<"armed", "id", "any", "dir">>

\* Where a check is: outside, before its n-th load, at the tests, at the report.
Away == 0
Testing == Len(Loads) + 1
Dumping == Len(Loads) + 2

Nothing == [id |-> 0, dir |-> "Inbound"]

Unset == [id |-> 0, dir |-> "Inbound", any |-> FALSE, armed |-> FALSE]

NoCheck == [at |-> Away, packet |-> Nothing, seen |-> Unset, alone |-> TRUE]

Init ==
    /\ latch = Unset
    /\ user = [done |-> Len(Stores), arg |-> Unset]
    /\ wanted = <<>>
    /\ check = [t \in Threads |-> NoCheck]
    /\ dumps = 0

-----------------------------------------------------------------------------
(* The user: ;;dump and ;;dump cancel. *)

Ready == user.done = Len(Stores)

Arm ==
    /\ Ready /\ Len(wanted) < MaxArms
    /\ \E r \in Requests :
         /\ user' = [done |-> 0, arg |-> r]
         /\ wanted' = Append(wanted, r)
    /\ check' = [t \in Threads |-> [check[t] EXCEPT !.alone = check[t].at = Away]]
    /\ UNCHANGED <<latch, dumps>>

MutStore ==
    /\ ~Ready
    /\ LET field == <<"armed", "id", "dir", "any">>[user.done + 1]
       IN  latch' = [latch EXCEPT ![field] = user.arg[field]]
    /\ user' = [user EXCEPT !.done = @ + 1]
    /\ UNCHANGED <<wanted, check, dumps>>

Store ==
    /\ ~Ready
    /\ LET field == Stores[user.done + 1]
       IN  latch' = [latch EXCEPT ![field] = user.arg[field]]
    /\ user' = [user EXCEPT !.done = @ + 1]
    /\ UNCHANGED <<wanted, check, dumps>>

Cancel ==
    /\ Ready /\ latch.armed
    /\ latch' = [latch EXCEPT !.armed = FALSE]
    /\ UNCHANGED <<user, wanted, check, dumps>>

-----------------------------------------------------------------------------
(* checkPacket(). *)

Arrive(t) ==
    /\ check[t].at = Away
    /\ \E p \in Packets :
         check' = [check EXCEPT ![t] = [at |-> 1, packet |-> p, seen |-> Unset,
                                           alone |-> Ready]]
    /\ UNCHANGED <<latch, user, wanted, dumps>>

Loading(t) == check[t].at \in 1..Len(Loads)

\* The next of the four loads; a latch that is not armed ends the check.
Load(t) ==
    /\ Loading(t)
    /\ LET field == Loads[check[t].at]
       IN  \/ /\ field # "armed" \/ latch.armed
              /\ check' = [check EXCEPT ![t].seen[field] = latch[field], ![t].at = @ + 1]
           \/ /\ field = "armed" /\ ~latch.armed
              /\ check' = [check EXCEPT ![t] = NoCheck]
    /\ UNCHANGED <<latch, user, wanted, dumps>>

MutMatches(seen, p) ==
    /\ p.id # 0 /\ p.id = seen.id
    /\ ~seen.any /\ p.dir = seen.dir

\* The packet is the one asked for, by what the check has loaded, and has an id.
Matches(seen, p) ==
    /\ p.id # 0 /\ p.id = seen.id
    /\ seen.any \/ p.dir = seen.dir

\* The tests, and m_armed.store(false) if they succeed.
Release(t) ==
    /\ check[t].at = Testing
    /\ IF Matches(check[t].seen, check[t].packet)
       THEN /\ latch' = [latch EXCEPT !.armed = FALSE]
            /\ check' = [check EXCEPT ![t].at = Dumping]
       ELSE /\ check' = [check EXCEPT ![t] = NoCheck]
            /\ UNCHANGED latch
    /\ UNCHANGED <<user, wanted, dumps>>

MutDump(t) ==
    /\ check[t].at = Dumping
    /\ dumps' = dumps + 1
    /\ check' = [check EXCEPT ![t].at = @ + 1]
    /\ UNCHANGED <<latch, user, wanted>>

\* dumpPacketMemory, writeToDumperLog.
Dump(t) ==
    /\ check[t].at = Dumping
    /\ dumps' = dumps + 1
    /\ check' = [check EXCEPT ![t] = NoCheck]
    /\ UNCHANGED <<latch, user, wanted>>

-----------------------------------------------------------------------------
Next ==
    \/ Arm \/ Store \/ Cancel
    \/ \E t \in Threads : Arrive(t) \/ Load(t) \/ Release(t) \/ Dump(t)

Spec == Init /\ [][Next]_vars

\* What a request asks for: an id, and a direction or any.
Asked(request, p) == p.id = request.id /\ (p.dir = request.dir \/ request.any)

\* A packet that the latch is armed for.
Hit(t) == Arrive(t) /\ Asked(latch, check'[t].packet)

\* arm() and checkPacket() block nowhere, and packets of the kind asked for
\* keep coming.
FairSpec ==
    /\ Spec
    /\ WF_vars(Store)
    /\ \A t \in Threads :
         /\ WF_vars(Load(t) \/ Release(t) \/ Dump(t))
         /\ SF_vars(Hit(t))

-----------------------------------------------------------------------------
\* The latch and the checks have their types.
TypeOK ==
    /\ latch \in Latches
    /\ user \in [done : 0..Len(Stores), arg : Requests \cup {Unset}]
    /\ wanted \in Seq(Requests) /\ Len(wanted) <= MaxArms
    /\ check \in [Threads -> [at : Away..Dumping, packet : Packets \cup {Nothing},
                             seen : Latches, alone : BOOLEAN]]
    /\ dumps \in Nat

\* DEVELOPER.md:635: "The dumper fires once": there are no more dumps than requests.  Between the
\* load of m_armed and the store that clears it, another thread may load it too.
FiresOnce == dumps <= Len(wanted)

\* Whatever is dumped is what the latest request asks for, unless that request
\* came while the check ran and an older one was there to mix it with: no check
\* acts on an armed latch whose target is not stored yet.
AsAsked ==
    \A t \in Threads :
        check[t].at = Dumping =>
            /\ \E j \in 1..Len(wanted) : wanted[j].id = check[t].packet.id
            /\ check[t].alone \/ Len(wanted) = 1
                 => Asked(wanted[Len(wanted)], check[t].packet)

\* An armed latch is released, or the user cancels the request; unless it is armed for
\* the id 0, which arm() takes and which no packet ever matches.
EventuallyReleased == latch.armed ~> ~latch.armed \/ latch.id = 0
=============================================================================
