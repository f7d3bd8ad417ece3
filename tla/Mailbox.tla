------------------------------ MODULE Mailbox ------------------------------
(***************************************************************************)
(* What injectInbound() promises (src/intercept/PacketInterceptor.h:33-37):*)
(* a packet somebody posts waits, and a thread of the game hands it to the *)
(* handler of the client, or gives it up when there is none to be found.   *)
(* A packet is taken once, and by one thread they are taken in the order   *)
(* they were posted in.                                                    *)
(*                                                                         *)
(* There is no queue here, no batch and no count: PacketInterceptor has    *)
(* them, and implements this.                                              *)
(***************************************************************************)
EXTENDS Naturals, Sequences

CONSTANTS
    Packets,  \* packets that may be posted
    Ordered   \* one thread takes them

VARIABLES
    posted,   \* packets in the order they were posted
    waiting,  \* those nobody took yet
    handled,  \* those handed over, each with whom it was handed to
    lost      \* those given up

Init == posted = <<>> /\ waiting = {} /\ handled = <<>> /\ lost = {}

Post(p) ==
    /\ \A i \in 1..Len(posted) : posted[i] # p
    /\ posted' = Append(posted, p)
    /\ waiting' = waiting \cup {p}
    /\ UNCHANGED <<handled, lost>>

\* Nobody waits who was posted before the packet at this place.
First(i) == \A j \in 1..(i - 1) : posted[j] \notin waiting

Take(p) ==
    /\ p \in waiting
    /\ Ordered => \E i \in 1..Len(posted) : posted[i] = p /\ First(i)
    /\ waiting' = waiting \ {p}
    /\ UNCHANGED posted

HandOver(p) ==
    /\ Take(p)
    /\ handled' = Append(handled, <<p, "client">>)
    /\ UNCHANGED lost

GiveUp(p) ==
    /\ Take(p)
    /\ lost' = lost \cup {p}
    /\ UNCHANGED handled

Next == \E p \in Packets : Post(p) \/ HandOver(p) \/ GiveUp(p)

Spec == Init /\ [][Next]_<<posted, waiting, handled, lost>>
=============================================================================
