-------------------------------- MODULE Desk --------------------------------
(***************************************************************************)
(* What CommandManager::execute() promises to whoever calls it (src/sdk/   *)
(* CommandManager.h): a request is sent in its turn, one in a cooldown, or *)
(* fails; it is closed with one answer, of a kind it can have, and its     *)
(* caller is told that answer and no other.  Whoever withdraws or closes   *)
(* the desk leaves callers without an answer, and those stay so.           *)
(*                                                                         *)
(* There are no packets, timers, filters or threads here, no handlers      *)
(* registered twice and nothing that squelches: CommandManager has them,   *)
(* and implements this.                                                    *)
(***************************************************************************)
EXTENDS Naturals, Sequences

CONSTANTS
    Reqs,      \* requests, each made at most once
    Callers,   \* requests whose caller wants an answer
    Outcomes,  \* the kinds of answers
    Failure,   \* the kind for a request that could not be sent
    Fitting,   \* Fitting[r]: the kinds of answers to r
    Groups     \* sets of requests that are withdrawn together

VARIABLES
    state,   \* where a request is
    number,  \* the number it drew when it was made, 0 before
    last,    \* the last number drawn
    ready,   \* the next request may be sent
    answer,  \* what it was closed with, one outcome or none
    told     \* what its caller was told

vars == <<state, number, last, ready, answer, told>>

States == {"away", "waiting", "sent", "over"}

Waiting == {r \in Reqs : state[r] = "waiting"}
Sent == {r \in Reqs : state[r] = "sent"}

Init ==
    /\ state = [r \in Reqs |-> "away"]
    /\ number = [r \in Reqs |-> 0]
    /\ last = 0
    /\ ready = TRUE
    /\ answer = [r \in Reqs |-> {}]
    /\ told = [r \in Reqs |-> <<>>]

\* Some requests are sent, some fail, and some are closed with what choice says.  The
\* caller of one that fails is told on the spot.
Move(sent, failed, closed, choice) ==
    /\ state' = [r \in Reqs |-> IF r \in sent THEN "sent"
                                ELSE IF r \in failed \cup closed THEN "over"
                                ELSE state[r]]
    /\ answer' = [r \in Reqs |-> IF r \in Callers /\ r \in failed THEN {Failure}
                                 ELSE IF r \in Callers /\ r \in closed THEN {choice[r]}
                                 ELSE answer[r]]
    /\ told' = [r \in Reqs |-> IF r \in Callers /\ r \in failed THEN <<Failure>>
                               ELSE told[r]]

\* The ways to close these requests.
Choices(S) == {choice \in [S -> Outcomes] : \A r \in S : choice[r] \in Fitting[r]}

\* A request is made: it is sent at once if nobody waits and nothing was sent just now.
Arrive(r) ==
    /\ state[r] = "away"
    /\ last' = last + 1
    /\ number' = [number EXCEPT ![r] = last + 1]
    /\ IF Waiting = {} /\ ready
       THEN /\ ready' = FALSE
            /\ Move({r}, {}, {}, <<>>) \/ Move({}, {r}, {}, <<>>)
       ELSE /\ state' = [state EXCEPT ![r] = "waiting"]
            /\ UNCHANGED <<ready, answer, told>>

\* It is the turn of the request with the least number.
Turn(r) == ready /\ \A s \in Waiting \ {r} : number[r] < number[s]

\* The one whose turn it is may be called, to be sent or to fail, and any that were sent
\* may be closed.
Serve ==
    /\ \E called \in SUBSET Waiting, closed \in SUBSET Sent :
          /\ \A r \in called : Turn(r)
          /\ ready' = (ready /\ called = {})
          /\ \E sent \in SUBSET called, choice \in Choices(closed) :
                Move(sent, called \ sent, closed, choice)
    /\ UNCHANGED <<number, last>>

\* A caller is told what its request was closed with.
Tell(r) ==
    /\ told[r] = <<>>
    /\ \E o \in answer[r] : told' = [told EXCEPT ![r] = <<o>>]
    /\ UNCHANGED <<state, number, last, ready, answer>>

\* Requests that wait, and those only, are withdrawn.
Withdraw(group) ==
    /\ state' = [r \in Reqs |-> IF r \in Waiting \cap group THEN "over" ELSE state[r]]
    /\ UNCHANGED <<number, last, ready, answer, told>>

\* The world is left: who waits is sent away, and what was sent is closed.
Clear ==
    /\ state' = [r \in Reqs |-> IF r \in Waiting \cup Sent THEN "over" ELSE state[r]]
    /\ \E choice \in Choices(Sent) :
          answer' = [r \in Reqs |-> IF r \in Callers \cap Sent THEN {choice[r]}
                                    ELSE answer[r]]
    /\ ready' = TRUE
    /\ UNCHANGED <<number, last, told>>

\* The desk closes, and everybody goes without an answer.
Close ==
    /\ state' = [r \in Reqs |-> IF r \in Waiting \cup Sent THEN "over" ELSE state[r]]
    /\ ready' = TRUE
    /\ UNCHANGED <<number, last, answer, told>>

Pause ==
    /\ ready' = TRUE
    /\ UNCHANGED <<state, number, last, answer, told>>

Next ==
    \/ \E r \in Reqs : Arrive(r) \/ Tell(r)
    \/ Serve
    \/ \E group \in Groups : Withdraw(group)
    \/ Clear \/ Close \/ Pause

Spec == Init /\ [][Next]_vars
=============================================================================
