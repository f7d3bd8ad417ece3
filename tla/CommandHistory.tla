--------------------------- MODULE CommandHistory ---------------------------
(***************************************************************************)
(* CommandManager watched from outside: by the server, which sees when     *)
(* commands arrive and what it replied, and knows nothing of the queue.    *)
(***************************************************************************)
EXTENDS CommandManager

VARIABLES
    recent,  \* a command was sent less than the cooldown ago
    hasty,   \* two commands were sent within one cooldown
    heard    \* lines the server sent that a request could capture

historyVars == <<recent, hasty, heard>>

HistoryInit ==
    /\ Init
    /\ recent = FALSE
    /\ hasty = FALSE
    /\ heard = [r \in Reqs |-> 0]

Sent == \E r \in Reqs : phase[r] # "capturing" /\ phase'[r] = "capturing"

\* A line counts once, however many handlers it is offered to.
Heard(r) == net.at = "scan" /\ net.pass = 1 /\ got'[r] > got[r]

Watch ==
    /\ hasty' = (hasty \/ (Sent /\ recent))
    /\ heard' = [r \in Reqs |-> IF Heard(r) THEN heard[r] + 1 ELSE heard[r]]

\* The cooldown since the last command ends, whatever the manager noted of it.
WindowEnds ==
    /\ recent
    /\ recent' = FALSE
    /\ cool' = TRUE
    /\ UNCHANGED <<hasty, heard, reqVars, owed, told, initialized, regs, caller,
                   net, lockOwner>>

HistoryNext ==
    \/ Next /\ ~CooldownEnds /\ recent' = (recent \/ Sent) /\ Watch
    \/ WindowEnds

HistorySpec == HistoryInit /\ [][HistoryNext]_<<vars, historyVars>>

-----------------------------------------------------------------------------
\* CommandManager.h:146: there is a "3s cooldown between commands".
CooldownKept == ~hasty

\* CommandManager.h:93: a request is to "complete immediately when reaching N
\* lines"; so one that completed by its count was sent N lines.
ExpectedLinesHeard ==
    \A r \in Reqs : Enough(r, got[r]) => heard[r] >= Attr[r].expectedLines
=============================================================================
