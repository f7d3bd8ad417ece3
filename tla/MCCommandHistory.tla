-------------------------- MODULE MCCommandHistory --------------------------
(* Instances of CommandHistory for TLC. *)
EXTENDS CommandHistory, TLC

CONSTANTS r1, r2, word, err, chat, help, list

TwoLines == [base |-> help, expects |-> "Text", silent |-> FALSE,
             expectedLines |-> 2, text |-> {word}, form |-> NoFilter,
             callback |-> TRUE]

Attributes2 == [r \in Reqs |-> [TwoLines EXCEPT !.base = IF r = r1 THEN help ELSE list]]

WordPackets == {<<word>>}
=============================================================================
