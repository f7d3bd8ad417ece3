-------------------------- MODULE MCCommandManager --------------------------
(* Instances of CommandManager for TLC. *)
EXTENDS CommandManager, TLC

CONSTANTS r1, r2, word, err, chat, form1, help, list

Request(base, expects, silent, n, text, form) ==
    [base |-> base, expects |-> expects, silent |-> silent,
     expectedLines |-> n, text |-> text, form |-> form, callback |-> TRUE]

\* A filtered text request for two lines and a form request.
TextAndForm ==
    (r1 :> Request(help, "Text", FALSE, 2, {word}, NoFilter)) @@
    (r2 :> Request(list, "Form", TRUE, 0, NoFilter, {form1}))

TwoLinePackets == {<<word>>, <<err>>, <<chat>>, <<word, err>>, <<err, word>>}
=============================================================================
