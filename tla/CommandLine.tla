---------------------------- MODULE CommandLine ----------------------------
(***************************************************************************)
(* How CommandDispatcher (src/core/CommandDispatcher.cpp) reads the chat:  *)
(* a text with the prefix never reaches the server, and runs the command   *)
(* it names.  What it does to the module of the command is in ModuleLife.  *)
(*                                                                         *)
(* Abstractions.  What a command says in the chat is left out.  The gates  *)
(* of the commands are open, the callbacks return.                         *)
(***************************************************************************)
EXTENDS SafeString

Prefix == <<";", ";">>

IsCommandPrefix(text) ==
    /\ IsPrefix(Prefix, text)
    /\ Len(text) > 2 => text[3] # ";"

\* The words an istringstream takes from a text.
Words(text) ==
    LET Upto[i \in 0..Len(text)] ==
            IF i = 0 THEN <<>>
            ELSE LET words == Upto[i - 1]
                 IN  CASE text[i] \in Blank -> words
                       [] text[i] \notin Blank /\ (i = 1 \/ text[i - 1] \in Blank) ->
                            Append(words, <<text[i]>>)
                       [] OTHER -> ReplaceAt(words, Len(words),
                                             Append(words[Len(words)], text[i]))
    IN  Upto[Len(text)]

\* registerCommand(): the name in lower case, without the prefixes before it.
RegisteredName(name) ==
    LET From[i \in 1..(Len(name) + 1)] ==
            LET rest == SubSeq(name, i, Len(name))
            IN  IF IsPrefix(Prefix, rest) THEN From[i + 2] ELSE ToLower(rest)
    IN  From[1]

Ignored == [consumed |-> FALSE, runs |-> <<>>, args |-> <<>>]

\* dispatch(): whether the text is consumed, which of the commands it runs, and with
\* which arguments.
Dispatch(raw, commands) ==
    LET text == Trim(StripColorCodes(raw))
        words == Words(SubSeq(text, 3, Len(text)))
        name == ToLower(words[1])
    IN  CASE ~IsCommandPrefix(text) -> Ignored
          [] IsCommandPrefix(text) /\ words = <<>> -> [Ignored EXCEPT !.consumed = TRUE]
          [] IsCommandPrefix(text) /\ words # <<>> ->
               [consumed |-> TRUE,
                runs |-> IF name \in commands THEN name ELSE <<>>,
                args |-> IF name \in commands THEN Tail(words) ELSE <<>>]

MutHandleOutboundChat(packet, commands) ==
    LET IsCommand(text) == IsCommandPrefix(Trim(text))
        texts == AllTexts(packet)
        first == SelectInSeq(texts, IsCommand)
    IN  [drop |-> first # 0,
         does |-> IF first = 0 THEN Ignored ELSE Dispatch(texts[first], commands)]

\* handleOutboundChat(): the first text of the packet with the prefix is dispatched,
\* and the packet dropped.
HandleOutboundChat(packet, commands) ==
    LET Shown(text) == Trim(StripColorCodes(text))
        IsCommand(text) == IsCommandPrefix(Shown(text))
        texts == AllTexts(packet)
        first == SelectInSeq(texts, IsCommand)
    IN  [drop |-> first # 0,
         does |-> IF first = 0 THEN Ignored ELSE Dispatch(Shown(texts[first]), commands)]
=============================================================================
