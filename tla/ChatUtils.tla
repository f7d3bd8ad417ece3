----------------------------- MODULE ChatUtils -----------------------------
(***************************************************************************)
(* ChatUtils (src/sdk/ChatUtils.h): who said what, as far as a text packet *)
(* tells.  The servers write it in several ways.                           *)
(*                                                                         *)
(* Abstractions.  An arrow or a dash of three bytes is one byte.  The raw  *)
(* message, which is the packet's own text, is left out.                   *)
(***************************************************************************)
EXTENDS SafeString

Guillemet == <<"C2", "BB">>
Colon == <<":">>
Angle == <<">">>

\* stripPrefixDelimiters().
StripPrefixDelimiters(text) ==
    LET From[i \in 1..(Len(text) + 1)] ==
            IF i > Len(text) THEN <<>>
            ELSE CASE text[i] \in {" ", "tab", ":", ">", "-", "|", "~", "arrow"} -> From[i + 1]
                   [] Search(Guillemet, text, i) = i -> From[i + 2]
                   [] OTHER -> SubSeq(text, i, Len(text))
    IN  Trim(From[1])

\* Whether something stands after the first separator, and what stands on its sides.
Parts(text, separator) ==
    LET at == Search(separator, text, 1)
        next == at + Len(separator)
    IN  [found |-> at # 0 /\ next <= Len(text),
         before |-> SubSeq(text, 1, at - 1),
         after |-> StripPrefixDelimiters(SubSeq(text, next, Len(text)))]

\* The parts at the first of the separators that has any.
FirstParts(text, separators) ==
    LET found == SelectInSeq(separators, LAMBDA s : Parts(text, s).found)
    IN  IF found = 0 THEN [found |-> FALSE, before |-> <<>>, after |-> <<>>]
                     ELSE Parts(text, separators[found])

Parameter(packet, n) ==
    IF n <= Len(packet.parameters) /\ Len(packet.parameters) <= 100
    THEN ReadString(packet.parameters[n]) ELSE <<>>

FirstText(packet) ==
    IF AllTexts(packet) = <<>> THEN <<>> ELSE Head(AllTexts(packet))

\* Of a vanilla chat packet the author is known: what is before a separator goes.
ParseChat(packet) ==
    LET text == IF ReadString(packet.message) = <<>> THEN FirstText(packet)
                                                     ELSE ReadString(packet.message)
        clean == StripColorCodes(text)
        parts == FirstParts(clean, <<Guillemet, Colon, Angle>>)
    IN  [author |-> Trim(StripColorCodes(ReadString(packet.sourceName))),
         message |-> IF parts.found THEN parts.after ELSE Trim(clean)]

MutParseRaw(author, text) ==
    LET close == Find(text, {">"})
        parts == FirstParts(text, <<Colon, Guillemet, Angle>>)
        Or(name) == IF author = <<>> THEN name ELSE author
    IN  CASE IsPrefix(<<"<">>, text) /\ close \in 1..(Len(text) - 1) ->
               <<Or(SubSeq(text, 2, close)),
                 StripPrefixDelimiters(SubSeq(text, close + 1, Len(text)))>>
          [] ~IsPrefix(<<"<">>, text) /\ parts.found /\ parts.after # <<>> ->
               <<Or(CleanPlayerName(parts.before)), parts.after>>
          [] OTHER -> <<author, text>>

\* Of any other the text may begin with its author, in angle brackets or before a
\* separator.
ParseRaw(author, text) ==
    LET close == Find(text, {">"})
        parts == FirstParts(text, <<Colon, Guillemet, Angle>>)
        Or(name) == IF author = <<>> THEN name ELSE author
    IN  CASE IsPrefix(<<"<">>, text) /\ close \in 1..(Len(text) - 1) ->
               <<Or(SubSeq(text, 2, close - 1)),
                 StripPrefixDelimiters(SubSeq(text, close + 1, Len(text)))>>
          [] ~IsPrefix(<<"<">>, text) /\ parts.found /\ parts.after # <<>> ->
               <<Or(CleanPlayerName(parts.before)), parts.after>>
          [] OTHER -> <<author, text>>

\* parse().
ParsePacket(packet) ==
    LET source == ReadString(packet.sourceName)
        message == ReadString(packet.message)
        first == Parameter(packet, 1)
        second == Parameter(packet, 2)
        raw == CASE message # <<>> -> message
                 [] message = <<>> /\ first # <<>> -> first
                 [] message = <<>> /\ first = <<>> -> FirstText(packet)
        parsed == ParseRaw(StripColorCodes(source), StripColorCodes(raw))
    IN  IF packet.type = "TRANSLATION" /\ second # <<>>
        THEN [author |-> Trim(StripColorCodes(first)),
              message |-> Trim(StripColorCodes(second))]
        ELSE IF packet.type = "TRANSLATION" /\ first # <<>>
        THEN [author |-> <<>>, message |-> Trim(StripColorCodes(first))]
        ELSE IF packet.type = "CHAT" /\ source # <<>> THEN ParseChat(packet)
        ELSE [author |-> Trim(CleanPlayerName(parsed[1])), message |-> Trim(parsed[2])]
=============================================================================
