----------------------------- MODULE JsonUtils -----------------------------
(***************************************************************************)
(* The reader of the game's forms (src/sdk/JsonUtils.h), which parses no   *)
(* JSON but searches its text.                                             *)
(*                                                                         *)
(* Abstractions.  A key or a word is one byte, as is a control character.  *)
(* Of the escapes \uXXXX, the codes of four digits among 0, 1, 7 and a.    *)
(***************************************************************************)
EXTENDS SafeString

Quote == "quote"
Slash == "slash"

-----------------------------------------------------------------------------
(* Escapes. *)

MutEscape(c) ==
    CASE c = Quote -> <<Slash, Quote>>
      [] c = "nl"  -> <<Slash, "n">>
      [] c = "ctl" -> <<Slash, "u", "0", "0", "0", "1">>
      [] OTHER     -> <<c>>

Escape(c) ==
    CASE c = Quote -> <<Slash, Quote>>
      [] c = Slash -> <<Slash, Slash>>
      [] c = "nl"  -> <<Slash, "n">>
      [] c = "ctl" -> <<Slash, "u", "0", "0", "0", "1">>
      [] OTHER     -> <<c>>

EscapeJson(text) == FlattenSeq([i \in 1..Len(text) |-> Escape(text[i])])

\* The bytes of \uXXXX in UTF-8: stoul() reads the digits there are, and fails if the
\* first is none.
Digit == [c \in {"0", "1", "7", "a"} |->
            CASE c = "0" -> 0 [] c = "1" -> 1 [] c = "7" -> 7 [] c = "a" -> 10]

Utf8(four) ==
    LET wrong == SelectInSeq(four, LAMBDA c : c \notin DOMAIN Digit)
        digits == IF wrong = 0 THEN four ELSE SubSeq(four, 1, wrong - 1)
        code == FoldLeft(LAMBDA n, c : 16 * n + Digit[c], 0, digits)
    IN  CASE digits = <<>>                                   -> <<>>
          [] digits # <<>> /\ code = 167                     -> <<"C2", "A7">>
          [] digits # <<>> /\ code = 1                       -> <<"ctl">>
          [] digits # <<>> /\ code < 128 /\ code # 1         -> <<"ascii">>
          [] digits # <<>> /\ code \in (128..2047) \ {167}   -> <<"lead", "cont">>
          [] digits # <<>> /\ code > 2047                    -> <<"lead", "cont", "cont">>

Unescape(text) ==
    LET From[i \in 1..(Len(text) + 1)] ==
            IF i > Len(text) THEN <<>>
            ELSE IF text[i] # Slash \/ i = Len(text) THEN <<text[i]>> \o From[i + 1]
            ELSE IF text[i + 1] = "u" /\ i + 5 <= Len(text)
                 THEN Utf8(SubSeq(text, i + 2, i + 5)) \o From[i + 6]
            ELSE <<IF text[i + 1] = "n" THEN "nl" ELSE text[i + 1]>> \o From[i + 2]
    IN  From[1]

-----------------------------------------------------------------------------
(* Searches. *)

SearchKey(key, text) == Search(<<Quote, key, Quote>>, text, 1)

\* extractJsonString(): a quote ends the value unless the byte before it is a
\* backslash; an open value ends with the text.
ExtractString(json, key) ==
    LET keyPos == SearchKey(key, json)
        colon == Search(<<":">>, json, keyPos + 3)
        start == SelectInSubSeq(json, colon + 1, Len(json),
                                LAMBDA c : c \notin {" ", "tab", "cr", "nl"})
        ends == {j \in (start + 1)..Len(json) : json[j] = Quote /\ json[j - 1] # Slash}
        end == IF ends = {} THEN Len(json) + 1 ELSE Min(ends)
    IN  IF keyPos # 0 /\ colon # 0 /\ start # 0
        THEN IF json[start] = Quote THEN Unescape(SubSeq(json, start + 1, end - 1))
                                    ELSE <<>>
        ELSE <<>>

\* Where the string that begins at i is closed.
StringEnd(text, i) ==
    LET From[j \in i..(Len(text) + 1)] ==
            IF j > Len(text) THEN j
            ELSE IF text[j] = Quote THEN j
            ELSE IF text[j] = Slash /\ j < Len(text) THEN From[j + 2]
            ELSE From[j + 1]
    IN  IF i > Len(text) THEN i ELSE From[i]

\* The place after the object whose first byte is at i: braces count outside strings.
ObjectEnd(text, i) ==
    LET From[j \in (i + 1)..(Len(text) + 2), depth \in 0..Len(text)] ==
            IF j > Len(text) \/ depth = 0 THEN j
            ELSE CASE text[j] = "{"   -> From[j + 1, depth + 1]
                   [] text[j] = "}"   -> From[j + 1, depth - 1]
                   [] text[j] = Quote -> From[StringEnd(text, j + 1) + 1, depth]
                   [] OTHER           -> From[j + 1, depth]
    IN  From[i + 1, 1]

\* The text of one button, if it is closed.
ButtonText(object) ==
    LET key == SearchKey("text", object)
        colon == Search(<<":">>, object, key)
        start == Search(<<Quote>>, object, colon)
        end == StringEnd(object, start + 1)
    IN  IF key # 0 /\ colon # 0 /\ start # 0 /\ end <= Len(object)
        THEN <<Unescape(SubSeq(object, start + 1, end - 1))>>
        ELSE <<>>

\* extractFormButtons().
ExtractButtons(json) ==
    LET key == SearchKey("buttons", json)
        array == Search(<<"[">>, json, key)
        From[i \in 1..(Len(json) + 2)] ==
            IF i > Len(json) THEN <<>>
            ELSE CASE json[i] = "]" -> <<>>
                   [] json[i] = "{" ->
                        LET after == ObjectEnd(json, i)
                            last == IF after > Len(json) THEN Len(json) ELSE after - 1
                        IN  ButtonText(SubSeq(json, i, last)) \o From[after]
                   [] OTHER -> From[i + 1]
    IN  IF key # 0 /\ array # 0 THEN From[array + 1] ELSE <<>>
=============================================================================
