----------------------------- MODULE SafeString -----------------------------
(***************************************************************************)
(* The texts of the game (src/sdk/SafeString.h): objects laid out like     *)
(* std::string, which hold a short text themselves and point to a longer   *)
(* one, and the functions that clean what servers make of a name.          *)
(*                                                                         *)
(* Abstractions.  A text is a sequence of bytes, of which only some have a *)
(* value of their own: blanks, brackets, and the two bytes of the section  *)
(* sign that begins a colour code.  What a pointer leads to is readable,   *)
(* or nothing of it is.                                                    *)
(***************************************************************************)
EXTENDS Naturals, SequencesExt

CONSTANTS
    Inline,   \* bytes an object has room for itself: 15
    Longest   \* the longest text that is read: 131072

ASSUME SafeStringAssumption == Inline \in Nat /\ Longest \in Nat /\ Inline <= Longest

Blank == {" ", "cr", "nl", "tab"}

-----------------------------------------------------------------------------
(* The object. *)

Empty == [res |-> Inline, size |-> 0, text |-> <<>>]

\* assign(): a text that cannot be allocated is cut to what fits.
Assign(text, allocated) ==
    LET n == Len(text)
        unit == Inline + 1
    IN  IF n <= Inline \/ allocated
        THEN [res |-> IF n <= Inline THEN Inline ELSE unit * (n \div unit) + Inline,
              size |-> n, text |-> text]
        ELSE [res |-> Inline, size |-> Inline, text |-> SubSeq(text, 1, Inline)]

\* The moved object, and what it leaves behind.
Move(object) == <<object, Empty>>

\* safeReadString() and view(): a text too long to be true is none at all.
Legible(object) ==
    IF object.res <= Inline THEN object.size <= Inline
                            ELSE object.size \in 1..Longest

ReadString(object) == IF Legible(object) THEN object.text ELSE <<>>

\* safeReadAllTextMessages(): the distinct texts of a packet, the message first; the
\* rest of the packet is searched if the usual places hold none.
AllTexts(packet) ==
    LET Add(list, object) ==
            LET text == ReadString(object)
            IN  IF text = <<>> \/ Contains(list, text) THEN list ELSE Append(list, text)
        count == Len(packet.parameters)
        listed == IF count > 100 THEN <<>>
                  ELSE SubSeq(packet.parameters, 1, Min({10, count}))
        usual == FoldLeft(Add, <<>>, <<packet.message, packet.sourceName>> \o listed)
    IN  IF usual # <<>> THEN usual ELSE FoldLeft(Add, <<>>, packet.others)

-----------------------------------------------------------------------------
(* The functions on texts. *)

\* find(): the first place from i on where the bytes p stand, 0 if there is none.
Search(p, text, i) ==
    LET places == {j \in i..(Len(text) - Len(p) + 1) :
                     SubSeq(text, j, j + Len(p) - 1) = p}
    IN  IF places = {} THEN 0 ELSE Min(places)

\* The first place where one of the bytes stands, 0 if none does.
Find(text, bytes) == SelectInSeq(text, LAMBDA b : b \in bytes)

Before(text, bytes) ==
    IF Find(text, bytes) = 0 THEN text ELSE SubSeq(text, 1, Find(text, bytes) - 1)

Trim(text) ==
    LET ink == {i \in 1..Len(text) : text[i] \notin Blank}
    IN  IF ink = {} THEN <<>> ELSE SubSeq(text, Min(ink), Max(ink))

\* Length of the colour code that begins at a place, 0 if none does.
Code(text, i) ==
    CASE text[i] = "C2" /\ i + 2 <= Len(text) -> IF text[i + 1] = "A7" THEN 3 ELSE 0
      [] text[i] = "A7" /\ i + 1 <= Len(text) -> 2
      [] OTHER -> 0

StripColorCodes(text) ==
    LET From[i \in 1..(Len(text) + 1)] ==
            IF i > Len(text) THEN <<>>
            ELSE IF Code(text, i) = 0 THEN <<text[i]>> \o From[i + 1]
            ELSE From[i + Code(text, i)]
    IN  From[1]

\* Of the letters only A has a lower case here.
ToLower(text) == ReplaceAll(text, "A", "a")

MutCleanPlayerName(text) ==
    LET line == Trim(Before(StripColorCodes(text), {"cr", "nl"}))
        close == Find(line, {"]"})
        name == IF line # <<>> /\ Head(line) = "[" /\ close # 0
                THEN SubSeq(line, close + 1, Len(line)) ELSE line
    IN  Before(name, {"["})

\* The first line, without a tag in brackets before the name or after it.
CleanPlayerName(text) ==
    LET line == Trim(Before(StripColorCodes(text), {"cr", "nl"}))
        close == Find(line, {"]"})
        name == IF line # <<>> /\ Head(line) = "[" /\ close # 0
                THEN Trim(SubSeq(line, close + 1, Len(line))) ELSE line
    IN  Trim(Before(name, {"["}))

\* How PlayerTracker looks for a name somebody typed.
Sought(text) == ToLower(StripColorCodes(Trim(text)))
=============================================================================
