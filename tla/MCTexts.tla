------------------------------ MODULE MCTexts ------------------------------
(***************************************************************************)
(* The functions on texts, on patterns and on metadata, for every input up *)
(* to a length.  An input is written one glyph after the other; a glyph is *)
(* some bytes that belong together, as a colour code does.  Names, lines   *)
(* of the chat, what others said, forms and pieces of memory are inputs of *)
(* different kinds; the metadata of an actor, a sixth, changes as          *)
(* ActorData says.                                                         *)
(***************************************************************************)
EXTENDS CommandLine, ChatUtils, JsonUtils, SigScan, ActorData

CONSTANTS
    \* What inputs are made of, and bounds of their lengths.
    NameGlyphs, ChatGlyphs, SaidGlyphs, FormGlyphs, MemoryBytes,
    NameLength, ChatLength, SaidLength, FormLength, MemoryLength

VARIABLES kind, input

vars == <<kind, input, items, vtables>>

Glyphs ==
    [name |-> NameGlyphs, chat |-> ChatGlyphs, said |-> SaidGlyphs, form |-> FormGlyphs,
     memory |-> MemoryBytes, actor |-> {}]

Bound ==
    [name |-> NameLength, chat |-> ChatLength, said |-> SaidLength, form |-> FormLength,
     memory |-> MemoryLength, actor |-> 0]

Init ==
    /\ ActorInit
    /\ kind \in DOMAIN Glyphs
    /\ input = <<>>

Write ==
    /\ Len(input) < Bound[kind]
    /\ \E g \in Glyphs[kind] : input' = Append(input, g)
    /\ UNCHANGED <<kind, items, vtables>>

Change ==
    /\ kind = "actor"
    /\ ActorNext
    /\ UNCHANGED <<kind, input>>

Next == Write \/ Change

Spec == Init /\ [][Next]_vars

-----------------------------------------------------------------------------
(* From glyphs to bytes, and the packets that carry them. *)

Colour == "code"      \* a colour code: section sign and one letter
Cedilla == "cedilla" \* a letter whose second byte is that of the section sign

GlyphBytes(g) ==
    CASE g = Colour                -> <<"C2", "A7", "c">>
      [] g = Cedilla               -> <<"C3", "A7">>
      [] g \notin {Colour, Cedilla} -> <<g>>

Bytes(glyphs) == FlattenSeq([i \in 1..Len(glyphs) |-> GlyphBytes(glyphs[i])])

\* What the player sees of a glyph, and of a text.
GlyphShown(g) == IF g = Colour THEN <<>> ELSE GlyphBytes(g)

Shown(glyphs) == FlattenSeq([i \in 1..Len(glyphs) |-> GlyphShown(glyphs[i])])

Object(text) == Assign(text, TRUE)

Packet(type, source, message, parameters, others) ==
    [type |-> type, sourceName |-> Object(source), message |-> Object(message),
     parameters |-> [i \in DOMAIN parameters |-> Object(parameters[i])],
     others |-> [i \in DOMAIN others |-> Object(others[i])]]

-----------------------------------------------------------------------------
(* Properties. *)

Tag == <<"[", "C2", "A7", "c", "a", "]">>

\* SafeString.h:530: what remains of a name does not depend on its colours; cleaning it
\* again, trimming it or stripping it changes nothing, nor does a tag before it or after
\* it; and typed in any case, the name is looked for as it is stored.
NameSettled ==
    kind = "name" =>
        LET name == CleanPlayerName(Bytes(input))
        IN  /\ name = CleanPlayerName(Shown(input))
            /\ Trim(name) = name /\ StripColorCodes(name) = name
            /\ CleanPlayerName(name) = name
            /\ CleanPlayerName(Tag \o name \o Tag) = name
            /\ CleanPlayerName(Tag \o <<" ">> \o name \o <<" ">> \o Tag) = name
            /\ Sought(name) = ToLower(name)

\* CommandDispatcher.cpp:212: whichever field carries it and whatever its colours, a line
\* of the chat is kept from the server if and only if it begins with exactly two
\* semicolons, and it then runs the command whose name is its first word in any case, on
\* the words that follow.
ChatConsumed ==
    LET shown == Trim(Shown(input))
        command == /\ Len(shown) >= 2 /\ shown[1] = ";" /\ shown[2] = ";"
                   /\ Len(shown) = 2 \/ shown[3] # ";"
        begins == {i \in 3..Len(shown) :
                      shown[i] \notin Blank /\ (i = 3 \/ shown[i - 1] \in Blank)}
        named == /\ begins # {} /\ shown[Min(begins)] \in {"a", "A"}
                 /\ Min(begins) = Len(shown) \/ shown[Min(begins) + 1] \in Blank
        commands == {RegisteredName(<<";", ";", ";", ";", "A">>)}
        text == Bytes(input)
    IN  kind = "chat" =>
        \A packet \in {Packet("CHAT", <<"a">>, text, <<>>, <<>>),
                       Packet("RAW", <<>>, <<>>, <<<<"a">>, text>>, <<>>),
                       Packet("RAW", <<>>, <<>>, <<>>, <<<<>>, text>>)} :
            LET result == HandleOutboundChat(packet, commands)
            IN  /\ result.drop = command
                /\ result.does.consumed = command
                /\ (result.does.runs # <<>>) = (command /\ named)
                /\ (command /\ named) =>
                      Len(result.does.args) = Cardinality(begins) - 1

\* What a text packet may be made of: an author and a message as glyphs, of which one
\* stands for a separator of two bytes.
Aloud(glyphs) ==
    FlattenSeq([i \in 1..Len(glyphs) |->
        IF glyphs[i] = "guillemet" THEN Guillemet ELSE GlyphBytes(glyphs[i])])

\* The texts in which a server names the author before the message.  Each is clear only
\* while its separator, and those looked for first, stand nowhere else.
Layouts(author, message) ==
    LET a == Aloud(author)
        m == Aloud(message)
        Clear(glyphs, separators) == ToSet(glyphs) \cap separators = {}
        opens == a # <<>> /\ Head(StripColorCodes(a)) = "<"
        layouts ==
            {[text |-> <<"<">> \o a \o <<">", " ">> \o m,
              clear |-> Clear(author, {">"})],
             [text |-> Tag \o <<" ">> \o a \o <<":", " ", "~", " ">> \o m,
              clear |-> Clear(author, {":"})],
             [text |-> a \o <<" ">> \o Guillemet \o <<" ">> \o m \o <<" ">>,
              clear |-> /\ ~opens
                        /\ Clear(author, {":", "guillemet"})
                        /\ Clear(message, {":"})],
             [text |-> a \o Tag \o <<">">> \o m,
              clear |-> /\ ~opens
                        /\ Clear(author, {":", "guillemet", ">"})
                        /\ Clear(message, {":", "guillemet"})]}
    IN  {layout.text : layout \in {l \in layouts : l.clear}}

\* ChatUtils.h:80-201: the author is told from the message and neither loses a part to
\* the other or to the format: in a text that holds both, if its layout is clear and the
\* message begins with nothing that is skipped after a separator; in a packet that names
\* the author itself, the author always, and the message if it holds no separator; in a
\* translation, always.
ChatAttributed ==
    LET Attributed(packet, author, message) ==
            ParsePacket(packet) = [author |-> author, message |-> message]
        Told(author, message) ==
            LET name == CleanPlayerName(Aloud(author))
                said == Trim(StripColorCodes(Aloud(message)))
                plain == said # <<>> /\ Head(said) \notin {":", ">", "|", "~", "-", "C2"}
                whole == ToSet(message) \cap {":", ">", "guillemet"} = {}
            IN  name # <<>> =>
                  /\ plain => \A text \in Layouts(author, message) :
                        /\ Attributed(Packet("RAW", <<>>, text, <<>>, <<>>), name, said)
                        /\ Attributed(Packet("SYSTEM", <<>>, <<>>, <<text>>, <<>>),
                                      name, said)
                  /\ said # <<>> => \A type \in {"CHAT", "RAW"} :
                        LET packet == Packet(type, name, Aloud(message), <<>>, <<>>)
                        IN  /\ ParsePacket(packet).author = name
                            /\ whole => Attributed(packet, name, said)
                  /\ said # <<>> =>
                        Attributed(Packet("TRANSLATION", <<>>, <<"key">>,
                                          <<name, Aloud(message)>>, <<>>),
                                   name, said)
    IN  /\ kind = "name" => Told(CleanPlayerName(Bytes(input)), <<"h", "i">>)
        /\ kind = "said" => \A n \in 1..(Len(input) - 1) :
              Told(SubSeq(input, 1, n), SubSeq(input, n + 1, Len(input)))

\* JsonUtils.h:133,175: the buttons of a form are read as they were written, in their
\* order, whatever quotes, braces or brackets they hold; so is a property, unless it ends
\* with a backslash.
Text(t) == <<Quote>> \o EscapeJson(t) \o <<Quote>>

Button(t) ==
    <<"{", Quote, "image", Quote, ":", "{", Quote, "data", Quote, ":">> \o Text(<<"x">>)
      \o <<"}", ",", Quote, "text", Quote, ":", " ">> \o Text(t) \o <<"}">>

Form(texts) ==
    <<"{", Quote, "content", Quote, ":", " ">> \o Text(Head(texts))
      \o <<",", Quote, "buttons", Quote, ":", "[">>
      \o FlattenSeq([i \in 1..Len(texts) |->
                        Button(texts[i]) \o IF i = Len(texts) THEN <<>> ELSE <<",">>])
      \o <<"]", "}">>

\* The input, cut at the glyph |.
Texts ==
    FoldLeft(LAMBDA texts, g :
                 IF g = "|" THEN Append(texts, <<>>)
                 ELSE ReplaceAt(texts, Len(texts), Append(texts[Len(texts)], g)),
             <<<<>>>>, input)

FormRead ==
    kind = "form" =>
        /\ ExtractButtons(Form(Texts)) = Texts
        /\ (Head(Texts) = <<>> \/ Last(Head(Texts)) # Slash) =>
              ExtractString(Form(Texts), "content") = Head(Texts)

\* SigScan.cpp:14,68: a pattern is read as it was written, with or without blanks, and
\* found where memory first matches it; where memory ends or cannot be read, nothing is.
Hexadecimal == [b \in {68, 76, Wild} |->
    CASE b = 68 -> <<"4", "4">> [] b = 76 -> <<"4", "C">> [] b = Wild -> <<"?", "?">>]

Pattern(bytes, between, short) ==
    FlattenSeq([i \in 1..Len(bytes) |->
        (IF bytes[i] = Wild /\ short THEN <<"?">> ELSE Hexadecimal[bytes[i]])
          \o IF between THEN <<" ">> ELSE <<>>])

Patterns == BoundedSeq(DOMAIN Hexadecimal, 3) \ {<<>>}

ScanFirst ==
    kind = "memory" =>
        \A bytes \in Patterns, between, short \in BOOLEAN :
            LET Matches(i) == \A j \in 1..Len(bytes) : bytes[j] \in {Wild, input[i + j - 1]}
                places == {i \in 1..(Len(input) - Len(bytes) + 1) : Matches(i)}
                place == Scan(input, Pattern(bytes, between, short))
            IN  (between \/ ~short) =>
                    /\ Parse(Pattern(bytes, between, short)) = bytes
                    /\ place # 0 => place = Min(places)
                    /\ (place = 0 /\ places # {}) =>
                          \E i \in 1..(Min(places) + Len(bytes) - 1) : input[i] = Unreadable
=============================================================================
