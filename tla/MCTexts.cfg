SPECIFICATION Spec

CONSTANTS
    Inline = 4
    Longest = 100
    NameGlyphs = {"a", "A", "code", "[", "]", " ", "nl"}
    ChatGlyphs = {"a", "A", "code", " ", ";"}
    SaidGlyphs = {"a", "code", " ", ":", ">", "<", "guillemet"}
    FormGlyphs = {"quote", "slash", "{", "]", "nl", "|", "text"}
    MemoryBytes = {68, 76, 257}
    NameLength = 5
    ChatLength = 6
    SaidLength = 5
    FormLength = 5
    MemoryLength = 6
    IDs = {0, 1}
    Bits = {"b0", "b1"}
    Enough = 2
    Most = 4
    MaxItems = 2

INVARIANTS NameSettled ChatConsumed ChatAttributed FormRead ScanFirst SetIsRead
CHECK_DEADLOCK FALSE
