------------------------------ MODULE SigScan ------------------------------
(***************************************************************************)
(* SigScan (src/intercept/SigScan.cpp): a pattern, written in hexadecimal  *)
(* digits and question marks, and its first match in the game's memory.    *)
(*                                                                         *)
(* Abstractions.  Of the digits there are 4 and C.  A byte of memory is a  *)
(* number, 257 if it cannot be read.  Addresses are places, counted from one.     *)
(***************************************************************************)
EXTENDS Naturals, SequencesExt

Wild == 256
Unreadable == 257

\* The lambda h: what is no digit counts as 0.
Nibble(c) == CASE c = "4" -> 4 [] c = "C" -> 12 [] OTHER -> 0

MutParse(pattern) ==
    LET From[i \in 1..(Len(pattern) + 1)] ==
            IF i > Len(pattern) THEN <<>>
            ELSE CASE pattern[i] = " " -> From[i + 1]
                   [] pattern[i] = "?" -> <<Wild>> \o From[i + 1]
                   [] OTHER ->
                        LET two == i < Len(pattern) /\ pattern[i + 1] # " "
                            low == IF two THEN Nibble(pattern[i + 1]) ELSE 0
                        IN  <<16 * Nibble(pattern[i]) + low>>
                              \o From[IF two THEN i + 2 ELSE i + 1]
    IN  From[1]

\* parse(): a wildcard has one question mark or two, a byte two digits; a lone digit is
\* the high one.
Parse(pattern) ==
    LET From[i \in 1..(Len(pattern) + 1)] ==
            IF i > Len(pattern) THEN <<>>
            ELSE LET next == IF i < Len(pattern) THEN pattern[i + 1] ELSE " "
                 IN  CASE pattern[i] = " " -> From[i + 1]
                       [] pattern[i] = "?" ->
                            <<Wild>> \o From[IF next = "?" THEN i + 2 ELSE i + 1]
                       [] OTHER ->
                            <<16 * Nibble(pattern[i]) + Nibble(next)>>
                              \o From[IF next = " " THEN i + 1 ELSE i + 2]
    IN  From[1]

\* The first byte of the pattern that memory at a place does not have, 0 if it has all.
Mismatch(memory, at, bytes) ==
    LET wrong == {j \in 1..Len(bytes) :
                    bytes[j] # Wild /\ memory[at + j - 1] # bytes[j]}
    IN  IF wrong = {} THEN 0 ELSE Min(wrong)

\* scan() and scanRaw(): the first match, 0 if there is none or if a byte that cannot be
\* read comes first.
Scan(memory, pattern) ==
    LET bytes == Parse(pattern)
        From[i \in 1..(Len(memory) + 1)] ==
            IF i + Len(bytes) - 1 > Len(memory) THEN 0
            ELSE LET j == Mismatch(memory, i, bytes)
                 IN  IF j = 0 THEN i
                     ELSE IF memory[i + j - 1] = Unreadable THEN 0 ELSE From[i + 1]
    IN  IF bytes = <<>> THEN 0 ELSE From[1]
=============================================================================
