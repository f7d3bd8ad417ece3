-------------------------- MODULE MCPlayerTracker --------------------------
(* Instances of PlayerTracker for TLC. *)
EXTENDS PlayerTracker, TLC

CONSTANTS u1, u2, uE, o1, o2, o3, o4, i1, i2

\* Texts: a letter, the same letter in colour, and a name that begins with it.
a == <<"A">>
Coloured == <<"C2", "A7", "c", "A">>
ab == <<"a", "b">>

\* Every player may be given any ID, and names and nametags of one key.
AnyId == [u \in Uuids |-> Ids]
AnyName == [u \in Uuids |-> {Coloured, ab}]
PlainName == [u \in Uuids |-> {a, ab}]
SentName == [u \in Uuids |-> CASE u = u1 -> {Coloured, ab}
                               [] u = u2 -> {a, ab}
                               [] OTHER -> {ab}]
NoId == [u \in Uuids |-> {}]
NoName == [u \in Uuids |-> {}]

\* One name of its own per player.
OwnName == [u \in Uuids |-> IF u = u1 THEN {a} ELSE {ab}]

\* The second player's UUID begins with what the names only contain.
SpelledOut == [u \in Uuids |-> CASE u = u1 -> <<"d", "1">>
                                [] u = u2 -> <<"b", "1">>
                                [] OTHER -> <<>>]

\* Asked for: a name both ways, in colour between blanks, what two texts
\* begin with, what one contains, a UUID's first and last digit, and nothing.
Asked == {a, Coloured, ab, <<" ">> \o Coloured \o <<" ">>, <<"b">>,
          <<"d">>, <<"1">>, <<"C2", "A7", "c">>}

ObjSymmetry == Permutations(Objs)
Symmetry == Permutations(Objs) \cup Permutations(Ids)
=============================================================================
