---------------------------- MODULE TextsProofs ----------------------------
(***************************************************************************)
(* Proofs about ActorData, SigScan, SafeString, CommandLine and the        *)
(* escapes of JsonUtils, for every set of IDs and of flags, and for        *)
(* metadata, patterns, memories, names, lines of the chat and quoted texts *)
(* of every length.                                                        *)
(***************************************************************************)
EXTENDS MCTexts, FiniteSetTheorems, WellFoundedInduction, SequenceTheorems, TLAPS

ActorSpec == ActorInit /\ [][ActorNext]_actorVars

Item == [id : IDs, type : Types, value : SUBSET Bits]

\* The items are a sequence of items, however a packet and the calls made it.
ItemsInv == items \in Seq(Item)

-----------------------------------------------------------------------------
(* Where SelectInSeq finds an item. *)

\* A set of places has a least one.
LEMMA LeastExists ==
    ASSUME NEW S \in SUBSET Nat, S # {}
    PROVE  \E i \in S : \A j \in S : i =< j
<1> DEFINE less == OpToRel(<, Nat)
<1>1. less = {ss \in Nat \X Nat : ss[1] < ss[2]}
  BY DEF OpToRel
<1>2. IsWellFoundedOn(less, Nat)
  BY NatLessThanWellFounded
<1> HIDE DEF less
<1>3. PICK i \in S : \A j \in S : <<j, i>> \notin less
  BY <1>2, WFMin
<1>4. \A j \in S : ~(j < i)
  <2> SUFFICES ASSUME NEW j \in S, j < i PROVE FALSE
    OBVIOUS
  <2>1. <<j, i>> \in less
    BY <1>1
  <2> QED BY <2>1, <1>3
<1> QED BY <1>3, <1>4

\* The least place of a set of places is its minimum.
LEMMA MinIsLeast ==
    ASSUME NEW n \in Nat, NEW S \in SUBSET (1..n), S # {}
    PROVE  Min(S) \in S /\ \A j \in 1..(Min(S) - 1) : j \notin S
<1>1. \E i \in S : \A j \in S : i =< j
  BY LeastExists
<1>2. Min(S) \in S /\ \A j \in S : Min(S) =< j
  BY <1>1 DEF Min
<1>3. Min(S) \in Nat
  <2>1. S \subseteq Nat
    OBVIOUS
  <2> QED BY <1>2, <2>1
<1> QED BY <1>2, <1>3

\* The place of the first item with an ID, and of the first with a type too; 0 if none.
PlaceOf(data, id) == SelectInSeq(data, LAMBDA it : it.id = id)

TypedPlaceOf(data, id, type) ==
    SelectInSeq(data, LAMBDA it : it.id = id /\ it.type = type)

Has(data, id, type, i) == data[i].id = id /\ data[i].type = type

LEMMA FirstWithID ==
    ASSUME NEW data \in Seq(Item), NEW id
    PROVE  \/ PlaceOf(data, id) = 0 /\ \A j \in 1..Len(data) : data[j].id # id
           \/ /\ PlaceOf(data, id) \in 1..Len(data)
              /\ data[PlaceOf(data, id)].id = id
              /\ \A j \in 1..(PlaceOf(data, id) - 1) : data[j].id # id
<1> DEFINE places == {j \in 1..Len(data) : data[j].id = id}
<1>1. PlaceOf(data, id) = IF places # {} THEN Min(places) ELSE 0
  BY DEF PlaceOf, SelectInSeq
<1>2. Len(data) \in Nat
  OBVIOUS
<1>3. CASE places = {}
  BY <1>1, <1>3
<1>4. CASE places # {}
  <2> DEFINE least == Min(places)
  <2>1. least \in places /\ \A j \in 1..(least - 1) : j \notin places
    BY <1>2, <1>4, MinIsLeast
  <2> HIDE DEF least
  <2>2. \A j \in 1..(least - 1) : j \in 1..Len(data)
    BY <1>2, <2>1
  <2>3. PlaceOf(data, id) = least
    BY <1>1, <1>4 DEF least
  <2> QED BY <2>1, <2>2, <2>3
<1> QED BY <1>3, <1>4

LEMMA FirstOfType ==
    ASSUME NEW data \in Seq(Item), NEW id, NEW type
    PROVE  \/ /\ TypedPlaceOf(data, id, type) = 0
              /\ \A j \in 1..Len(data) : ~Has(data, id, type, j)
           \/ /\ TypedPlaceOf(data, id, type) \in 1..Len(data)
              /\ Has(data, id, type, TypedPlaceOf(data, id, type))
              /\ \A j \in 1..(TypedPlaceOf(data, id, type) - 1) : ~Has(data, id, type, j)
<1> DEFINE places == {j \in 1..Len(data) : Has(data, id, type, j)}
           place == TypedPlaceOf(data, id, type)
<1>1. place = IF places # {} THEN Min(places) ELSE 0
  BY DEF TypedPlaceOf, SelectInSeq, Has
<1>2. Len(data) \in Nat
  OBVIOUS
<1> HIDE DEF place
<1>3. CASE places = {}
  BY <1>1, <1>3 DEF place
<1>4. CASE places # {}
  <2> DEFINE least == Min(places)
  <2>1. least \in places /\ \A j \in 1..(least - 1) : j \notin places
    BY <1>2, <1>4, MinIsLeast
  <2> HIDE DEF least
  <2>2. \A j \in 1..(least - 1) : j \in 1..Len(data)
    BY <1>2, <2>1
  <2>3. place = least
    BY <1>1, <1>4 DEF least
  <2> QED BY <2>1, <2>2, <2>3 DEF place
<1> QED BY <1>3, <1>4

\* getItem() finds the item that precedes every other of its ID.
LEMMA GetItemIs ==
    ASSUME NEW data, NEW id
    PROVE  GetItem(data, id) =
               IF PlaceOf(data, id) = 0 THEN Null ELSE data[PlaceOf(data, id)]
BY DEF GetItem, PlaceOf

LEMMA FoundFirst ==
    ASSUME NEW data \in Seq(Item), NEW id, NEW i \in 1..Len(data), data[i].id = id,
           \A j \in 1..(i - 1) : data[j].id # id
    PROVE  GetItem(data, id) = data[i]
<1> DEFINE k == PlaceOf(data, id)
<1>1. \/ k = 0 /\ \A j \in 1..Len(data) : data[j].id # id
      \/ /\ k \in 1..Len(data)
         /\ data[k].id = id
         /\ \A j \in 1..(k - 1) : data[j].id # id
  BY FirstWithID
<1>2. GetItem(data, id) = IF k = 0 THEN Null ELSE data[k]
  BY GetItemIs
<1> HIDE DEF k
<1>3. k = i
  BY <1>1
<1> QED BY <1>2, <1>3

-----------------------------------------------------------------------------
(* What set() does. *)

\* set() writes the first item of its ID and type, adds one, or can do neither.
Writes(data, id, type, value, i) ==
    /\ i \in 1..Len(data)
    /\ Has(data, id, type, i)
    /\ \A j \in 1..(i - 1) : ~Has(data, id, type, j)
    /\ Set(data, id, type, value).done
    /\ Set(data, id, type, value).data = [data EXCEPT ![i].value = value]

Adds(data, id, type, value) ==
    /\ \A j \in 1..Len(data) : ~Has(data, id, type, j)
    /\ Set(data, id, type, value).done
    /\ Set(data, id, type, value).data =
           Append(data, [id |-> id, type |-> type, value |-> value])

Refuses(data, id, type, value) ==
    /\ type \notin vtables
    /\ ~Set(data, id, type, value).done
    /\ Set(data, id, type, value).data = data

LEMMA SetEffect ==
    ASSUME NEW data \in Seq(Item), NEW id, NEW type, NEW value
    PROVE  \/ \E i : Writes(data, id, type, value, i)
           \/ Adds(data, id, type, value)
           \/ Refuses(data, id, type, value)
<1> DEFINE i == TypedPlaceOf(data, id, type)
           item == [id |-> id, type |-> type, value |-> value]
<1>1. \/ i = 0 /\ \A j \in 1..Len(data) : ~Has(data, id, type, j)
      \/ /\ i \in 1..Len(data)
         /\ Has(data, id, type, i)
         /\ \A j \in 1..(i - 1) : ~Has(data, id, type, j)
  BY FirstOfType
<1>2. Set(data, id, type, value) =
        CASE i # 0 -> [done |-> TRUE, data |-> [data EXCEPT ![i].value = value]]
          [] i = 0 /\ type \in vtables -> [done |-> TRUE, data |-> Append(data, item)]
          [] i = 0 /\ type \notin vtables -> [done |-> FALSE, data |-> data]
  BY DEF Set, TypedPlaceOf
<1> HIDE DEF i
<1>3. CASE i # 0
  <2>1. Set(data, id, type, value) = [done |-> TRUE, data |-> [data EXCEPT ![i].value = value]]
    BY <1>2, <1>3
  <2>2. /\ Set(data, id, type, value).done
        /\ Set(data, id, type, value).data = [data EXCEPT ![i].value = value]
    BY <2>1
  <2>3. Writes(data, id, type, value, i)
    BY <1>1, <1>3, <2>2 DEF Writes
  <2> QED BY <2>3
<1>4. CASE i = 0 /\ type \in vtables
  BY <1>1, <1>2, <1>4 DEF Adds
<1>5. CASE i = 0 /\ type \notin vtables
  BY <1>1, <1>2, <1>5 DEF Refuses
<1> QED BY <1>3, <1>4, <1>5

\* Writing changes the value of one item; adding puts one at the end.
LEMMA WritesEffect ==
    ASSUME NEW data \in Seq(Item), NEW id, NEW type, NEW value \in SUBSET Bits, NEW i,
           Writes(data, id, type, value, i)
    PROVE  LET after == Set(data, id, type, value).data
           IN  /\ after \in Seq(Item) /\ Len(after) = Len(data)
               /\ \A j \in 1..Len(data) : j # i => after[j] = data[j]
               /\ after[i].id = id /\ after[i].type = type /\ after[i].value = value
<1>1. i \in 1..Len(data) /\ data[i] \in Item
  BY DEF Writes
<1>2. /\ [data[i] EXCEPT !.value = value] \in Item
      /\ [data[i] EXCEPT !.value = value].id = data[i].id
      /\ [data[i] EXCEPT !.value = value].type = data[i].type
      /\ [data[i] EXCEPT !.value = value].value = value
  BY <1>1 DEF Item
<1> QED BY <1>1, <1>2 DEF Writes, Has

LEMMA AddsEffect ==
    ASSUME NEW data \in Seq(Item), NEW id, NEW type, NEW value,
           Adds(data, id, type, value)
    PROVE  LET after == Set(data, id, type, value).data
           IN  /\ Len(after) = Len(data) + 1
               /\ \A j \in 1..Len(data) : after[j] = data[j]
               /\ after[Len(data) + 1] = [id |-> id, type |-> type, value |-> value]
BY DEF Adds

\* What set() leaves is a sequence of items.
LEMMA SetType ==
    ASSUME NEW data \in Seq(Item), NEW id \in IDs, NEW type \in Types,
           NEW value \in SUBSET Bits
    PROVE  Set(data, id, type, value).data \in Seq(Item)
<1>1. ASSUME NEW i, Writes(data, id, type, value, i)
      PROVE  Set(data, id, type, value).data \in Seq(Item)
  BY <1>1, WritesEffect
<1>2. CASE Adds(data, id, type, value)
  <2>1. [id |-> id, type |-> type, value |-> value] \in Item
    BY DEF Item
  <2> QED BY <1>2, <2>1 DEF Adds
<1>3. CASE Refuses(data, id, type, value)
  BY <1>3 DEF Refuses
<1> QED BY <1>1, <1>2, <1>3, SetEffect

\* Unless an item of another type hides it, the first item of an ID and a type is the
\* first of the ID.
LEMMA NotHidden ==
    ASSUME NEW data \in Seq(Item), NEW id \in IDs, NEW type \in Types,
           GetItem(data, id).type \in {type, "none"}
    PROVE  \/ \A j \in 1..Len(data) : data[j].id # id
           \/ \E k \in 1..Len(data) : /\ Has(data, id, type, k)
                                      /\ \A j \in 1..(k - 1) : data[j].id # id
<1> DEFINE k == PlaceOf(data, id)
<1>1. \/ k = 0 /\ \A j \in 1..Len(data) : data[j].id # id
      \/ /\ k \in 1..Len(data)
         /\ data[k].id = id
         /\ \A j \in 1..(k - 1) : data[j].id # id
  BY FirstWithID
<1>2. GetItem(data, id) = IF k = 0 THEN Null ELSE data[k]
  BY GetItemIs
<1> HIDE DEF k
<1>3. CASE k \in 1..Len(data)
  <2>1. data[k] \in Item /\ data[k].type # "none"
    <3>1. data[k] \in Item
      BY <1>3
    <3> QED BY <3>1 DEF Item, Types
  <2>2. data[k].type = type
    BY <1>2, <1>3, <2>1
  <2> QED BY <1>1, <1>3, <2>2 DEF Has
<1> QED BY <1>1, <1>3

\* What set() says it has done is read back, unless an item of another type hides it.
LEMMA SetIsReadBack ==
    ASSUME NEW data \in Seq(Item), NEW id \in IDs, NEW type \in Types,
           NEW value \in SUBSET Bits,
           Set(data, id, type, value).done, GetItem(data, id).type \in {type, "none"}
    PROVE  Get(Set(data, id, type, value).data, id, type) = value
<1> DEFINE after == Set(data, id, type, value).data
<1>1. \/ \A j \in 1..Len(data) : data[j].id # id
      \/ \E k \in 1..Len(data) : /\ Has(data, id, type, k)
                                 /\ \A j \in 1..(k - 1) : data[j].id # id
  BY NotHidden
<1>2. after \in Seq(Item)
  BY SetType
<1>3. ASSUME NEW n \in 1..Len(after), after[n].id = id, after[n].type = type,
             after[n].value = value, \A j \in 1..(n - 1) : after[j].id # id
      PROVE  Get(after, id, type) = value
  <2> HIDE DEF after
  <2>1. GetItem(after, id) = after[n]
    BY <1>2, <1>3, FoundFirst
  <2> QED BY <1>3, <2>1 DEF Get
<1>4. ASSUME NEW i, Writes(data, id, type, value, i)
      PROVE  Get(after, id, type) = value
  <2>1. /\ i \in 1..Len(data) /\ Len(after) = Len(data)
        /\ \A j \in 1..Len(data) : j # i => after[j] = data[j]
        /\ after[i].id = id /\ after[i].type = type /\ after[i].value = value
    <3>1. i \in 1..Len(data)
      BY <1>4 DEF Writes
    <3> QED BY <1>4, <3>1, WritesEffect
  <2> HIDE DEF after
  <2>2. Has(data, id, type, i) /\ \A j \in 1..(i - 1) : ~Has(data, id, type, j)
    BY <1>4 DEF Writes
  <2>3. \A j \in 1..(i - 1) : data[j].id # id
    <3>1. PICK k \in 1..Len(data) : /\ Has(data, id, type, k)
                                    /\ \A j \in 1..(k - 1) : data[j].id # id
      BY <1>1, <2>1, <2>2 DEF Has
    <3>2. ~(k < i)
      BY <2>1, <2>2, <3>1
    <3>3. ~(i < k)
      BY <2>1, <2>2, <3>1 DEF Has
    <3>4. k = i
      BY <2>1, <3>1, <3>2, <3>3
    <3> QED BY <3>1, <3>4
  <2>4. \A j \in 1..(i - 1) : after[j].id # id
    BY <2>1, <2>3
  <2> QED BY <1>3, <2>1, <2>4
<1>5. ASSUME Adds(data, id, type, value)
      PROVE  Get(after, id, type) = value
  <2> DEFINE n == Len(data) + 1
  <2>1. /\ Len(after) = n
        /\ \A j \in 1..Len(data) : after[j] = data[j]
        /\ after[n] = [id |-> id, type |-> type, value |-> value]
    BY <1>5, AddsEffect
  <2>2. \A j \in 1..Len(data) : data[j].id # id
    BY <1>1, <1>5 DEF Adds
  <2> HIDE DEF after
  <2>3. n \in 1..Len(after) /\ n - 1 = Len(data)
    BY <2>1
  <2>4. \A j \in 1..(n - 1) : after[j].id # id
    BY <2>1, <2>2, <2>3
  <2>5. after[n].id = id /\ after[n].type = type /\ after[n].value = value
    BY <2>1
  <2> HIDE DEF n
  <2> QED BY <1>3, <2>3, <2>4, <2>5
<1>6. ~Refuses(data, id, type, value)
  BY DEF Refuses
<1> QED BY <1>4, <1>5, <1>6, SetEffect

-----------------------------------------------------------------------------
(* The invariant, and the property. *)

LEMMA InitItems == ActorInit => ItemsInv
BY DEF ActorInit, ItemsInv

\* The value setFlag() asks set() to write.
LEMMA FlagsType ==
    ASSUME NEW data \in Seq(Item), NEW flag \in Bits, NEW on \in BOOLEAN
    PROVE  LET current == Get(data, 0, "long")
           IN  (IF on THEN current \cup {flag} ELSE current \ {flag}) \in SUBSET Bits
<1> DEFINE k == PlaceOf(data, 0)
<1>1. k = 0 \/ k \in 1..Len(data)
  BY FirstWithID
<1>2. GetItem(data, 0) = IF k = 0 THEN Null ELSE data[k]
  BY GetItemIs
<1> HIDE DEF k
<1>3. GetItem(data, 0).value \in SUBSET Bits
  <2>1. CASE k = 0
    BY <1>2, <2>1 DEF Null
  <2>2. CASE k \in 1..Len(data)
    <3>1. data[k] \in Item /\ k # 0
      BY <2>2
    <3> QED BY <1>2, <3>1 DEF Item
  <2> QED BY <1>1, <2>1, <2>2
<1> QED BY <1>3 DEF Get

LEMMA NextItems == ItemsInv /\ [ActorNext]_actorVars => ItemsInv'
<1> SUFFICES ASSUME ItemsInv, [ActorNext]_actorVars
             PROVE  ItemsInv'
  OBVIOUS
<1>1. CASE Receive
  <2>1. items' \in BoundedSeq(Item, MaxItems)
    BY <1>1 DEF Receive, Packets, Item
  <2> QED BY <2>1 DEF BoundedSeq, SeqOf, ItemsInv
<1>2. CASE CallSet
  BY <1>2, SetType DEF CallSet, ItemsInv
<1>3. CASE CallSetFlag
  <2>1. PICK flag \in Bits, on \in BOOLEAN : items' = SetFlag(items, flag, on)
    BY <1>3 DEF CallSetFlag
  <2> QED BY <2>1, SetType, FlagsType, ActorAssumption DEF SetFlag, ItemsInv, Types
<1>4. CASE UNCHANGED actorVars
  BY <1>4 DEF actorVars, ItemsInv
<1> QED BY <1>1, <1>2, <1>3, <1>4 DEF ActorNext

\* What set() reports as done is read back unless an item of another type hides it, and it
\* writes no other item; so is a flag, which leaves every other flag as it was
\* (DataItem.h:348-495).
THEOREM SetIsReadAlways == ActorSpec => []SetIsRead
<1>1. ItemsInv => SetIsRead
  <2> SUFFICES ASSUME ItemsInv PROVE SetIsRead
    OBVIOUS
  <2>1. ASSUME NEW id \in IDs, NEW type \in Types, NEW value \in SUBSET Bits
        PROVE  LET result == Set(items, id, type, value)
               IN  /\ (result.done /\ ~Hidden(id, type)) =>
                         Get(result.data, id, type) = value
                   /\ ~result.done => result.data = items
                   /\ \A i \in 1..Len(items) :
                         items[i].type # type \/ items[i].id # id =>
                             result.data[i] = items[i]
    <3> DEFINE result == Set(items, id, type, value)
    <3>1. (result.done /\ ~Hidden(id, type)) => Get(result.data, id, type) = value
      BY SetIsReadBack DEF Hidden, ItemsInv
    <3>2. ASSUME NEW k, Writes(items, id, type, value, k)
          PROVE  /\ result.done
                 /\ \A i \in 1..Len(items) :
                       items[i].type # type \/ items[i].id # id =>
                           result.data[i] = items[i]
      BY <3>2, WritesEffect DEF Writes, Has, ItemsInv
    <3>3. CASE Adds(items, id, type, value)
      <4>1. result.done /\ \A i \in 1..Len(items) : result.data[i] = items[i]
        BY <3>3, AddsEffect DEF Adds, ItemsInv
      <4> QED BY <3>1, <4>1
    <3>4. CASE Refuses(items, id, type, value)
      BY <3>4 DEF Refuses
    <3>5. (\E k : Writes(items, id, type, value, k)) \/ Adds(items, id, type, value)
            \/ Refuses(items, id, type, value)
      BY SetEffect DEF ItemsInv
    <3> QED BY <3>1, <3>2, <3>3, <3>4, <3>5
  <2>2. ASSUME "long" \in vtables, ~Hidden(0, "long"),
               NEW flag \in Bits, NEW other \in Bits, NEW on \in BOOLEAN
        PROVE  GetFlag(SetFlag(items, flag, on), other) =
                   IF other = flag THEN on ELSE GetFlag(items, other)
    <3> DEFINE current == Get(items, 0, "long")
               value == IF on THEN current \cup {flag} ELSE current \ {flag}
    <3>1. value \in SUBSET Bits
      BY FlagsType DEF ItemsInv
    <3> HIDE DEF value
    <3>2. Set(items, 0, "long", value).done
      BY <2>2, SetEffect DEF Writes, Adds, Refuses, ItemsInv
    <3>3. Get(Set(items, 0, "long", value).data, 0, "long") = value
      BY <2>2, <3>1, <3>2, SetIsReadBack, ActorAssumption DEF Hidden, ItemsInv, Types
    <3>4. GetFlag(SetFlag(items, flag, on), other) = (other \in value)
      BY <3>3 DEF GetFlag, SetFlag, value
    <3> QED BY <3>4 DEF value, GetFlag
  <2> QED BY <2>1, <2>2 DEF SetIsRead
<1> QED BY <1>1, InitItems, NextItems, PTL DEF ActorSpec

-----------------------------------------------------------------------------
(* Functions that recur over a sequence, from its end or from its beginning. *)

\* What holds at a place if it holds after it, holds everywhere.
LEMMA DownInduction ==
    ASSUME NEW n \in Nat, NEW S,
           \A i \in 1..n : (\A j \in (i + 1)..n : j \in S) => i \in S
    PROVE  \A i \in 1..n : i \in S
<1> DEFINE bad == {d \in 0..n : n - d \in 1..n /\ n - d \notin S}
<1>1. SUFFICES ASSUME NEW i \in 1..n, i \notin S PROVE FALSE
  OBVIOUS
<1>2. n - i \in bad
  BY <1>1
<1> HIDE DEF bad
<1>3. bad \in SUBSET Nat /\ bad # {}
  BY <1>2 DEF bad
<1>4. PICK d \in bad : \A e \in bad : d =< e
  BY <1>3, LeastExists
<1>5. \A j \in (n - d + 1)..n : j \in S
  <2> SUFFICES ASSUME NEW j \in (n - d + 1)..n, j \notin S PROVE FALSE
    OBVIOUS
  <2>1. n - j \in bad /\ n - j < d
    BY <1>4 DEF bad
  <2> QED BY <1>4, <2>1 DEF bad
<1> QED BY <1>4, <1>5 DEF bad

\* What holds at a place if it holds before it, holds everywhere.
LEMMA UpInduction ==
    ASSUME NEW n \in Nat, NEW S,
           \A i \in 1..n : (\A j \in 1..(i - 1) : j \in S) => i \in S
    PROVE  \A i \in 1..n : i \in S
<1> DEFINE bad == {i \in 1..n : i \notin S}
<1>1. SUFFICES ASSUME NEW i \in 1..n, i \notin S PROVE FALSE
  OBVIOUS
<1> HIDE DEF bad
<1>2. bad \in SUBSET Nat /\ bad # {}
  BY <1>1 DEF bad
<1>3. PICK k \in bad : \A e \in bad : k =< e
  BY <1>2, LeastExists
<1> QED BY <1>3 DEF bad

\* G tells the value of a function at a place.
Tellers(n, V) == [(1..n) \X [1..n -> V] -> V]

\* What G tells of a place of a function depends on the places after it only, or on those
\* before it.
FromAfter(G, n, V) ==
    \A i \in 1..n : \A f, g \in [1..n -> V] :
        (\A j \in (i + 1)..n : f[j] = g[j]) => G[<<i, f>>] = G[<<i, g>>]

FromBefore(G, n, V) ==
    \A i \in 1..n : \A f, g \in [1..n -> V] :
        (\A j \in 1..(i - 1) : f[j] = g[j]) => G[<<i, f>>] = G[<<i, g>>]

ToldBy(G, n, V, f) == f \in [1..n -> V] /\ \A i \in 1..n : f[i] = G[<<i, f>>]

\* A function whose values are told by those after it exists.
LEMMA DownRecursion ==
    ASSUME NEW n \in Nat, NEW V, V # {},
           NEW G \in Tellers(n, V), FromAfter(G, n, V)
    PROVE  \E f : ToldBy(G, n, V, f)
<1> SUFFICES \E f \in [1..n -> V] : \A i \in 1..n : f[i] = G[<<i, f>>]
  BY DEF ToldBy
<1> DEFINE Good(k) == \E f \in [1..n -> V] : \A i \in k..n : f[i] = G[<<i, f>>]
           S == {k \in 1..n : Good(k)}
<1>1. PICK v \in V : TRUE
  OBVIOUS
<1> USE DEF Tellers
<1>2. ASSUME NEW k \in 1..n, NEW f \in [1..n -> V], \A i \in (k + 1)..n : f[i] = G[<<i, f>>]
      PROVE  Good(k)
  <2> DEFINE f2 == [f EXCEPT ![k] = G[<<k, f>>]]
  <2>1. f2 \in [1..n -> V] /\ f2[k] = G[<<k, f>>] /\ \A j \in (k + 1)..n : f2[j] = f[j]
    BY <1>2
  <2> HIDE DEF f2
  <2>2. G[<<k, f2>>] = G[<<k, f>>]
    BY <2>1 DEF FromAfter
  <2>3. ASSUME NEW i \in (k + 1)..n PROVE f2[i] = G[<<i, f2>>]
    <3>1. i \in 1..n /\ \A j \in (i + 1)..n : f2[j] = f[j]
      BY <2>1
    <3>2. G[<<i, f2>>] = G[<<i, f>>]
      BY <2>1, <3>1 DEF FromAfter
    <3> QED BY <1>2, <2>1, <3>2
  <2>4. \A i \in k..n : i = k \/ i \in (k + 1)..n
    OBVIOUS
  <2> QED BY <2>1, <2>2, <2>3, <2>4
<1>3. ASSUME NEW k \in 1..n, \A j \in (k + 1)..n : j \in S PROVE k \in S
  <2>1. CASE k = n
    <3>1. [i \in 1..n |-> v] \in [1..n -> V]
      OBVIOUS
    <3>2. (k + 1)..n = {}
      BY <2>1
    <3>3. Good(k)
      BY <1>2, <3>1, <3>2
    <3> QED BY <3>3
  <2>2. CASE k # n
    <3>1. k + 1 \in (k + 1)..n
      BY <2>2
    <3>2. k + 1 \in S
      BY <1>3, <3>1
    <3>3. Good(k + 1)
      BY <3>2
    <3>4. Good(k)
      BY <1>2, <3>3
    <3> QED BY <3>4
  <2> QED BY <2>1, <2>2
<1> HIDE DEF S
<1>4. \A k \in 1..n : k \in S
  BY <1>3, DownInduction
<1>5. CASE n = 0
  <2>1. [i \in 1..n |-> v] \in [1..n -> V]
    OBVIOUS
  <2>2. 1..n = {}
    BY <1>5
  <2> QED BY <2>1, <2>2
<1>6. CASE n # 0
  <2>1. 1 \in S
    BY <1>4, <1>6
  <2> QED BY <2>1 DEF S
<1> QED BY <1>5, <1>6

\* So does one whose values are told by those before it.
LEMMA UpRecursion ==
    ASSUME NEW n \in Nat, NEW V, V # {},
           NEW G \in Tellers(n, V), FromBefore(G, n, V)
    PROVE  \E f : ToldBy(G, n, V, f)
<1> SUFFICES \E f \in [1..n -> V] : \A i \in 1..n : f[i] = G[<<i, f>>]
  BY DEF ToldBy
<1> DEFINE Good(k) == \E f \in [1..n -> V] : \A i \in 1..k : f[i] = G[<<i, f>>]
           S == {k \in 1..n : Good(k)}
<1>1. PICK v \in V : TRUE
  OBVIOUS
<1> USE DEF Tellers
<1>2. ASSUME NEW k \in 1..n, NEW f \in [1..n -> V], \A i \in 1..(k - 1) : f[i] = G[<<i, f>>]
      PROVE  Good(k)
  <2> DEFINE f2 == [f EXCEPT ![k] = G[<<k, f>>]]
  <2>1. f2 \in [1..n -> V] /\ f2[k] = G[<<k, f>>] /\ \A j \in 1..(k - 1) : f2[j] = f[j]
    BY <1>2
  <2> HIDE DEF f2
  <2>2. G[<<k, f2>>] = G[<<k, f>>]
    BY <2>1 DEF FromBefore
  <2>3. ASSUME NEW i \in 1..(k - 1) PROVE f2[i] = G[<<i, f2>>]
    <3>1. i \in 1..n /\ \A j \in 1..(i - 1) : f2[j] = f[j]
      BY <2>1
    <3>2. G[<<i, f2>>] = G[<<i, f>>]
      BY <2>1, <3>1 DEF FromBefore
    <3> QED BY <1>2, <2>1, <3>2
  <2>4. \A i \in 1..k : i = k \/ i \in 1..(k - 1)
    OBVIOUS
  <2> QED BY <2>1, <2>2, <2>3, <2>4
<1>3. ASSUME NEW k \in 1..n, \A j \in 1..(k - 1) : j \in S PROVE k \in S
  <2>1. CASE k = 1
    <3>1. [i \in 1..n |-> v] \in [1..n -> V]
      OBVIOUS
    <3>2. 1..(k - 1) = {}
      BY <2>1
    <3>3. Good(k)
      BY <1>2, <3>1, <3>2
    <3> QED BY <3>3
  <2>2. CASE k # 1
    <3>1. k - 1 \in 1..(k - 1)
      BY <2>2
    <3>2. k - 1 \in S
      BY <1>3, <3>1
    <3>3. Good(k - 1)
      BY <3>2
    <3>4. Good(k)
      BY <1>2, <3>3
    <3> QED BY <3>4
  <2> QED BY <2>1, <2>2
<1> HIDE DEF S
<1>4. \A k \in 1..n : k \in S
  BY <1>3, UpInduction
<1>5. CASE n = 0
  <2>1. [i \in 1..n |-> v] \in [1..n -> V]
    OBVIOUS
  <2>2. 1..n = {}
    BY <1>5
  <2> QED BY <2>1, <2>2
<1>6. CASE n # 0
  <2>1. n \in S
    BY <1>4, <1>6
  <2> QED BY <2>1 DEF S
<1> QED BY <1>5, <1>6

-----------------------------------------------------------------------------
(* Where a sequence of sequences lies when it is flattened. *)

\* The function that FlattenSeq recurs by.
LEMMA FlattenSteps ==
    ASSUME NEW X, NEW seqs \in Seq(Seq(X)), Len(seqs) # 0
    PROVE  \E F \in [1..Len(seqs) -> Seq(X)] :
               /\ F[1] = seqs[1]
               /\ \A i \in 2..Len(seqs) : F[i] = F[i - 1] \o seqs[i]
               /\ FlattenSeq(seqs) = F[Len(seqs)]
<1> DEFINE n == Len(seqs)
           V == Seq(X)
           flatten[i \in 1..n] == IF i = 1 THEN seqs[i] ELSE flatten[i - 1] \o seqs[i]
           G == [p \in (1..n) \X [1..n -> V] |->
                    IF p[1] = 1 THEN seqs[p[1]] ELSE p[2][p[1] - 1] \o seqs[p[1]]]
<1>1. n \in Nat /\ V # {} /\ \A i \in 1..n : seqs[i] \in V
  <2>1. <<>> \in V
    OBVIOUS
  <2> QED BY <2>1
<1> HIDE DEF V
<1>2. \A s, t \in V : s \o t \in V
  BY DEF V
<1>3. G \in Tellers(n, V)
  <2> SUFFICES ASSUME NEW i \in 1..n, NEW f \in [1..n -> V]
               PROVE  (IF i = 1 THEN seqs[i] ELSE f[i - 1] \o seqs[i]) \in V
    BY DEF Tellers
  <2>1. CASE i = 1
    BY <1>1, <2>1
  <2>2. CASE i # 1
    <3>1. i - 1 \in 1..n
      BY <2>2
    <3>2. f[i - 1] \in V
      BY <3>1
    <3> QED BY <1>1, <1>2, <2>2, <3>2
  <2> QED BY <2>1, <2>2
<1>4. \A i \in 1..n : \A f \in [1..n -> V] :
          G[<<i, f>>] = IF i = 1 THEN seqs[i] ELSE f[i - 1] \o seqs[i]
  OBVIOUS
<1> HIDE DEF G
<1>5. FromBefore(G, n, V)
  <2> SUFFICES ASSUME NEW i \in 1..n, NEW f \in [1..n -> V], NEW g \in [1..n -> V],
                      \A j \in 1..(i - 1) : f[j] = g[j]
               PROVE  G[<<i, f>>] = G[<<i, g>>]
    BY DEF FromBefore
  <2>1. /\ G[<<i, f>>] = IF i = 1 THEN seqs[i] ELSE f[i - 1] \o seqs[i]
        /\ G[<<i, g>>] = IF i = 1 THEN seqs[i] ELSE g[i - 1] \o seqs[i]
    BY <1>4
  <2>2. CASE i = 1
    BY <2>1, <2>2
  <2>3. CASE i # 1
    <3>1. i - 1 \in 1..(i - 1)
      BY <2>3
    <3>2. f[i - 1] = g[i - 1]
      BY <3>1
    <3> QED BY <2>1, <2>3, <3>2
  <2> QED BY <2>2, <2>3
<1> HIDE DEF n, flatten
<1>6. PICK f : ToldBy(G, n, V, f)
  <2>1. n \in Nat
    BY <1>1
  <2>2. V # {}
    BY <1>1
  <2> QED BY <1>3, <1>5, <2>1, <2>2, UpRecursion
<1>7. f = [i \in 1..n |-> IF i = 1 THEN seqs[i] ELSE f[i - 1] \o seqs[i]]
  <2>1. f \in [1..n -> V]
    BY <1>6 DEF ToldBy
  <2>2. ASSUME NEW i \in 1..n
        PROVE  f[i] = IF i = 1 THEN seqs[i] ELSE f[i - 1] \o seqs[i]
    <3>1. f[i] = G[<<i, f>>]
      BY <1>6 DEF ToldBy
    <3> QED BY <1>4, <2>1, <3>1
  <2> QED BY <2>1, <2>2
<1>8. flatten = [i \in 1..n |-> IF i = 1 THEN seqs[i] ELSE flatten[i - 1] \o seqs[i]]
  BY <1>7 DEF flatten
<1>9. FlattenSeq(seqs) = flatten[n]
  BY DEF FlattenSeq, flatten, n
<1> HIDE DEF flatten
<1>10. \A i \in 1..n : flatten[i] = IF i = 1 THEN seqs[i] ELSE flatten[i - 1] \o seqs[i]
  BY <1>8
<1> DEFINE S == {i \in 1..n : flatten[i] \in V}
<1>11. ASSUME NEW i \in 1..n, \A j \in 1..(i - 1) : j \in S PROVE i \in S
  <2>1. CASE i = 1
    BY <1>1, <1>10, <2>1
  <2>2. CASE i # 1
    <3>1. i - 1 \in 1..(i - 1)
      BY <1>1, <2>2
    <3>2. flatten[i - 1] \in V
      BY <1>11, <3>1
    <3> QED BY <1>1, <1>2, <1>10, <2>2, <3>2
  <2> QED BY <2>1, <2>2
<1> HIDE DEF S
<1>12. \A i \in 1..n : i \in S
  BY <1>1, <1>11, UpInduction
<1>13. flatten \in [1..n -> V]
  BY <1>8, <1>12 DEF S
<1>14. flatten[1] = seqs[1]
  <2>1. 1 \in 1..n
    BY <1>1 DEF n
  <2> QED BY <1>10, <2>1
<1>15. ASSUME NEW i \in 2..n PROVE flatten[i] = flatten[i - 1] \o seqs[i]
  <2>1. i \in 1..n /\ i # 1
    BY <1>1
  <2> QED BY <1>10, <2>1
<1> QED BY <1>9, <1>13, <1>14, <1>15 DEF n, V

\* A sequence after another.
LEMMA Joined ==
    ASSUME NEW X, NEW s \in Seq(X), NEW t \in Seq(X), NEW u, u = s \o t,
           NEW place, place = Len(s) + 1
    PROVE  /\ Len(u) + 1 = place + Len(t)
           /\ \A j \in 1..Len(t) : u[place + j - 1] = t[j]
           /\ \A j \in 1..(place - 1) : u[j] = s[j]
<1>1. Len(s) \in Nat /\ Len(t) \in Nat /\ Len(u) = Len(s) + Len(t)
  OBVIOUS
<1>2. \A i \in 1..(Len(s) + Len(t)) : u[i] = IF i =< Len(s) THEN s[i] ELSE t[i - Len(s)]
  BY ConcatProperties
<1>3. ASSUME NEW j \in 1..Len(t) PROVE u[place + j - 1] = t[j]
  <2>1. /\ place + j - 1 \in 1..(Len(s) + Len(t))
        /\ ~(place + j - 1 =< Len(s))
        /\ (place + j - 1) - Len(s) = j
    BY <1>1
  <2> QED BY <1>2, <2>1
<1>4. ASSUME NEW j \in 1..(place - 1) PROVE u[j] = s[j]
  <2>1. j \in 1..(Len(s) + Len(t)) /\ j =< Len(s)
    BY <1>1
  <2> QED BY <1>2, <2>1
<1> QED BY <1>1, <1>3, <1>4

\* Each sequence lies whole where the one before it ends.
LiesAt(w, p, i) ==
    i + Len(w) =< Len(p) + 1 /\ \A j \in 1..Len(w) : p[i + j - 1] = w[j]

LieAt(seqs, all, at) ==
    /\ at[1] = 1
    /\ at[Len(seqs) + 1] = Len(all) + 1
    /\ \A k \in 1..Len(seqs) :
          at[k + 1] = at[k] + Len(seqs[k]) /\ LiesAt(seqs[k], all, at[k])

LEMMA FlattenPlaces ==
    ASSUME NEW X, NEW seqs \in Seq(Seq(X)), Len(seqs) # 0
    PROVE  /\ FlattenSeq(seqs) \in Seq(X)
           /\ \E at \in [1..(Len(seqs) + 1) -> Nat \ {0}] :
                 LieAt(seqs, FlattenSeq(seqs), at)
<1> DEFINE n == Len(seqs)
           all == FlattenSeq(seqs)
<1>1. PICK F \in [1..n -> Seq(X)] :
          /\ F[1] = seqs[1]
          /\ \A i \in 2..n : F[i] = F[i - 1] \o seqs[i]
          /\ all = F[n]
  BY FlattenSteps
<1>2. n \in Nat \ {0} /\ \A i \in 1..n : seqs[i] \in Seq(X)
  OBVIOUS
<1> HIDE DEF n, all
<1> DEFINE at == [k \in 1..(n + 1) |-> IF k = 1 THEN 1 ELSE Len(F[k - 1]) + 1]
<1>3. \A k \in 1..n : Len(F[k]) \in Nat /\ F[k] \in Seq(X)
  BY <1>1
<1>4. at \in [1..(n + 1) -> Nat \ {0}]
  <2> SUFFICES ASSUME NEW k \in 1..(n + 1), k # 1 PROVE Len(F[k - 1]) + 1 \in Nat \ {0}
    OBVIOUS
  <2>1. k - 1 \in 1..n
    BY <1>2
  <2> QED BY <1>3, <2>1
<1>5. at[1] = 1 /\ \A k \in 1..n : at[k + 1] = Len(F[k]) + 1
  BY <1>2
<1> HIDE DEF at
<1>6. all \in Seq(X) /\ at[n + 1] = Len(all) + 1
  BY <1>1, <1>2, <1>5
<1>7. ASSUME NEW k \in 1..n
      PROVE  /\ at[k + 1] = at[k] + Len(seqs[k])
             /\ \A j \in 1..Len(seqs[k]) : F[k][at[k] + j - 1] = seqs[k][j]
             /\ \A j \in 1..(at[k] - 1) : k > 1 /\ F[k][j] = F[k - 1][j]
  <2>1. CASE k = 1
    <3>1. at[k] = 1 /\ F[k] = seqs[k]
      BY <1>1, <1>5, <2>1
    <3>2. at[k + 1] = Len(seqs[k]) + 1
      BY <1>5, <3>1
    <3>3. Len(seqs[k]) \in Nat
      <4>1. seqs[k] \in Seq(X)
        BY <1>2
      <4> QED BY <4>1
    <3>4. \A j \in 1..Len(seqs[k]) : at[k] + j - 1 = j
      BY <3>1, <3>3
    <3> QED BY <3>1, <3>2, <3>3, <3>4
  <2>2. CASE k # 1
    <3>1. k \in 2..n /\ k - 1 \in 1..n /\ (k - 1) + 1 = k
      BY <1>2, <2>2
    <3>2. F[k] = F[k - 1] \o seqs[k] /\ at[k] = Len(F[k - 1]) + 1
      BY <1>1, <1>5, <3>1
    <3>3. F[k - 1] \in Seq(X) /\ seqs[k] \in Seq(X)
      BY <1>2, <1>3, <3>1
    <3>4. /\ Len(F[k]) + 1 = at[k] + Len(seqs[k])
          /\ \A j \in 1..Len(seqs[k]) : F[k][at[k] + j - 1] = seqs[k][j]
          /\ \A j \in 1..(at[k] - 1) : F[k][j] = F[k - 1][j]
      <4> DEFINE before == F[k - 1]
                 joined == F[k]
                 place == at[k]
                 word == seqs[k]
      <4>1. /\ before \in Seq(X) /\ word \in Seq(X)
            /\ joined = before \o word /\ place = Len(before) + 1
        BY <3>2, <3>3
      <4> HIDE DEF before, joined, place, word
      <4>2. /\ Len(joined) + 1 = place + Len(word)
            /\ \A j \in 1..Len(word) : joined[place + j - 1] = word[j]
            /\ \A j \in 1..(place - 1) : joined[j] = before[j]
        BY <4>1, Joined
      <4> QED BY <4>2 DEF before, joined, place, word
    <3>5. at[k + 1] = Len(F[k]) + 1 /\ k > 1
      BY <1>5, <3>1
    <3> QED BY <3>4, <3>5
  <2> QED BY <2>1, <2>2
<1> DEFINE S == {k \in 1..n : /\ Len(F[k]) =< Len(all)
                              /\ \A j \in 1..Len(F[k]) : all[j] = F[k][j]}
<1>8. ASSUME NEW k \in 1..n, \A j \in (k + 1)..n : j \in S PROVE k \in S
  <2>1. CASE k = n
    BY <1>1, <1>3, <2>1
  <2>2. CASE k # n
    <3>1. k + 1 \in (k + 1)..n /\ k + 1 \in 1..n /\ (k + 1) - 1 = k
      BY <1>2, <2>2
    <3>2. Len(F[k + 1]) =< Len(all) /\ \A j \in 1..Len(F[k + 1]) : all[j] = F[k + 1][j]
      BY <1>8, <3>1
    <3>3. at[k + 1] = Len(F[k]) + 1 /\ at[(k + 1) + 1] = Len(F[k + 1]) + 1
      BY <1>5, <3>1
    <3>4. at[(k + 1) + 1] = at[k + 1] + Len(seqs[k + 1])
      BY <1>7, <3>1
    <3>5. \A j \in 1..(at[k + 1] - 1) : F[k + 1][j] = F[k][j]
      BY <1>7, <3>1
    <3>6. Len(F[k]) \in Nat /\ Len(F[k + 1]) \in Nat /\ Len(seqs[k + 1]) \in Nat
      BY <1>2, <1>3, <3>1
    <3>7. Len(F[k]) =< Len(F[k + 1]) /\ at[k + 1] - 1 = Len(F[k])
      <4>1. Len(F[k + 1]) + 1 = (Len(F[k]) + 1) + Len(seqs[k + 1])
        BY <3>3, <3>4
      <4>2. \A a, b, c, d \in Nat : b + 1 = (a + 1) + c => a =< b
        OBVIOUS
      <4>3. Len(F[k]) =< Len(F[k + 1])
        BY <3>6, <4>1, <4>2
      <4>4. \A a \in Nat : (a + 1) - 1 = a
        OBVIOUS
      <4> QED BY <3>3, <3>6, <4>3, <4>4
    <3>8. \A j \in 1..Len(F[k]) : F[k + 1][j] = F[k][j] /\ j \in 1..Len(F[k + 1])
      BY <3>5, <3>6, <3>7
    <3>9. Len(all) \in Nat
      BY <1>6
    <3> QED BY <3>2, <3>6, <3>7, <3>8, <3>9 DEF S
  <2> QED BY <2>1, <2>2
<1> HIDE DEF S
<1>9. \A k \in 1..n : k \in S
  BY <1>2, <1>8, DownInduction
<1>10. ASSUME NEW k \in 1..n
       PROVE  /\ at[k + 1] =< Len(all) + 1
              /\ \A j \in 1..Len(seqs[k]) : all[at[k] + j - 1] = seqs[k][j]
  <2>1. Len(F[k]) =< Len(all) /\ \A j \in 1..Len(F[k]) : all[j] = F[k][j]
    BY <1>9 DEF S
  <2>2. Len(F[k]) \in Nat /\ Len(all) \in Nat /\ at[k + 1] = Len(F[k]) + 1
    BY <1>3, <1>5, <1>6
  <2>3. at[k] \in Nat \ {0} /\ Len(seqs[k]) \in Nat /\ at[k + 1] = at[k] + Len(seqs[k])
    <3>1. k \in 1..(n + 1)
      BY <1>2
    <3>2. at[k] \in Nat \ {0}
      BY <1>4, <3>1
    <3>3. at[k + 1] = at[k] + Len(seqs[k])
      BY <1>7
    <3>4. seqs[k] \in Seq(X)
      BY <1>2
    <3> QED BY <3>2, <3>3, <3>4
  <2>4. ASSUME NEW j \in 1..Len(seqs[k]) PROVE all[at[k] + j - 1] = seqs[k][j]
    <3>1. at[k] + j - 1 \in 1..Len(F[k])
      BY <2>2, <2>3, SMTT(30)
    <3> QED BY <1>7, <2>1, <3>1
  <2> QED BY <2>1, <2>2, <2>4
<1>11. \A k \in 1..n : LiesAt(seqs[k], all, at[k])
  BY <1>7, <1>10 DEF LiesAt
<1>12. LieAt(seqs, all, at)
  BY <1>5, <1>6, <1>7, <1>11 DEF LieAt, n
<1> QED BY <1>4, <1>6, <1>12 DEF n, all

-----------------------------------------------------------------------------
(* Readers: functions that read a piece at each place of a text and go on. *)

\* From every place it goes on to a later one, or to the end.
GoesOn(n, N) == \A i \in 1..n : N[i] \in (i + 1)..(n + 1)

\* From place i on, f reads the piece R[i] and what is read from N[i] on.
Reads(n, X, R, N, f) ==
    /\ f \in [1..(n + 1) -> Seq(X)]
    /\ f[n + 1] = <<>>
    /\ \A i \in 1..n : f[i] = R[i] \o f[N[i]]

LEMMA ReaderExists ==
    ASSUME NEW n \in Nat, NEW X, NEW R, R \in [1..n -> Seq(X)], NEW N, GoesOn(n, N)
    PROVE  \E f : Reads(n, X, R, N, f)
<1> DEFINE m == n + 1
           V == Seq(X)
           G == [q \in (1..m) \X [1..m -> V] |->
                    IF q[1] = m THEN <<>> ELSE R[q[1]] \o q[2][N[q[1]]]]
<1>1. m \in Nat \ {0}
  OBVIOUS
<1>2. <<>> \in V /\ \A s, t \in V : s \o t \in V
  OBVIOUS
<1>3. ASSUME NEW i \in 1..m, i # m
      PROVE  R[i] \in V /\ N[i] \in (i + 1)..m /\ N[i] \in 1..m
  <2>1. i \in 1..n
    BY <1>3
  <2> QED BY <2>1 DEF GoesOn
<1> HIDE DEF V, m
<1>4. \A i \in 1..m : \A f \in [1..m -> V] :
          G[<<i, f>>] = IF i = m THEN <<>> ELSE R[i] \o f[N[i]]
  OBVIOUS
<1>5. G \in Tellers(m, V)
  <2> SUFFICES ASSUME NEW i \in 1..m, NEW f \in [1..m -> V]
               PROVE  (IF i = m THEN <<>> ELSE R[i] \o f[N[i]]) \in V
    BY DEF Tellers
  <2>1. CASE i = m
    BY <1>2, <2>1
  <2>2. CASE i # m
    <3>1. f[N[i]] \in V
      BY <1>3, <2>2
    <3> QED BY <1>2, <1>3, <2>2, <3>1
  <2> QED BY <2>1, <2>2
<1> HIDE DEF G
<1>6. FromAfter(G, m, V)
  <2> SUFFICES ASSUME NEW i \in 1..m, NEW f \in [1..m -> V], NEW g \in [1..m -> V],
                      \A j \in (i + 1)..m : f[j] = g[j]
               PROVE  G[<<i, f>>] = G[<<i, g>>]
    BY DEF FromAfter
  <2>1. i = m \/ f[N[i]] = g[N[i]]
    BY <1>3
  <2> QED BY <1>4, <2>1
<1>7. PICK f : ToldBy(G, m, V, f)
  <2>1. m \in Nat
    BY <1>1
  <2>2. V # {}
    BY <1>2
  <2> QED BY <1>5, <1>6, <2>1, <2>2, DownRecursion
<1>8. f \in [1..m -> V] /\ \A i \in 1..m : f[i] = IF i = m THEN <<>> ELSE R[i] \o f[N[i]]
  BY <1>4, <1>7 DEF ToldBy
<1>9. f[n + 1] = <<>>
  <2>1. m \in 1..m
    BY <1>1
  <2> QED BY <1>8, <2>1 DEF m
<1>10. ASSUME NEW i \in 1..n PROVE f[i] = R[i] \o f[N[i]]
  <2>1. i \in 1..m /\ i # m
    BY DEF m
  <2> QED BY <1>8, <2>1
<1> QED BY <1>8, <1>9, <1>10 DEF Reads, m, V

\* Nothing but what the pieces are made of is read.
LEMMA ReaderTyped ==
    ASSUME NEW n \in Nat, NEW X, NEW R, R \in [1..n -> Seq(X)], NEW N, GoesOn(n, N),
           NEW f, f = [i \in 1..(n + 1) |-> f[i]], f[n + 1] = <<>>,
           \A i \in 1..n : f[N[i]] \in Seq(X) => f[i] = R[i] \o f[N[i]]
    PROVE  Reads(n, X, R, N, f)
<1> DEFINE m == n + 1
           V == Seq(X)
           S == {i \in 1..m : f[i] \in V}
<1>1. m \in Nat /\ <<>> \in V /\ \A s, t \in V : s \o t \in V
  OBVIOUS
<1>2. \A i \in 1..n : R[i] \in V /\ N[i] \in (i + 1)..m
  BY DEF GoesOn
<1> HIDE DEF V
<1>3. ASSUME NEW i \in 1..m, \A j \in (i + 1)..m : j \in S PROVE i \in S
  <2>1. CASE i = m
    BY <1>1, <2>1
  <2>2. CASE i # m
    <3>1. i \in 1..n
      BY <2>2
    <3>2. f[N[i]] \in V
      BY <1>2, <1>3, <3>1
    <3>3. f[i] = R[i] \o f[N[i]]
      BY <3>1, <3>2 DEF V
    <3>4. f[i] \in V
      BY <1>1, <1>2, <3>1, <3>2, <3>3
    <3> QED BY <3>4
  <2> QED BY <2>1, <2>2
<1> HIDE DEF S, m
<1>4. \A i \in 1..m : i \in S
  BY <1>1, <1>3, DownInduction
<1>5. \A i \in 1..m : f[i] \in V
  BY <1>4 DEF S
<1>6. f \in [1..m -> V]
  BY <1>5 DEF m
<1>7. ASSUME NEW i \in 1..n PROVE f[i] = R[i] \o f[N[i]]
  <2>1. N[i] \in 1..m
    BY <1>2 DEF m
  <2>2. f[N[i]] \in V
    BY <1>5, <2>1
  <2> QED BY <2>2 DEF V
<1> QED BY <1>6, <1>7 DEF Reads, m, V

\* Three texts joined from the left or from the right are the same text.
LEMMA Concatenated ==
    ASSUME NEW X
    PROVE  \A s, t, u \in Seq(X) : s \o (t \o u) = (s \o t) \o u
<1> TAKE s, t, u \in Seq(X)
<1>1. (s \o t) \o u = s \o (t \o u)
  BY ConcatAssociative
<1> QED BY <1>1

\* A text that is read word by word is read as the pieces, one after the other.
LEMMA ReadWords ==
    ASSUME NEW X, NEW pieces \in Seq(Seq(X)), Len(pieces) # 0,
           NEW H \in [1..(Len(pieces) + 1) -> Seq(X)], H[Len(pieces) + 1] = <<>>,
           \A k \in 1..Len(pieces) : H[k] = pieces[k] \o H[k + 1]
    PROVE  H[1] = FlattenSeq(pieces)
<1> DEFINE n == Len(pieces)
<1>1. PICK F \in [1..n -> Seq(X)] :
          /\ F[1] = pieces[1]
          /\ \A i \in 2..n : F[i] = F[i - 1] \o pieces[i]
          /\ FlattenSeq(pieces) = F[n]
  BY FlattenSteps
<1>2. n \in Nat \ {0} /\ \A i \in 1..n : pieces[i] \in Seq(X)
  OBVIOUS
<1>0. \A s, t, u \in Seq(X) : s \o (t \o u) = (s \o t) \o u
  BY Concatenated
<1> HIDE DEF n
<1> DEFINE S == {k \in 1..n : H[1] = F[k] \o H[k + 1]}
<1>3. ASSUME NEW k \in 1..n, \A j \in 1..(k - 1) : j \in S PROVE k \in S
  <2>1. CASE k = 1
    BY <1>1, <2>1 DEF n
  <2>2. CASE k # 1
    <3>1. k - 1 \in 1..(k - 1) /\ k \in 2..n /\ k - 1 \in 1..n /\ (k - 1) + 1 = k
      BY <1>2, <2>2
    <3>2. H[1] = F[k - 1] \o H[k]
      BY <1>3, <3>1
    <3>3. H[k] = pieces[k] \o H[k + 1]
      BY DEF n
    <3>4. F[k] = F[k - 1] \o pieces[k]
      BY <1>1, <3>1
    <3>5. F[k - 1] \in Seq(X) /\ pieces[k] \in Seq(X) /\ H[k + 1] \in Seq(X)
      <4>1. k + 1 \in 1..(n + 1)
        BY <1>2
      <4> QED BY <1>1, <1>2, <3>1, <4>1 DEF n
    <3>6. F[k - 1] \o (pieces[k] \o H[k + 1]) = (F[k - 1] \o pieces[k]) \o H[k + 1]
      BY <1>0, <3>5, Zenon
    <3> QED BY <3>2, <3>3, <3>4, <3>6
  <2> QED BY <2>1, <2>2
<1> HIDE DEF S
<1>4. \A k \in 1..n : k \in S
  BY <1>2, <1>3, UpInduction
<1>5. n \in 1..n
  BY <1>2
<1>6. H[1] = F[n] \o H[n + 1]
  BY <1>4, <1>5 DEF S
<1>7. F[n] \o <<>> = F[n]
  BY <1>1, <1>5, ConcatEmptySeq
<1> QED BY <1>1, <1>6, <1>7 DEF n

\* A sequence, flattened from its elements.
LEMMA FlattenSingles ==
    ASSUME NEW X, NEW s \in Seq(X)
    PROVE  FlattenSeq([k \in 1..Len(s) |-> <<s[k]>>]) = s
<1> DEFINE n == Len(s)
           pieces == [k \in 1..n |-> <<s[k]>>]
           H == [k \in 1..(n + 1) |-> SubSeq(s, k, n)]
<1>1. n \in Nat /\ \A k \in 1..n : <<s[k]>> \in Seq(X)
  OBVIOUS
<1>2. pieces \in Seq(Seq(X)) /\ Len(pieces) = n
  BY <1>1
<1>3. CASE n = 0
  <2>1. pieces = <<>> /\ s = <<>>
    BY <1>2, <1>3
  <2> QED BY <2>1 DEF FlattenSeq
<1>4. CASE n # 0
  <2>1. ASSUME NEW k \in 1..n PROVE SubSeq(s, k, n) = <<s[k]>> \o SubSeq(s, k + 1, n)
    <3>1. n \in k..Len(s)
      BY <1>1
    <3> QED BY <3>1, SubSeqRecursiveFirst
  <2>2. ASSUME NEW k \in 1..(n + 1) PROVE SubSeq(s, k, n) \in Seq(X)
    <3>1. k \in Int /\ n \in Int /\ \A i \in k..n : s[i] \in X
      BY <1>1
    <3> QED BY <3>1, SubSeqProperties
  <2>3. SubSeq(s, n + 1, n) = <<>>
    <3>1. n + 1 \in Int /\ n \in Int /\ n < n + 1
      BY <1>1
    <3> QED BY <3>1, SubSeqEmpty
  <2>4. SubSeq(s, 1, n) = s
    BY SubSeqFull
  <2> HIDE DEF n
  <2>5. H \in [1..(n + 1) -> Seq(X)]
    BY <2>2
  <2>6. H[1] = s /\ H[n + 1] = <<>>
    BY <1>1, <2>3, <2>4
  <2>7. ASSUME NEW k \in 1..n PROVE H[k] = pieces[k] \o H[k + 1]
    <3>1. k \in 1..(n + 1) /\ k + 1 \in 1..(n + 1)
      BY <1>1
    <3> QED BY <2>1, <3>1
  <2> HIDE DEF H, pieces
  <2>8. H[1] = FlattenSeq(pieces)
    BY <1>2, <1>4, <2>5, <2>6, <2>7, ReadWords
  <2> QED BY <2>6, <2>8 DEF pieces, n
<1> QED BY <1>3, <1>4

-----------------------------------------------------------------------------
(* What parse() reads at a place of a pattern, and where it goes on. *)

After(p, i) == IF i < Len(p) THEN p[i + 1] ELSE " "

ReadAt(p, i) ==
    CASE p[i] = " "              -> <<>>
      [] p[i] = "?"              -> <<Wild>>
      [] p[i] \notin {" ", "?"} -> <<16 * Nibble(p[i]) + Nibble(After(p, i))>>

NextAt(p, i) ==
    IF i < Len(p) /\ ((p[i] = "?" /\ p[i + 1] = "?") \/ (p[i] \notin {" ", "?"} /\ p[i + 1] # " "))
    THEN i + 2 ELSE i + 1

\* It goes on within the pattern, or at its end.
LEMMA ReadsForward ==
    ASSUME NEW X, NEW p \in Seq(X), NEW i \in 1..Len(p)
    PROVE  ReadAt(p, i) \in Seq(Nat) /\ NextAt(p, i) \in (i + 1)..(Len(p) + 1)
<1>1. \A c : Nibble(c) \in Nat
  BY DEF Nibble
<1>2. 16 * Nibble(p[i]) + Nibble(After(p, i)) \in Nat
  BY <1>1
<1>3. Wild \in Nat
  BY DEF Wild
<1>4. ReadAt(p, i) \in Seq(Nat)
  <2>1. CASE p[i] = " "
    <3>1. ReadAt(p, i) = <<>>
      BY <2>1 DEF ReadAt
    <3> QED BY <3>1
  <2>2. CASE p[i] = "?"
    <3>1. ReadAt(p, i) = <<Wild>>
      BY <2>2 DEF ReadAt
    <3> QED BY <1>3, <3>1
  <2>3. CASE p[i] \notin {" ", "?"}
    <3> DEFINE byte == 16 * Nibble(p[i]) + Nibble(After(p, i))
    <3>1. ReadAt(p, i) = <<byte>>
      BY <2>3 DEF ReadAt
    <3> HIDE DEF byte
    <3>2. byte \in Nat
      BY <1>2 DEF byte
    <3> QED BY <3>1, <3>2
  <2> QED BY <2>1, <2>2, <2>3
<1>5. Len(p) \in Nat
  OBVIOUS
<1>6. NextAt(p, i) \in (i + 1)..(Len(p) + 1)
  <2>1. NextAt(p, i) = i + 1 \/ (NextAt(p, i) = i + 2 /\ i < Len(p))
    BY DEF NextAt
  <2> HIDE DEF NextAt
  <2> QED BY <1>5, <2>1
<1> QED BY <1>4, <1>6

\* The function that Parse recurs by.
LEMMA ParseSteps ==
    ASSUME NEW X, NEW p \in Seq(X)
    PROVE  \E From \in [1..(Len(p) + 1) -> Seq(Nat)] :
               /\ Parse(p) = From[1]
               /\ From[Len(p) + 1] = <<>>
               /\ \A i \in 1..Len(p) : From[i] = ReadAt(p, i) \o From[NextAt(p, i)]
<1> DEFINE n == Len(p) + 1
           V == Seq(Nat)
           From[i \in 1..(Len(p) + 1)] ==
               IF i > Len(p) THEN <<>>
               ELSE LET next == IF i < Len(p) THEN p[i + 1] ELSE " "
                    IN  CASE p[i] = " " -> From[i + 1]
                          [] p[i] = "?" ->
                               <<Wild>> \o From[IF next = "?" THEN i + 2 ELSE i + 1]
                          [] OTHER ->
                               <<16 * Nibble(p[i]) + Nibble(next)>>
                                 \o From[IF next = " " THEN i + 1 ELSE i + 2]
           Body(i, f) ==
               IF i > Len(p) THEN <<>>
               ELSE LET next == IF i < Len(p) THEN p[i + 1] ELSE " "
                    IN  CASE p[i] = " " -> f[i + 1]
                          [] p[i] = "?" ->
                               <<Wild>> \o f[IF next = "?" THEN i + 2 ELSE i + 1]
                          [] OTHER ->
                               <<16 * Nibble(p[i]) + Nibble(next)>>
                                 \o f[IF next = " " THEN i + 1 ELSE i + 2]
           R == [i \in 1..Len(p) |-> ReadAt(p, i)]
           N == [i \in 1..Len(p) |-> NextAt(p, i)]
<1>1. Len(p) \in Nat /\ n \in Nat \ {0}
  OBVIOUS
<1>2. Parse(p) = From[1]
  BY DEF Parse
<1>3. ASSUME NEW f, f = [i \in 1..n |-> Body(i, f)]
      PROVE  From = [i \in 1..n |-> Body(i, From)]
  BY <1>3
<1> HIDE DEF From
<1>4. <<>> \in V /\ \A s, t \in V : s \o t \in V
  OBVIOUS
<1>5. ASSUME NEW i \in 1..n, NEW f, i = n \/ f[NextAt(p, i)] \in V
      PROVE  Body(i, f) = IF i = n THEN <<>> ELSE ReadAt(p, i) \o f[NextAt(p, i)]
  <2>1. CASE i = n
    <3>1. i > Len(p)
      BY <1>1, <2>1
    <3>2. Body(i, f) = <<>>
      BY <3>1
    <3> QED BY <2>1, <3>2
  <2>2. CASE i # n
    <3>1. i \in 1..Len(p) /\ ~(i > Len(p))
      BY <1>1, <2>2
    <3> HIDE DEF n
    <3>2. CASE p[i] = " "
      <4>1. Body(i, f) = f[i + 1] /\ ReadAt(p, i) = <<>> /\ NextAt(p, i) = i + 1
        BY <3>1, <3>2 DEF ReadAt, NextAt
      <4>2. <<>> \o f[i + 1] = f[i + 1]
        <5>1. f[i + 1] \in Seq(Nat)
          BY <1>5, <2>2, <4>1
        <5> QED BY <5>1, ConcatEmptySeq
      <4> QED BY <2>2, <4>1, <4>2
    <3>3. CASE p[i] = "?"
      <4>1. Body(i, f) = <<Wild>> \o f[IF After(p, i) = "?" THEN i + 2 ELSE i + 1]
        BY <3>1, <3>3 DEF After
      <4>2. NextAt(p, i) = IF After(p, i) = "?" THEN i + 2 ELSE i + 1
        BY <3>3 DEF NextAt, After
      <4>3. ReadAt(p, i) = <<Wild>>
        BY <3>3 DEF ReadAt
      <4> QED BY <2>2, <4>1, <4>2, <4>3
    <3>4. CASE p[i] \notin {" ", "?"}
      <4>1. Body(i, f) = <<16 * Nibble(p[i]) + Nibble(After(p, i))>>
                           \o f[IF After(p, i) = " " THEN i + 1 ELSE i + 2]
        BY <3>1, <3>4 DEF After
      <4>2. NextAt(p, i) = IF After(p, i) = " " THEN i + 1 ELSE i + 2
        BY <3>4 DEF NextAt, After
      <4>3. ReadAt(p, i) = <<16 * Nibble(p[i]) + Nibble(After(p, i))>>
        BY <3>4 DEF ReadAt
      <4> QED BY <2>2, <4>1, <4>2, <4>3
    <3> QED BY <3>2, <3>3, <3>4
  <2> QED BY <2>1, <2>2
<1>6. R \in [1..Len(p) -> Seq(Nat)] /\ GoesOn(Len(p), N)
  BY ReadsForward DEF GoesOn
<1>7. \A i \in 1..Len(p) : R[i] = ReadAt(p, i) /\ N[i] = NextAt(p, i)
  OBVIOUS
<1> HIDE DEF R, N, V, Body
<1>8. PICK f : Reads(Len(p), Nat, R, N, f)
  BY <1>1, <1>6, ReaderExists
<1>9. \A i \in 1..n : f[i] = Body(i, f)
  <2> SUFFICES ASSUME NEW i \in 1..n PROVE f[i] = Body(i, f)
    OBVIOUS
  <2>1. CASE i = n
    BY <1>5, <1>8, <2>1 DEF Reads
  <2>2. CASE i # n
    <3>1. i \in 1..Len(p)
      BY <1>1, <2>2
    <3>2. NextAt(p, i) \in 1..n
      BY <1>1, <3>1, ReadsForward
    <3>3. f[NextAt(p, i)] \in V /\ f[i] = ReadAt(p, i) \o f[NextAt(p, i)]
      BY <1>7, <1>8, <3>1, <3>2 DEF Reads, V
    <3> QED BY <1>5, <2>2, <3>3
  <2> QED BY <2>1, <2>2
<1>10. f = [i \in 1..n |-> Body(i, f)]
  BY <1>8, <1>9 DEF Reads
<1>11. From = [i \in 1..n |-> Body(i, From)]
  BY <1>3, <1>10
<1>12. Reads(Len(p), Nat, R, N, From)
  <2>1. From = [i \in 1..(Len(p) + 1) |-> From[i]]
    BY <1>11
  <2>2. From[Len(p) + 1] = <<>>
    <3>1. n \in 1..n
      BY <1>1
    <3> QED BY <1>5, <1>11, <3>1
  <2>3. ASSUME NEW i \in 1..Len(p), From[N[i]] \in Seq(Nat)
        PROVE  From[i] = R[i] \o From[N[i]]
    <3>1. i \in 1..n /\ i # n
      BY <1>1
    <3>2. From[NextAt(p, i)] \in V
      BY <1>7, <2>3 DEF V
    <3>3. From[i] = Body(i, From)
      BY <1>11, <3>1
    <3>4. From[i] = ReadAt(p, i) \o From[NextAt(p, i)]
      BY <1>5, <3>1, <3>2, <3>3
    <3> QED BY <1>7, <3>4
  <2> QED BY <1>1, <1>6, <2>1, <2>2, <2>3, ReaderTyped
<1> QED BY <1>2, <1>7, <1>12 DEF Reads

-----------------------------------------------------------------------------
(* A pattern is read as it was written. *)

Signs == {"4", "C", "?", " "}

\* How a byte is written.
Stem(b, short) == IF b = Wild /\ short THEN <<"?">> ELSE Hexadecimal[b]

Word(b, between, short) == Stem(b, short) \o IF between THEN <<" ">> ELSE <<>>

\* Two signs are a byte.
IsByte(x, y, b) ==
    /\ x # " " /\ y # " "
    /\ x = "?" <=> b = Wild
    /\ b = Wild => y = "?"
    /\ b # Wild => 16 * Nibble(x) + Nibble(y) = b

\* A word is a byte: a question mark and a blank, or two signs and perhaps a blank.
LoneMark(w, b) == w[1] = "?" /\ w[2] = " " /\ b = Wild

Tells(w, b) ==
    \/ Len(w) = 2 /\ LoneMark(w, b)
    \/ Len(w) = 2 /\ IsByte(w[1], w[2], b)
    \/ Len(w) = 3 /\ IsByte(w[1], w[2], b) /\ w[3] = " "

LEMMA Pair ==
    ASSUME NEW X, NEW x \in X, NEW y \in X
    PROVE  /\ <<x, y>> \in Seq(X) /\ Len(<<x, y>>) = 2
           /\ <<x, y>>[1] = x /\ <<x, y>>[2] = y
OBVIOUS

LEMMA Single ==
    ASSUME NEW X, NEW x \in X
    PROVE  <<x>> \in Seq(X) /\ Len(<<x>>) = 1 /\ <<x>>[1] = x
OBVIOUS

LEMMA Appended ==
    ASSUME NEW X, NEW s \in Seq(X), NEW x \in X
    PROVE  /\ s \o <<x>> \in Seq(X) /\ Len(s \o <<x>>) = Len(s) + 1
           /\ \A j \in 1..Len(s) : (s \o <<x>>)[j] = s[j]
           /\ (s \o <<x>>)[Len(s) + 1] = x
<1>1. (s \o <<x>>)[Len(s) + 1] = x
  OBVIOUS
<1> QED BY <1>1

LEMMA StemTells ==
    ASSUME NEW b \in DOMAIN Hexadecimal, NEW short \in BOOLEAN
    PROVE  \/ b = Wild /\ short /\ Stem(b, short) = <<"?">>
           \/ \E x, y \in Signs : Stem(b, short) = <<x, y>> /\ IsByte(x, y, b)
<1>1. b \in {68, 76, Wild} /\ Wild = 256
  BY DEF Hexadecimal, Wild
<1>2. /\ Hexadecimal[68] = <<"4", "4">> /\ Hexadecimal[76] = <<"4", "C">>
      /\ Hexadecimal[Wild] = <<"?", "?">>
  BY DEF Hexadecimal, Wild
<1>3. 16 * Nibble("4") + Nibble("4") = 68 /\ 16 * Nibble("4") + Nibble("C") = 76
  BY DEF Nibble
<1>4. "4" \in Signs /\ "C" \in Signs /\ "?" \in Signs
  BY DEF Signs
<1>5. IsByte("?", "?", Wild) /\ IsByte("4", "4", 68) /\ IsByte("4", "C", 76)
  BY <1>1, <1>3 DEF IsByte
<1>6. CASE b = Wild
  BY <1>2, <1>4, <1>5, <1>6, Zenon DEF Stem
<1>7. CASE b = 68
  <2>1. Stem(b, short) = <<"4", "4">>
    BY <1>1, <1>2, <1>7 DEF Stem
  <2> QED BY <1>4, <1>5, <1>7, <2>1, Zenon
<1>8. CASE b = 76
  <2>1. Stem(b, short) = <<"4", "C">>
    BY <1>1, <1>2, <1>8 DEF Stem
  <2> QED BY <1>4, <1>5, <1>8, <2>1, Zenon
<1> QED BY <1>1, <1>6, <1>7, <1>8

LEMMA WordTells ==
    ASSUME NEW b \in DOMAIN Hexadecimal, NEW between \in BOOLEAN, NEW short \in BOOLEAN,
           between \/ ~short
    PROVE  Word(b, between, short) \in Seq(Signs) /\ Tells(Word(b, between, short), b)
<1> DEFINE w == Word(b, between, short)
           s == Stem(b, short)
<1>1. \/ b = Wild /\ short /\ s = <<"?">>
      \/ \E x, y \in Signs : s = <<x, y>> /\ IsByte(x, y, b)
  BY StemTells
<1>2. /\ between => w = s \o <<" ">>
      /\ ~between => w = s \o <<>>
  BY DEF Word
<1> HIDE DEF w, s
<1>3. "?" \in Signs /\ " " \in Signs
  BY DEF Signs
<1>4. ASSUME NEW n \in Nat, s \in Seq(Signs), Len(s) = n, between
      PROVE  /\ w \in Seq(Signs) /\ Len(w) = n + 1
             /\ \A j \in 1..n : w[j] = s[j]
             /\ w[n + 1] = " "
  <2>1. /\ s \o <<" ">> \in Seq(Signs) /\ Len(s \o <<" ">>) = Len(s) + 1
        /\ \A j \in 1..Len(s) : (s \o <<" ">>)[j] = s[j]
        /\ (s \o <<" ">>)[Len(s) + 1] = " "
    BY <1>3, <1>4, Appended
  <2> QED BY <1>2, <1>4, <2>1, Zenon
<1>5. CASE b = Wild /\ short /\ s = <<"?">>
  <2>1. s \in Seq(Signs) /\ Len(s) = 1 /\ s[1] = "?"
    BY <1>3, <1>5, Single, Zenon
  <2>2. 1 \in Nat /\ 1 \in 1..1 /\ 1 + 1 = 2
    OBVIOUS
  <2>3. w \in Seq(Signs) /\ Len(w) = 2 /\ w[1] = "?" /\ w[2] = " "
    BY <1>4, <1>5, <2>1, <2>2, Zenon
  <2>4. Tells(w, b)
    BY <1>5, <2>3, Zenon DEF Tells, LoneMark
  <2> QED BY <2>3, <2>4 DEF w
<1>6. CASE \E x, y \in Signs : s = <<x, y>> /\ IsByte(x, y, b)
  <2>1. PICK x \in Signs, y \in Signs : s = <<x, y>> /\ IsByte(x, y, b)
    BY <1>6
  <2>2. s \in Seq(Signs) /\ Len(s) = 2 /\ s[1] = x /\ s[2] = y
    BY <2>1, Pair
  <2>3. CASE between
    <3>1. 2 \in Nat /\ 1 \in 1..2 /\ 2 \in 1..2 /\ 2 + 1 = 3
      OBVIOUS
    <3>2. w \in Seq(Signs) /\ w[1] = x /\ w[2] = y /\ Len(w) = 3 /\ w[3] = " "
      BY <1>4, <2>2, <2>3, <3>1, Zenon
    <3>3. Tells(w, b)
      BY <2>1, <3>2, Zenon DEF Tells
    <3> QED BY <3>2, <3>3 DEF w
  <2>4. CASE ~between
    <3>1. w = s
      BY <1>2, <2>2, <2>4, ConcatEmptySeq
    <3>2. Tells(w, b)
      BY <2>1, <2>2, <3>1, Zenon DEF Tells
    <3> QED BY <2>2, <3>1, <3>2 DEF w
  <2> QED BY <2>3, <2>4
<1> QED BY <1>1, <1>5, <1>6

\* What is read where a word stands: its byte, and what is read after it.
ReadsOn(p, From) ==
    /\ From \in [1..(Len(p) + 1) -> Seq(Nat)]
    /\ \A i \in 1..Len(p) : From[i] = ReadAt(p, i) \o From[NextAt(p, i)]

ReadsByte(From, i, b, k) == From[i] = <<b>> \o From[k]

LEMMA ReadWord ==
    ASSUME NEW p \in Seq(Signs), NEW From, ReadsOn(p, From),
           NEW i \in Nat \ {0}, NEW b, NEW w \in Seq(Signs), Tells(w, b),
           LiesAt(w, p, i)
    PROVE  ReadsByte(From, i, b, i + Len(w))
<1> SUFFICES From[i] = <<b>> \o From[i + Len(w)]
  BY DEF ReadsByte
<1>1. Len(w) = 2 \/ Len(w) = 3
  BY Zenon DEF Tells
<1>2. Len(p) \in Nat /\ i + Len(w) =< Len(p) + 1
  BY DEF LiesAt
<1>3. \A j \in 1..Len(w) : p[i + j - 1] = w[j]
  BY DEF LiesAt
<1>4. /\ i \in 1..Len(p) /\ i + 1 \in 1..Len(p) /\ i < Len(p)
      /\ 1 \in 1..Len(w) /\ 2 \in 1..Len(w)
  <2>1. CASE Len(w) = 2
    BY <1>2, <2>1
  <2>2. CASE Len(w) = 3
    BY <1>2, <2>2
  <2> QED BY <1>1, <2>1, <2>2
<1>5. p[i] = w[1] /\ p[i + 1] = w[2]
  <2>1. i + 1 - 1 = i /\ i + 2 - 1 = i + 1
    OBVIOUS
  <2>2. p[i + 1 - 1] = w[1] /\ p[i + 2 - 1] = w[2]
    BY <1>3, <1>4, Zenon
  <2> QED BY <2>1, <2>2
<1>6. \* A blank is passed over.
      ASSUME NEW k \in 1..Len(p), p[k] = " " PROVE From[k] = From[k + 1]
  <2>1. ReadAt(p, k) = <<>> /\ NextAt(p, k) = k + 1
    BY <1>6 DEF ReadAt, NextAt
  <2>2. From[k] = <<>> \o From[k + 1]
    BY <2>1 DEF ReadsOn
  <2>3. k + 1 \in 1..(Len(p) + 1)
    BY <1>2
  <2>4. From[k + 1] \in Seq(Nat)
    BY <2>3 DEF ReadsOn
  <2> QED BY <2>2, <2>4, ConcatEmptySeq
<1>7. CASE Len(w) = 2 /\ LoneMark(w, b)
  <2>1. p[i] = "?" /\ p[i + 1] = " " /\ b = Wild
    BY <1>5, <1>7, Zenon DEF LoneMark
  <2>2. ReadAt(p, i) = <<b>> /\ NextAt(p, i) = i + 1
    BY <2>1 DEF ReadAt, NextAt
  <2>3. From[i] = <<b>> \o From[i + 1]
    BY <1>4, <2>2 DEF ReadsOn
  <2>4. From[i + 1] = From[(i + 1) + 1]
    BY <1>4, <1>6, <2>1
  <2>5. (i + 1) + 1 = i + Len(w)
    BY <1>7
  <2> QED BY <2>3, <2>4, <2>5
<1>8. CASE /\ Len(w) = 2 \/ Len(w) = 3
           /\ IsByte(w[1], w[2], b)
           /\ Len(w) = 3 => w[3] = " "
  <2>1. IsByte(p[i], p[i + 1], b)
    BY <1>5, <1>8, Zenon
  <2>2. NextAt(p, i) = i + 2
    BY <1>4, <2>1 DEF NextAt, IsByte
  <2>3. After(p, i) = p[i + 1]
    BY <1>4 DEF After
  <2>4. ReadAt(p, i) = <<b>>
    <3>1. CASE b = Wild
      BY <2>1, <3>1 DEF ReadAt, IsByte
    <3>2. CASE b # Wild
      <4>1. p[i] \notin {" ", "?"}
        BY <2>1, <3>2 DEF IsByte
      <4>2. ReadAt(p, i) = <<16 * Nibble(p[i]) + Nibble(After(p, i))>>
        BY <4>1 DEF ReadAt
      <4>3. 16 * Nibble(p[i]) + Nibble(p[i + 1]) = b
        BY <2>1, <3>2, Zenon DEF IsByte
      <4> QED BY <2>3, <4>2, <4>3
    <3> QED BY <3>1, <3>2
  <2>5. From[i] = <<b>> \o From[i + 2]
    BY <1>4, <2>2, <2>4 DEF ReadsOn
  <2>6. CASE Len(w) = 2
    BY <2>5, <2>6
  <2>7. CASE Len(w) = 3
    <3>1. 3 \in 1..Len(w) /\ i + 3 - 1 = i + 2 /\ i + 2 \in 1..Len(p)
      BY <1>2, <2>7
    <3>2. p[i + 3 - 1] = w[3] /\ w[3] = " "
      BY <1>3, <1>8, <2>7, <3>1, Zenon
    <3>3. p[i + 2] = " "
      BY <3>1, <3>2
    <3>4. From[i + 2] = From[(i + 2) + 1]
      BY <1>6, <3>1, <3>3
    <3>5. (i + 2) + 1 = i + Len(w)
      BY <2>7
    <3> QED BY <2>5, <3>4, <3>5
  <2> QED BY <1>1, <2>6, <2>7
<1>9. \/ Len(w) = 2 /\ LoneMark(w, b)
      \/ /\ Len(w) = 2 \/ Len(w) = 3
         /\ IsByte(w[1], w[2], b)
         /\ Len(w) = 3 => w[3] = " "
  <2>1. Len(w) = 2 => Len(w) # 3
    OBVIOUS
  <2> QED BY <2>1, Zenon DEF Tells
<1> QED BY <1>7, <1>8, <1>9, Zenon

\* parse() reads every pattern as it was written: with blanks between bytes, or without
\* them if every wildcard has its two question marks.
THEOREM PatternsAreRead ==
    ASSUME NEW bytes \in Seq(DOMAIN Hexadecimal),
           NEW between \in BOOLEAN, NEW short \in BOOLEAN, between \/ ~short
    PROVE  Parse(Pattern(bytes, between, short)) = bytes
<1> DEFINE n == Len(bytes)
           words == [i \in 1..n |-> Word(bytes[i], between, short)]
           p == FlattenSeq(words)
<1>1. Pattern(bytes, between, short) = p
  BY DEF Pattern, Word, Stem
<1>2. n \in Nat /\ \A i \in 1..n : bytes[i] \in DOMAIN Hexadecimal
  OBVIOUS
<1>3. /\ \A i \in 1..n : Tells(Word(bytes[i], between, short), bytes[i])
      /\ \A i \in 1..n : Word(bytes[i], between, short) \in Seq(Signs)
  BY <1>2, WordTells
<1>4. \A b \in DOMAIN Hexadecimal : b \in Nat
  BY DEF Hexadecimal, Wild
<1>5. words \in Seq(Seq(Signs)) /\ Len(words) = n
  BY <1>2, <1>3
<1>6. \A i \in 1..n : words[i] \in Seq(Signs) /\ Tells(words[i], bytes[i])
  BY <1>3
<1> HIDE DEF n, words
<1>7. CASE n = 0
  <2>1. p = words /\ words = <<>>
    BY <1>5, <1>7 DEF FlattenSeq
  <2>2. p \in Seq(Signs) /\ Len(p) = 0
    BY <2>1
  <2> HIDE DEF p
  <2>3. PICK From \in [1..(Len(p) + 1) -> Seq(Nat)] :
            Parse(p) = From[1] /\ From[Len(p) + 1] = <<>>
    BY <2>2, ParseSteps
  <2>4. Parse(p) = <<>>
    BY <2>2, <2>3
  <2>5. bytes = <<>>
    BY <1>7 DEF n
  <2> QED BY <1>1, <2>4, <2>5
<1>8. CASE n # 0
  <2>1. p \in Seq(Signs) /\ \E at \in [1..(n + 1) -> Nat \ {0}] : LieAt(words, p, at)
    BY <1>5, <1>8, FlattenPlaces
  <2>2. PICK at \in [1..(n + 1) -> Nat \ {0}] : LieAt(words, p, at)
    BY <2>1
  <2> HIDE DEF p
  <2>3. PICK From \in [1..(Len(p) + 1) -> Seq(Nat)] :
            /\ Parse(p) = From[1]
            /\ From[Len(p) + 1] = <<>>
            /\ \A i \in 1..Len(p) : From[i] = ReadAt(p, i) \o From[NextAt(p, i)]
    BY <2>1, ParseSteps
  <2>4. ReadsOn(p, From)
    BY <2>3 DEF ReadsOn
  <2>5. ASSUME NEW k \in 1..n
        PROVE  /\ From[at[k]] = <<bytes[k]>> \o From[at[k + 1]]
               /\ at[k] \in Nat \ {0} /\ at[k + 1] \in 1..(Len(p) + 1)
    <3>1. k \in 1..(n + 1) /\ k + 1 \in 1..(n + 1)
      BY <1>2
    <3>2. at[k] \in Nat \ {0} /\ at[k + 1] \in Nat \ {0}
      BY <3>1
    <3>3. at[k + 1] = at[k] + Len(words[k]) /\ LiesAt(words[k], p, at[k])
      BY <1>5, <2>2 DEF LieAt
    <3>4. words[k] \in Seq(Signs) /\ Tells(words[k], bytes[k])
      BY <1>6
    <3>5. From[at[k]] = <<bytes[k]>> \o From[at[k + 1]]
      <4> DEFINE i == at[k]
                 b == bytes[k]
                 w == words[k]
      <4>1. i \in Nat \ {0} /\ w \in Seq(Signs) /\ Tells(w, b) /\ LiesAt(w, p, i)
        BY <3>2, <3>3, <3>4
      <4> HIDE DEF i, b, w
      <4>2. ReadsByte(From, i, b, i + Len(w))
        <5>1. p \in Seq(Signs)
          BY <2>1
        <5> QED BY <2>4, <4>1, <5>1, ReadWord
      <4> QED BY <3>3, <4>2 DEF i, b, w, ReadsByte
    <3>6. at[k + 1] =< Len(p) + 1
      BY <3>3 DEF LiesAt
    <3>7. Len(p) \in Nat
      BY <2>1
    <3> QED BY <3>2, <3>5, <3>6, <3>7
  <2> DEFINE H == [k \in 1..(n + 1) |-> From[at[k]]]
             pieces == [k \in 1..n |-> <<bytes[k]>>]
  <2>6. ASSUME NEW k \in 1..(n + 1) PROVE at[k] \in 1..(Len(p) + 1)
    <3>1. CASE k = 1
      <4>1. at[k] = 1 /\ Len(p) \in Nat
        BY <2>1, <2>2, <3>1 DEF LieAt
      <4> QED BY <4>1
    <3>2. CASE k # 1
      <4>1. k - 1 \in 1..n /\ (k - 1) + 1 = k
        BY <1>2, <3>2
      <4> QED BY <2>5, <4>1
    <3> QED BY <3>1, <3>2
  <2>7. H \in [1..(n + 1) -> Seq(Nat)]
    BY <2>6
  <2>8. H[n + 1] = <<>> /\ H[1] = From[1]
    <3>1. n + 1 \in 1..(n + 1) /\ 1 \in 1..(n + 1)
      BY <1>2
    <3>2. at[n + 1] = Len(p) + 1 /\ at[1] = 1
      BY <1>5, <2>2 DEF LieAt
    <3> QED BY <2>3, <3>1, <3>2
  <2>9. ASSUME NEW k \in 1..n PROVE H[k] = pieces[k] \o H[k + 1]
    <3>1. k \in 1..(n + 1) /\ k + 1 \in 1..(n + 1)
      BY <1>2
    <3> QED BY <2>5, <3>1
  <2>10. pieces \in Seq(Seq(Nat)) /\ Len(pieces) = n
    <3>1. \A k \in 1..n : <<bytes[k]>> \in Seq(Nat)
      BY <1>2, <1>4
    <3> QED BY <1>2, <3>1
  <2>11. FlattenSeq(pieces) = bytes
    <3>1. bytes \in Seq(Nat)
      BY <1>2, <1>4 DEF n
    <3> QED BY <3>1, FlattenSingles DEF n
  <2> HIDE DEF H, pieces
  <2>12. H[1] = FlattenSeq(pieces)
    BY <1>8, <2>7, <2>8, <2>9, <2>10, ReadWords
  <2> QED BY <1>1, <2>3, <2>8, <2>11, <2>12
<1> QED BY <1>7, <1>8

-----------------------------------------------------------------------------
(* What scan() finds. *)

\* Memory at a place matches the bytes of a pattern.
Fits(memory, at, bytes) ==
    \A j \in 1..Len(bytes) : bytes[j] \in {Wild, memory[at + j - 1]}

LEMMA MismatchTells ==
    ASSUME NEW X, NEW bytes \in Seq(X), NEW memory, NEW at
    PROVE  \/ Mismatch(memory, at, bytes) = 0 /\ Fits(memory, at, bytes)
           \/ Mismatch(memory, at, bytes) \in 1..Len(bytes) /\ ~Fits(memory, at, bytes)
<1> DEFINE wrong == {j \in 1..Len(bytes) : bytes[j] # Wild /\ memory[at + j - 1] # bytes[j]}
<1>1. Mismatch(memory, at, bytes) = IF wrong = {} THEN 0 ELSE Min(wrong)
  BY DEF Mismatch
<1>2. Fits(memory, at, bytes) <=> wrong = {}
  BY DEF Fits
<1>3. Len(bytes) \in Nat /\ wrong \in SUBSET (1..Len(bytes))
  OBVIOUS
<1> HIDE DEF wrong
<1>4. wrong # {} => Min(wrong) \in 1..Len(bytes)
  BY <1>3, MinIsLeast
<1> QED BY <1>1, <1>2, <1>4

\* What scan() does at a place, if it does f after it.
ScanStep(memory, bytes, i, f) ==
    IF i + Len(bytes) - 1 > Len(memory) THEN 0
    ELSE LET j == Mismatch(memory, i, bytes)
         IN  IF j = 0 THEN i
             ELSE IF memory[i + j - 1] = Unreadable THEN 0 ELSE f[i + 1]

\* The function that Scan recurs by.
LEMMA ScanSteps ==
    ASSUME NEW M, NEW memory \in Seq(M), NEW pattern,
           NEW X, NEW bytes \in Seq(X), Parse(pattern) = bytes, bytes # <<>>
    PROVE  \E From \in [1..(Len(memory) + 1) -> Nat] :
               /\ Scan(memory, pattern) = From[1]
               /\ \A i \in 1..(Len(memory) + 1) : From[i] = ScanStep(memory, bytes, i, From)
<1> DEFINE n == Len(memory) + 1
           From[i \in 1..(Len(memory) + 1)] ==
               IF i + Len(bytes) - 1 > Len(memory) THEN 0
               ELSE LET j == Mismatch(memory, i, bytes)
                    IN  IF j = 0 THEN i
                        ELSE IF memory[i + j - 1] = Unreadable THEN 0 ELSE From[i + 1]
           G == [q \in (1..n) \X [1..n -> Nat] |-> ScanStep(memory, bytes, q[1], q[2])]
<1>1. Len(memory) \in Nat /\ n \in Nat /\ Len(bytes) \in Nat \ {0}
  OBVIOUS
<1>2. Scan(memory, pattern) = From[1]
  BY DEF Scan
<1>3. ASSUME NEW f, f = [i \in 1..n |-> ScanStep(memory, bytes, i, f)]
      PROVE  From = [i \in 1..n |-> ScanStep(memory, bytes, i, From)]
  BY <1>3 DEF ScanStep
<1> HIDE DEF From
<1>4. ASSUME NEW i \in 1..n
      PROVE  \/ \E r \in Nat : \A f : ScanStep(memory, bytes, i, f) = r
             \/ i + 1 \in (i + 1)..n /\ \A f : ScanStep(memory, bytes, i, f) = f[i + 1]
  <2> DEFINE j == Mismatch(memory, i, bytes)
  <2>1. CASE i + Len(bytes) - 1 > Len(memory)
    <3>1. \A f : ScanStep(memory, bytes, i, f) = 0
      BY <2>1 DEF ScanStep
    <3> QED BY <3>1
  <2>2. CASE ~(i + Len(bytes) - 1 > Len(memory)) /\ j = 0
    <3>1. \A f : ScanStep(memory, bytes, i, f) = i
      BY <2>2 DEF ScanStep
    <3>2. i \in Nat
      BY <1>1
    <3> QED BY <3>1, <3>2
  <2>3. CASE ~(i + Len(bytes) - 1 > Len(memory)) /\ j # 0 /\ memory[i + j - 1] = Unreadable
    <3>1. \A f : ScanStep(memory, bytes, i, f) = 0
      BY <2>3 DEF ScanStep
    <3> QED BY <3>1
  <2>4. CASE ~(i + Len(bytes) - 1 > Len(memory)) /\ j # 0 /\ memory[i + j - 1] # Unreadable
    <3>1. \A f : ScanStep(memory, bytes, i, f) = f[i + 1]
      BY <2>4 DEF ScanStep
    <3>2. i + 1 \in (i + 1)..n
      BY <1>1, <2>4
    <3> QED BY <3>1, <3>2
  <2> QED BY <2>1, <2>2, <2>3, <2>4
<1>5. \A i \in 1..n : \A f \in [1..n -> Nat] :
          G[<<i, f>>] = ScanStep(memory, bytes, i, f)
  OBVIOUS
<1> HIDE DEF n
<1>6. G \in Tellers(n, Nat)
  <2> SUFFICES ASSUME NEW i \in 1..n, NEW f \in [1..n -> Nat]
               PROVE  ScanStep(memory, bytes, i, f) \in Nat
    BY DEF Tellers
  <2>1. CASE \E r \in Nat : \A g : ScanStep(memory, bytes, i, g) = r
    BY <2>1
  <2>2. CASE i + 1 \in (i + 1)..n /\ \A g : ScanStep(memory, bytes, i, g) = g[i + 1]
    <3>1. i + 1 \in 1..n
      BY <1>1, <2>2
    <3>2. f[i + 1] \in Nat
      BY <3>1
    <3> QED BY <2>2, <3>2
  <2> QED BY <1>4, <2>1, <2>2
<1> HIDE DEF G
<1>7. FromAfter(G, n, Nat)
  <2> SUFFICES ASSUME NEW i \in 1..n, NEW f \in [1..n -> Nat], NEW g \in [1..n -> Nat],
                      \A j \in (i + 1)..n : f[j] = g[j]
               PROVE  G[<<i, f>>] = G[<<i, g>>]
    BY DEF FromAfter
  <2>1. ScanStep(memory, bytes, i, f) = ScanStep(memory, bytes, i, g)
    BY <1>4
  <2> QED BY <1>5, <2>1
<1>8. PICK f : ToldBy(G, n, Nat, f)
  <2> DEFINE V == Nat
  <2>1. n \in Nat
    BY <1>1
  <2>2. V # {} /\ G \in Tellers(n, V) /\ FromAfter(G, n, V)
    BY <1>6, <1>7
  <2> HIDE DEF V
  <2>3. \E f : ToldBy(G, n, V, f)
    BY <2>1, <2>2, DownRecursion
  <2> QED BY <2>3 DEF V
<1>9. f = [i \in 1..n |-> ScanStep(memory, bytes, i, f)]
  BY <1>5, <1>8 DEF ToldBy
<1>10. From = [i \in 1..n |-> ScanStep(memory, bytes, i, From)]
  BY <1>3, <1>9
<1>11. \A i \in 1..n : From[i] = ScanStep(memory, bytes, i, From)
  BY <1>10
<1> DEFINE S == {i \in 1..n : From[i] \in Nat}
<1>12. ASSUME NEW i \in 1..n, \A j \in (i + 1)..n : j \in S PROVE i \in S
  <2>1. CASE \E r \in Nat : \A g : ScanStep(memory, bytes, i, g) = r
    BY <1>11, <2>1
  <2>2. CASE i + 1 \in (i + 1)..n /\ \A g : ScanStep(memory, bytes, i, g) = g[i + 1]
    BY <1>11, <1>12, <2>2
  <2> QED BY <1>4, <2>1, <2>2
<1> HIDE DEF S
<1>13. \A i \in 1..n : i \in S
  BY <1>1, <1>12, DownInduction
<1>14. From \in [1..n -> Nat]
  BY <1>10, <1>13 DEF S
<1> QED BY <1>2, <1>11, <1>14 DEF n

\* From a place on, it finds the first match; or none, and then before the end of every
\* match there is a byte that cannot be read.
Lies(memory, bytes, i) ==
    i + Len(bytes) - 1 =< Len(memory) /\ Fits(memory, i, bytes)

FindsFirst(memory, bytes, i, r) ==
    /\ r # 0 => /\ r \in i..Len(memory) /\ Lies(memory, bytes, r)
                /\ \A k \in i..(r - 1) : ~Lies(memory, bytes, k)
    /\ r = 0 => \A k \in i..Len(memory) :
                   Lies(memory, bytes, k) =>
                   \E u \in 1..(k + Len(bytes) - 1) : memory[u] = Unreadable

LEMMA StepFindsFirst ==
    ASSUME NEW M, NEW memory \in Seq(M), NEW X, NEW bytes \in Seq(X), bytes # <<>>,
           NEW i \in 1..(Len(memory) + 1), NEW f,
           i =< Len(memory) =>
               f[i + 1] \in Nat /\ FindsFirst(memory, bytes, i + 1, f[i + 1])
    PROVE  FindsFirst(memory, bytes, i, ScanStep(memory, bytes, i, f))
<1> DEFINE j == Mismatch(memory, i, bytes)
           L == Len(bytes)
           N == Len(memory)
           r == ScanStep(memory, bytes, i, f)
<1>1. N \in Nat /\ L \in Nat \ {0}
  OBVIOUS
<1>2. \/ j = 0 /\ Fits(memory, i, bytes)
      \/ j \in 1..L /\ ~Fits(memory, i, bytes)
  BY MismatchTells
<1>3. r = IF i + L - 1 > N THEN 0
          ELSE IF j = 0 THEN i
          ELSE IF memory[i + j - 1] = Unreadable THEN 0 ELSE f[i + 1]
  BY DEF ScanStep
<1> HIDE DEF j, L, N, r
<1>4. CASE i + L - 1 > N
  <2>1. r = 0
    BY <1>3, <1>4
  <2>2. \A k \in i..N : ~(k + L - 1 =< N)
    BY <1>1, <1>4
  <2> QED BY <2>1, <2>2 DEF FindsFirst, Lies, L, N, r
<1>5. CASE ~(i + L - 1 > N) /\ j = 0
  <2>1. r = i /\ i # 0
    BY <1>1, <1>3, <1>5
  <2>2. i \in i..N /\ i..(i - 1) = {} /\ i + L - 1 =< N
    BY <1>1, <1>5 DEF N
  <2>3. Fits(memory, i, bytes)
    BY <1>2, <1>5
  <2>4. Lies(memory, bytes, i)
    BY <2>2, <2>3 DEF Lies, L, N
  <2> QED BY <2>1, <2>2, <2>4 DEF FindsFirst, N, r
<1>6. CASE ~(i + L - 1 > N) /\ j # 0 /\ memory[i + j - 1] = Unreadable
  <2>1. r = 0
    BY <1>3, <1>6
  <2>2. j \in 1..L
    BY <1>2, <1>6
  <2>3. \A k \in i..N : i + j - 1 \in 1..(k + L - 1)
    BY <1>1, <2>2 DEF N
  <2> QED BY <1>6, <2>1, <2>3 DEF FindsFirst, L, N, r
<1>7. CASE ~(i + L - 1 > N) /\ j # 0 /\ memory[i + j - 1] # Unreadable
  <2>1. r = f[i + 1] /\ i =< N
    BY <1>1, <1>3, <1>7 DEF N
  <2>2. r \in Nat /\ FindsFirst(memory, bytes, i + 1, r)
    BY <2>1 DEF N
  <2>3. ~Lies(memory, bytes, i)
    BY <1>2, <1>7 DEF Lies
  <2>4. \A m \in Nat : \A k \in i..m : k = i \/ k \in (i + 1)..m
    BY <1>1 DEF N
  <2>5. CASE r # 0
    <3>1. /\ r \in (i + 1)..N /\ Lies(memory, bytes, r)
          /\ \A k \in (i + 1)..(r - 1) : ~Lies(memory, bytes, k)
      BY <2>2, <2>5 DEF FindsFirst, N
    <3>2. r \in i..N /\ \A k \in i..(r - 1) : k = i \/ k \in (i + 1)..(r - 1)
      BY <1>1, <3>1 DEF N
    <3> QED BY <2>3, <2>5, <3>1, <3>2 DEF FindsFirst, N, r
  <2>6. CASE r = 0
    <3>1. \A k \in (i + 1)..N : Lies(memory, bytes, k) =>
              \E u \in 1..(k + L - 1) : memory[u] = Unreadable
      BY <2>2, <2>6 DEF FindsFirst, L, N
    <3> QED BY <1>1, <2>3, <2>4, <2>6, <3>1 DEF FindsFirst, L, N, r
  <2> QED BY <2>5, <2>6
<1> QED BY <1>4, <1>5, <1>6, <1>7 DEF r

\* scan() finds the first match of every pattern in every memory, unless a byte that cannot
\* be read lies before the end of it.
THEOREM MatchesAreFound ==
    ASSUME NEW M, NEW memory \in Seq(M), NEW pattern,
           NEW X, NEW bytes \in Seq(X), Parse(pattern) = bytes, bytes # <<>>
    PROVE  Scan(memory, pattern) \in Nat /\ FindsFirst(memory, bytes, 1, Scan(memory, pattern))
<1> DEFINE N == Len(memory)
           n == N + 1
<1>1. N \in Nat /\ n \in Nat
  OBVIOUS
<1>2. PICK From \in [1..n -> Nat] :
          /\ Scan(memory, pattern) = From[1]
          /\ \A i \in 1..n : From[i] = ScanStep(memory, bytes, i, From)
  BY ScanSteps
<1> HIDE DEF N
<1> DEFINE S == {i \in 1..n : FindsFirst(memory, bytes, i, From[i])}
<1>3. ASSUME NEW i \in 1..n, \A j \in (i + 1)..n : j \in S PROVE i \in S
  <2>1. i =< N => From[i + 1] \in Nat /\ FindsFirst(memory, bytes, i + 1, From[i + 1])
    <3>1. i =< N => i + 1 \in (i + 1)..n /\ i + 1 \in 1..n
      BY <1>1
    <3> QED BY <1>3, <3>1
  <2>2. FindsFirst(memory, bytes, i, ScanStep(memory, bytes, i, From))
    BY <2>1, StepFindsFirst DEF N
  <2>3. From[i] = ScanStep(memory, bytes, i, From)
    BY <1>2
  <2> QED BY <2>2, <2>3
<1> HIDE DEF S, n
<1>4. \A i \in 1..n : i \in S
  BY <1>1, <1>3, DownInduction
<1>5. 1 \in 1..n
  BY <1>1 DEF n
<1>6. From[1] \in Nat /\ FindsFirst(memory, bytes, 1, From[1])
  BY <1>4, <1>5 DEF S
<1> QED BY <1>2, <1>6

-----------------------------------------------------------------------------
(* What StripColorCodes leaves of a text. *)

KeptAt(text, i) == IF Code(text, i) = 0 THEN <<text[i]>> ELSE <<>>

GoneTo(text, i) == IF Code(text, i) = 0 THEN i + 1 ELSE i + Code(text, i)

\* A colour code lies within the text.
LEMMA CodeFits ==
    ASSUME NEW X, NEW text \in Seq(X), NEW i \in 1..Len(text)
    PROVE  Code(text, i) \in Nat /\ GoneTo(text, i) \in (i + 1)..(Len(text) + 1)
<1>1. Len(text) \in Nat
  OBVIOUS
<1>2. \/ Code(text, i) = 0
      \/ Code(text, i) = 2 /\ i + 1 =< Len(text)
      \/ Code(text, i) = 3 /\ i + 2 =< Len(text)
  BY DEF Code
<1> HIDE DEF Code
<1> QED BY <1>1, <1>2 DEF GoneTo

LEMMA StripSteps ==
    ASSUME NEW X, NEW text \in Seq(X)
    PROVE  \E From \in [1..(Len(text) + 1) -> Seq(X)] :
               /\ StripColorCodes(text) = From[1]
               /\ From[Len(text) + 1] = <<>>
               /\ \A i \in 1..Len(text) : From[i] = KeptAt(text, i) \o From[GoneTo(text, i)]
<1> DEFINE n == Len(text) + 1
           V == Seq(X)
           From[i \in 1..(Len(text) + 1)] ==
               IF i > Len(text) THEN <<>>
               ELSE IF Code(text, i) = 0 THEN <<text[i]>> \o From[i + 1]
               ELSE From[i + Code(text, i)]
           Body(i, f) ==
               IF i > Len(text) THEN <<>>
               ELSE IF Code(text, i) = 0 THEN <<text[i]>> \o f[i + 1]
               ELSE f[i + Code(text, i)]
           R == [i \in 1..Len(text) |-> KeptAt(text, i)]
           N == [i \in 1..Len(text) |-> GoneTo(text, i)]
<1>1. Len(text) \in Nat /\ n \in Nat \ {0}
  OBVIOUS
<1>2. StripColorCodes(text) = From[1]
  BY DEF StripColorCodes
<1>3. ASSUME NEW f, f = [i \in 1..n |-> Body(i, f)]
      PROVE  From = [i \in 1..n |-> Body(i, From)]
  BY <1>3
<1> HIDE DEF From
<1>4. <<>> \in V /\ \A s, t \in V : s \o t \in V
  OBVIOUS
<1>5. ASSUME NEW i \in 1..n, NEW f, i = n \/ f[GoneTo(text, i)] \in V
      PROVE  Body(i, f) = IF i = n THEN <<>> ELSE KeptAt(text, i) \o f[GoneTo(text, i)]
  <2>1. CASE i = n
    <3>1. i > Len(text)
      BY <1>1, <2>1
    <3>2. Body(i, f) = <<>>
      BY <3>1
    <3> QED BY <2>1, <3>2
  <2>2. CASE i # n
    <3>1. i \in 1..Len(text) /\ ~(i > Len(text))
      BY <1>1, <2>2
    <3> HIDE DEF n
    <3>2. CASE Code(text, i) = 0
      BY <2>2, <3>1, <3>2 DEF KeptAt, GoneTo
    <3>3. CASE Code(text, i) # 0
      <4>1. Body(i, f) = f[GoneTo(text, i)] /\ KeptAt(text, i) = <<>>
        BY <3>1, <3>3 DEF KeptAt, GoneTo
      <4>2. <<>> \o f[GoneTo(text, i)] = f[GoneTo(text, i)]
        <5>1. f[GoneTo(text, i)] \in Seq(X)
          BY <1>5, <2>2
        <5> QED BY <5>1, ConcatEmptySeq
      <4> QED BY <2>2, <4>1, <4>2
    <3> QED BY <3>2, <3>3
  <2> QED BY <2>1, <2>2
<1>6. R \in [1..Len(text) -> Seq(X)] /\ GoesOn(Len(text), N)
  <2>1. \A i \in 1..Len(text) : KeptAt(text, i) \in Seq(X)
    BY DEF KeptAt
  <2> QED BY <2>1, CodeFits DEF GoesOn
<1>7. \A i \in 1..Len(text) : R[i] = KeptAt(text, i) /\ N[i] = GoneTo(text, i)
  OBVIOUS
<1> HIDE DEF R, N, V, Body
<1>8. PICK f : Reads(Len(text), X, R, N, f)
  BY <1>1, <1>6, ReaderExists
<1>9. \A i \in 1..n : f[i] = Body(i, f)
  <2> SUFFICES ASSUME NEW i \in 1..n PROVE f[i] = Body(i, f)
    OBVIOUS
  <2>1. CASE i = n
    BY <1>5, <1>8, <2>1 DEF Reads
  <2>2. CASE i # n
    <3>1. i \in 1..Len(text)
      BY <1>1, <2>2
    <3>2. GoneTo(text, i) \in 1..n
      BY <1>1, <3>1, CodeFits
    <3>3. f[GoneTo(text, i)] \in V /\ f[i] = KeptAt(text, i) \o f[GoneTo(text, i)]
      BY <1>7, <1>8, <3>1, <3>2 DEF Reads, V
    <3> QED BY <1>5, <2>2, <3>3
  <2> QED BY <2>1, <2>2
<1>10. f = [i \in 1..n |-> Body(i, f)]
  BY <1>8, <1>9 DEF Reads
<1>11. From = [i \in 1..n |-> Body(i, From)]
  BY <1>3, <1>10
<1>12. Reads(Len(text), X, R, N, From)
  <2>1. From = [i \in 1..(Len(text) + 1) |-> From[i]]
    BY <1>11
  <2>2. From[Len(text) + 1] = <<>>
    <3>1. n \in 1..n
      BY <1>1
    <3> QED BY <1>5, <1>11, <3>1
  <2>3. ASSUME NEW i \in 1..Len(text), From[N[i]] \in Seq(X)
        PROVE  From[i] = R[i] \o From[N[i]]
    <3>1. i \in 1..n /\ i # n
      BY <1>1
    <3>2. From[GoneTo(text, i)] \in V
      BY <1>7, <2>3 DEF V
    <3>3. From[i] = Body(i, From)
      BY <1>11, <3>1
    <3>4. From[i] = KeptAt(text, i) \o From[GoneTo(text, i)]
      BY <1>5, <3>1, <3>2, <3>3
    <3> QED BY <1>7, <3>4
  <2> QED BY <1>1, <1>6, <2>1, <2>2, <2>3, ReaderTyped
<1> QED BY <1>2, <1>7, <1>12 DEF Reads

-----------------------------------------------------------------------------
(* The bytes of a text, and what is shown of it. *)

\* Of two texts written one after the other, the words are too.
LEMMA FlattenJoined ==
    ASSUME NEW X, NEW u \in Seq(Seq(X)), NEW v \in Seq(Seq(X))
    PROVE  FlattenSeq(u \o v) = FlattenSeq(u) \o FlattenSeq(v)
<1> DEFINE n == Len(u)
           m == Len(v)
           w == u \o v
<1>1. n \in Nat /\ m \in Nat /\ w \in Seq(Seq(X)) /\ Len(w) = n + m
  OBVIOUS
<1>2. \A s \in Seq(X) : s \o <<>> = s /\ <<>> \o s = s
  OBVIOUS
<1>3. ASSUME NEW s \in Seq(Seq(X)) PROVE FlattenSeq(s) \in Seq(X)
  <2>1. CASE Len(s) # 0
    BY <2>1, FlattenPlaces
  <2>2. CASE Len(s) = 0
    <3>1. s = <<>>
      BY <2>2
    <3> QED BY <3>1 DEF FlattenSeq
  <2> QED BY <2>1, <2>2
<1>4. FlattenSeq(u) \in Seq(X) /\ FlattenSeq(v) \in Seq(X)
  BY <1>3
<1>5. /\ \A i \in 1..n : w[i] = u[i] /\ u[i] \in Seq(X)
      /\ \A i \in 1..m : w[n + i] = v[i] /\ v[i] \in Seq(X)
  OBVIOUS
<1>6. CASE n = 0
  <2>1. u = <<>> /\ w = v
    BY <1>6
  <2>2. FlattenSeq(u) = <<>>
    BY <2>1 DEF FlattenSeq
  <2> QED BY <1>2, <1>4, <2>1, <2>2
<1>7. CASE m = 0
  <2>1. v = <<>> /\ w = u
    BY <1>7
  <2>2. FlattenSeq(v) = <<>>
    BY <2>1 DEF FlattenSeq
  <2> QED BY <1>2, <1>4, <2>1, <2>2
<1>8. CASE n # 0 /\ m # 0
  <2>0. Len(w) # 0
    BY <1>1, <1>8
  <2>1. PICK F \in [1..Len(w) -> Seq(X)] :
            /\ F[1] = w[1]
            /\ \A i \in 2..Len(w) : F[i] = F[i - 1] \o w[i]
            /\ FlattenSeq(w) = F[Len(w)]
    <3>1. w \in Seq(Seq(X))
      BY <1>1
    <3> HIDE DEF w
    <3> QED BY <2>0, <3>1, FlattenSteps
  <2>2. PICK A \in [1..n -> Seq(X)] :
            /\ A[1] = u[1]
            /\ \A i \in 2..n : A[i] = A[i - 1] \o u[i]
            /\ FlattenSeq(u) = A[n]
    BY <1>8, FlattenSteps
  <2>3. PICK B \in [1..m -> Seq(X)] :
            /\ B[1] = v[1]
            /\ \A i \in 2..m : B[i] = B[i - 1] \o v[i]
            /\ FlattenSeq(v) = B[m]
    BY <1>8, FlattenSteps
  <2> HIDE DEF n, m, w
  <2> DEFINE S == {i \in 1..n : F[i] = A[i]}
             T == {i \in 1..m : F[n + i] = A[n] \o B[i]}
  <2>4. \A i \in 1..n : i \in S
    <3>1. ASSUME NEW i \in 1..n, \A j \in 1..(i - 1) : j \in S PROVE i \in S
      <4>1. CASE i = 1
        BY <1>5, <2>1, <2>2, <4>1
      <4>2. CASE i # 1
        <5>1. i - 1 \in 1..(i - 1) /\ i \in 2..n /\ i \in 2..Len(w)
          BY <1>1, <4>2
        <5>2. F[i - 1] = A[i - 1]
          BY <3>1, <5>1
        <5>3. F[i] = F[i - 1] \o w[i] /\ A[i] = A[i - 1] \o u[i] /\ w[i] = u[i]
          BY <1>5, <2>1, <2>2, <5>1
        <5> QED BY <5>2, <5>3
      <4> QED BY <4>1, <4>2
    <3> HIDE DEF S
    <3> QED BY <1>1, <3>1, UpInduction
  <2>5. F[n] = A[n] /\ A[n] \in Seq(X)
    <3>1. n \in 1..n
      BY <1>1, <1>8
    <3> QED BY <2>2, <2>4, <3>1
  <2>6. \A i \in 1..m : i \in T
    <3>1. ASSUME NEW i \in 1..m, \A j \in 1..(i - 1) : j \in T PROVE i \in T
      <4>1. /\ n + i \in 2..Len(w)
            /\ (n + i) - 1 = n + (i - 1)
        BY <1>1, <1>8
      <4>2. F[n + i] = F[n + (i - 1)] \o v[i]
        BY <1>5, <2>1, <4>1
      <4>3. CASE i = 1
        <5>1. n + (i - 1) = n
          BY <1>1, <4>3
        <5>2. F[n + i] = A[n] \o B[i]
          BY <2>3, <2>5, <4>2, <4>3, <5>1
        <5> QED BY <5>2
      <4>4. CASE i # 1
        <5>1. i - 1 \in 1..(i - 1) /\ i \in 2..m /\ i - 1 \in 1..m
          BY <1>1, <4>4
        <5>2. F[n + (i - 1)] = A[n] \o B[i - 1]
          BY <3>1, <5>1
        <5>3. B[i] = B[i - 1] \o v[i] /\ B[i - 1] \in Seq(X) /\ v[i] \in Seq(X)
          BY <1>5, <2>3, <5>1
        <5>4. A[n] \o (B[i - 1] \o v[i]) = (A[n] \o B[i - 1]) \o v[i]
          <6>1. \A a, b, c \in Seq(X) : a \o (b \o c) = (a \o b) \o c
            BY Concatenated
          <6> QED BY <2>5, <5>3, <6>1, Zenon
        <5>5. F[n + i] = A[n] \o B[i]
          BY <4>2, <5>2, <5>3, <5>4, Zenon
        <5> QED BY <5>5
      <4> QED BY <4>3, <4>4
    <3> HIDE DEF T
    <3> QED BY <1>1, <3>1, UpInduction
  <2>7. m \in 1..m
    BY <1>1, <1>8
  <2>8. F[n + m] = A[n] \o B[m]
    BY <2>6, <2>7
  <2> QED BY <1>1, <2>1, <2>2, <2>3, <2>8 DEF w
<1> QED BY <1>6, <1>7, <1>8

\* Glyphs of which none is a byte of the section sign, nor holds its second one alone.
Settled(G) == G \cap {"C2", "A7", Cedilla} = {}

GlyphWords(glyphs) == [i \in 1..Len(glyphs) |-> GlyphBytes(glyphs[i])]

ShownWords(glyphs) == [i \in 1..Len(glyphs) |-> GlyphShown(glyphs[i])]

AsWritten(G) == G \cup {"C2", "A7", "c"}

LEMMA GlyphTyped ==
    ASSUME NEW G, Settled(G), NEW g \in G
    PROVE  /\ GlyphBytes(g) \in Seq(AsWritten(G))
           /\ GlyphShown(g) \in Seq(G \ {Colour})
           /\ GlyphShown(g) \in Seq(AsWritten(G))
<1>1. CASE g = Colour
  <2>1. GlyphBytes(g) = <<"C2", "A7", "c">> /\ GlyphShown(g) = <<>>
    BY <1>1 DEF GlyphBytes, GlyphShown, Colour, Cedilla
  <2>2. "C2" \in AsWritten(G) /\ "A7" \in AsWritten(G) /\ "c" \in AsWritten(G)
    BY DEF AsWritten
  <2> QED BY <2>1, <2>2
<1>2. CASE g # Colour
  <2>1. GlyphBytes(g) = <<g>> /\ GlyphShown(g) = <<g>>
    BY <1>2 DEF GlyphBytes, GlyphShown, Settled
  <2>2. g \in AsWritten(G) /\ g \in G \ {Colour}
    BY <1>2 DEF AsWritten
  <2> QED BY <2>1, <2>2
<1> QED BY <1>1, <1>2

LEMMA WordsTyped ==
    ASSUME NEW G, Settled(G), NEW glyphs \in Seq(G)
    PROVE  /\ GlyphWords(glyphs) \in Seq(Seq(AsWritten(G)))
           /\ ShownWords(glyphs) \in Seq(Seq(G \ {Colour}))
           /\ ShownWords(glyphs) \in Seq(Seq(AsWritten(G)))
           /\ Len(GlyphWords(glyphs)) = Len(glyphs) /\ Len(ShownWords(glyphs)) = Len(glyphs)
           /\ Bytes(glyphs) = FlattenSeq(GlyphWords(glyphs))
           /\ Shown(glyphs) = FlattenSeq(ShownWords(glyphs))
<1>1. \A i \in 1..Len(glyphs) : glyphs[i] \in G
  OBVIOUS
<1>2. \A i \in 1..Len(glyphs) : /\ GlyphBytes(glyphs[i]) \in Seq(AsWritten(G))
                                /\ GlyphShown(glyphs[i]) \in Seq(G \ {Colour})
                                /\ GlyphShown(glyphs[i]) \in Seq(AsWritten(G))
  BY <1>1, GlyphTyped
<1>3. Len(glyphs) \in Nat
  OBVIOUS
<1> QED BY <1>2, <1>3 DEF GlyphWords, ShownWords, Bytes, Shown

\* What a function reads at the place of a word, and then.
ReadsPiece(From, i, piece, next) == From[i] = piece \o From[next]

StripsOn(text, From) ==
    \A i \in 1..Len(text) : From[i] = KeptAt(text, i) \o From[GoneTo(text, i)]

LEMMA StripWord ==
    ASSUME NEW Y, NEW text \in Seq(Y), NEW From, StripsOn(text, From),
           NEW i \in Nat \ {0}, NEW g, g \notin {"C2", "A7", Cedilla},
           LiesAt(GlyphBytes(g), text, i)
    PROVE  ReadsPiece(From, i, GlyphShown(g), i + Len(GlyphBytes(g)))
<1>1. Len(text) \in Nat
  OBVIOUS
<1>2. CASE g = Colour
  <2> DEFINE w == <<"C2", "A7", "c">>
  <2>1. GlyphBytes(g) = w /\ GlyphShown(g) = <<>>
    BY <1>2 DEF GlyphBytes, GlyphShown
  <2>2. w[1] = "C2" /\ w[2] = "A7"
    OBVIOUS
  <2>3. Len(w) = 3
    OBVIOUS
  <2> HIDE DEF w
  <2>4. i + 3 =< Len(text) + 1 /\ \A j \in 1..3 : text[i + j - 1] = w[j]
    BY <2>1, <2>3 DEF LiesAt
  <2>5. i \in 1..Len(text) /\ i + 2 =< Len(text) /\ i + 1 - 1 = i /\ i + 2 - 1 = i + 1
    BY <1>1, <2>4
  <2>6. text[i] = w[1] /\ text[i + 1] = w[2]
    <3>1. text[i + 1 - 1] = w[1] /\ text[i + 2 - 1] = w[2]
      BY <2>4
    <3> QED BY <2>5, <3>1
  <2>7. Code(text, i) = 3
    BY <2>2, <2>5, <2>6 DEF Code
  <2>8. KeptAt(text, i) = <<>> /\ GoneTo(text, i) = i + 3
    BY <2>7 DEF KeptAt, GoneTo
  <2> QED BY <2>1, <2>3, <2>5, <2>8 DEF StripsOn, ReadsPiece
<1>3. CASE g # Colour
  <2> DEFINE w == <<g>>
  <2>1. GlyphBytes(g) = w /\ GlyphShown(g) = w
    BY <1>3 DEF GlyphBytes, GlyphShown
  <2>2. w[1] = g /\ Len(w) = 1 /\ w = <<g>>
    OBVIOUS
  <2> HIDE DEF w
  <2>3. i + 1 =< Len(text) + 1 /\ \A j \in 1..1 : text[i + j - 1] = w[j]
    BY <2>1, <2>2 DEF LiesAt
  <2>4. i \in 1..Len(text) /\ i + 1 - 1 = i
    BY <1>1, <2>3
  <2>5. text[i] = g
    <3>1. text[i + 1 - 1] = w[1]
      BY <2>3
    <3> QED BY <2>2, <2>4, <3>1
  <2>6. Code(text, i) = 0
    BY <2>5 DEF Code
  <2>7. KeptAt(text, i) = w /\ GoneTo(text, i) = i + 1
    BY <2>2, <2>5, <2>6 DEF KeptAt, GoneTo
  <2> QED BY <2>1, <2>2, <2>4, <2>7 DEF StripsOn, ReadsPiece
<1> QED BY <1>2, <1>3

\* Stripped, a text is what is shown of it.
LEMMA StrippedIsShown ==
    ASSUME NEW G, Settled(G), NEW glyphs \in Seq(G)
    PROVE  /\ StripColorCodes(Bytes(glyphs)) = Shown(glyphs)
           /\ Shown(glyphs) \in Seq(G \ {Colour})
           /\ Bytes(glyphs) \in Seq(AsWritten(G))
<1> DEFINE n == Len(glyphs)
           words == GlyphWords(glyphs)
           pieces == ShownWords(glyphs)
           text == FlattenSeq(words)
           Y == AsWritten(G)
<1>1. /\ words \in Seq(Seq(Y)) /\ Len(words) = n
      /\ pieces \in Seq(Seq(G \ {Colour})) /\ pieces \in Seq(Seq(Y)) /\ Len(pieces) = n
      /\ Bytes(glyphs) = text /\ Shown(glyphs) = FlattenSeq(pieces)
  BY WordsTyped
<1>2. n \in Nat
  OBVIOUS
<1>3. \A k \in 1..n : /\ words[k] = GlyphBytes(glyphs[k])
                      /\ pieces[k] = GlyphShown(glyphs[k])
                      /\ glyphs[k] \in G
  BY DEF GlyphWords, ShownWords
<1> HIDE DEF n, words, pieces, Y
<1>4. CASE n = 0
  <2>1. words = <<>> /\ pieces = <<>>
    BY <1>1, <1>4
  <2>2. text = <<>> /\ Shown(glyphs) = <<>>
    BY <1>1, <2>1 DEF FlattenSeq
  <2>3. text \in Seq(Y)
    BY <2>2
  <2>4. Len(text) = 0
    BY <2>2
  <2> HIDE DEF text
  <2>5. PICK From \in [1..(Len(text) + 1) -> Seq(Y)] :
            /\ StripColorCodes(text) = From[1]
            /\ From[Len(text) + 1] = <<>>
            /\ \A i \in 1..Len(text) : From[i] = KeptAt(text, i) \o From[GoneTo(text, i)]
    BY <2>3, StripSteps
  <2>6. StripColorCodes(text) = <<>>
    BY <2>4, <2>5
  <2> QED BY <1>1, <2>2, <2>4, <2>6 DEF Y
<1>5. CASE n # 0
  <2>1. text \in Seq(Y) /\ \E at \in [1..(n + 1) -> Nat \ {0}] : LieAt(words, text, at)
    BY <1>1, <1>5, FlattenPlaces
  <2>2. PICK at \in [1..(n + 1) -> Nat \ {0}] : LieAt(words, text, at)
    BY <2>1
  <2>3. Shown(glyphs) \in Seq(G \ {Colour})
    BY <1>1, <1>5, FlattenPlaces
  <2> HIDE DEF text
  <2>4. PICK From \in [1..(Len(text) + 1) -> Seq(Y)] :
            /\ StripColorCodes(text) = From[1]
            /\ From[Len(text) + 1] = <<>>
            /\ \A i \in 1..Len(text) : From[i] = KeptAt(text, i) \o From[GoneTo(text, i)]
    BY <2>1, StripSteps
  <2>5. StripsOn(text, From)
    BY <2>4 DEF StripsOn
  <2>6. Len(text) \in Nat
    BY <2>1
  <2>7. ASSUME NEW k \in 1..n
        PROVE  /\ From[at[k]] = pieces[k] \o From[at[k + 1]]
               /\ at[k + 1] \in 1..(Len(text) + 1)
    <3>1. k \in 1..(n + 1) /\ k + 1 \in 1..(n + 1)
      BY <1>2
    <3>2. at[k] \in Nat \ {0} /\ at[k + 1] \in Nat \ {0}
      BY <3>1
    <3>3. at[k + 1] = at[k] + Len(words[k]) /\ LiesAt(words[k], text, at[k])
      BY <1>1, <2>2 DEF LieAt
    <3> DEFINE i == at[k]
               g == glyphs[k]
    <3>4. i \in Nat \ {0} /\ LiesAt(GlyphBytes(g), text, i)
      BY <1>3, <3>2, <3>3
    <3>5. g \notin {"C2", "A7", Cedilla}
      BY <1>3 DEF Settled
    <3> HIDE DEF i, g
    <3>6. ReadsPiece(From, i, GlyphShown(g), i + Len(GlyphBytes(g)))
      BY <2>1, <2>5, <3>4, <3>5, StripWord
    <3>7. From[at[k]] = pieces[k] \o From[at[k + 1]]
      BY <1>3, <3>3, <3>6 DEF i, g, ReadsPiece
    <3>8. at[k + 1] =< Len(text) + 1
      BY <3>3 DEF LiesAt
    <3> QED BY <2>6, <3>2, <3>7, <3>8
  <2> DEFINE H == [k \in 1..(n + 1) |-> From[at[k]]]
  <2>8. ASSUME NEW k \in 1..(n + 1) PROVE at[k] \in 1..(Len(text) + 1)
    <3>1. CASE k = 1
      <4>1. at[k] = 1
        BY <2>2, <3>1 DEF LieAt
      <4> QED BY <2>6, <4>1
    <3>2. CASE k # 1
      <4>1. k - 1 \in 1..n /\ (k - 1) + 1 = k
        BY <1>2, <3>2
      <4> QED BY <2>7, <4>1
    <3> QED BY <3>1, <3>2
  <2>9. H \in [1..(n + 1) -> Seq(Y)]
    BY <2>8
  <2>10. H[n + 1] = <<>> /\ H[1] = From[1]
    <3>1. n + 1 \in 1..(n + 1) /\ 1 \in 1..(n + 1)
      BY <1>2
    <3>2. at[n + 1] = Len(text) + 1 /\ at[1] = 1
      BY <1>1, <2>2 DEF LieAt
    <3> QED BY <2>4, <3>1, <3>2
  <2>11. ASSUME NEW k \in 1..n PROVE H[k] = pieces[k] \o H[k + 1]
    <3>1. k \in 1..(n + 1) /\ k + 1 \in 1..(n + 1)
      BY <1>2
    <3> QED BY <2>7, <3>1
  <2> HIDE DEF H
  <2>12. H[1] = FlattenSeq(pieces)
    BY <1>1, <1>5, <2>9, <2>10, <2>11, ReadWords
  <2> QED BY <1>1, <2>1, <2>3, <2>4, <2>10, <2>12 DEF Y
<1> QED BY <1>4, <1>5

\* Bytes that no colour code begins with are written and shown as they are.
Plain(P) == P \cap {"C2", "A7", Cedilla, Colour} = {}

LEMMA PlainIsShown ==
    ASSUME NEW P, Plain(P), NEW s \in Seq(P)
    PROVE  Bytes(s) = s /\ Shown(s) = s /\ StripColorCodes(s) = s
<1> DEFINE singles == [k \in 1..Len(s) |-> <<s[k]>>]
<1>1. \A k \in 1..Len(s) : GlyphBytes(s[k]) = <<s[k]>> /\ GlyphShown(s[k]) = <<s[k]>>
  <2> TAKE k \in 1..Len(s)
  <2>1. s[k] \in P
    OBVIOUS
  <2>2. s[k] # Colour /\ s[k] # Cedilla
    BY <2>1 DEF Plain
  <2> QED BY <2>2 DEF GlyphBytes, GlyphShown
<1>2. GlyphWords(s) = singles /\ ShownWords(s) = singles
  BY <1>1 DEF GlyphWords, ShownWords
<1>3. FlattenSeq(singles) = s
  BY FlattenSingles
<1>4. Bytes(s) = s /\ Shown(s) = s
  BY <1>2, <1>3 DEF Bytes, Shown, GlyphWords, ShownWords
<1>5. Settled(P)
  BY DEF Plain, Settled
<1> QED BY <1>4, <1>5, StrippedIsShown

\* What begins with a text and goes on with another is the one and the other.
LEMMA JoinedIs ==
    ASSUME NEW X, NEW a \in Seq(X), NEW b \in Seq(X), NEW c \in Seq(X),
           Len(c) = Len(a) + Len(b),
           \A i \in 1..Len(a) : c[i] = a[i],
           \A i \in 1..Len(b) : c[Len(a) + i] = b[i]
    PROVE  c = a \o b
<1>1. Len(a) \in Nat /\ Len(b) \in Nat
  OBVIOUS
<1>2. /\ a \o b \in Seq(X) /\ Len(a \o b) = Len(a) + Len(b)
      /\ \A i \in 1..(Len(a) + Len(b)) :
            (a \o b)[i] = IF i =< Len(a) THEN a[i] ELSE b[i - Len(a)]
  BY ConcatProperties
<1>3. ASSUME NEW i \in 1..Len(c) PROVE c[i] = (a \o b)[i]
  <2>1. CASE i =< Len(a)
    <3>1. i \in 1..Len(a)
      BY <1>1, <2>1
    <3> QED BY <1>2, <2>1, <3>1
  <2>2. CASE ~(i =< Len(a))
    <3>1. i - Len(a) \in 1..Len(b) /\ Len(a) + (i - Len(a)) = i
      BY <1>1, <2>2
    <3> QED BY <1>2, <2>2, <3>1
  <2> QED BY <2>1, <2>2
<1> QED BY <1>2, <1>3, SeqEqual

\* Texts one after the other are written, and shown, one after the other.
LEMMA BytesJoined ==
    ASSUME NEW G, Settled(G), NEW s \in Seq(G), NEW t \in Seq(G)
    PROVE  /\ Bytes(s \o t) = Bytes(s) \o Bytes(t)
           /\ Shown(s \o t) = Shown(s) \o Shown(t)
<1>1. s \o t \in Seq(G)
  OBVIOUS
<1>2. /\ Len(s) \in Nat /\ Len(t) \in Nat /\ Len(s \o t) = Len(s) + Len(t)
      /\ \A i \in 1..Len(s) : i \in 1..Len(s \o t) /\ (s \o t)[i] = s[i]
      /\ \A i \in 1..Len(t) :
            Len(s) + i \in 1..Len(s \o t) /\ (s \o t)[Len(s) + i] = t[i]
  OBVIOUS
<1> DEFINE W == Seq(AsWritten(G))
<1>3. GlyphWords(s \o t) = GlyphWords(s) \o GlyphWords(t)
  <2> DEFINE a == GlyphWords(s)
             b == GlyphWords(t)
             c == GlyphWords(s \o t)
  <2>1. /\ a \in Seq(W) /\ b \in Seq(W) /\ c \in Seq(W)
        /\ Len(a) = Len(s) /\ Len(b) = Len(t) /\ Len(c) = Len(a) + Len(b)
    BY <1>1, <1>2, WordsTyped
  <2>2. \A i \in 1..Len(s) : c[i] = a[i]
    BY <1>2 DEF GlyphWords
  <2>3. \A i \in 1..Len(t) : c[Len(s) + i] = b[i]
    BY <1>2 DEF GlyphWords
  <2> HIDE DEF W, a, b, c
  <2>4. /\ Len(c) = Len(a) + Len(b)
        /\ \A i \in 1..Len(a) : c[i] = a[i]
        /\ \A i \in 1..Len(b) : c[Len(a) + i] = b[i]
    BY <2>1, <2>2, <2>3
  <2>5. c = a \o b
    BY <2>1, <2>4, JoinedIs
  <2> QED BY <2>5 DEF a, b, c
<1>4. ShownWords(s \o t) = ShownWords(s) \o ShownWords(t)
  <2> DEFINE a == ShownWords(s)
             b == ShownWords(t)
             c == ShownWords(s \o t)
  <2>1. /\ a \in Seq(W) /\ b \in Seq(W) /\ c \in Seq(W)
        /\ Len(a) = Len(s) /\ Len(b) = Len(t) /\ Len(c) = Len(a) + Len(b)
    BY <1>1, <1>2, WordsTyped
  <2>2. \A i \in 1..Len(s) : c[i] = a[i]
    BY <1>2 DEF ShownWords
  <2>3. \A i \in 1..Len(t) : c[Len(s) + i] = b[i]
    BY <1>2 DEF ShownWords
  <2> HIDE DEF W, a, b, c
  <2>4. /\ Len(c) = Len(a) + Len(b)
        /\ \A i \in 1..Len(a) : c[i] = a[i]
        /\ \A i \in 1..Len(b) : c[Len(a) + i] = b[i]
    BY <2>1, <2>2, <2>3
  <2>5. c = a \o b
    BY <2>1, <2>4, JoinedIs
  <2> QED BY <2>5 DEF a, b, c
<1>5. \A u \in {s, t} : GlyphWords(u) \in Seq(W) /\ ShownWords(u) \in Seq(W)
  BY WordsTyped
<1>6. /\ FlattenSeq(GlyphWords(s) \o GlyphWords(t))
            = FlattenSeq(GlyphWords(s)) \o FlattenSeq(GlyphWords(t))
      /\ FlattenSeq(ShownWords(s) \o ShownWords(t))
            = FlattenSeq(ShownWords(s)) \o FlattenSeq(ShownWords(t))
  BY <1>5, FlattenJoined
<1>7. \A u \in {s, t, s \o t} : /\ Bytes(u) = FlattenSeq(GlyphWords(u))
                                /\ Shown(u) = FlattenSeq(ShownWords(u))
  BY <1>1, WordsTyped
<1> QED BY <1>3, <1>4, <1>6, <1>7

-----------------------------------------------------------------------------
(* What Trim, Find and Before return. *)

\* The greatest place of a set of places is its maximum.
LEMMA MaxIsGreatest ==
    ASSUME NEW n \in Nat, NEW S \in SUBSET (1..n), S # {}
    PROVE  Max(S) \in S /\ \A j \in S : j =< Max(S)
<1> DEFINE T == {n - j : j \in S}
<1>0. \A j \in S : j \in Int /\ j =< n
  <2>1. \A j \in S : j \in 1..n
    OBVIOUS
  <2> QED BY <2>1
<1>1. T \in SUBSET Nat /\ T # {}
  <2>1. \A j \in S : n - j \in Nat
    BY <1>0
  <2>2. PICK j \in S : TRUE
    OBVIOUS
  <2> QED BY <2>1, <2>2
<1>2. PICK least \in T : \A j \in T : least =< j
  <2> HIDE DEF T
  <2> QED BY <1>1, LeastExists
<1>3. PICK i \in S : least = n - i
  BY <1>2
<1>4. \A j \in S : i >= j
  <2> TAKE j \in S
  <2>1. n - i =< n - j
    BY <1>2, <1>3
  <2> QED BY <1>0, <2>1
<1>5. Max(S) \in S /\ \A j \in S : Max(S) >= j
  BY <1>3, <1>4 DEF Max
<1> QED BY <1>0, <1>5

\* t is what is left of s without its first a bytes, which are blanks, as are those behind.
TrimmedTo(s, t, a) ==
    /\ a \in Nat /\ a + Len(t) =< Len(s)
    /\ \A i \in 1..Len(t) : t[i] = s[a + i]
    /\ \A i \in 1..a : s[i] \in Blank
    /\ \A i \in (a + Len(t) + 1)..Len(s) : s[i] \in Blank
    /\ Len(t) # 0 => t[1] \notin Blank /\ t[Len(t)] \notin Blank

Ink(s) == {i \in 1..Len(s) : s[i] \notin Blank}

LEMMA TrimByInk ==
    ASSUME NEW X, NEW s \in Seq(X)
    PROVE  Trim(s) = IF Ink(s) = {} THEN <<>> ELSE SubSeq(s, Min(Ink(s)), Max(Ink(s)))
BY DEF Trim, Ink

LEMMA TrimTells ==
    ASSUME NEW X, NEW s \in Seq(X)
    PROVE  Trim(s) \in Seq(X) /\ \E a \in Nat : TrimmedTo(s, Trim(s), a)
<1>1. Len(s) \in Nat /\ Ink(s) \in SUBSET (1..Len(s))
  BY DEF Ink
<1>2. CASE Ink(s) = {}
  <2>1. Trim(s) = <<>>
    BY <1>2, TrimByInk
  <2>2. \A i \in 1..Len(s) : s[i] \in Blank
    BY <1>2 DEF Ink
  <2>3. Len(Trim(s)) = 0 /\ Trim(s) \in Seq(X)
    BY <2>1
  <2>4. TrimmedTo(s, Trim(s), 0)
    BY <1>1, <2>2, <2>3 DEF TrimmedTo
  <2> QED BY <2>3, <2>4
<1>3. CASE Ink(s) # {}
  <2> DEFINE l == Min(Ink(s))
             r == Max(Ink(s))
             t == SubSeq(s, l, r)
  <2>1. l \in Ink(s) /\ \A j \in 1..(l - 1) : j \notin Ink(s)
    BY <1>1, <1>3, MinIsLeast
  <2>2. r \in Ink(s) /\ \A j \in Ink(s) : j =< r
    BY <1>1, <1>3, MaxIsGreatest
  <2>3. Trim(s) = t
    BY <1>3, TrimByInk
  <2> HIDE DEF l, r
  <2>4. l \in 1..Len(s) /\ r \in 1..Len(s) /\ l =< r
    BY <1>1, <2>1, <2>2
  <2>5. s[l] \notin Blank /\ s[r] \notin Blank
    BY <2>1, <2>2 DEF Ink
  <2>6. \A i \in 1..(l - 1) : s[i] \in Blank
    <3> TAKE i \in 1..(l - 1)
    <3>1. i \in 1..Len(s)
      BY <1>1, <2>4
    <3> QED BY <2>1, <3>1 DEF Ink
  <2>7. \A i \in (r + 1)..Len(s) : s[i] \in Blank
    <3> TAKE i \in (r + 1)..Len(s)
    <3>1. i \in 1..Len(s) /\ ~(i =< r)
      BY <1>1, <2>4
    <3> QED BY <2>2, <3>1 DEF Ink
  <2>8. /\ t \in Seq(X) /\ Len(t) = r - l + 1
        /\ \A i \in 1..(r - l + 1) : t[i] = s[l + i - 1]
    <3>1. \A i \in l..r : s[i] \in X
      BY <1>1, <2>4
    <3> QED BY <2>4, <3>1, SubSeqProperties
  <2> HIDE DEF t
  <2>9. \A i \in 1..Len(t) : t[i] = s[(l - 1) + i]
    <3> TAKE i \in 1..Len(t)
    <3>1. (l - 1) + i = l + i - 1
      BY <1>1, <2>4, <2>8
    <3> QED BY <2>8, <3>1
  <2>10. t[1] = s[l] /\ t[Len(t)] = s[r]
    <3>1. /\ 1 \in 1..(r - l + 1) /\ l + 1 - 1 = l
          /\ Len(t) \in 1..(r - l + 1) /\ l + Len(t) - 1 = r
      BY <1>1, <2>4, <2>8
    <3> QED BY <2>8, <3>1
  <2>11. (l - 1) \in Nat /\ (l - 1) + Len(t) =< Len(s) /\ (l - 1) + Len(t) + 1 = r + 1
    BY <1>1, <2>4, <2>8
  <2>12. TrimmedTo(s, t, l - 1)
    BY <2>5, <2>6, <2>7, <2>9, <2>10, <2>11 DEF TrimmedTo
  <2> QED BY <2>3, <2>8, <2>11, <2>12
<1> QED BY <1>2, <1>3

LEMMA TrimIs ==
    ASSUME NEW X, NEW s \in Seq(X), NEW t \in Seq(X), NEW a, TrimmedTo(s, t, a)
    PROVE  Trim(s) = t
<1>1. Len(s) \in Nat /\ Len(t) \in Nat /\ a \in Nat /\ a + Len(t) =< Len(s)
  BY DEF TrimmedTo
<1>2. ASSUME NEW i \in Ink(s) PROVE i \in (a + 1)..(a + Len(t))
  <2>1. i \in 1..Len(s) /\ s[i] \notin Blank
    BY DEF Ink
  <2>2. i \notin 1..a /\ i \notin (a + Len(t) + 1)..Len(s)
    BY <2>1 DEF TrimmedTo
  <2> QED BY <1>1, <2>1, <2>2
<1>3. CASE Len(t) = 0
  <2>1. Ink(s) = {}
    BY <1>1, <1>2, <1>3
  <2>2. t = <<>>
    BY <1>3
  <2> QED BY <2>1, <2>2, TrimByInk
<1>4. CASE Len(t) # 0
  <2> DEFINE l == a + 1
             r == a + Len(t)
             u == SubSeq(s, l, r)
  <2>1. 1 \in 1..Len(t) /\ Len(t) \in 1..Len(t) /\ l \in 1..Len(s) /\ r \in 1..Len(s) /\ l =< r
    BY <1>1, <1>4
  <2>2. s[l] \notin Blank /\ s[r] \notin Blank
    <3>1. t[1] = s[l] /\ t[Len(t)] = s[r]
      BY <2>1 DEF TrimmedTo
    <3> QED BY <1>4, <3>1 DEF TrimmedTo
  <2>3. l \in Ink(s) /\ r \in Ink(s)
    BY <2>1, <2>2 DEF Ink
  <2>4. Min(Ink(s)) = l /\ Max(Ink(s)) = r
    <3>1. Ink(s) \in SUBSET (1..Len(s)) /\ Ink(s) # {}
      BY <2>3 DEF Ink
    <3>2. Min(Ink(s)) \in Ink(s) /\ \A j \in 1..(Min(Ink(s)) - 1) : j \notin Ink(s)
      BY <1>1, <3>1, MinIsLeast
    <3>3. Max(Ink(s)) \in Ink(s) /\ \A j \in Ink(s) : j =< Max(Ink(s))
      BY <1>1, <3>1, MaxIsGreatest
    <3>4. Min(Ink(s)) \in l..r /\ Max(Ink(s)) \in l..r
      BY <1>2, <3>2, <3>3
    <3>5. r =< Max(Ink(s)) /\ l \notin 1..(Min(Ink(s)) - 1)
      BY <2>3, <3>2, <3>3
    <3> DEFINE low == Min(Ink(s))
               high == Max(Ink(s))
    <3>6. low \in l..r /\ high \in l..r /\ r =< high /\ l \notin 1..(low - 1)
      BY <3>4, <3>5
    <3> HIDE DEF low, high
    <3>7. low = l /\ high = r
      BY <1>1, <2>1, <3>6
    <3> QED BY <3>7 DEF low, high
  <2>5. Trim(s) = u
    BY <2>3, <2>4, TrimByInk
  <2>6. u \in Seq(X) /\ Len(u) = r - l + 1 /\ \A i \in 1..(r - l + 1) : u[i] = s[l + i - 1]
    <3>1. \A i \in l..r : s[i] \in X
      BY <1>1, <2>1
    <3>2. l \in Int /\ r \in Int /\ l =< r
      BY <1>1, <2>1
    <3> HIDE DEF l, r
    <3> QED BY <3>1, <3>2, SubSeqProperties
  <2> HIDE DEF u
  <2>7. Len(u) = Len(t)
    BY <1>1, <2>6
  <2>8. \A i \in 1..Len(u) : u[i] = t[i]
    <3> TAKE i \in 1..Len(u)
    <3>1. i \in 1..(r - l + 1) /\ l + i - 1 = a + i /\ i \in 1..Len(t)
      BY <1>1, <2>6, <2>7
    <3>2. t[i] = s[a + i]
      BY <3>1 DEF TrimmedTo
    <3> HIDE DEF l, r
    <3> QED BY <2>6, <3>1, <3>2
  <2>9. u = t
    BY <2>6, <2>7, <2>8, SeqEqual
  <2> QED BY <2>5, <2>9
<1> QED BY <1>3, <1>4

\* A text without blanks at its ends is trimmed already, and a trimmed text has none.
LEMMA TrimNothing ==
    ASSUME NEW X, NEW s \in Seq(X),
           Len(s) # 0 => s[1] \notin Blank /\ s[Len(s)] \notin Blank
    PROVE  Trim(s) = s
<1>1. Len(s) \in Nat
  OBVIOUS
<1>2. TrimmedTo(s, s, 0)
  BY <1>1 DEF TrimmedTo
<1> QED BY <1>2, TrimIs

LEMMA TrimmedOnce ==
    ASSUME NEW X, NEW s \in Seq(X)
    PROVE  /\ Trim(Trim(s)) = Trim(s)
           /\ Len(Trim(s)) # 0 => Trim(s)[1] \notin Blank /\ Trim(s)[Len(Trim(s))] \notin Blank
<1>1. Trim(s) \in Seq(X)
  BY TrimTells
<1>2. Len(Trim(s)) # 0 => Trim(s)[1] \notin Blank /\ Trim(s)[Len(Trim(s))] \notin Blank
  <2>1. \E a \in Nat : TrimmedTo(s, Trim(s), a)
    BY TrimTells
  <2> QED BY <2>1 DEF TrimmedTo
<1> QED BY <1>1, <1>2, TrimNothing

\* A blank before a text or after it is trimmed away.
LEMMA TrimLeading ==
    ASSUME NEW X, NEW s \in Seq(X), NEW b \in X, b \in Blank
    PROVE  Trim(<<b>> \o s) = Trim(s)
<1> DEFINE u == <<b>> \o s
           t == Trim(s)
<1>1. t \in Seq(X) /\ \E a \in Nat : TrimmedTo(s, t, a)
  BY TrimTells
<1>2. PICK a \in Nat : TrimmedTo(s, t, a)
  BY <1>1
<1>3. /\ u \in Seq(X) /\ Len(u) = Len(s) + 1 /\ u[1] = b
      /\ \A i \in 1..Len(s) : u[i + 1] = s[i]
  OBVIOUS
<1>4. Len(s) \in Nat /\ Len(t) \in Nat /\ a + Len(t) =< Len(s)
  BY <1>1, <1>2 DEF TrimmedTo
<1> HIDE DEF u, t
<1>5. \A i \in 1..Len(t) : t[i] = u[(a + 1) + i]
  <2> TAKE i \in 1..Len(t)
  <2>1. a + i \in 1..Len(s) /\ (a + 1) + i = (a + i) + 1
    BY <1>4
  <2>2. t[i] = s[a + i]
    BY <1>2 DEF TrimmedTo
  <2> QED BY <1>3, <2>1, <2>2
<1>6. \A i \in 1..(a + 1) : u[i] \in Blank
  <2> TAKE i \in 1..(a + 1)
  <2>1. CASE i = 1
    BY <1>3, <2>1
  <2>2. CASE i # 1
    <3>1. i - 1 \in 1..a /\ i - 1 \in 1..Len(s) /\ (i - 1) + 1 = i
      BY <1>4, <2>2
    <3>2. s[i - 1] \in Blank
      BY <1>2, <3>1 DEF TrimmedTo
    <3> QED BY <1>3, <3>1, <3>2
  <2> QED BY <2>1, <2>2
<1>7. \A i \in ((a + 1) + Len(t) + 1)..Len(u) : u[i] \in Blank
  <2> TAKE i \in ((a + 1) + Len(t) + 1)..Len(u)
  <2>1. i - 1 \in (a + Len(t) + 1)..Len(s) /\ i - 1 \in 1..Len(s) /\ (i - 1) + 1 = i
    BY <1>3, <1>4
  <2>2. s[i - 1] \in Blank
    BY <1>2, <2>1 DEF TrimmedTo
  <2> QED BY <1>3, <2>1, <2>2
<1>8. a + 1 \in Nat /\ (a + 1) + Len(t) =< Len(u)
  BY <1>3, <1>4
<1>9. TrimmedTo(u, t, a + 1)
  BY <1>2, <1>5, <1>6, <1>7, <1>8 DEF TrimmedTo
<1> QED BY <1>1, <1>3, <1>9, TrimIs DEF u, t

LEMMA TrimTrailing ==
    ASSUME NEW X, NEW s \in Seq(X), NEW b \in X, b \in Blank
    PROVE  Trim(s \o <<b>>) = Trim(s)
<1> DEFINE u == s \o <<b>>
           t == Trim(s)
<1>1. t \in Seq(X) /\ \E a \in Nat : TrimmedTo(s, t, a)
  BY TrimTells
<1>2. PICK a \in Nat : TrimmedTo(s, t, a)
  BY <1>1
<1>3. /\ u \in Seq(X) /\ Len(u) = Len(s) + 1 /\ u[Len(s) + 1] = b
      /\ \A i \in 1..Len(s) : u[i] = s[i]
  BY Appended
<1>4. Len(s) \in Nat /\ Len(t) \in Nat /\ a + Len(t) =< Len(s)
  BY <1>1, <1>2 DEF TrimmedTo
<1> HIDE DEF u, t
<1>5. \A i \in 1..Len(t) : t[i] = u[a + i]
  <2> TAKE i \in 1..Len(t)
  <2>1. a + i \in 1..Len(s)
    BY <1>4
  <2>2. t[i] = s[a + i]
    BY <1>2 DEF TrimmedTo
  <2> QED BY <1>3, <2>1, <2>2
<1>6. \A i \in 1..a : u[i] \in Blank
  <2> TAKE i \in 1..a
  <2>1. i \in 1..Len(s)
    BY <1>4
  <2> QED BY <1>2, <1>3, <2>1 DEF TrimmedTo
<1>7. \A i \in (a + Len(t) + 1)..Len(u) : u[i] \in Blank
  <2> TAKE i \in (a + Len(t) + 1)..Len(u)
  <2>1. CASE i = Len(s) + 1
    BY <1>3, <2>1
  <2>2. CASE i # Len(s) + 1
    <3>1. i \in (a + Len(t) + 1)..Len(s) /\ i \in 1..Len(s)
      BY <1>3, <1>4, <2>2
    <3> QED BY <1>2, <1>3, <3>1 DEF TrimmedTo
  <2> QED BY <2>1, <2>2
<1>8. a + Len(t) =< Len(u)
  BY <1>3, <1>4
<1>9. TrimmedTo(u, t, a)
  BY <1>2, <1>5, <1>6, <1>7, <1>8 DEF TrimmedTo
<1> QED BY <1>1, <1>3, <1>9, TrimIs DEF u, t

LEMMA FindTells ==
    ASSUME NEW X, NEW text \in Seq(X), NEW bytes
    PROVE  \/ Find(text, bytes) = 0 /\ \A j \in 1..Len(text) : text[j] \notin bytes
           \/ /\ Find(text, bytes) \in 1..Len(text)
              /\ text[Find(text, bytes)] \in bytes
              /\ \A j \in 1..(Find(text, bytes) - 1) : text[j] \notin bytes
<1> DEFINE I == {j \in 1..Len(text) : text[j] \in bytes}
<1>1. Find(text, bytes) = IF I # {} THEN Min(I) ELSE 0
  BY DEF Find, SelectInSeq
<1>2. Len(text) \in Nat /\ I \in SUBSET (1..Len(text))
  OBVIOUS
<1>3. CASE I = {}
  BY <1>1, <1>3
<1>4. CASE I # {}
  <2>1. Min(I) \in I /\ \A j \in 1..(Min(I) - 1) : j \notin I
    <3> HIDE DEF I
    <3> QED BY <1>2, <1>4, MinIsLeast
  <2> DEFINE least == Min(I)
  <2>2. least \in 1..Len(text) /\ text[least] \in bytes
    BY <2>1
  <2>3. \A j \in 1..(least - 1) : j \notin I
    BY <2>1
  <2>4. Find(text, bytes) = least
    BY <1>1, <1>4
  <2> HIDE DEF least
  <2>5. \A j \in 1..(least - 1) : j \in 1..Len(text)
    BY <1>2, <2>2
  <2>6. \A j \in 1..(least - 1) : text[j] \notin bytes
    BY <2>3, <2>5
  <2> QED BY <2>2, <2>4, <2>6
<1> QED BY <1>3, <1>4

LEMMA FindIs ==
    ASSUME NEW X, NEW text \in Seq(X), NEW bytes, NEW i \in 1..Len(text),
           text[i] \in bytes, \A j \in 1..(i - 1) : text[j] \notin bytes
    PROVE  Find(text, bytes) = i
<1> DEFINE f == Find(text, bytes)
<1>1. Len(text) \in Nat
  OBVIOUS
<1>2. /\ f \in 1..Len(text) /\ text[f] \in bytes
      /\ \A j \in 1..(f - 1) : text[j] \notin bytes
  BY FindTells
<1> HIDE DEF f
<1>3. f \notin 1..(i - 1) /\ i \notin 1..(f - 1)
  BY <1>2
<1>4. f = i
  BY <1>1, <1>2, <1>3
<1> QED BY <1>4 DEF f

\* What stands before the first of some bytes holds none of them.
LEMMA BeforeTells ==
    ASSUME NEW X, NEW text \in Seq(X), NEW bytes
    PROVE  /\ Before(text, bytes) \in Seq(X \ bytes)
           /\ (\A i \in 1..Len(text) : text[i] \notin bytes) => Before(text, bytes) = text
<1>1. CASE Find(text, bytes) = 0
  <2>1. Before(text, bytes) = text
    BY <1>1 DEF Before
  <2>2. \A i \in 1..Len(text) : text[i] \in X \ bytes
    <3>1. \A i \in 1..Len(text) : text[i] \notin bytes
      BY <1>1, FindTells
    <3>2. \A i \in 1..Len(text) : text[i] \in X
      OBVIOUS
    <3> QED BY <3>1, <3>2
  <2>3. text \in Seq(X \ bytes)
    BY <2>2
  <2> QED BY <2>1, <2>3
<1>2. CASE Find(text, bytes) # 0
  <2> DEFINE f == Find(text, bytes)
  <2>1. /\ f \in 1..Len(text) /\ text[f] \in bytes
        /\ \A j \in 1..(f - 1) : text[j] \notin bytes
    BY <1>2, FindTells
  <2>2. Before(text, bytes) = SubSeq(text, 1, f - 1)
    BY <1>2 DEF Before
  <2> HIDE DEF f
  <2>3. \A i \in 1..(f - 1) : text[i] \in X \ bytes
    BY <2>1
  <2>4. SubSeq(text, 1, f - 1) \in Seq(X \ bytes)
    BY <2>1, <2>3, SubSeqProperties
  <2> QED BY <2>1, <2>2, <2>4
<1> QED BY <1>1, <1>2

LEMMA BeforeJoined ==
    ASSUME NEW X, NEW u \in Seq(X), NEW v \in Seq(X), NEW bytes,
           \A i \in 1..Len(u) : u[i] \notin bytes, Len(v) # 0, v[1] \in bytes
    PROVE  Before(u \o v, bytes) = u
<1> DEFINE w == u \o v
           n == Len(u)
<1>1. /\ w \in Seq(X) /\ n \in Nat /\ n + 1 \in 1..Len(w) /\ w[n + 1] = v[1]
      /\ \A i \in 1..n : w[i] = u[i]
  OBVIOUS
<1>2. SubSeq(w, 1, n) = u
  <2>1. \A i \in 1..n : w[i] \in X
    BY <1>1
  <2>2. /\ SubSeq(w, 1, n) \in Seq(X)
        /\ Len(SubSeq(w, 1, n)) = IF 1 =< n THEN n - 1 + 1 ELSE 0
        /\ \A i \in 1..(n - 1 + 1) : SubSeq(w, 1, n)[i] = w[1 + i - 1]
    <3> HIDE DEF w, n
    <3> QED BY <1>1, <2>1, SubSeqProperties
  <2> DEFINE x == SubSeq(w, 1, n)
  <2>3. x \in Seq(X) /\ Len(x) = n
    BY <1>1, <2>2
  <2>4. \A i \in 1..n : x[i] = u[i]
    <3> TAKE i \in 1..n
    <3>1. i \in 1..(n - 1 + 1) /\ 1 + i - 1 = i
      BY <1>1
    <3> QED BY <1>1, <2>2, <3>1
  <2> HIDE DEF x
  <2>5. x = u
    BY <2>3, <2>4, SeqEqual DEF n
  <2> QED BY <2>5 DEF x
<1> HIDE DEF w, n
<1>3. \A j \in 1..n : w[j] \notin bytes
  BY <1>1 DEF n
<1>4. (n + 1) - 1 = n
  BY <1>1
<1>5. Find(w, bytes) = n + 1
  BY <1>1, <1>3, <1>4, FindIs
<1>6. n + 1 # 0
  BY <1>1
<1> QED BY <1>2, <1>4, <1>5, <1>6 DEF Before, w

-----------------------------------------------------------------------------
(* What CleanPlayerName makes of a text without colours. *)

Ends == {"cr", "nl"}

Untagged(line) ==
    LET close == Find(line, {"]"})
    IN  IF line # <<>> /\ Head(line) = "[" /\ close # 0
        THEN Trim(SubSeq(line, close + 1, Len(line))) ELSE line

NameIn(text) == Trim(Before(Untagged(Trim(Before(text, Ends))), {"["}))

LEMMA CleanIsNameIn ==
    ASSUME NEW text
    PROVE  CleanPlayerName(text) = NameIn(StripColorCodes(text))
BY DEF CleanPlayerName, NameIn, Untagged, Ends

\* What a name is made of, and that it is trimmed.
LEMMA NameTyped ==
    ASSUME NEW X, NEW text \in Seq(X)
    PROVE  /\ NameIn(text) \in Seq((X \ Ends) \ {"["})
           /\ Trim(NameIn(text)) = NameIn(text)
<1> DEFINE first == Before(text, Ends)
           line == Trim(first)
           rest == Untagged(line)
           name == Before(rest, {"["})
           Y == X \ Ends
           Z == Y \ {"["}
<1>1. first \in Seq(Y)
  BY BeforeTells
<1>2. line \in Seq(Y)
  <2> HIDE DEF first, Y
  <2> QED BY <1>1, TrimTells
<1>3. rest \in Seq(Y)
  <2> HIDE DEF line, Y
  <2> DEFINE close == Find(line, {"]"})
             behind == SubSeq(line, close + 1, Len(line))
  <2>1. CASE line # <<>> /\ Head(line) = "[" /\ close # 0
    <3>1. rest = Trim(behind)
      BY <2>1 DEF Untagged
    <3>2. close \in 1..Len(line)
      BY <1>2, <2>1, FindTells
    <3>3. Len(line) \in Nat
      BY <1>2
    <3>4. \A i \in (close + 1)..Len(line) : line[i] \in Y
      <4> HIDE DEF close
      <4> QED BY <1>2, <3>2, <3>3
    <3>5. behind \in Seq(Y)
      <4>1. close + 1 \in Int /\ Len(line) \in Int
        BY <3>2, <3>3
      <4> HIDE DEF close
      <4> QED BY <3>4, <4>1, SubSeqProperties
    <3> HIDE DEF behind, rest
    <3> QED BY <3>1, <3>5, TrimTells
  <2>2. CASE ~(line # <<>> /\ Head(line) = "[" /\ close # 0)
    <3>1. rest = line
      BY <2>2 DEF Untagged
    <3> QED BY <1>2, <3>1
  <2> QED BY <2>1, <2>2
<1> HIDE DEF rest, Y
<1>4. name \in Seq(Z)
  BY <1>3, BeforeTells
<1> HIDE DEF name, Z
<1>5. Trim(name) \in Seq(Z) /\ Trim(Trim(name)) = Trim(name)
  BY <1>4, TrimTells, TrimmedOnce
<1>6. NameIn(text) = Trim(name)
  BY DEF NameIn, name, rest
<1> QED BY <1>5, <1>6 DEF Z, Y

\* A trimmed text without the end of a line or an opening bracket is a name itself.
LEMMA NameStays ==
    ASSUME NEW X, NEW name \in Seq(X), X \cap (Ends \cup {"["}) = {}, Trim(name) = name
    PROVE  NameIn(name) = name
<1>1. \A i \in 1..Len(name) : name[i] \in X
  OBVIOUS
<1>2. /\ \A i \in 1..Len(name) : name[i] \notin Ends
      /\ \A i \in 1..Len(name) : name[i] \notin {"["}
  BY <1>1
<1>3. Before(name, Ends) = name /\ Before(name, {"["}) = name
  BY <1>2, BeforeTells
<1>4. Untagged(name) = name
  <2>1. name # <<>> => Head(name) = name[1] /\ 1 \in 1..Len(name)
    OBVIOUS
  <2>2. name # <<>> => Head(name) # "["
    BY <1>2, <2>1
  <2> QED BY <2>2 DEF Untagged
<1> QED BY <1>3, <1>4 DEF NameIn

\* The tag, as it is shown.
PlainTag == <<"[", "a", "]">>

TagBytes == {"[", "a", "]", " "}

\* A text without some bytes.
Lacks(text, bytes) == \A i \in 1..Len(text) : text[i] \notin bytes

LEMMA PlainTagTells ==
    /\ Len(PlainTag) = 3
    /\ PlainTag[1] = "[" /\ PlainTag[2] = "a" /\ PlainTag[3] = "]"
    /\ \A X : {"[", "a", "]"} \subseteq X => PlainTag \in Seq(X)
BY DEF PlainTag

LEMMA TagIsTrimmed == Trim(PlainTag) = PlainTag
<1> DEFINE X == {"[", "a", "]"}
<1>1. PlainTag \in Seq(X) /\ Len(PlainTag) = 3
  BY PlainTagTells
<1>2. PlainTag[1] = "[" /\ PlainTag[3] = "]"
  BY PlainTagTells
<1>3. PlainTag[1] \notin Blank /\ PlainTag[3] \notin Blank
  BY <1>2 DEF Blank
<1> QED BY <1>1, <1>3, TrimNothing

\* A tag before a text is cut from its first line.
LEMMA TagBefore ==
    ASSUME NEW X, {"[", "a", "]"} \subseteq X, X \cap Ends = {},
           NEW s \in Seq(X), Len(s) # 0, s[Len(s)] \notin Blank
    PROVE  NameIn(PlainTag \o s) = Trim(Before(Trim(s), {"["}))
<1> DEFINE w == PlainTag \o s
           n == Len(s)
<1>1. PlainTag \in Seq(X) /\ Len(PlainTag) = 3 /\ n \in Nat \ {0}
  BY PlainTagTells
<1>2. /\ w \in Seq(X) /\ Len(w) = n + 3
      /\ \A i \in 1..3 : w[i] = PlainTag[i]
      /\ \A i \in 1..n : w[3 + i] = s[i]
  <2>1. /\ w \in Seq(X) /\ Len(w) = Len(PlainTag) + n
        /\ \A i \in 1..(Len(PlainTag) + n) :
              w[i] = IF i =< Len(PlainTag) THEN PlainTag[i] ELSE s[i - Len(PlainTag)]
    BY <1>1, ConcatProperties
  <2> HIDE DEF w, n
  <2>2. ASSUME NEW i \in 1..3 PROVE w[i] = PlainTag[i]
    <3>1. i \in 1..(Len(PlainTag) + n) /\ i =< Len(PlainTag)
      BY <1>1
    <3> QED BY <2>1, <3>1
  <2>3. ASSUME NEW i \in 1..n PROVE w[3 + i] = s[i]
    <3>1. /\ 3 + i \in 1..(Len(PlainTag) + n) /\ ~(3 + i =< Len(PlainTag))
          /\ (3 + i) - Len(PlainTag) = i
      BY <1>1
    <3> QED BY <2>1, <3>1
  <2> QED BY <1>1, <2>1, <2>2, <2>3
<1> HIDE DEF w
<1>3. w[1] = PlainTag[1] /\ w[2] = PlainTag[2] /\ w[3] = PlainTag[3]
  BY <1>2
<1>4. w[Len(w)] = s[n]
  <2>1. n \in 1..n /\ Len(w) = 3 + n
    BY <1>1, <1>2
  <2> QED BY <1>2, <2>1
<1>5. w[1] = "[" /\ w[2] # "]" /\ w[1] # "]" /\ w[3] = "]"
  BY <1>3, PlainTagTells
<1>6. Before(w, Ends) = w
  <2>1. \A i \in 1..Len(w) : w[i] \in X
    BY <1>2
  <2>2. \A i \in 1..Len(w) : w[i] \notin Ends
    BY <2>1
  <2> QED BY <1>2, <2>2, BeforeTells
<1>7. Trim(w) = w
  <2>1. w[1] \notin Blank
    BY <1>5 DEF Blank
  <2> QED BY <1>2, <1>4, <2>1, TrimNothing DEF n
<1>8. Find(w, {"]"}) = 3
  <2>1. w[1] \notin {"]"} /\ w[2] \notin {"]"} /\ w[3] \in {"]"}
    BY <1>5
  <2>2. \A j \in 1..(3 - 1) : j = 1 \/ j = 2
    OBVIOUS
  <2>3. \A j \in 1..(3 - 1) : w[j] \notin {"]"}
    BY <2>1, <2>2
  <2>4. 3 \in 1..Len(w)
    BY <1>1, <1>2
  <2> QED BY <1>2, <2>1, <2>3, <2>4, FindIs
<1>9. SubSeq(w, 4, Len(w)) = s
  <2> DEFINE x == SubSeq(w, 4, Len(w))
  <2>1. \A i \in 4..Len(w) : w[i] \in X
    BY <1>1, <1>2
  <2>2. /\ x \in Seq(X) /\ Len(x) = IF 4 =< Len(w) THEN Len(w) - 4 + 1 ELSE 0
        /\ \A i \in 1..(Len(w) - 4 + 1) : x[i] = w[4 + i - 1]
    <3>1. Len(w) \in Int
      BY <1>1, <1>2
    <3> QED BY <2>1, <3>1, SubSeqProperties
  <2> HIDE DEF x, n
  <2>3. Len(x) = n
    BY <1>1, <1>2, <2>2
  <2>4. \A i \in 1..n : x[i] = s[i]
    <3> TAKE i \in 1..n
    <3>1. i \in 1..(Len(w) - 4 + 1) /\ 4 + i - 1 = 3 + i
      BY <1>1, <1>2
    <3> QED BY <1>2, <2>2, <3>1
  <2>5. x = s
    BY <2>2, <2>3, <2>4, SeqEqual DEF n
  <2> QED BY <2>5 DEF x
<1>10. Untagged(w) = Trim(s)
  <2>1. w # <<>> /\ Head(w) = w[1]
    BY <1>1, <1>2
  <2>2. 3 # 0 /\ 3 + 1 = 4
    OBVIOUS
  <2>3. w # <<>> /\ Head(w) = "["
    BY <1>5, <2>1
  <2> QED BY <1>8, <1>9, <2>2, <2>3 DEF Untagged
<1> QED BY <1>6, <1>7, <1>10 DEF NameIn, w

\* The blank between a tag and a name.
BlankText == <<" ">>

LEMMA SingleLacks ==
    ASSUME NEW x, NEW bytes, x \notin bytes
    PROVE  Lacks(<<x>>, bytes)
BY DEF Lacks

LEMMA BlankTells ==
    ASSUME NEW X, " " \in X
    PROVE  /\ BlankText \in Seq(X) /\ Len(BlankText) = 1 /\ Lacks(BlankText, {"["})
           /\ \A s \in Seq(X) : /\ Trim(BlankText \o s) = Trim(s)
                                /\ Trim(s \o BlankText) = Trim(s)
<1>1. BlankText \in Seq(X) /\ Len(BlankText) = 1
  BY Single, Zenon DEF BlankText
<1>2. Lacks(BlankText, {"["})
  <2>1. " " \notin {"["}
    OBVIOUS
  <2> QED BY <2>1, SingleLacks, Zenon DEF BlankText
<1>3. " " \in Blank
  BY DEF Blank
<1>4. \A s \in Seq(X) : Trim(BlankText \o s) = Trim(s)
  BY <1>3, TrimLeading DEF BlankText
<1>5. \A s \in Seq(X) : Trim(s \o BlankText) = Trim(s)
  BY <1>3, TrimTrailing DEF BlankText
<1> QED BY <1>1, <1>2, <1>4, <1>5

\* A tag behind a name, with a blank between or without, is cut off again.
LEMMA TagBehind ==
    ASSUME NEW X, TagBytes \subseteq X, NEW name \in Seq(X), Lacks(name, {"["}),
           Trim(name) = name, Len(name) # 0 => name[1] \notin Blank
    PROVE  /\ Trim(Before(Trim(name \o PlainTag), {"["})) = name
           /\ Trim(Before(Trim(name \o (BlankText \o PlainTag)), {"["})) = name
<1>1. /\ PlainTag \in Seq(X) /\ Len(PlainTag) = 3
      /\ PlainTag[1] \in {"["} /\ PlainTag[3] \notin Blank
  BY PlainTagTells DEF Blank, TagBytes
<1>2. /\ BlankText \in Seq(X) /\ Len(BlankText) = 1 /\ Lacks(BlankText, {"["})
      /\ \A s \in Seq(X) : /\ Trim(BlankText \o s) = Trim(s)
                           /\ Trim(s \o BlankText) = Trim(s)
  BY BlankTells DEF TagBytes
<1>4. Trim(BlankText \o PlainTag) = PlainTag
  BY <1>1, <1>2, TagIsTrimmed
<1> DEFINE v == BlankText \o PlainTag
<1>5. v \in Seq(X) /\ Len(v) = 4 /\ v[4] = PlainTag[3]
  <2>1. /\ v \in Seq(X) /\ Len(v) = 1 + 3
        /\ \A i \in 1..(1 + 3) : v[i] = IF i =< 1 THEN BlankText[i] ELSE PlainTag[i - 1]
    <3> DEFINE b == Len(BlankText)
               p == Len(PlainTag)
    <3>1. /\ v \in Seq(X) /\ Len(v) = b + p
          /\ \A i \in 1..(b + p) : v[i] = IF i =< b THEN BlankText[i] ELSE PlainTag[i - b]
      BY <1>1, <1>2, ConcatProperties
    <3>2. b = 1 /\ p = 3
      BY <1>1, <1>2
    <3> HIDE DEF b, p
    <3> QED BY <3>1, <3>2
  <2>2. 4 \in 1..(1 + 3) /\ ~(4 =< 1) /\ 4 - 1 = 3 /\ 1 + 3 = 4
    OBVIOUS
  <2> QED BY <2>1, <2>2
<1> HIDE DEF v
<1>6. CASE Len(name) = 0
  <2>1. name = <<>> /\ <<>> \in Seq(X)
    BY <1>6
  <2>2. name \o PlainTag = PlainTag /\ name \o v = v
    BY <1>1, <1>5, <2>1, ConcatEmptySeq
  <2>3. Before(PlainTag, {"["}) = name
    <3>1. Before(name \o PlainTag, {"["}) = name
      BY <1>1, BeforeJoined DEF Lacks
    <3> QED BY <2>2, <3>1
  <2> QED BY <1>4, <2>2, <2>3, TagIsTrimmed DEF v
<1>7. CASE Len(name) # 0
  <2>1. ASSUME NEW t \in Seq(X), Len(t) # 0, t[Len(t)] \notin Blank
        PROVE  Trim(name \o t) = name \o t
    <3> DEFINE u == name \o t
    <3>1. /\ u \in Seq(X) /\ Len(u) = Len(name) + Len(t)
          /\ \A i \in 1..(Len(name) + Len(t)) :
                u[i] = IF i =< Len(name) THEN name[i] ELSE t[i - Len(name)]
      BY ConcatProperties
    <3> HIDE DEF u
    <3>2. Len(name) \in Nat \ {0} /\ Len(t) \in Nat \ {0}
      BY <1>7, <2>1
    <3>3. /\ 1 \in 1..(Len(name) + Len(t)) /\ 1 =< Len(name)
          /\ Len(u) \in 1..(Len(name) + Len(t)) /\ ~(Len(u) =< Len(name))
          /\ Len(u) - Len(name) = Len(t)
      BY <3>1, <3>2
    <3>4. u[1] = name[1] /\ u[Len(u)] = t[Len(t)]
      BY <3>1, <3>3
    <3>5. Trim(u) = u
      BY <1>7, <2>1, <3>1, <3>4, TrimNothing
    <3> QED BY <3>5 DEF u
  <2>2. Trim(name \o PlainTag) = name \o PlainTag /\ Trim(name \o v) = name \o v
    <3>1. Len(PlainTag) # 0 /\ PlainTag[Len(PlainTag)] \notin Blank
      BY <1>1
    <3>2. Len(v) # 0 /\ v[Len(v)] \notin Blank
      BY <1>1, <1>5
    <3> QED BY <1>1, <1>5, <2>1, <3>1, <3>2
  <2>3. Before(name \o PlainTag, {"["}) = name
    BY <1>1, BeforeJoined DEF Lacks
  <2> DEFINE s == name \o BlankText
  <2>4. name \o v = s \o PlainTag
    <3>1. \A a, b, c \in Seq(X) : a \o (b \o c) = (a \o b) \o c
      BY Concatenated
    <3> QED BY <1>1, <1>2, <3>1 DEF v
  <2>5. s \in Seq(X) /\ Lacks(s, {"["})
    <3>1. /\ s \in Seq(X) /\ Len(s) = Len(name) + 1
          /\ \A i \in 1..(Len(name) + 1) :
                s[i] = IF i =< Len(name) THEN name[i] ELSE BlankText[i - Len(name)]
      <4>1. /\ s \in Seq(X) /\ Len(s) = Len(name) + Len(BlankText)
            /\ \A i \in 1..(Len(name) + Len(BlankText)) :
                  s[i] = IF i =< Len(name) THEN name[i] ELSE BlankText[i - Len(name)]
        BY <1>2, ConcatProperties
      <4> DEFINE b == Len(BlankText)
      <4>2. b = 1
        BY <1>2
      <4> HIDE DEF b, s
      <4> QED BY <4>1, <4>2 DEF b
    <3>2. Len(name) \in Nat
      OBVIOUS
    <3> HIDE DEF s
    <3>3. \A i \in 1..Len(s) : i \in 1..Len(name) \/ (~(i =< Len(name)) /\ i - Len(name) = 1)
      BY <3>1, <3>2
    <3>4. 1 \in 1..Len(BlankText)
      BY <1>2
    <3>5. /\ \A i \in 1..Len(name) : name[i] \notin {"["}
          /\ BlankText[1] \notin {"["}
      BY <1>2, <3>4 DEF Lacks
    <3> DEFINE B == {"["}
    <3>6. \A i \in 1..Len(name) : i =< Len(name)
      OBVIOUS
    <3> HIDE DEF B
    <3>7. ASSUME NEW i \in 1..Len(s) PROVE s[i] \notin B
      <4>1. i \in 1..(Len(name) + 1)
        BY <3>1
      <4>2. CASE i \in 1..Len(name)
        <5>1. s[i] = name[i]
          BY <3>1, <3>6, <4>1, <4>2
        <5>2. name[i] \notin B
          BY <3>5, <4>2 DEF B
        <5> QED BY <5>1, <5>2
      <4>3. CASE ~(i =< Len(name)) /\ i - Len(name) = 1
        <5>1. s[i] = BlankText[1]
          BY <3>1, <4>1, <4>3
        <5>2. BlankText[1] \notin B
          BY <3>5 DEF B
        <5> QED BY <5>1, <5>2
      <4> QED BY <3>3, <4>2, <4>3
    <3> QED BY <3>1, <3>7 DEF Lacks, B
  <2>6. Trim(s) = name
    BY <1>2
  <2> HIDE DEF s
  <2>7. Before(s \o PlainTag, {"["}) = s
    BY <1>1, <2>5, BeforeJoined DEF Lacks
  <2>8. Trim(Before(Trim(name \o v), {"["})) = name
    BY <2>2, <2>4, <2>6, <2>7
  <2> QED BY <2>2, <2>3, <2>8 DEF v
<1> QED BY <1>6, <1>7 DEF v

\* The tag, as it is written glyph by glyph.
TagGlyphs == (<<"[">> \o <<Colour>>) \o <<"a", "]">>

\* One word, flattened.
LEMMA OneWord ==
    ASSUME NEW X, NEW w \in Seq(X)
    PROVE  FlattenSeq(<<w>>) = w
<1> DEFINE words == <<w>>
<1>1. words \in Seq(Seq(X)) /\ Len(words) = 1 /\ words[1] = w
  OBVIOUS
<1> HIDE DEF words
<1>2. PICK F \in [1..Len(words) -> Seq(X)] :
          /\ F[1] = words[1]
          /\ \A i \in 2..Len(words) : F[i] = F[i - 1] \o words[i]
          /\ FlattenSeq(words) = F[Len(words)]
  <2>1. Len(words) # 0
    BY <1>1
  <2> QED BY <1>1, <2>1, FlattenSteps
<1>3. FlattenSeq(words) = w
  BY <1>1, <1>2
<1> QED BY <1>3 DEF words

\* Tuples put together.
AreTupled(a, b, c, d, e, f) ==
    /\ (<<a>> \o <<b, c, d>>) \o <<e, f>> = <<a, b, c, d, e, f>>
    /\ (<<a>> \o <<>>) \o <<e, f>> = <<a, e, f>>

LEMMA Tupled ==
    ASSUME NEW X, NEW a \in X, NEW b \in X, NEW c \in X, NEW d \in X, NEW e \in X, NEW f \in X
    PROVE  AreTupled(a, b, c, d, e, f)
<1>1. <<a>> \o <<b, c, d>> = <<a, b, c, d>>
  <2> DEFINE p == <<a>>
             q == <<b, c, d>>
             r == <<a, b, c, d>>
  <2>1. /\ p \in Seq(X) /\ q \in Seq(X) /\ r \in Seq(X)
        /\ Len(p) = 1 /\ Len(q) = 3 /\ Len(r) = 4
        /\ r[1] = p[1] /\ r[2] = q[1] /\ r[3] = q[2] /\ r[4] = q[3]
    OBVIOUS
  <2> HIDE DEF p, q, r
  <2>2. \A i \in 1..Len(p) : r[i] = p[i]
    BY <2>1
  <2>3. \A i \in 1..Len(q) : r[Len(p) + i] = q[i]
    BY <2>1
  <2>4. Len(r) = Len(p) + Len(q)
    BY <2>1
  <2>5. r = p \o q
    BY <2>1, <2>2, <2>3, <2>4, JoinedIs
  <2> QED BY <2>5 DEF p, q, r
<1>2. <<a, b, c, d>> \o <<e, f>> = <<a, b, c, d, e, f>>
  <2> DEFINE p == <<a, b, c, d>>
             q == <<e, f>>
             r == <<a, b, c, d, e, f>>
  <2>1. /\ p \in Seq(X) /\ q \in Seq(X) /\ r \in Seq(X)
        /\ Len(p) = 4 /\ Len(q) = 2 /\ Len(r) = 6
        /\ r[1] = p[1] /\ r[2] = p[2] /\ r[3] = p[3] /\ r[4] = p[4]
        /\ r[5] = q[1] /\ r[6] = q[2]
    OBVIOUS
  <2> HIDE DEF p, q, r
  <2>2. \A i \in 1..Len(p) : r[i] = p[i]
    BY <2>1
  <2>3. \A i \in 1..Len(q) : r[Len(p) + i] = q[i]
    BY <2>1
  <2>4. Len(r) = Len(p) + Len(q)
    BY <2>1
  <2>5. r = p \o q
    BY <2>1, <2>2, <2>3, <2>4, JoinedIs
  <2> QED BY <2>5 DEF p, q, r
<1>3. <<a>> \o <<>> = <<a>>
  <2>1. <<a>> \in Seq(X)
    OBVIOUS
  <2> QED BY <2>1, ConcatEmptySeq
<1>4. <<a>> \o <<e, f>> = <<a, e, f>>
  <2> DEFINE p == <<a>>
             q == <<e, f>>
             r == <<a, e, f>>
  <2>1. /\ p \in Seq(X) /\ q \in Seq(X) /\ r \in Seq(X)
        /\ Len(p) = 1 /\ Len(q) = 2 /\ Len(r) = 3
        /\ r[1] = p[1] /\ r[2] = q[1] /\ r[3] = q[2]
    OBVIOUS
  <2> HIDE DEF p, q, r
  <2>2. \A i \in 1..Len(p) : r[i] = p[i]
    BY <2>1
  <2>3. \A i \in 1..Len(q) : r[Len(p) + i] = q[i]
    BY <2>1
  <2>4. Len(r) = Len(p) + Len(q)
    BY <2>1
  <2>5. r = p \o q
    BY <2>1, <2>2, <2>3, <2>4, JoinedIs
  <2> QED BY <2>5 DEF p, q, r
<1> QED BY <1>1, <1>2, <1>3, <1>4, Zenon DEF AreTupled

\* Three texts one after the other.
AreJoined(G, r, s, t) ==
    /\ (r \o s) \o t \in Seq(G)
    /\ Bytes((r \o s) \o t) = (Bytes(r) \o Bytes(s)) \o Bytes(t)
    /\ Shown((r \o s) \o t) = (Shown(r) \o Shown(s)) \o Shown(t)

LEMMA ThreeJoined ==
    ASSUME NEW G, Settled(G), NEW r \in Seq(G), NEW s \in Seq(G), NEW t \in Seq(G)
    PROVE  AreJoined(G, r, s, t)
<1> DEFINE q == r \o s
<1>1. q \in Seq(G) /\ q \o t \in Seq(G)
  OBVIOUS
<1>2. Bytes(q) = Bytes(r) \o Bytes(s) /\ Shown(q) = Shown(r) \o Shown(s)
  BY BytesJoined
<1> HIDE DEF q
<1>3. Bytes(q \o t) = Bytes(q) \o Bytes(t) /\ Shown(q \o t) = Shown(q) \o Shown(t)
  BY <1>1, BytesJoined
<1> QED BY <1>1, <1>2, <1>3 DEF q, AreJoined

\* The colour code, as it is written and shown.
LEMMA ColourIsWritten ==
    Bytes(<<Colour>>) = <<"C2", "A7", "c">> /\ Shown(<<Colour>>) = <<>>
<1> DEFINE code == <<"C2", "A7", "c">>
<1>1. GlyphBytes(Colour) = code /\ GlyphShown(Colour) = <<>>
  BY DEF GlyphBytes, GlyphShown, Colour, Cedilla
<1>2. code \in Seq({"C2", "A7", "c"}) /\ <<>> \in Seq({})
  OBVIOUS
<1> HIDE DEF code
<1>3. GlyphWords(<<Colour>>) = <<code>> /\ ShownWords(<<Colour>>) = <<<<>>>>
  BY <1>1 DEF GlyphWords, ShownWords
<1>4. FlattenSeq(<<code>>) = code /\ FlattenSeq(<<<<>>>>) = <<>>
  BY <1>2, OneWord
<1>5. /\ Bytes(<<Colour>>) = FlattenSeq(GlyphWords(<<Colour>>))
      /\ Shown(<<Colour>>) = FlattenSeq(ShownWords(<<Colour>>))
  BY DEF Bytes, GlyphWords, Shown, ShownWords
<1> QED BY <1>3, <1>4, <1>5 DEF code

LEMMA TagIsWritten ==
    ASSUME NEW G, Settled(G), TagBytes \subseteq G, Colour \in G
    PROVE  TagGlyphs \in Seq(G) /\ Bytes(TagGlyphs) = Tag /\ Shown(TagGlyphs) = PlainTag
<1> DEFINE open == <<"[">>
           colour == <<Colour>>
           rest == <<"a", "]">>
<1>1. open \in Seq(G) /\ colour \in Seq(G) /\ rest \in Seq(G)
  <2>1. "[" \in G /\ "a" \in G /\ "]" \in G
    BY Zenon DEF TagBytes
  <2> QED BY <2>1, Single, Pair, Zenon
<1>2. /\ Bytes(open) = open /\ Shown(open) = open
      /\ Bytes(rest) = rest /\ Shown(rest) = rest
  <2> DEFINE P == {"[", "a", "]"}
  <2>1. Plain(P)
    BY DEF Plain, Colour, Cedilla
  <2>2. open \in Seq(P) /\ rest \in Seq(P)
    <3>1. "[" \in P /\ "a" \in P /\ "]" \in P
      OBVIOUS
    <3> HIDE DEF P
    <3> QED BY <3>1, Single, Pair, Zenon
  <2> HIDE DEF P, open, rest
  <2> QED BY <2>1, <2>2, PlainIsShown
<1>3. /\ (open \o <<"C2", "A7", "c">>) \o rest = Tag
      /\ (open \o <<>>) \o rest = PlainTag
  <2> DEFINE B == {"[", "C2", "A7", "c", "a", "]"}
  <2>1. /\ "[" \in B /\ "C2" \in B /\ "A7" \in B
        /\ "c" \in B /\ "a" \in B /\ "]" \in B
    OBVIOUS
  <2> HIDE DEF B
  <2>2. AreTupled("[", "C2", "A7", "c", "a", "]")
    BY <2>1, Tupled, Zenon
  <2> QED BY <2>2, Zenon DEF AreTupled, Tag, PlainTag
<1>4. TagGlyphs = (open \o colour) \o rest
  BY DEF TagGlyphs
<1>5. Bytes(colour) = <<"C2", "A7", "c">> /\ Shown(colour) = <<>>
  BY ColourIsWritten
<1> HIDE DEF open, colour, rest
<1>6. /\ TagGlyphs \in Seq(G)
      /\ Bytes(TagGlyphs) = (Bytes(open) \o Bytes(colour)) \o Bytes(rest)
      /\ Shown(TagGlyphs) = (Shown(open) \o Shown(colour)) \o Shown(rest)
  <2>1. AreJoined(G, open, colour, rest)
    BY <1>1, ThreeJoined
  <2> QED BY <1>4, <2>1, Zenon DEF AreJoined
<1> QED BY <1>2, <1>3, <1>5, <1>6, Zenon

\* A name between two tags, with blanks between or without, as it is stripped.
LEMMA TaggedIsStripped ==
    ASSUME NEW X, Plain(X), TagBytes \subseteq X, NEW name \in Seq(X)
    PROVE  /\ StripColorCodes(Tag \o name \o Tag) = PlainTag \o (name \o PlainTag)
           /\ StripColorCodes(Tag \o BlankText \o name \o BlankText \o Tag) =
                  PlainTag \o (BlankText \o (name \o (BlankText \o PlainTag)))
<1> DEFINE G == X \cup {Colour}
           tag == TagGlyphs
           s == (tag \o name) \o tag
           t == (((tag \o BlankText) \o name) \o BlankText) \o tag
<1>1. Settled(G) /\ TagBytes \subseteq G /\ Colour \in G
  BY DEF Plain, Settled, Colour, Cedilla
<1>2. tag \in Seq(G) /\ Bytes(tag) = Tag /\ Shown(tag) = PlainTag
  BY <1>1, TagIsWritten
<1>3. name \in Seq(G) /\ Bytes(name) = name /\ Shown(name) = name
  BY PlainIsShown
<1>4. BlankText \in Seq(G) /\ BlankText \in Seq(X)
      /\ Bytes(BlankText) = BlankText /\ Shown(BlankText) = BlankText
  <2>1. BlankText \in Seq(X)
    BY BlankTells DEF TagBytes
  <2> QED BY <2>1, PlainIsShown
<1>5. PlainTag \in Seq(X)
  BY PlainTagTells DEF TagBytes
<1> HIDE DEF G, tag
<1>6. /\ s \in Seq(G)
      /\ Bytes(s) = (Tag \o name) \o Tag /\ Shown(s) = (PlainTag \o name) \o PlainTag
  <2>1. AreJoined(G, tag, name, tag)
    BY <1>1, <1>2, <1>3, ThreeJoined
  <2> QED BY <1>2, <1>3, <2>1, Zenon DEF AreJoined
<1> DEFINE head == (tag \o BlankText) \o name
<1>7. /\ head \in Seq(G)
      /\ Bytes(head) = (Tag \o BlankText) \o name
      /\ Shown(head) = (PlainTag \o BlankText) \o name
  <2>1. AreJoined(G, tag, BlankText, name)
    BY <1>1, <1>2, <1>3, <1>4, ThreeJoined
  <2> QED BY <1>2, <1>3, <1>4, <2>1, Zenon DEF AreJoined
<1>8. /\ t \in Seq(G)
      /\ Bytes(t) = (((Tag \o BlankText) \o name) \o BlankText) \o Tag
      /\ Shown(t) = (((PlainTag \o BlankText) \o name) \o BlankText) \o PlainTag
  <2>1. t = (head \o BlankText) \o tag
    OBVIOUS
  <2> HIDE DEF head, t
  <2>2. AreJoined(G, head, BlankText, tag)
    BY <1>1, <1>2, <1>4, <1>7, ThreeJoined
  <2> QED BY <1>2, <1>4, <1>7, <2>1, <2>2, Zenon DEF AreJoined
<1>9. StripColorCodes(Bytes(s)) = Shown(s) /\ StripColorCodes(Bytes(t)) = Shown(t)
  <2> HIDE DEF s, t
  <2> QED BY <1>1, <1>6, <1>8, StrippedIsShown
<1>10. \A a, b, c \in Seq(X) : (a \o b) \o c = a \o (b \o c)
  BY Concatenated
<1>11. \A a, b \in Seq(X) : a \o b \in Seq(X)
  OBVIOUS
<1>12. Shown(s) = PlainTag \o (name \o PlainTag)
  BY <1>5, <1>6, <1>10, Zenon
<1>13. Shown(t) = PlainTag \o (BlankText \o (name \o (BlankText \o PlainTag)))
  <2> DEFINE b == PlainTag \o BlankText
             c == b \o name
             v == BlankText \o PlainTag
             w == name \o v
  <2>1. b \in Seq(X) /\ c \in Seq(X) /\ v \in Seq(X) /\ w \in Seq(X)
    BY <1>4, <1>5, <1>11
  <2>2. b \o w = PlainTag \o (BlankText \o w)
    <3> HIDE DEF w
    <3> QED BY <1>4, <1>5, <1>10, <2>1
  <2>3. c \o v = b \o w
    <3> HIDE DEF b, v
    <3> QED BY <1>10, <2>1
  <2>4. (c \o BlankText) \o PlainTag = c \o v
    <3> HIDE DEF c
    <3> QED BY <1>4, <1>5, <1>10, <2>1
  <2>5. Shown(t) = (c \o BlankText) \o PlainTag
    BY <1>8
  <2> QED BY <2>2, <2>3, <2>4, <2>5
<1> QED BY <1>6, <1>8, <1>9, <1>12, <1>13

\* A text ends as its second part does.
LEMMA EndsAlike ==
    ASSUME NEW X, NEW s \in Seq(X), NEW t \in Seq(X), Len(t) # 0
    PROVE  /\ s \o t \in Seq(X) /\ Len(s \o t) # 0
           /\ (s \o t)[Len(s \o t)] = t[Len(t)]
<1>1. /\ s \o t \in Seq(X) /\ Len(s \o t) = Len(s) + Len(t)
      /\ \A i \in 1..(Len(s) + Len(t)) :
            (s \o t)[i] = IF i =< Len(s) THEN s[i] ELSE t[i - Len(s)]
  BY ConcatProperties
<1>2. Len(s) \in Nat /\ Len(t) \in Nat \ {0}
  OBVIOUS
<1>3. /\ Len(s) + Len(t) \in 1..(Len(s) + Len(t)) /\ ~(Len(s) + Len(t) =< Len(s))
      /\ (Len(s) + Len(t)) - Len(s) = Len(t) /\ Len(s) + Len(t) # 0
  BY <1>2
<1> QED BY <1>1, <1>3

LEMMA NameIsSettled ==
    ASSUME NEW G, Settled(G), NEW glyphs \in Seq(G),
           NEW name, name = CleanPlayerName(Bytes(glyphs))
    PROVE  /\ name = CleanPlayerName(Shown(glyphs))
           /\ Trim(name) = name /\ StripColorCodes(name) = name
           /\ CleanPlayerName(name) = name
           /\ CleanPlayerName(Tag \o name \o Tag) = name
           /\ CleanPlayerName(Tag \o <<" ">> \o name \o <<" ">> \o Tag) = name
           /\ Sought(name) = ToLower(name)
<1> DEFINE P == G \ {Colour}
           N == (P \ Ends) \ {"["}
           X == N \cup TagBytes
           shown == Shown(glyphs)
<1>1. StripColorCodes(Bytes(glyphs)) = shown /\ shown \in Seq(P)
  BY StrippedIsShown
<1>2. Plain(P) /\ Plain(N) /\ Plain(X)
  BY DEF Plain, Settled, TagBytes, Colour, Cedilla
<1>3. N \cap (Ends \cup {"["}) = {} /\ X \cap Ends = {} /\ N \subseteq X /\ TagBytes \subseteq X
  BY DEF Ends, TagBytes
<1> HIDE DEF P, X, shown
<1>4. name = NameIn(shown)
  BY <1>1, CleanIsNameIn
<1>5. StripColorCodes(shown) = shown
  BY <1>1, <1>2, PlainIsShown
<1>6. name = CleanPlayerName(Shown(glyphs))
  BY <1>4, <1>5, CleanIsNameIn DEF shown
<1>7. name \in Seq(N) /\ Trim(name) = name
  BY <1>1, <1>4, NameTyped
<1> HIDE DEF N
<1>8. StripColorCodes(name) = name
  BY <1>2, <1>7, PlainIsShown
<1>9. CleanPlayerName(name) = name
  BY <1>3, <1>7, <1>8, CleanIsNameIn, NameStays
<1>10. Sought(name) = ToLower(name)
  BY <1>7, <1>8 DEF Sought
<1>11. name \in Seq(X) /\ Lacks(name, {"["})
  <2>1. \A i \in 1..Len(name) : name[i] \in N
    BY <1>7
  <2>2. \A i \in 1..Len(name) : name[i] \notin {"["}
    BY <1>3, <2>1
  <2>3. name \in Seq(X)
    BY <1>3, <1>7
  <2> QED BY <2>2, <2>3 DEF Lacks
<1>12. Len(name) # 0 => name[1] \notin Blank
  <2>1. name = Trim(name) /\ name \in Seq(X)
    BY <1>7, <1>11
  <2> QED BY <2>1, TrimmedOnce
<1>13. /\ PlainTag \in Seq(X) /\ Len(PlainTag) # 0 /\ PlainTag[Len(PlainTag)] \notin Blank
       /\ BlankText \in Seq(X) /\ \A s \in Seq(X) : Trim(BlankText \o s) = Trim(s)
       /\ {"[", "a", "]"} \subseteq X
  <2>1. PlainTag[3] \notin Blank /\ Len(PlainTag) = 3
    BY PlainTagTells DEF Blank
  <2>2. {"[", "a", "]"} \subseteq X /\ " " \in X
    BY <1>3, Zenon DEF TagBytes
  <2>3. PlainTag \in Seq(X)
    BY <2>2, PlainTagTells, Zenon
  <2>4. BlankText \in Seq(X) /\ \A s \in Seq(X) : Trim(BlankText \o s) = Trim(s)
    BY <2>2, BlankTells, Zenon
  <2>5. Len(PlainTag) # 0 /\ PlainTag[Len(PlainTag)] \notin Blank
    BY <2>1
  <2> QED BY <2>2, <2>3, <2>4, <2>5, Zenon
<1>14. /\ Trim(Before(Trim(name \o PlainTag), {"["})) = name
       /\ Trim(Before(Trim(name \o (BlankText \o PlainTag)), {"["})) = name
  BY <1>3, <1>7, <1>11, <1>12, TagBehind DEF BlankText
<1> DEFINE s == name \o PlainTag
           t == name \o (BlankText \o PlainTag)
           u == BlankText \o t
<1>15. s \in Seq(X) /\ Len(s) # 0 /\ s[Len(s)] \notin Blank
  BY <1>11, <1>13, EndsAlike
<1>16. t \in Seq(X) /\ u \in Seq(X) /\ Len(u) # 0 /\ u[Len(u)] \notin Blank
  <2> DEFINE v == BlankText \o PlainTag
  <2>1. v \in Seq(X) /\ Len(v) # 0 /\ v[Len(v)] \notin Blank
    BY <1>13, EndsAlike
  <2> HIDE DEF v
  <2> DEFINE w == name \o v
  <2>2. w \in Seq(X) /\ Len(w) # 0 /\ w[Len(w)] \notin Blank
    BY <1>11, <2>1, EndsAlike
  <2> HIDE DEF w
  <2>3. BlankText \o w \in Seq(X) /\ Len(BlankText \o w) # 0
        /\ (BlankText \o w)[Len(BlankText \o w)] \notin Blank
    BY <1>13, <2>2, EndsAlike
  <2> QED BY <2>2, <2>3 DEF v, w
<1>17. StripColorCodes(Tag \o name \o Tag) = PlainTag \o s
       /\ StripColorCodes(Tag \o BlankText \o name \o BlankText \o Tag) = PlainTag \o u
  BY <1>2, <1>3, <1>11, TaggedIsStripped
<1> HIDE DEF s, t, u
<1>18. NameIn(PlainTag \o s) = Trim(Before(Trim(s), {"["}))
  BY <1>3, <1>13, <1>15, TagBefore
<1>19. NameIn(PlainTag \o u) = Trim(Before(Trim(u), {"["}))
  BY <1>3, <1>13, <1>16, TagBefore
<1>20. Trim(u) = Trim(t)
  BY <1>13, <1>16 DEF u
<1>21. CleanPlayerName(Tag \o name \o Tag) = name
  BY <1>14, <1>17, <1>18, CleanIsNameIn DEF s
<1>22. CleanPlayerName(Tag \o BlankText \o name \o BlankText \o Tag) = name
  BY <1>14, <1>17, <1>19, <1>20, CleanIsNameIn DEF t
<1> QED BY <1>6, <1>7, <1>8, <1>9, <1>10, <1>21, <1>22 DEF BlankText

-----------------------------------------------------------------------------
(* What is written glyph by glyph: names and pieces of memory. *)

\* An input is made of the glyphs of its kind.
Written == kind \in DOMAIN Glyphs /\ input \in Seq(Glyphs[kind])

LEMMA InputIsWritten == Spec => []Written
<1>1. Init => Written
  <2> SUFFICES ASSUME Init PROVE Written
    OBVIOUS
  <2>1. kind \in DOMAIN Glyphs /\ input = <<>>
    BY DEF Init
  <2>2. <<>> \in Seq(Glyphs[kind])
    OBVIOUS
  <2> QED BY <2>1, <2>2 DEF Written
<1>2. Written /\ [Next]_vars => Written'
  <2> SUFFICES ASSUME Written, [Next]_vars PROVE Written'
    OBVIOUS
  <2>1. CASE Write
    <3>1. PICK g \in Glyphs[kind] : input' = Append(input, g)
      BY <2>1 DEF Write
    <3>2. kind' = kind /\ Glyphs' = Glyphs
      BY <2>1 DEF Write, Glyphs
    <3>3. Append(input, g) \in Seq(Glyphs[kind])
      <4> DEFINE S == Glyphs[kind]
      <4>1. input \in Seq(S) /\ g \in S
        BY DEF Written
      <4> HIDE DEF S
      <4>2. Append(input, g) \in Seq(S)
        BY <4>1
      <4> QED BY <4>2 DEF S
    <3> QED BY <3>1, <3>2, <3>3 DEF Written
  <2>2. CASE Change
    BY <2>2 DEF Change, Written, Glyphs
  <2>3. CASE UNCHANGED vars
    BY <2>3 DEF vars, Written, Glyphs
  <2> QED BY <2>1, <2>2, <2>3 DEF Next
<1> QED BY <1>1, <1>2, PTL DEF Spec

\* SafeString.h:530: what CleanPlayerName() leaves of a name of any length is settled, if
\* no glyph of it is a byte of the section sign without the other or the letter that
\* holds one, which is the case the finding on colour codes is about.
THEOREM NamesAreSettled ==
    ASSUME Settled(NameGlyphs)
    PROVE  Spec => []NameSettled
<1>1. Written => NameSettled
  <2> SUFFICES ASSUME Written, kind = "name" PROVE NameSettled
    BY DEF NameSettled
  <2>1. Glyphs["name"] = NameGlyphs
    BY DEF Glyphs
  <2>2. input \in Seq(NameGlyphs)
    BY <2>1 DEF Written
  <2> DEFINE name == CleanPlayerName(Bytes(input))
  <2>3. /\ name = CleanPlayerName(Shown(input))
        /\ Trim(name) = name /\ StripColorCodes(name) = name
        /\ CleanPlayerName(name) = name
        /\ CleanPlayerName(Tag \o name \o Tag) = name
        /\ CleanPlayerName(Tag \o <<" ">> \o name \o <<" ">> \o Tag) = name
        /\ Sought(name) = ToLower(name)
    BY <2>2, NameIsSettled
  <2> QED BY <2>3 DEF NameSettled
<1> QED BY <1>1, InputIsWritten, PTL

LEMMA MemoryScanFirst == Written => ScanFirst
<1> SUFFICES ASSUME Written, kind = "memory",
                    NEW bytes \in Patterns, NEW between \in BOOLEAN, NEW short \in BOOLEAN,
                    between \/ ~short
             PROVE  LET Matches(i) == \A j \in 1..Len(bytes) :
                                         bytes[j] \in {Wild, input[i + j - 1]}
                        places == {i \in 1..(Len(input) - Len(bytes) + 1) : Matches(i)}
                        place == Scan(input, Pattern(bytes, between, short))
                    IN  /\ Parse(Pattern(bytes, between, short)) = bytes
                        /\ place # 0 => place = Min(places)
                        /\ (place = 0 /\ places # {}) =>
                              \E i \in 1..(Min(places) + Len(bytes) - 1) :
                                  input[i] = Unreadable
  BY DEF ScanFirst
<1> DEFINE p == Pattern(bytes, between, short)
           L == Len(bytes)
           N == Len(input)
           places == {i \in 1..(N - L + 1) : Fits(input, i, bytes)}
           place == Scan(input, p)
<1>1. bytes \in Seq(DOMAIN Hexadecimal) /\ bytes # <<>>
  <2> DEFINE D == DOMAIN Hexadecimal
  <2>1. bytes # <<>> /\ \E m \in 0..3 : bytes \in [1..m -> D]
    BY DEF Patterns, BoundedSeq, SeqOf
  <2> HIDE DEF D
  <2>2. PICK m \in 0..3 : bytes \in [1..m -> D]
    BY <2>1
  <2>3. m \in Nat
    OBVIOUS
  <2>4. bytes \in Seq(D)
    BY <2>2, <2>3, SeqDef
  <2> QED BY <2>1, <2>4 DEF D
<1>2. input \in Seq(MemoryBytes)
  <2>1. Glyphs["memory"] = MemoryBytes
    BY DEF Glyphs
  <2> QED BY <2>1 DEF Written
<1>3. N \in Nat /\ L \in Nat \ {0}
  BY <1>1, <1>2
<1>4. Parse(p) = bytes
  BY <1>1, PatternsAreRead
<1> HIDE DEF p
<1>5. place \in Nat /\ FindsFirst(input, bytes, 1, place)
  BY <1>1, <1>2, <1>4, MatchesAreFound
<1> HIDE DEF place
<1>6. \A k : k \in places <=> k \in 1..N /\ Lies(input, bytes, k)
  BY <1>3 DEF Lies, N, L
<1> HIDE DEF places, L, N
<1>7. ASSUME place # 0 PROVE place = Min(places)
  <2>1. /\ place \in 1..N /\ Lies(input, bytes, place)
        /\ \A k \in 1..(place - 1) : ~Lies(input, bytes, k)
    BY <1>5, <1>7 DEF FindsFirst, N
  <2>2. place \in places
    BY <1>6, <2>1
  <2>3. \A k \in places : place =< k
    BY <1>3, <1>6, <2>1
  <2>4. \A k \in places : k \in Nat
    BY <1>6
  <2>5. Min(places) \in places /\ Min(places) =< place
    BY <2>2, <2>3 DEF Min
  <2> QED BY <1>5, <2>3, <2>4, <2>5
<1>8. ASSUME place = 0, places # {}
      PROVE  \E u \in 1..(Min(places) + L - 1) : input[u] = Unreadable
  <2>1. places \in SUBSET (1..N)
    BY <1>6
  <2>2. Min(places) \in places
    BY <1>3, <1>8, <2>1, MinIsLeast
  <2>3. Min(places) \in 1..N /\ Lies(input, bytes, Min(places))
    BY <1>6, <2>2
  <2> QED BY <1>5, <1>8, <2>3 DEF FindsFirst, L, N
<1> QED BY <1>4, <1>7, <1>8 DEF p, place, places, Fits, L, N

\* SigScan.cpp:14,68: what patterns mean to the scanner, for memories of every length.
THEOREM PatternsAreFound == Spec => []ScanFirst
BY InputIsWritten, MemoryScanFirst, PTL

-----------------------------------------------------------------------------
(* Functions that recur from each place to the next, and folds. *)

\* A function that goes from each place to the next exists.
Goes(n, V, base, Step, f) ==
    /\ f \in [0..n -> V]
    /\ f[0] = base
    /\ \A i \in 1..n : f[i] = Step[<<i, f[i - 1]>>]

LEMMA StepsExist ==
    ASSUME NEW n \in Nat, NEW V, NEW base \in V, NEW Step \in [(1..n) \X V -> V]
    PROVE  \E f : Goes(n, V, base, Step, f)
<1> DEFINE S == {k \in 1..(n + 1) : \E f : Goes(k - 1, V, base, Step, f)}
<1>1. ASSUME NEW k \in 1..(n + 1), \A j \in 1..(k - 1) : j \in S PROVE k \in S
  <2>1. CASE k = 1
    <3>1. Goes(0, V, base, Step, [i \in 0..0 |-> base])
      BY DEF Goes
    <3> QED BY <2>1, <3>1
  <2>2. CASE k # 1
    <3>1. k - 1 \in 1..(k - 1)
      BY <2>2
    <3>2. PICK f : Goes(k - 2, V, base, Step, f)
      <4>1. k - 1 \in S /\ (k - 1) - 1 = k - 2
        BY <1>1, <3>1
      <4> QED BY <4>1
    <3> DEFINE m == k - 1
               g == [i \in 0..m |-> IF i = m THEN Step[<<m, f[m - 1]>>] ELSE f[i]]
    <3>3. m \in 1..n /\ m - 1 \in 0..(k - 2) /\ m - 1 = k - 2
      BY <2>2
    <3>4. f[m - 1] \in V
      BY <3>2, <3>3 DEF Goes
    <3>5. Step[<<m, f[m - 1]>>] \in V
      BY <3>3, <3>4
    <3>6. \A i \in 0..m : i # m => i \in 0..(k - 2)
      BY <3>3
    <3>7. g \in [0..m -> V] /\ g[0] = base
      BY <3>2, <3>3, <3>5, <3>6 DEF Goes
    <3>8. ASSUME NEW i \in 1..m PROVE g[i] = Step[<<i, g[i - 1]>>]
      <4>1. i - 1 \in 0..m /\ i - 1 # m /\ i \in 0..m
        BY <3>3
      <4>2. g[i - 1] = f[i - 1]
        BY <4>1
      <4>3. i # m => i \in 1..(k - 2)
        BY <3>3
      <4> QED BY <3>2, <4>1, <4>2, <4>3 DEF Goes
    <3>9. Goes(m, V, base, Step, g)
      BY <3>7, <3>8 DEF Goes
    <3> QED BY <3>9
  <2> QED BY <2>1, <2>2
<1> HIDE DEF S
<1>2. \A k \in 1..(n + 1) : k \in S
  BY <1>1, UpInduction
<1>3. n + 1 \in S /\ (n + 1) - 1 = n
  BY <1>2
<1>4. \E f : Goes(n, V, base, Step, f)
  BY <1>3 DEF S
<1> QED BY <1>4

\* A function that goes from each set of places to the one without its greatest exists.
Folds(n, V, base, Step, it) ==
    /\ it \in [SUBSET (1..n) -> V]
    /\ it[{}] = base
    /\ \A s \in SUBSET (1..n) : s # {} => it[s] = Step[<<Max(s), it[s \ {Max(s)}]>>]

LEMMA FoldExists ==
    ASSUME NEW n \in Nat, NEW V, NEW base \in V, NEW Step \in [(1..n) \X V -> V]
    PROVE  \E it : Folds(n, V, base, Step, it)
<1> DEFINE S == {k \in 1..(n + 1) : \E it : Folds(k - 1, V, base, Step, it)}
<1>1. ASSUME NEW k \in 1..(n + 1), \A j \in 1..(k - 1) : j \in S PROVE k \in S
  <2>1. CASE k = 1
    <3> DEFINE it == [s \in SUBSET (1..0) |-> base]
    <3>1. 1..0 = {}
      OBVIOUS
    <3>2. \A s \in SUBSET (1..0) : s = {}
      BY <3>1
    <3>3. it \in [SUBSET (1..0) -> V] /\ it[{}] = base
      OBVIOUS
    <3>4. Folds(0, V, base, Step, it)
      BY <3>2, <3>3 DEF Folds
    <3> QED BY <2>1, <3>4
  <2>2. CASE k # 1
    <3>1. k - 1 \in 1..(k - 1)
      BY <2>2
    <3>2. PICK f : Folds(k - 2, V, base, Step, f)
      <4>1. k - 1 \in S /\ (k - 1) - 1 = k - 2
        BY <1>1, <3>1
      <4> QED BY <4>1
    <3> DEFINE m == k - 1
               it == [s \in SUBSET (1..m) |-> IF m \in s THEN Step[<<m, f[s \ {m}]>>] ELSE f[s]]
    <3>3. m \in 1..n /\ 1..(k - 2) = (1..m) \ {m}
      BY <2>2
    <3>4. f \in [SUBSET ((1..m) \ {m}) -> V]
      BY <3>2, <3>3 DEF Folds
    <3>5. \A s \in SUBSET (1..m) : m \notin s => s \in SUBSET ((1..m) \ {m})
      OBVIOUS
    <3>6. \A s \in SUBSET (1..m) : s \ {m} \in SUBSET ((1..m) \ {m})
      OBVIOUS
    <3>7. \A s \in SUBSET (1..m) : Step[<<m, f[s \ {m}]>>] \in V
      BY <3>3, <3>4, <3>6
    <3>8. it \in [SUBSET (1..m) -> V]
      BY <3>4, <3>5, <3>7
    <3>9. it[{}] = base
      BY <3>2 DEF Folds
    <3>10. ASSUME NEW s \in SUBSET (1..m), s # {}
           PROVE  it[s] = Step[<<Max(s), it[s \ {Max(s)}]>>]
      <4>1. Max(s) \in s /\ \A j \in s : j =< Max(s)
        <5> HIDE DEF m, it
        <5>1. m \in Nat
          BY <3>3
        <5> QED BY <3>10, <5>1, MaxIsGreatest
      <4>2. CASE m \in s
        <5>1. Max(s) = m
          <6>1. Max(s) \in 1..m /\ m =< Max(s)
            BY <4>1, <4>2
          <6> QED BY <3>3, <6>1
        <5>2. it[s] = Step[<<m, f[s \ {m}]>>]
          BY <4>2
        <5>3. s \ {m} \in SUBSET (1..m) /\ m \notin s \ {m}
          OBVIOUS
        <5>4. it[s \ {m}] = f[s \ {m}]
          BY <5>3
        <5> QED BY <5>1, <5>2, <5>4
      <4>3. CASE m \notin s
        <5>1. s \in SUBSET (1..(k - 2))
          BY <3>3, <3>5, <4>3
        <5>2. f[s] = Step[<<Max(s), f[s \ {Max(s)}]>>]
          BY <3>2, <3>10, <5>1 DEF Folds
        <5>3. s \ {Max(s)} \in SUBSET (1..m) /\ m \notin s \ {Max(s)}
          BY <4>3
        <5>4. it[s] = f[s] /\ it[s \ {Max(s)}] = f[s \ {Max(s)}]
          BY <4>3, <5>3
        <5> QED BY <5>2, <5>4
      <4> QED BY <4>2, <4>3
    <3> HIDE DEF it
    <3>11. Folds(m, V, base, Step, it)
      BY <3>8, <3>9, <3>10 DEF Folds
    <3> QED BY <3>11
  <2> QED BY <2>1, <2>2
<1> HIDE DEF S
<1>2. \A k \in 1..(n + 1) : k \in S
  BY <1>1, UpInduction
<1>3. n + 1 \in S /\ (n + 1) - 1 = n
  BY <1>2
<1> QED BY <1>3 DEF S

-----------------------------------------------------------------------------
(* The texts of a packet. *)

\* What FoldLeft does with an object.
AddText(list, object) ==
    LET text == ReadString(object)
    IN  IF text = <<>> \/ Contains(list, text) THEN list ELSE Append(list, text)

TextsIn(objects) ==
    LET iter[s \in SUBSET DOMAIN objects] ==
            IF s = {} THEN <<>>
            ELSE LET x == Max(s) IN AddText(iter[s \ {x}], objects[x])
    IN  iter[DOMAIN objects]

\* The texts of a packet are what its objects hold, or else the rest of it.
LEMMA AllTextsIs ==
    ASSUME NEW packet, ~(Len(packet.parameters) > 100),
           NEW usual, usual = <<packet.message, packet.sourceName>> \o
                      SubSeq(packet.parameters, 1, Min({10, Len(packet.parameters)}))
    PROVE  AllTexts(packet) = IF TextsIn(usual) # <<>> THEN TextsIn(usual)
                              ELSE TextsIn(packet.others)
<1>1. LET count == Len(packet.parameters)
          listed == IF count > 100 THEN <<>>
                    ELSE SubSeq(packet.parameters, 1, Min({10, count}))
          texts == TextsIn(<<packet.message, packet.sourceName>> \o listed)
      IN  AllTexts(packet) = IF texts # <<>> THEN texts ELSE TextsIn(packet.others)
  BY DEF AllTexts, FoldLeft, MapThenFoldSet, TextsIn, AddText
<1> QED BY <1>1

\* The list holds these texts and no others.
Hold(list, X, texts) ==
    list \in Seq(Seq(X)) /\ {list[j] : j \in 1..Len(list)} = texts

\* A text that is added is held once, and nothing is held that was not added.
LEMMA TextAdded ==
    ASSUME NEW X, NEW list, NEW texts, Hold(list, X, texts),
           NEW object, ReadString(object) \in Seq(X)
    PROVE  Hold(AddText(list, object), X, texts \cup ({ReadString(object)} \ {<<>>}))
<1> DEFINE text == ReadString(object)
<1>1. CASE text = <<>>
  <2>1. AddText(list, object) = list
    BY <1>1 DEF AddText
  <2> QED BY <1>1, <2>1
<1>2. CASE text # <<>> /\ text \in texts
  <2>1. Contains(list, text)
    BY <1>2 DEF Hold, Contains
  <2>2. AddText(list, object) = list
    BY <2>1 DEF AddText
  <2>3. texts \cup ({text} \ {<<>>}) = texts
    BY <1>2
  <2> QED BY <2>2, <2>3
<1>3. CASE text # <<>> /\ text \notin texts
  <2> DEFINE after == Append(list, text)
  <2>1. ~Contains(list, text)
    BY <1>3 DEF Hold, Contains
  <2>2. AddText(list, object) = after
    BY <1>3, <2>1 DEF AddText
  <2> HIDE DEF text
  <2>3. list \in Seq(Seq(X)) /\ text \in Seq(X)
    BY DEF Hold, text
  <2>4. /\ after \in Seq(Seq(X)) /\ Len(after) = Len(list) + 1
        /\ \A j \in 1..Len(list) : after[j] = list[j]
        /\ after[Len(list) + 1] = text
    BY <2>3
  <2> HIDE DEF after
  <2>5. {after[j] : j \in 1..Len(after)} = {list[j] : j \in 1..Len(list)} \cup {text}
    <3>1. Len(list) \in Nat
      BY <2>3
    <3>2. ASSUME NEW j \in 1..Len(after)
          PROVE  after[j] \in {list[i] : i \in 1..Len(list)} \cup {text}
      <4>1. j \in 1..Len(list) \/ j = Len(list) + 1
        BY <2>4, <3>1
      <4> QED BY <2>4, <4>1
    <3>3. \A j \in 1..Len(list) : j \in 1..Len(after)
      BY <2>4, <3>1
    <3>4. Len(list) + 1 \in 1..Len(after)
      BY <2>4, <3>1
    <3> QED BY <2>4, <3>2, <3>3, <3>4
  <2>6. {text} \ {<<>>} = {text}
    BY <1>3
  <2>7. Hold(after, X, texts \cup ({text} \ {<<>>}))
    BY <2>4, <2>5, <2>6 DEF Hold
  <2> QED BY <2>2, <2>7 DEF text
<1> QED BY <1>1, <1>2, <1>3

\* The texts that can be read in the first objects.
Legibles(objects, k) == {ReadString(objects[j]) : j \in 1..k} \ {<<>>}

\* A list of objects gives the texts that can be read, and no empty one.
LEMMA TextsAreHeld ==
    ASSUME NEW X, NEW n \in Nat, NEW objects, DOMAIN objects = 1..n,
           \A k \in 1..n : ReadString(objects[k]) \in Seq(X)
    PROVE  Hold(TextsIn(objects), X, Legibles(objects, n))
<1> DEFINE V == Seq(Seq(X))
           iter[s \in SUBSET DOMAIN objects] ==
               IF s = {} THEN <<>>
               ELSE LET x == Max(s) IN AddText(iter[s \ {x}], objects[x])
           Body(s, f) == IF s = {} THEN <<>>
                         ELSE LET x == Max(s) IN AddText(f[s \ {x}], objects[x])
           Step == [p \in (1..n) \X V |-> AddText(p[2], objects[p[1]])]
<1>1. TextsIn(objects) = iter[1..n]
  BY DEF TextsIn
<1>2. ASSUME NEW f, f = [s \in SUBSET (1..n) |-> Body(s, f)]
      PROVE  iter = [s \in SUBSET (1..n) |-> Body(s, iter)]
  BY <1>2
<1> HIDE DEF iter
<1>3. ASSUME NEW list \in V, NEW k \in 1..n PROVE AddText(list, objects[k]) \in V
  <2>1. ReadString(objects[k]) \in Seq(X)
    OBVIOUS
  <2> QED BY <2>1 DEF AddText
<1>4. /\ Step \in [(1..n) \X V -> V]
      /\ \A k \in 1..n, list \in V : Step[<<k, list>>] = AddText(list, objects[k])
  BY <1>3
<1>5. <<>> \in V
  OBVIOUS
<1> HIDE DEF V, Step
<1>6. PICK f : Folds(n, V, <<>>, Step, f)
  BY <1>4, <1>5, FoldExists
<1>7. ASSUME NEW s \in SUBSET (1..n), s # {} PROVE Max(s) \in s /\ Max(s) \in 1..n
  BY <1>7, MaxIsGreatest
<1>8. ASSUME NEW s \in SUBSET (1..n) PROVE f[s] = Body(s, f)
  <2>1. CASE s = {}
    BY <1>6, <2>1 DEF Folds
  <2>2. CASE s # {}
    <3>1. Max(s) \in 1..n
      BY <1>7, <2>2
    <3>2. f[s \ {Max(s)}] \in V
      <4>1. s \ {Max(s)} \in SUBSET (1..n)
        OBVIOUS
      <4> QED BY <1>6, <4>1 DEF Folds
    <3>3. f[s] = Step[<<Max(s), f[s \ {Max(s)}]>>]
      BY <1>6, <2>2 DEF Folds
    <3> QED BY <1>4, <2>2, <3>1, <3>2, <3>3
  <2> QED BY <2>1, <2>2
<1> HIDE DEF Body
<1>9. f = [s \in SUBSET (1..n) |-> Body(s, f)]
  BY <1>6, <1>8 DEF Folds
<1>10. \A s \in SUBSET (1..n) : iter[s] = Body(s, iter)
  <2>1. iter = [s \in SUBSET (1..n) |-> Body(s, iter)]
    BY <1>2, <1>9
  <2> QED BY <2>1
<1> DEFINE S == {k \in 1..(n + 1) : Hold(iter[1..(k - 1)], X, Legibles(objects, k - 1))}
<1>11. ASSUME NEW k \in 1..(n + 1), \A j \in 1..(k - 1) : j \in S PROVE k \in S
  <2>1. CASE k = 1
    <3>1. 1..(k - 1) = {}
      BY <2>1
    <3>2. iter[1..(k - 1)] = <<>>
      BY <1>10, <3>1 DEF Body
    <3>3. Legibles(objects, k - 1) = {}
      BY <3>1 DEF Legibles
    <3>4. Hold(<<>>, X, {})
      BY DEF Hold
    <3> QED BY <3>2, <3>3, <3>4
  <2>2. CASE k # 1
    <3> DEFINE m == k - 1
    <3>1. m \in 1..n /\ m \in 1..(k - 1)
      BY <2>2
    <3>2. Hold(iter[1..(m - 1)], X, Legibles(objects, m - 1))
      BY <1>11, <3>1
    <3> HIDE DEF m
    <3>3. 1..m \in SUBSET (1..n) /\ 1..m # {} /\ (1..m) \ {m} = 1..(m - 1)
      <4>1. m \in 1..m /\ \A j \in 1..m : j \in 1..n
        BY <3>1
      <4>2. \A j : j \in 1..m /\ j # m <=> j \in 1..(m - 1)
        BY <3>1
      <4> QED BY <4>1, <4>2
    <3>4. Max(1..m) = m
      <4>1. m \in Nat /\ 1..m \in SUBSET (1..m) /\ m \in 1..m
        BY <3>1
      <4>2. Max(1..m) \in 1..m /\ \A j \in 1..m : j =< Max(1..m)
        BY <3>3, <4>1, MaxIsGreatest
      <4> QED BY <4>1, <4>2
    <3>5. iter[1..m] = AddText(iter[1..(m - 1)], objects[m])
      BY <1>10, <3>3, <3>4 DEF Body
    <3>6. ReadString(objects[m]) \in Seq(X)
      BY <3>1
    <3>7. Legibles(objects, m) =
              Legibles(objects, m - 1) \cup ({ReadString(objects[m])} \ {<<>>})
      <4>1. 1..m = (1..(m - 1)) \cup {m}
        BY <3>1
      <4> QED BY <4>1 DEF Legibles
    <3>8. Hold(iter[1..m], X, Legibles(objects, m))
      BY <3>2, <3>5, <3>6, <3>7, TextAdded
    <3> QED BY <3>8 DEF m
  <2> QED BY <2>1, <2>2
<1> HIDE DEF S
<1>12. \A k \in 1..(n + 1) : k \in S
  <2>1. n + 1 \in Nat
    OBVIOUS
  <2> DEFINE N == n + 1
  <2> HIDE DEF N
  <2>2. \A k \in 1..N : k \in S
    BY <1>11, <2>1, UpInduction DEF N
  <2> QED BY <2>2 DEF N
<1>13. n + 1 \in S /\ (n + 1) - 1 = n
  BY <1>12
<1>14. Hold(iter[1..n], X, Legibles(objects, n))
  BY <1>13 DEF S
<1> QED BY <1>1, <1>14

\* An object that was allocated is read as it was assigned.
LEMMA ObjectRead ==
    ASSUME NEW X, NEW text \in Seq(X), Len(text) =< Longest
    PROVE  ReadString(Object(text)) = text
<1> DEFINE n == Len(text)
           unit == Inline + 1
           q == n \div unit
<1>1. n \in Nat /\ Inline \in Nat /\ unit \in Nat \ {0}
  BY SafeStringAssumption
<1>2. CASE n =< Inline
  BY <1>1, <1>2 DEF Object, Assign, ReadString, Legible
<1>3. CASE ~(n =< Inline)
  <2>1. Object(text) = [res |-> unit * q + Inline, size |-> n, text |-> text]
    BY <1>3 DEF Object, Assign
  <2>2. q \in Nat /\ n % unit \in 0..(unit - 1) /\ n = (unit * q) + (n % unit)
    <3> HIDE DEF n, unit
    <3> QED BY <1>1
  <2>3. unit * q \in Nat /\ unit * q > 0
    <3>1. unit * q = n - (n % unit) /\ n > (n % unit)
      <4> HIDE DEF q
      <4> QED BY <1>1, <1>3, <2>2
    <3> QED BY <1>1, <2>2, <3>1
  <2> HIDE DEF q, unit, n
  <2> DEFINE p == unit * q
  <2> HIDE DEF p
  <2>4. ~(p + Inline =< Inline) /\ n \in 1..Longest
    BY <1>1, <1>3, <2>3, SafeStringAssumption DEF p, n
  <2> QED BY <2>1, <2>4 DEF ReadString, Legible, p
<1> QED BY <1>2, <1>3

LEMMA LeastOfTen ==
    ASSUME NEW k \in 0..10
    PROVE  Min({10, k}) = k
BY DEF Min

LEMMA TwoHeld ==
    ASSUME NEW X, NEW objects, DOMAIN objects = 1..2,
           NEW s \in Seq(X), NEW t \in Seq(X),
           ReadString(objects[1]) = s, ReadString(objects[2]) = t
    PROVE  Hold(TextsIn(objects), X, {s, t} \ {<<>>})
<1>1. 1..2 = {1, 2}
  OBVIOUS
<1>2. Legibles(objects, 2) = {s, t} \ {<<>>}
  BY <1>1 DEF Legibles
<1>3. \A k \in 1..2 : ReadString(objects[k]) \in Seq(X)
  BY <1>1
<1>4. Hold(TextsIn(objects), X, Legibles(objects, 2))
  BY <1>3, TextsAreHeld
<1> QED BY <1>2, <1>4

LEMMA FourHeld ==
    ASSUME NEW X, NEW objects, DOMAIN objects = 1..4,
           NEW s \in Seq(X), NEW t \in Seq(X),
           ReadString(objects[1]) = <<>>, ReadString(objects[2]) = <<>>,
           ReadString(objects[3]) = s, ReadString(objects[4]) = t
    PROVE  Hold(TextsIn(objects), X, {s, t} \ {<<>>})
<1>1. 1..4 = {1, 2, 3, 4}
  OBVIOUS
<1>2. Legibles(objects, 4) = {s, t} \ {<<>>}
  BY <1>1 DEF Legibles
<1>3. \A k \in 1..4 : ReadString(objects[k]) \in Seq(X)
  <2>1. <<>> \in Seq(X)
    OBVIOUS
  <2> QED BY <1>1, <2>1
<1>4. Hold(TextsIn(objects), X, Legibles(objects, 4))
  BY <1>3, TextsAreHeld
<1> QED BY <1>2, <1>4

LEMMA NobodyHeld ==
    ASSUME NEW X, NEW list
    PROVE  Hold(list, X, {}) <=> list = <<>>
<1>1. ASSUME Hold(list, X, {}) PROVE list = <<>>
  <2>1. list \in Seq(Seq(X)) /\ \A j \in 1..Len(list) : FALSE
    BY <1>1 DEF Hold
  <2>2. Len(list) = 0
    <3>1. Len(list) \in Nat
      BY <2>1
    <3>2. CASE Len(list) # 0
      <4>1. 1 \in 1..Len(list)
        BY <3>1, <3>2
      <4> QED BY <2>1, <4>1
    <3> QED BY <3>2
  <2> QED BY <2>1, <2>2
<1>2. Hold(<<>>, X, {})
  BY DEF Hold
<1> QED BY <1>1, <1>2

LEMMA WholeText ==
    ASSUME NEW X, NEW s \in Seq(X), NEW n, n = Len(s)
    PROVE  SubSeq(s, 1, n) = s
OBVIOUS

\* The packets a line of the chat comes in.
Lines(text) == {Packet("CHAT", <<"a">>, text, <<>>, <<>>),
                Packet("RAW", <<>>, <<>>, <<<<"a">>, text>>, <<>>),
                Packet("RAW", <<>>, <<>>, <<>>, <<<<>>, text>>)}

\* Which objects are looked at, by how many parameters the packet has.
LEMMA WithoutParameters ==
    ASSUME NEW packet, packet.parameters = <<>>,
           NEW usual, usual = <<packet.message, packet.sourceName>>
    PROVE  AllTexts(packet) = IF TextsIn(usual) # <<>> THEN TextsIn(usual)
                              ELSE TextsIn(packet.others)
<1>1. Len(packet.parameters) = 0
  OBVIOUS
<1>2. SubSeq(packet.parameters, 1, Min({10, Len(packet.parameters)})) = <<>>
  <2>1. Min({10, 0}) = 0
    BY LeastOfTen
  <2> QED BY <1>1, <2>1
<1>3. usual \o <<>> = usual
  OBVIOUS
<1>4. ~(Len(packet.parameters) > 100)
  BY <1>1
<1> QED BY <1>2, <1>3, <1>4, AllTextsIs

LEMMA WithTwoParameters ==
    ASSUME NEW O, NEW a \in O, NEW b \in O, NEW c \in O, NEW d \in O,
           NEW packet, packet.parameters = <<c, d>>,
           packet.message = a, packet.sourceName = b,
           NEW usual, usual = <<a, b, c, d>>
    PROVE  AllTexts(packet) = IF TextsIn(usual) # <<>> THEN TextsIn(usual)
                              ELSE TextsIn(packet.others)
<1>1. Len(packet.parameters) = 2
  OBVIOUS
<1>2. SubSeq(packet.parameters, 1, Min({10, Len(packet.parameters)})) = <<c, d>>
  <2>1. Min({10, 2}) = 2
    BY LeastOfTen
  <2>2. SubSeq(<<c, d>>, 1, 2) = <<c, d>>
    <3> DEFINE t == <<c, d>>
    <3>1. t \in Seq(O) /\ Len(t) = 2
      BY Pair
    <3> HIDE DEF t
    <3>2. SubSeq(t, 1, 2) = t
      BY <3>1, WholeText
    <3> QED BY <3>2 DEF t
  <2> QED BY <1>1, <2>1, <2>2
<1>3. <<a, b>> \o <<c, d>> = usual
  <2> DEFINE s == <<a, b>>
             t == <<c, d>>
  <2>1. s \in Seq(O) /\ Len(s) = 2 /\ s[1] = a /\ s[2] = b
    BY Pair
  <2>2. t \in Seq(O) /\ Len(t) = 2 /\ t[1] = c /\ t[2] = d
    BY Pair
  <2>3. /\ usual \in Seq(O) /\ Len(usual) = 4
        /\ usual[1] = a /\ usual[2] = b /\ usual[3] = c /\ usual[4] = d
    OBVIOUS
  <2> HIDE DEF s, t
  <2>4. \A i \in 1..Len(s) : usual[i] = s[i]
    <3>1. 1..Len(s) = {1, 2}
      BY <2>1
    <3> QED BY <2>1, <2>3, <3>1
  <2>5. \A i \in 1..Len(t) : usual[Len(s) + i] = t[i]
    <3>1. 1..Len(t) = {1, 2}
      BY <2>2
    <3> QED BY <2>1, <2>2, <2>3, <3>1
  <2>6. Len(usual) = Len(s) + Len(t)
    BY <2>1, <2>2, <2>3
  <2>7. usual = s \o t
    <3>1. s \in Seq(O) /\ t \in Seq(O) /\ usual \in Seq(O)
      BY <2>1, <2>2, <2>3
    <3> QED BY <2>4, <2>5, <2>6, <3>1, JoinedIs, Zenon
  <2> QED BY <2>7 DEF s, t
<1>4. ~(Len(packet.parameters) > 100)
  BY <1>1
<1> QED BY <1>2, <1>3, <1>4, AllTextsIs

\* The texts among which the dispatcher looks for a command.
Shows(texts, X, text) ==
    Hold(texts, X, {text, <<"a">>} \ {<<>>}) \/ Hold(texts, X, {text} \ {<<>>})

\* Whichever packet carries a line, it is held among its texts, at most beside its author.
LEMMA LineIsHeld ==
    ASSUME NEW X, "a" \in X, NEW text \in Seq(X), Len(text) =< Longest, 1 =< Longest,
           NEW packet \in Lines(text)
    PROVE  Shows(AllTexts(packet), X, text)
<1> DEFINE a == <<"a">>
<1>1. a \in Seq(X) /\ Len(a) = 1 /\ a # <<>>
  OBVIOUS
<1> HIDE DEF a
<1>2. <<>> \in Seq(X) /\ Len(<<>>) = 0
  OBVIOUS
<1>3. /\ ReadString(Object(text)) = text /\ ReadString(Object(a)) = a
      /\ ReadString(Object(<<>>)) = <<>>
  <2>1. \A t \in Seq(X) : Len(t) =< Longest => ReadString(Object(t)) = t
    BY ObjectRead
  <2>2. Len(a) =< Longest /\ Len(<<>>) =< Longest
    BY <1>1, <1>2, SafeStringAssumption
  <2> QED BY <1>1, <1>2, <2>1, <2>2
<1>4. CASE packet = Packet("CHAT", a, text, <<>>, <<>>)
  <2>1. /\ packet.parameters = <<>>
        /\ packet.message = Object(text) /\ packet.sourceName = Object(a)
    BY <1>4 DEF Packet
  <2> DEFINE two == <<Object(text), Object(a)>>
  <2>2. DOMAIN two = 1..2 /\ two[1] = Object(text) /\ two[2] = Object(a)
    OBVIOUS
  <2>3. Hold(TextsIn(two), X, {text, a} \ {<<>>})
    BY <1>1, <1>3, <2>2, TwoHeld
  <2>4. TextsIn(two) # <<>>
    <3>1. {text, a} \ {<<>>} # {}
      BY <1>1
    <3>2. TextsIn(two) = <<>> => Hold(TextsIn(two), X, {})
      BY NobodyHeld
    <3> QED BY <2>3, <3>1, <3>2 DEF Hold
  <2>5. AllTexts(packet) = TextsIn(two)
    BY <2>1, <2>4, WithoutParameters
  <2> QED BY <2>3, <2>5 DEF a, Shows
<1>5. CASE packet = Packet("RAW", <<>>, <<>>, <<a, text>>, <<>>)
  <2>1. /\ packet.parameters = <<Object(a), Object(text)>>
        /\ packet.message = Object(<<>>) /\ packet.sourceName = Object(<<>>)
    BY <1>5 DEF Packet
  <2> DEFINE four == <<Object(<<>>), Object(<<>>), Object(a), Object(text)>>
  <2>2. /\ DOMAIN four = 1..4 /\ four[1] = Object(<<>>) /\ four[2] = Object(<<>>)
        /\ four[3] = Object(a) /\ four[4] = Object(text)
    OBVIOUS
  <2>3. Hold(TextsIn(four), X, {a, text} \ {<<>>})
    BY <1>1, <1>3, <2>2, FourHeld
  <2>4. TextsIn(four) # <<>>
    <3>1. {a, text} \ {<<>>} # {}
      BY <1>1
    <3>2. TextsIn(four) = <<>> => Hold(TextsIn(four), X, {})
      BY NobodyHeld
    <3> QED BY <2>3, <3>1, <3>2 DEF Hold
  <2>5. AllTexts(packet) = TextsIn(four)
    <3> DEFINE O == {Object(<<>>), Object(a), Object(text)}
    <3>1. Object(<<>>) \in O /\ Object(a) \in O /\ Object(text) \in O
      OBVIOUS
    <3> HIDE DEF O
    <3> QED BY <2>1, <2>4, <3>1, WithTwoParameters
  <2>6. {a, text} = {text, a}
    OBVIOUS
  <2> QED BY <2>3, <2>5, <2>6 DEF a, Shows
<1>6. CASE packet = Packet("RAW", <<>>, <<>>, <<>>, <<<<>>, text>>)
  <2>1. /\ packet.parameters = <<>>
        /\ packet.message = Object(<<>>) /\ packet.sourceName = Object(<<>>)
        /\ packet.others = <<Object(<<>>), Object(text)>>
    BY <1>6 DEF Packet
  <2> DEFINE two == <<Object(<<>>), Object(<<>>)>>
             others == <<Object(<<>>), Object(text)>>
  <2>2. /\ DOMAIN two = 1..2 /\ two[1] = Object(<<>>) /\ two[2] = Object(<<>>)
        /\ DOMAIN others = 1..2 /\ others[1] = Object(<<>>) /\ others[2] = Object(text)
    OBVIOUS
  <2>3. Hold(TextsIn(two), X, {<<>>, <<>>} \ {<<>>})
    BY <1>2, <1>3, <2>2, TwoHeld
  <2>4. TextsIn(two) = <<>>
    <3>1. {<<>>, <<>>} \ {<<>>} = {}
      OBVIOUS
    <3> HIDE DEF two
    <3>2. Hold(TextsIn(two), X, {})
      BY <2>3, <3>1
    <3> QED BY <3>2, NobodyHeld
  <2>5. Hold(TextsIn(others), X, {<<>>, text} \ {<<>>})
    BY <1>2, <1>3, <2>2, TwoHeld
  <2>6. AllTexts(packet) = TextsIn(others)
    BY <2>1, <2>4, WithoutParameters
  <2>7. {<<>>, text} \ {<<>>} = {text} \ {<<>>}
    OBVIOUS
  <2> QED BY <2>5, <2>6, <2>7 DEF Shows
<1> QED BY <1>4, <1>5, <1>6 DEF Lines, a

\* How the dispatcher understands a text, and what it does with a packet of one line.
Meant(text) == Trim(StripColorCodes(text))

Handles(result, line, commands) ==
    /\ result.drop = IsCommandPrefix(line)
    /\ result.does = IF IsCommandPrefix(line) THEN Dispatch(line, commands) ELSE Ignored

\* The dispatcher does with a packet what it does with the one line that can be a command.
LEMMA LineIsHandled ==
    ASSUME NEW X, NEW packet, NEW text, NEW commands,
           Shows(AllTexts(packet), X, text),
           ~IsCommandPrefix(Meant(<<"a">>)), ~IsCommandPrefix(Meant(<<>>)),
           NEW result, result = HandleOutboundChat(packet, commands)
    PROVE  Handles(result, Meant(text), commands)
<1> DEFINE texts == AllTexts(packet)
           I == {i \in 1..Len(texts) : IsCommandPrefix(Meant(texts[i]))}
           first == IF I # {} THEN Min(I) ELSE 0
<1>1. result = [drop |-> first # 0,
                does |-> IF first = 0 THEN Ignored ELSE Dispatch(Meant(texts[first]), commands)]
  BY DEF HandleOutboundChat, SelectInSeq, Meant
<1>2. /\ \A j \in 1..Len(texts) : texts[j] \in {text, <<"a">>}
      /\ text # <<>> => \E j \in 1..Len(texts) : texts[j] = text
      /\ Len(texts) \in Nat
  <2> DEFINE T == {texts[j] : j \in 1..Len(texts)}
  <2>1. texts \in Seq(Seq(X))
    BY DEF Hold, Shows
  <2>2. T = {text, <<"a">>} \ {<<>>} \/ T = {text} \ {<<>>}
    BY DEF Hold, Shows
  <2> HIDE DEF texts
  <2>3. \A t \in T : t \in {text, <<"a">>}
    BY <2>2
  <2>4. text # <<>> => text \in T
    BY <2>2
  <2> QED BY <2>1, <2>3, <2>4
<1> HIDE DEF texts
<1>3. \A i \in I : texts[i] = text
  BY <1>2
<1> DEFINE command == IsCommandPrefix(Meant(text))
<1>6. command \in BOOLEAN
  BY DEF IsCommandPrefix
<1>4. CASE IsCommandPrefix(Meant(text))
  <2>1. I # {} /\ I \in SUBSET (1..Len(texts))
    BY <1>2, <1>4
  <2> HIDE DEF I
  <2>2. Min(I) \in I /\ Min(I) \in 1..Len(texts)
    BY <1>2, <2>1, MinIsLeast
  <2>3. texts[Min(I)] = text /\ Min(I) # 0
    BY <1>3, <2>2
  <2>4. result = [drop |-> TRUE, does |-> Dispatch(Meant(text), commands)]
    BY <1>1, <2>1, <2>3
  <2> QED BY <1>4, <1>6, <2>4 DEF Handles
<1>5. CASE ~IsCommandPrefix(Meant(text))
  <2>1. I = {}
    BY <1>3, <1>5
  <2> HIDE DEF I
  <2>2. result = [drop |-> FALSE, does |-> Ignored]
    BY <1>1, <2>1
  <2>3. ~command
    BY <1>5
  <2> HIDE DEF command
  <2>4. command = FALSE
    BY <1>6, <2>3
  <2>5. result.drop = FALSE /\ result.does = Ignored
    BY <2>2
  <2>6. result.drop = command
    BY <2>4, <2>5, Zenon
  <2> QED BY <2>3, <2>5, <2>6 DEF command, Handles
<1> QED BY <1>4, <1>5

-----------------------------------------------------------------------------
(* The words of a command. *)

\* What Words does with a byte.
NextWords(text, i, words) ==
    CASE text[i] \in Blank -> words
      [] text[i] \notin Blank /\ (i = 1 \/ text[i - 1] \in Blank) ->
           Append(words, <<text[i]>>)
      [] OTHER -> ReplaceAt(words, Len(words), Append(words[Len(words)], text[i]))

LEMMA LastReplaced ==
    ASSUME NEW X, NEW words \in Seq(Seq(X)), NEW x \in X,
           NEW after, after = ReplaceAt(words, Len(words), Append(words[Len(words)], x))
    PROVE  /\ after \in Seq(Seq(X)) /\ Len(after) = Len(words)
           /\ \A j \in 1..(Len(words) - 1) : after[j] = words[j]
           /\ Len(words) # 0 => after[Len(words)] = Append(words[Len(words)], x)
<1> DEFINE n == Len(words)
           last == Append(words[n], x)
<1>1. n \in Nat /\ DOMAIN words = 1..n
  OBVIOUS
<1>2. after = [j \in 1..n |-> IF j = n THEN last ELSE words[j]]
  BY <1>1 DEF ReplaceAt
<1>3. ASSUME NEW j \in 1..n PROVE (IF j = n THEN last ELSE words[j]) \in Seq(X)
  <2>1. words[j] \in Seq(X)
    OBVIOUS
  <2>2. j = n => last \in Seq(X)
    BY <2>1
  <2> QED BY <2>1, <2>2
<1> HIDE DEF last
<1>4. after \in [1..n -> Seq(X)]
  BY <1>2, <1>3
<1>5. after \in Seq(Seq(X)) /\ Len(after) = n
  <2> HIDE DEF n
  <2> QED BY <1>1, <1>4
<1> HIDE DEF n
<1>6. ASSUME NEW j \in 1..(n - 1) PROVE after[j] = words[j]
  <2>1. j \in 1..n /\ j # n
    BY <1>1
  <2> QED BY <1>2, <2>1
<1>7. ASSUME n # 0 PROVE after[n] = last
  <2>1. n \in 1..n
    BY <1>1, <1>7
  <2> QED BY <1>2, <2>1
<1> QED BY <1>5, <1>6, <1>7 DEF last, n

LEMMA NextWordsTyped ==
    ASSUME NEW X, NEW text \in Seq(X), NEW i \in 1..Len(text), NEW words \in Seq(Seq(X))
    PROVE  NextWords(text, i, words) \in Seq(Seq(X))
<1>1. text[i] \in X
  OBVIOUS
<1>2. Append(words, <<text[i]>>) \in Seq(Seq(X))
  BY <1>1
<1>3. ReplaceAt(words, Len(words), Append(words[Len(words)], text[i])) \in Seq(Seq(X))
  BY <1>1, LastReplaced
<1> QED BY <1>2, <1>3, Zenon DEF NextWords

\* The words are read byte after byte.
LEMMA WordsSteps ==
    ASSUME NEW X, NEW text \in Seq(X)
    PROVE  \E f \in [0..Len(text) -> Seq(Seq(X))] :
               /\ Words(text) = f[Len(text)]
               /\ f[0] = <<>>
               /\ \A i \in 1..Len(text) : f[i] = NextWords(text, i, f[i - 1])
<1> DEFINE n == Len(text)
           V == Seq(Seq(X))
           Upto[i \in 0..Len(text)] ==
               IF i = 0 THEN <<>>
               ELSE LET words == Upto[i - 1]
                    IN  CASE text[i] \in Blank -> words
                          [] text[i] \notin Blank /\ (i = 1 \/ text[i - 1] \in Blank) ->
                               Append(words, <<text[i]>>)
                          [] OTHER -> ReplaceAt(words, Len(words),
                                                Append(words[Len(words)], text[i]))
           Body(i, f) == IF i = 0 THEN <<>> ELSE NextWords(text, i, f[i - 1])
           Step == [p \in (1..n) \X V |-> NextWords(text, p[1], p[2])]
<1>1. Words(text) = Upto[n]
  BY DEF Words
<1>2. ASSUME NEW f, f = [i \in 0..n |-> Body(i, f)]
      PROVE  Upto = [i \in 0..n |-> Body(i, Upto)]
  BY <1>2 DEF NextWords
<1> HIDE DEF Upto
<1>3. n \in Nat
  OBVIOUS
<1>4. /\ Step \in [(1..n) \X V -> V]
      /\ \A i \in 1..n, words \in V : Step[<<i, words>>] = NextWords(text, i, words)
  BY NextWordsTyped
<1>5. <<>> \in V
  OBVIOUS
<1>6. \A i \in 1..n, words \in V : NextWords(text, i, words) \in V
  BY NextWordsTyped
<1> HIDE DEF n, V, Step
<1>7. PICK f : Goes(n, V, <<>>, Step, f)
  BY <1>3, <1>4, <1>5, StepsExist
<1>8. ASSUME NEW i \in 0..n PROVE f[i] = Body(i, f)
  <2>1. CASE i = 0
    BY <1>7, <2>1 DEF Goes
  <2>2. CASE i # 0
    <3>1. i \in 1..n /\ i - 1 \in 0..n
      BY <1>3, <2>2
    <3>2. f[i - 1] \in V
      BY <1>7, <3>1 DEF Goes
    <3>3. f[i] = Step[<<i, f[i - 1]>>]
      BY <1>7, <3>1 DEF Goes
    <3> QED BY <1>4, <2>2, <3>1, <3>2, <3>3
  <2> QED BY <2>1, <2>2
<1> HIDE DEF Body
<1>9. f = [i \in 0..n |-> Body(i, f)]
  BY <1>7, <1>8 DEF Goes
<1>10. Upto = [i \in 0..n |-> Body(i, Upto)]
  BY <1>2, <1>9
<1>11. Upto[0] = <<>>
  BY <1>3, <1>10 DEF Body
<1>12. ASSUME NEW i \in 1..n PROVE Upto[i] = NextWords(text, i, Upto[i - 1])
  <2>1. i \in 0..n /\ i # 0
    BY <1>3
  <2> QED BY <1>10, <2>1 DEF Body
<1> DEFINE S == {k \in 1..(n + 1) : Upto[k - 1] \in V}
<1>13. ASSUME NEW k \in 1..(n + 1), \A j \in 1..(k - 1) : j \in S PROVE k \in S
  <2>1. CASE k = 1
    BY <1>5, <1>11, <2>1
  <2>2. CASE k # 1
    <3> DEFINE m == k - 1
    <3>1. m \in 1..n /\ m \in 1..(k - 1)
      BY <1>3, <2>2
    <3>2. Upto[m - 1] \in V
      BY <1>13, <3>1
    <3> HIDE DEF m
    <3>3. Upto[m] \in V
      BY <1>6, <1>12, <3>1, <3>2
    <3> QED BY <3>3 DEF m
  <2> QED BY <2>1, <2>2
<1> HIDE DEF S
<1>14. \A k \in 1..(n + 1) : k \in S
  BY <1>3, <1>13, UpInduction
<1>15. ASSUME NEW i \in 0..n PROVE Upto[i] \in V
  <2>1. i + 1 \in 1..(n + 1) /\ (i + 1) - 1 = i
    BY <1>3
  <2>2. i + 1 \in S
    BY <1>14, <2>1
  <2> QED BY <2>1, <2>2 DEF S
<1>16. Upto \in [0..n -> V]
  BY <1>10, <1>15
<1> QED BY <1>1, <1>11, <1>12, <1>16 DEF n, V

\* Where the words behind a prefix begin, and what a byte there does to the words so far.
Begins(line) ==
    {i \in 3..Len(line) : line[i] \notin Blank /\ (i = 3 \/ line[i - 1] \in Blank)}

Grown(line, p, words) ==
    IF line[p] \in Blank THEN words
    ELSE IF p \in Begins(line) THEN Append(words, <<line[p]>>)
    ELSE ReplaceAt(words, Len(words), Append(words[Len(words)], line[p]))

Grows(line, X, W) ==
    /\ W \in [2..Len(line) -> Seq(Seq(X))]
    /\ W[2] = <<>>
    /\ \A p \in 3..Len(line) : W[p] = Grown(line, p, W[p - 1])

\* So are those behind a prefix, at their places in the line.
LEMMA CommandSteps ==
    ASSUME NEW X, NEW line \in Seq(X), Len(line) >= 2
    PROVE  \E W : Grows(line, X, W) /\ Words(SubSeq(line, 3, Len(line))) = W[Len(line)]
<1> DEFINE L == Len(line)
           text == SubSeq(line, 3, L)
           n == L - 2
<1>1. L \in Nat /\ n \in Nat
  OBVIOUS
<1>2. /\ text \in Seq(X) /\ Len(text) = n
      /\ \A i \in 1..n : text[i] = line[i + 2]
  <2>1. 3 \in Int /\ L \in Int /\ \A i \in 3..L : line[i] \in X
    BY <1>1
  <2>2. /\ text \in Seq(X)
        /\ Len(text) = IF 3 =< L THEN L - 3 + 1 ELSE 0
        /\ \A i \in 1..(L - 3 + 1) : text[i] = line[3 + i - 1]
    BY <2>1, SubSeqProperties
  <2> HIDE DEF text
  <2>3. Len(text) = n
    <3>1. Len(text) = IF 3 =< L THEN L - 3 + 1 ELSE 0
      BY <2>2
    <3>2. L >= 2 /\ n = L - 2
      OBVIOUS
    <3> HIDE DEF L, n
    <3> QED BY <1>1, <3>1, <3>2
  <2>4. \A i \in 1..n : i \in 1..(L - 3 + 1) /\ 3 + i - 1 = i + 2
    BY <1>1
  <2> QED BY <2>2, <2>3, <2>4
<1> HIDE DEF text
<1>3. PICK f \in [0..Len(text) -> Seq(Seq(X))] :
          /\ Words(text) = f[Len(text)]
          /\ f[0] = <<>>
          /\ \A i \in 1..Len(text) : f[i] = NextWords(text, i, f[i - 1])
  BY <1>2, WordsSteps
<1> DEFINE W == [p \in 2..L |-> f[p - 2]]
<1>4. \A p \in 2..L : p - 2 \in 0..n
  BY <1>1
<1>5. W \in [2..L -> Seq(Seq(X))]
  BY <1>2, <1>3, <1>4
<1>6. W[2] = <<>> /\ W[L] = Words(text)
  <2>1. 2 \in 2..L /\ L \in 2..L
    BY <1>1
  <2> QED BY <1>2, <1>3, <2>1
<1>7. ASSUME NEW p \in 3..L PROVE W[p] = Grown(line, p, W[p - 1])
  <2> DEFINE i == p - 2
  <2>1. p \in 2..L /\ p - 1 \in 2..L /\ i \in 1..n /\ (p - 1) - 2 = i - 1 /\ i + 2 = p
    BY <1>1
  <2>2. W[p] = f[i] /\ W[p - 1] = f[i - 1]
    BY <2>1
  <2>3. f[i] = NextWords(text, i, f[i - 1])
    BY <1>2, <1>3, <2>1
  <2>4. text[i] = line[p]
    BY <1>2, <2>1
  <2>5. line[p] \notin Blank => ((i = 1 \/ text[i - 1] \in Blank) <=> p \in Begins(line))
    <3>1. i = 1 <=> p = 3
      BY <2>1
    <3>2. ASSUME i # 1 PROVE text[i - 1] = line[p - 1]
      <4>1. i - 1 \in 1..n /\ (i - 1) + 2 = p - 1
        BY <2>1, <3>2
      <4> QED BY <1>2, <4>1
    <3> QED BY <3>1, <3>2 DEF Begins
  <2> HIDE DEF i, W
  <2> QED BY <2>2, <2>3, <2>4, <2>5, Zenon DEF NextWords, Grown
<1>8. Grows(line, X, W)
  <2> HIDE DEF W
  <2> QED BY <1>5, <1>6, <1>7 DEF Grows
<1> QED BY <1>6, <1>8 DEF text

\* There are as many words as begin.
LEMMA WordsAreCounted ==
    ASSUME NEW X, NEW line \in Seq(X), Len(line) >= 2, NEW W, Grows(line, X, W)
    PROVE  \A p \in 2..Len(line) : Len(W[p]) = Cardinality({b \in Begins(line) : b =< p})
<1> DEFINE L == Len(line)
           B(p) == {b \in Begins(line) : b =< p}
           S == {k \in 1..(L - 1) : Len(W[k + 1]) = Cardinality(B(k + 1))}
<1>1. L \in Nat /\ L >= 2
  OBVIOUS
<1>2. ASSUME NEW p \in 2..L PROVE W[p] \in Seq(Seq(X)) /\ Len(W[p]) \in Nat
  BY DEF Grows
<1>3. ASSUME NEW p \in 2..L PROVE IsFiniteSet(B(p)) /\ Cardinality(B(p)) \in Nat
  <2>1. B(p) \in SUBSET Nat /\ \A b \in B(p) : b =< p
    BY DEF Begins
  <2>2. p \in Nat
    BY <1>1
  <2> HIDE DEF B
  <2>3. IsFiniteSet(B(p))
    BY <2>1, <2>2, FS_BoundedSetOfNaturals
  <2> QED BY <2>3, FS_CardinalityType
<1>4. ASSUME NEW k \in 1..(L - 1), \A j \in 1..(k - 1) : j \in S PROVE k \in S
  <2>1. CASE k = 1
    <3>1. B(2) = {}
      BY DEF Begins
    <3>2. Cardinality(B(2)) = 0
      BY <3>1, FS_EmptySet
    <3>3. Len(W[2]) = 0
      BY DEF Grows
    <3>4. k + 1 = 2
      BY <2>1
    <3> QED BY <3>2, <3>3, <3>4
  <2>2. CASE k # 1
    <3> DEFINE p == k + 1
               words == W[p - 1]
    <3>1. p \in 3..L /\ p - 1 \in 2..L /\ p \in 2..L /\ k - 1 \in 1..(k - 1) /\ (k - 1) + 1 = p - 1
      BY <1>1, <2>2
    <3>2. Len(words) = Cardinality(B(p - 1))
      <4>1. k - 1 \in S
        BY <1>4, <3>1
      <4> QED BY <3>1, <4>1
    <3>3. W[p] = Grown(line, p, words)
      BY <3>1 DEF Grows
    <3>4. words \in Seq(Seq(X)) /\ line[p] \in X
      BY <1>2, <3>1
    <3>5. IsFiniteSet(B(p - 1)) /\ p \notin B(p - 1)
      BY <1>3, <3>1
    <3> HIDE DEF p, words
    <3>6. CASE p \in Begins(line)
      <4>1. B(p) = B(p - 1) \cup {p}
        <5>1. \A b \in Begins(line) : b =< p <=> b =< p - 1 \/ b = p
          BY <3>1 DEF Begins
        <5> QED BY <3>6, <5>1
      <4> HIDE DEF B
      <4>2. Cardinality(B(p)) = Cardinality(B(p - 1)) + 1
        BY <3>5, <4>1, FS_AddElement
      <4>3. line[p] \notin Blank
        BY <3>6 DEF Begins
      <4>4. W[p] = Append(words, <<line[p]>>)
        BY <3>3, <3>6, <4>3 DEF Grown
      <4>5. Len(W[p]) = Len(words) + 1
        BY <3>4, <4>4
      <4>6. Len(W[p]) = Cardinality(B(p))
        BY <3>2, <4>2, <4>5
      <4> QED BY <4>6 DEF p, B
    <3>7. CASE p \notin Begins(line)
      <4>1. B(p) = B(p - 1)
        <5>1. \A b \in Begins(line) : b =< p <=> b =< p - 1 \/ b = p
          BY <3>1 DEF Begins
        <5> QED BY <3>7, <5>1
      <4>2. Len(W[p]) = Len(words)
        <5>1. CASE line[p] \in Blank
          BY <3>3, <5>1 DEF Grown
        <5>2. CASE line[p] \notin Blank
          <6>1. W[p] = ReplaceAt(words, Len(words), Append(words[Len(words)], line[p]))
            BY <3>3, <3>7, <5>2 DEF Grown
          <6>2. \A x \in X : \A after :
                    after = ReplaceAt(words, Len(words), Append(words[Len(words)], x))
                      => Len(after) = Len(words)
            BY <3>4, LastReplaced
          <6> QED BY <3>4, <6>1, <6>2
        <5> QED BY <5>1, <5>2
      <4> HIDE DEF B
      <4>3. Len(W[p]) = Cardinality(B(p))
        BY <3>2, <4>1, <4>2
      <4> QED BY <4>3 DEF p, B
    <3> QED BY <3>6, <3>7
  <2> QED BY <2>1, <2>2
<1> HIDE DEF S
<1>5. \A k \in 1..(L - 1) : k \in S
  <2> DEFINE N == L - 1
  <2>1. N \in Nat
    BY <1>1
  <2> HIDE DEF N
  <2>2. \A k \in 1..N : k \in S
    BY <1>4, <2>1, UpInduction DEF N
  <2> QED BY <2>2 DEF N
<1>6. ASSUME NEW p \in 2..L PROVE Len(W[p]) = Cardinality(B(p))
  <2>1. p - 1 \in 1..(L - 1) /\ (p - 1) + 1 = p
    BY <1>1
  <2>2. p - 1 \in S
    BY <1>5, <2>1
  <2> QED BY <2>1, <2>2 DEF S
<1> QED BY <1>6

\* What the words up to a place tell of the first, which begins at m.
Leads(line, X, m, p, words) ==
    /\ words \in Seq(Seq(X)) /\ Len(words) # 0
    /\ Len(words[1]) # 0 /\ words[1][1] = line[m]
    /\ Len(words[1]) = 1 <=> (p = m \/ line[m + 1] \in Blank)
    /\ p = m => Len(words) = 1
    /\ (p > m /\ line[m + 1] \in Blank /\ line[p] \notin Blank) => Len(words) >= 2

\* What is told of the first word stays true when another byte is read.
LEMMA LeadGrows ==
    ASSUME NEW X, NEW line \in Seq(X), NEW m \in 3..Len(line), line[m] \notin Blank,
           NEW p \in (m + 1)..Len(line),
           NEW words, Leads(line, X, m, p - 1, words)
    PROVE  Leads(line, X, m, p, Grown(line, p, words))
<1> DEFINE w == words[1]
           after == Grown(line, p, words)
<1>1. /\ words \in Seq(Seq(X)) /\ Len(words) \in Nat \ {0} /\ line[p] \in X
      /\ w \in Seq(X) /\ Len(w) \in Nat \ {0}
      /\ p \in Nat /\ m \in Nat /\ p > m
  BY DEF Leads
<1>2. w[1] = line[m]
  BY DEF Leads
<1>3. CASE line[p] \in Blank
  <2>1. after = words
    BY <1>3 DEF Grown
  <2>2. Len(w) = 1 <=> line[m + 1] \in Blank
    <3>1. p - 1 = m => p = m + 1
      BY <1>1
    <3>2. Len(w) = 1 <=> (p - 1 = m \/ line[m + 1] \in Blank)
      BY DEF Leads
    <3> QED BY <1>3, <3>1, <3>2
  <2> QED BY <1>1, <1>2, <1>3, <2>1, <2>2 DEF Leads
<1>4. CASE p \in Begins(line) /\ line[p] \notin Blank
  <2>1. after = Append(words, <<line[p]>>)
    BY <1>4 DEF Grown
  <2>2. /\ after \in Seq(Seq(X)) /\ Len(after) = Len(words) + 1 /\ after[1] = w
    BY <1>1, <2>1
  <2>3. p - 1 # m
    <3>1. p # 3
      BY <1>1
    <3>2. line[p - 1] \in Blank
      BY <1>4, <3>1 DEF Begins
    <3> QED BY <3>2
  <2>4. Len(w) = 1 <=> line[m + 1] \in Blank
    BY <2>3 DEF Leads
  <2> HIDE DEF after, w
  <2> QED BY <1>1, <1>2, <2>2, <2>4 DEF Leads, after
<1>5. CASE p \notin Begins(line) /\ line[p] \notin Blank
  <2> DEFINE n == Len(words)
             last == Append(words[n], line[p])
  <2>1. after = ReplaceAt(words, n, last)
    BY <1>5 DEF Grown
  <2>2. /\ after \in Seq(Seq(X)) /\ Len(after) = n
        /\ \A j \in 1..(n - 1) : after[j] = words[j]
        /\ after[n] = last
    <3>1. \A x \in X : \A to : to = ReplaceAt(words, Len(words), Append(words[Len(words)], x)) =>
              /\ to \in Seq(Seq(X)) /\ Len(to) = Len(words)
              /\ \A j \in 1..(Len(words) - 1) : to[j] = words[j]
              /\ Len(words) # 0 => to[Len(words)] = Append(words[Len(words)], x)
      BY <1>1, LastReplaced
    <3> HIDE DEF after
    <3> QED BY <1>1, <2>1, <3>1
  <2>3. line[p - 1] \notin Blank
    <3>1. p \in 3..Len(line)
      BY <1>1
    <3> QED BY <1>5, <3>1 DEF Begins
  <2>4. p - 1 = m \/ line[m + 1] \notin Blank \/ n >= 2
    <3>1. p - 1 # m => p - 1 > m
      BY <1>1
    <3> QED BY <2>3, <3>1 DEF Leads
  <2>5. Len(w) = 1 <=> (p - 1 = m \/ line[m + 1] \in Blank)
    BY DEF Leads
  <2>6. p - 1 = m => n = 1 /\ line[m + 1] \notin Blank
    <3>1. p - 1 = m => p = m + 1
      BY <1>1
    <3> QED BY <1>5, <3>1 DEF Leads
  <2>7. CASE n = 1
    <3>1. line[m + 1] \notin Blank
      BY <2>4, <2>6, <2>7
    <3>2. after[1] = Append(w, line[p])
      BY <2>2, <2>7
    <3> HIDE DEF w, after
    <3>3. Len(after[1]) = Len(w) + 1 /\ after[1][1] = w[1]
      BY <1>1, <3>2
    <3>4. Len(after[1]) # 1
      BY <1>1, <3>3
    <3> QED BY <1>1, <1>2, <2>2, <2>7, <3>1, <3>3, <3>4 DEF Leads, after
  <2>8. CASE n # 1
    <3>1. n >= 2 /\ 1 \in 1..(n - 1) /\ p - 1 # m
      <4>1. n \in Nat \ {0}
        BY <1>1
      <4> HIDE DEF n, last, after
      <4>2. n >= 2 /\ 1 \in 1..(n - 1)
        BY <2>8, <4>1
      <4>3. p - 1 # m
        BY <2>6, <2>8
      <4> QED BY <4>2, <4>3
    <3>2. after[1] = w
      BY <2>2, <3>1
    <3> HIDE DEF w, after
    <3> QED BY <1>1, <1>2, <2>2, <2>5, <3>1, <3>2 DEF Leads, after
  <2> QED BY <2>7, <2>8
<1> QED BY <1>3, <1>4, <1>5

LEMMA FirstWordIs ==
    ASSUME NEW X, NEW line \in Seq(X), Len(line) >= 2, NEW W, Grows(line, X, W),
           NEW m \in Begins(line), \A b \in Begins(line) : m =< b
    PROVE  Leads(line, X, m, Len(line), W[Len(line)])
<1> DEFINE L == Len(line)
           n == L - m + 1
           S == {k \in 1..n : Leads(line, X, m, m + k - 1, W[m + k - 1])}
<1>1. /\ L \in Nat /\ m \in 3..L /\ m \in Nat /\ n \in Nat \ {0} /\ m - 1 \in 2..L
      /\ line[m] \notin Blank
  BY DEF Begins
<1>2. W[m - 1] = <<>>
  <2>1. {b \in Begins(line) : b =< m - 1} = {}
    <3>1. \A b \in Begins(line) : b \in Nat /\ m =< b
      BY DEF Begins
    <3> HIDE DEF L, n, S
    <3>2. \A b \in Begins(line) : ~(b =< m - 1)
      BY <1>1, <3>1
    <3> QED BY <3>2
  <2>2. Len(W[m - 1]) = Cardinality({b \in Begins(line) : b =< m - 1})
    BY <1>1, WordsAreCounted
  <2>3. Len(W[m - 1]) = 0
    BY <2>1, <2>2, FS_EmptySet
  <2>4. W[m - 1] \in Seq(Seq(X))
    BY <1>1 DEF Grows
  <2> QED BY <2>3, <2>4
<1>3. Leads(line, X, m, m, W[m])
  <2> DEFINE words == W[m]
  <2>1. W[m] = Grown(line, m, W[m - 1])
    BY <1>1 DEF Grows
  <2>2. W[m] = Append(<<>>, <<line[m]>>)
    BY <1>1, <1>2, <2>1 DEF Grown
  <2> HIDE DEF words
  <2>3. line[m] \in X
    BY <1>1
  <2>4. /\ words \in Seq(Seq(X)) /\ Len(words) = 1 /\ words[1] = <<line[m]>>
    BY <2>2, <2>3 DEF words
  <2>5. Len(words[1]) = 1 /\ words[1][1] = line[m]
    BY <2>4
  <2>6. ~(m > m)
    BY <1>1
  <2> QED BY <2>4, <2>5, <2>6 DEF Leads, words
<1>4. ASSUME NEW k \in 1..n, \A j \in 1..(k - 1) : j \in S PROVE k \in S
  <2>1. CASE k = 1
    <3>1. m + k - 1 = m
      BY <1>1, <2>1
    <3> QED BY <1>3, <3>1
  <2>2. CASE k # 1
    <3> DEFINE p == m + k - 1
    <3>1. /\ p \in (m + 1)..L /\ p \in 3..L /\ k - 1 \in 1..(k - 1)
          /\ m + (k - 1) - 1 = p - 1
      BY <1>1, <2>2
    <3>2. Leads(line, X, m, p - 1, W[p - 1])
      <4>1. k - 1 \in S
        BY <1>4, <3>1
      <4> QED BY <3>1, <4>1
    <3>3. W[p] = Grown(line, p, W[p - 1])
      BY <3>1 DEF Grows
    <3> HIDE DEF p
    <3>4. Leads(line, X, m, p, W[p])
      BY <1>1, <3>1, <3>2, <3>3, LeadGrows
    <3> QED BY <3>4 DEF p
  <2> QED BY <2>1, <2>2
<1> HIDE DEF S
<1>5. \A k \in 1..n : k \in S
  <2> HIDE DEF n
  <2> QED BY <1>1, <1>4, UpInduction
<1>6. n \in S /\ m + n - 1 = L
  BY <1>1, <1>5
<1> QED BY <1>6 DEF S

\* What the dispatcher takes from the words behind a prefix.
LEMMA WordsTell ==
    ASSUME NEW X, NEW line \in Seq(X), Len(line) >= 2,
           NEW words, words = Words(SubSeq(line, 3, Len(line)))
    PROVE  /\ words \in Seq(Seq(X))
           /\ Len(words) = Cardinality(Begins(line))
           /\ words = <<>> <=> Begins(line) = {}
           /\ Begins(line) # {} =>
                 Leads(line, X, Min(Begins(line)), Len(line), words)
<1> DEFINE L == Len(line)
           B == Begins(line)
<1>1. PICK W : Grows(line, X, W) /\ words = W[L]
  BY CommandSteps
<1>2. L \in Nat /\ L \in 2..L
  OBVIOUS
<1>3. words \in Seq(Seq(X))
  BY <1>1, <1>2 DEF Grows
<1>4. B \in SUBSET (1..L) /\ {b \in B : b =< L} = B
  BY <1>2 DEF Begins
<1> HIDE DEF B
<1>5. Len(words) = Cardinality(B)
  <2>1. Len(words) = Cardinality({b \in B : b =< L})
    BY <1>1, <1>2, WordsAreCounted DEF B
  <2> QED BY <1>4, <2>1
<1>6. words = <<>> <=> B = {}
  <2>1. IsFiniteSet(B)
    <3>1. IsFiniteSet(1..L)
      BY <1>2, FS_Interval
    <3> QED BY <1>4, <3>1, FS_Subset
  <2>2. Cardinality(B) = 0 <=> B = {}
    BY <2>1, FS_EmptySet
  <2>3. words = <<>> <=> Len(words) = 0
    BY <1>3
  <2> QED BY <1>5, <2>2, <2>3
<1>7. ASSUME B # {} PROVE Leads(line, X, Min(B), L, words)
  <2>1. Min(B) \in B /\ \A j \in 1..(Min(B) - 1) : j \notin B
    BY <1>2, <1>4, <1>7, MinIsLeast
  <2>2. \A b \in B : Min(B) =< b
    <3>1. \A b \in B : b \in 1..L
      BY <1>4
    <3> HIDE DEF L
    <3> QED BY <2>1, <3>1
  <2> QED BY <1>1, <2>1, <2>2, FirstWordIs DEF B
<1> QED BY <1>3, <1>5, <1>6, <1>7 DEF B

-----------------------------------------------------------------------------
(* Lines of the chat. *)

\* What a line has to be to be a command, and to be one of the command that is called a.
IsCommand(line) ==
    /\ Len(line) >= 2 /\ line[1] = ";" /\ line[2] = ";"
    /\ Len(line) = 2 \/ line[3] # ";"

CallsA(line) ==
    LET m == Min(Begins(line))
    IN  /\ Begins(line) # {} /\ line[m] \in {"a", "A"}
        /\ m = Len(line) \/ line[m + 1] \in Blank

LEMMA PartIs ==
    ASSUME NEW X, NEW s \in Seq(X), NEW m \in Nat \ {0}, NEW n \in Nat,
           m =< n + 1, n =< Len(s)
    PROVE  /\ SubSeq(s, m, n) \in Seq(X) /\ Len(SubSeq(s, m, n)) = n - m + 1
           /\ \A j \in 1..(n - m + 1) : SubSeq(s, m, n)[j] = s[m + j - 1]
<1> DEFINE part == SubSeq(s, m, n)
<1>1. \A k \in m..n : s[k] \in X
  <2>1. \A k \in m..n : k \in 1..Len(s)
    OBVIOUS
  <2> QED BY <2>1
<1>2. /\ part \in Seq(X)
      /\ Len(part) = IF m =< n THEN n - m + 1 ELSE 0
      /\ \A j \in 1..(n - m + 1) : part[j] = s[m + j - 1]
  <2>1. m \in Int /\ n \in Int
    OBVIOUS
  <2> QED BY <1>1, <2>1, SubSeqProperties
<1>3. n - m + 1 = IF m =< n THEN n - m + 1 ELSE 0
  OBVIOUS
<1> HIDE DEF part
<1>4. Len(part) = n - m + 1
  BY <1>2, <1>3
<1> QED BY <1>2, <1>4 DEF part

LEMMA FirstTwo ==
    ASSUME NEW X, NEW s \in Seq(X), Len(s) >= 2
    PROVE  /\ SubSeq(s, 1, 2) \in Seq(X) /\ Len(SubSeq(s, 1, 2)) = 2
           /\ SubSeq(s, 1, 2)[1] = s[1] /\ SubSeq(s, 1, 2)[2] = s[2]
<1>1. Len(s) \in Nat
  OBVIOUS
<1> QED BY <1>1

LEMMA PairsAgree ==
    ASSUME NEW X, NEW a \in Seq(X), NEW b \in Seq(X), Len(a) = 2, Len(b) = 2
    PROVE  a = b <=> a[1] = b[1] /\ a[2] = b[2]
OBVIOUS

LEMMA PrefixIs ==
    ASSUME NEW X, NEW line \in Seq(X)
    PROVE  IsPrefix(Prefix, line) <=> Len(line) >= 2 /\ line[1] = ";" /\ line[2] = ";"
<1> DEFINE a == SubSeq(line, 1, 2)
           b == SubSeq(Prefix, 1, 2)
<1>1. Len(line) \in Nat
  OBVIOUS
<1>2. /\ Prefix \in Seq({";"}) /\ Len(Prefix) = 2
      /\ Prefix[1] = ";" /\ Prefix[2] = ";"
  <2>1. ";" \in {";"}
    OBVIOUS
  <2> QED BY <2>1, Pair DEF Prefix
<1>3. b \in Seq({";"}) /\ Len(b) = 2 /\ b[1] = ";" /\ b[2] = ";"
  <2>1. Len(Prefix) >= 2
    <3>1. 2 >= 2
      OBVIOUS
    <3> QED BY <1>2, <3>1, Zenon
  <2>2. b \in Seq({";"}) /\ Len(b) = 2 /\ b[1] = Prefix[1] /\ b[2] = Prefix[2]
    BY <1>2, <2>1, FirstTwo
  <2> QED BY <1>2, <2>2
<1>4. ASSUME Len(line) >= 2
      PROVE  a = b <=> line[1] = ";" /\ line[2] = ";"
  <2>1. a \in Seq(X) /\ Len(a) = 2 /\ a[1] = line[1] /\ a[2] = line[2]
    BY <1>4, FirstTwo
  <2> HIDE DEF a, b
  <2>2. a = b <=> a[1] = b[1] /\ a[2] = b[2]
    <3>1. \A Y, Z, s : s \in Seq(Y) => s \in Seq(Y \cup Z) /\ s \in Seq(Z \cup Y)
      OBVIOUS
    <3>2. a \in Seq(X \cup {";"}) /\ b \in Seq(X \cup {";"})
      BY <1>3, <2>1, <3>1
    <3> QED BY <1>3, <2>1, <3>2, PairsAgree
  <2> QED BY <1>3, <2>1, <2>2
<1>5. IsPrefix(Prefix, line) <=> Len(line) >= 2 /\ a = b
  BY <1>1, <1>2 DEF IsPrefix
<1> HIDE DEF a, b
<1> QED BY <1>4, <1>5

\* The prefix stands before a line when its first two bytes do and no third one.
LEMMA PrefixTells ==
    ASSUME NEW X, NEW line \in Seq(X)
    PROVE  IsCommandPrefix(line) <=> IsCommand(line)
<1>1. Len(line) \in Nat
  OBVIOUS
<1>2. IsPrefix(Prefix, line) <=> Len(line) >= 2 /\ line[1] = ";" /\ line[2] = ";"
  BY PrefixIs
<1>3. IsCommandPrefix(line) <=> IsPrefix(Prefix, line) /\ (Len(line) =< 2 \/ line[3] # ";")
  <2>1. Len(line) > 2 <=> ~(Len(line) =< 2)
    BY <1>1
  <2> QED BY <2>1 DEF IsCommandPrefix
<1>4. Len(line) >= 2 => (Len(line) =< 2 <=> Len(line) = 2)
  <2>1. \A k \in Nat : k >= 2 => (k =< 2 <=> k = 2)
    OBVIOUS
  <2> QED BY <1>1, <2>1, Zenon
<1> QED BY <1>2, <1>3, <1>4, Zenon DEF IsCommand

\* What is a in lower case is a or A.
LEMMA LowerIs ==
    ASSUME NEW X, NEW word \in Seq(X), Len(word) # 0
    PROVE  ToLower(word) = <<"a">> <=> Len(word) = 1 /\ word[1] \in {"a", "A"}
<1> DEFINE low == ToLower(word)
           Lower(x) == IF x = "A" THEN "a" ELSE x
           n == Len(word)
<1>1. n \in Nat \ {0}
  OBVIOUS
<1>2. low = [i \in 1..n |-> Lower(word[i])]
  BY DEF ToLower, ReplaceAll
<1>3. low \in Seq(X \cup {"a"}) /\ Len(low) = n /\ low[1] = Lower(word[1])
  <2>1. \A i \in 1..n : Lower(word[i]) \in X \cup {"a"}
    OBVIOUS
  <2> HIDE DEF Lower
  <2>2. low \in [1..n -> X \cup {"a"}]
    BY <1>2, <2>1
  <2>3. 1 \in 1..n
    BY <1>1
  <2> HIDE DEF low, n
  <2> QED BY <1>1, <1>2, <2>2, <2>3
<1> HIDE DEF low
<1>4. low = <<"a">> <=> Len(low) = 1 /\ low[1] = "a"
  <2> DEFINE one == <<"a">>
  <2>1. one \in Seq(X \cup {"a"}) /\ Len(one) = 1 /\ one[1] = "a"
    OBVIOUS
  <2> HIDE DEF one
  <2>2. low = one <=> Len(low) = 1 /\ low[1] = one[1]
    <3>1. ASSUME Len(low) = 1, low[1] = one[1] PROVE low = one
      BY <1>3, <2>1, <3>1
    <3> QED BY <2>1, <3>1
  <2> QED BY <2>1, <2>2 DEF one
<1>5. Lower(word[1]) = "a" <=> word[1] \in {"a", "A"}
  OBVIOUS
<1> QED BY <1>3, <1>4, <1>5 DEF low

\* The command that is called a, in capitals and behind prefixes.
LEMMA RegisteredIs == RegisteredName(<<";", ";", ";", ";", "A">>) = <<"a">>
<1> DEFINE name == <<";", ";", ";", ";", "A">>
           From[i \in 1..(Len(name) + 1)] ==
               LET rest == SubSeq(name, i, Len(name))
               IN  IF IsPrefix(Prefix, rest) THEN From[i + 2] ELSE ToLower(rest)
           Rest(i) == SubSeq(name, i, Len(name))
           Body(i, f) == IF IsPrefix(Prefix, Rest(i)) THEN f[i + 2] ELSE ToLower(Rest(i))
           X == {";", "A"}
<1>1. RegisteredName(name) = From[1]
  BY DEF RegisteredName
<1>2. ASSUME NEW f, f = [i \in 1..(Len(name) + 1) |-> Body(i, f)]
      PROVE  From = [i \in 1..(Len(name) + 1) |-> Body(i, From)]
  BY <1>2
<1> HIDE DEF From
<1>3. /\ name \in Seq(X) /\ Len(name) = 5
      /\ name[1] = ";" /\ name[2] = ";" /\ name[3] = ";" /\ name[4] = ";" /\ name[5] = "A"
  OBVIOUS
<1> HIDE DEF name
<1>4. ASSUME NEW i \in 1..6
      PROVE  /\ Rest(i) \in Seq(X) /\ Len(Rest(i)) = 6 - i
             /\ \A j \in 1..(6 - i) : Rest(i)[j] = name[i + j - 1]
  <2>1. /\ i \in Nat \ {0} /\ 5 \in Nat /\ i =< 5 + 1 /\ 5 =< 5 /\ 5 - i + 1 = 6 - i
    OBVIOUS
  <2>2. Rest(i) = SubSeq(name, i, 5)
    BY <1>3
  <2>4. 5 =< Len(name)
    BY <1>3, <2>1, Zenon
  <2>3. /\ SubSeq(name, i, 5) \in Seq(X) /\ Len(SubSeq(name, i, 5)) = 5 - i + 1
        /\ \A j \in 1..(5 - i + 1) : SubSeq(name, i, 5)[j] = name[i + j - 1]
    BY <1>3, <2>1, <2>4, PartIs
  <2> HIDE DEF Rest
  <2> QED BY <2>1, <2>2, <2>3
<1> HIDE DEF Rest
<1>5. ASSUME NEW rest \in Seq(X)
      PROVE  IsPrefix(Prefix, rest) <=> Len(rest) >= 2 /\ rest[1] = ";" /\ rest[2] = ";"
  BY PrefixIs
<1>6. ASSUME NEW i \in 1..3 PROVE IsPrefix(Prefix, Rest(i))
  <2>1. /\ i \in 1..6 /\ 6 - i >= 2 /\ 1 \in 1..(6 - i) /\ 2 \in 1..(6 - i)
        /\ i + 1 - 1 = i /\ i + 2 - 1 = i + 1
    OBVIOUS
  <2>2. name[i] = ";" /\ name[i + 1] = ";"
    <3>1. CASE i = 1
      <4>1. i + 1 = 2
        BY <3>1
      <4> QED BY <1>3, <3>1, <4>1
    <3>2. CASE i = 2
      <4>1. i + 1 = 3
        BY <3>2
      <4> QED BY <1>3, <3>2, <4>1
    <3>3. CASE i = 3
      <4>1. i + 1 = 4
        BY <3>3
      <4> QED BY <1>3, <3>3, <4>1
    <3>4. i = 1 \/ i = 2 \/ i = 3
      OBVIOUS
    <3> QED BY <3>1, <3>2, <3>3, <3>4
  <2>3. Rest(i)[1] = name[i] /\ Rest(i)[2] = name[i + 1]
    BY <1>4, <2>1
  <2>4. Rest(i) \in Seq(X) /\ Len(Rest(i)) >= 2
    BY <1>4, <2>1
  <2> QED BY <1>5, <2>2, <2>3, <2>4
<1>7. ASSUME NEW i \in 4..6 PROVE ~IsPrefix(Prefix, Rest(i))
  <2>1. CASE i = 4
    <3>1. i \in 1..6 /\ 2 \in 1..(6 - i) /\ i + 2 - 1 = 5
      BY <2>1
    <3>2. Rest(i)[2] = "A" /\ Rest(i) \in Seq(X)
      BY <1>3, <1>4, <3>1
    <3> QED BY <1>5, <3>2
  <2>2. CASE i # 4
    <3>1. i \in 1..6 /\ ~(6 - i >= 2)
      BY <2>2
    <3>2. Rest(i) \in Seq(X) /\ ~(Len(Rest(i)) >= 2)
      BY <1>4, <3>1
    <3> QED BY <1>5, <3>2
  <2> QED BY <2>1, <2>2
<1> DEFINE f == [i \in 1..6 |-> IF i \in {1, 3, 5} THEN ToLower(Rest(5))
                                ELSE IF i \in {2, 4} THEN ToLower(Rest(4))
                                ELSE ToLower(Rest(6))]
<1>8. \A i \in 1..6 : f[i] = Body(i, f)
  <2>1. ASSUME NEW i \in 1..3 PROVE f[i] = Body(i, f)
    <3>1. i = 1 \/ i = 2 \/ i = 3
      OBVIOUS
    <3>2. Body(i, f) = f[i + 2]
      BY <1>6
    <3>3. f[i] = f[i + 2]
      BY <3>1
    <3> QED BY <3>2, <3>3
  <2>2. ASSUME NEW i \in 4..6 PROVE f[i] = Body(i, f)
    <3>1. i = 4 \/ i = 5 \/ i = 6
      OBVIOUS
    <3>2. Body(i, f) = ToLower(Rest(i))
      BY <1>7
    <3>3. f[i] = ToLower(Rest(i))
      BY <3>1
    <3> QED BY <3>2, <3>3
  <2>3. \A i \in 1..6 : i \in 1..3 \/ i \in 4..6
    OBVIOUS
  <2> HIDE DEF f, Body
  <2> QED BY <2>1, <2>2, <2>3
<1> HIDE DEF Body
<1>9. f = [i \in 1..6 |-> Body(i, f)]
  BY <1>8
<1> HIDE DEF f
<1>10. From = [i \in 1..6 |-> Body(i, From)]
  <2>1. 1..(Len(name) + 1) = 1..6
    <3>1. 5 + 1 = 6
      OBVIOUS
    <3> QED BY <1>3, <3>1
  <2>2. f = [i \in 1..(Len(name) + 1) |-> Body(i, f)]
    BY <1>9, <2>1
  <2>3. From = [i \in 1..(Len(name) + 1) |-> Body(i, From)]
    BY <1>2, <2>2
  <2> QED BY <2>1, <2>3
<1>11. From[1] = ToLower(Rest(5))
  <2>0. \A i \in 1..6 : From[i] = Body(i, From)
    BY <1>10
  <2>1. From[1] = From[3]
    BY <1>6, <2>0 DEF Body
  <2>2. From[3] = From[5]
    BY <1>6, <2>0 DEF Body
  <2>3. From[5] = ToLower(Rest(5))
    BY <1>7, <2>0 DEF Body
  <2> QED BY <2>1, <2>2, <2>3
<1>12. ToLower(Rest(5)) = <<"a">>
  <2> DEFINE word == Rest(5)
  <2>1. word \in Seq(X) /\ Len(word) = 1 /\ word[1] = "A"
    <3>1. 5 \in 1..6 /\ 6 - 5 = 1 /\ 1 \in 1..(6 - 5) /\ 5 + 1 - 1 = 5
      OBVIOUS
    <3> QED BY <1>3, <1>4, <3>1
  <2> HIDE DEF word
  <2>2. "A" \in {"a", "A"} /\ Len(word) # 0
    <3>1. 1 # 0
      OBVIOUS
    <3> QED BY <2>1, <3>1, Zenon
  <2>3. ToLower(word) = <<"a">>
    BY <2>1, <2>2, LowerIs
  <2> QED BY <2>3 DEF word
<1> QED BY <1>1, <1>11, <1>12 DEF name

\* What the dispatcher does with a line that is a command, when the only one is called a.
LEMMA DispatchTells ==
    ASSUME NEW P, Plain(P), NEW line \in Seq(P), Trim(line) = line, IsCommand(line),
           NEW does, does = Dispatch(line, {<<"a">>})
    PROVE  /\ does.consumed = TRUE
           /\ does.runs # <<>> <=> CallsA(line)
           /\ CallsA(line) => Len(does.args) = Cardinality(Begins(line)) - 1
<1> DEFINE words == Words(SubSeq(line, 3, Len(line)))
           name == ToLower(words[1])
           B == Begins(line)
<1>1. Trim(StripColorCodes(line)) = line
  <2>1. StripColorCodes(line) = line
    BY PlainIsShown
  <2> QED BY <2>1
<1>2. IsCommandPrefix(line)
  BY PrefixTells
<1>3. words = <<>> => does = [Ignored EXCEPT !.consumed = TRUE]
  BY <1>1, <1>2 DEF Dispatch
<1>4. words # <<>> => does = [consumed |-> TRUE,
                              runs |-> IF name \in {<<"a">>} THEN name ELSE <<>>,
                              args |-> IF name \in {<<"a">>} THEN Tail(words) ELSE <<>>]
  BY <1>1, <1>2 DEF Dispatch
<1>5. Len(line) >= 2
  BY DEF IsCommand
<1>6. /\ words \in Seq(Seq(P)) /\ Len(words) = Cardinality(B)
      /\ words = <<>> <=> B = {}
      /\ B # {} => Leads(line, P, Min(B), Len(line), words)
  BY <1>5, WordsTell
<1> DEFINE m == Min(B)
<1>7. CASE B = {}
  <2>1. ~CallsA(line)
    BY <1>7 DEF CallsA
  <2>2. does.consumed = TRUE /\ does.runs = <<>>
    BY <1>3, <1>6, <1>7 DEF Ignored
  <2> QED BY <2>1, <2>2
<1>8. CASE B # {}
  <2>1. /\ Len(words) # 0 /\ Len(words[1]) # 0 /\ words[1][1] = line[m]
        /\ Len(words[1]) = 1 <=> (Len(line) = m \/ line[m + 1] \in Blank)
    BY <1>6, <1>8 DEF Leads
  <2>2. words[1] \in Seq(P)
    BY <1>6, <2>1
  <2> HIDE DEF words, name
  <2>3. name = <<"a">> <=> CallsA(line)
    <3>1. name = <<"a">> <=> Len(words[1]) = 1 /\ words[1][1] \in {"a", "A"}
      BY <2>1, <2>2, LowerIs DEF name
    <3> QED BY <1>8, <2>1, <3>1, Zenon DEF CallsA
  <2>4. <<"a">> # <<>>
    OBVIOUS
  <2>5. /\ does.consumed = TRUE
        /\ does.runs = IF name \in {<<"a">>} THEN name ELSE <<>>
        /\ does.args = IF name \in {<<"a">>} THEN Tail(words) ELSE <<>>
    <3> DEFINE runs == IF name \in {<<"a">>} THEN name ELSE <<>>
               args == IF name \in {<<"a">>} THEN Tail(words) ELSE <<>>
    <3>1. words # <<>>
      BY <1>6, <1>8
    <3>2. does = [consumed |-> TRUE, runs |-> runs, args |-> args]
      BY <1>4, <3>1
    <3> HIDE DEF runs, args
    <3>3. does.consumed = TRUE /\ does.runs = runs /\ does.args = args
      BY <3>2
    <3> QED BY <3>3 DEF runs, args
  <2>6. does.runs # <<>> <=> name = <<"a">>
    BY <2>4, <2>5, Zenon
  <2>7. ASSUME CallsA(line) PROVE Len(does.args) = Cardinality(B) - 1
    <3>1. does.args = Tail(words)
      BY <2>3, <2>5, <2>7
    <3>2. Len(Tail(words)) = Len(words) - 1
      BY <1>6, <2>1
    <3> QED BY <1>6, <3>1, <3>2
  <2> QED BY <2>3, <2>5, <2>6, <2>7
<1> QED BY <1>7, <1>8

\* The name of the author is no command, nor is no text.
LEMMA NoCommandAlone ==
    ~IsCommandPrefix(Meant(<<"a">>)) /\ ~IsCommandPrefix(Meant(<<>>))
<1> DEFINE P == {"a"}
<1>1. Plain(P)
  BY DEF Plain, Cedilla, Colour
<1>2. ASSUME NEW s \in Seq(P) PROVE ~IsCommandPrefix(Meant(s))
  <2>1. StripColorCodes(s) = s
    BY <1>1, PlainIsShown
  <2>2. Trim(s) \in Seq(P)
    BY TrimTells
  <2> DEFINE line == Trim(s)
  <2>3. ~IsCommand(line)
    <3>1. ASSUME Len(line) >= 2 PROVE line[1] = "a"
      <4>1. 1 \in 1..Len(line)
        BY <2>2, <3>1
      <4> QED BY <2>2, <4>1
    <3> QED BY <3>1 DEF IsCommand
  <2> HIDE DEF line
  <2>4. ~IsCommandPrefix(line)
    BY <2>2, <2>3, PrefixTells DEF line
  <2> QED BY <2>1, <2>4 DEF Meant, line
<1>3. <<"a">> \in Seq(P) /\ <<>> \in Seq(P)
  OBVIOUS
<1> QED BY <1>2, <1>3

LEMMA GlyphIsShort ==
    ASSUME NEW g
    PROVE  Len(GlyphBytes(g)) \in Nat /\ Len(GlyphBytes(g)) =< 3
<1>1. CASE g = Colour
  <2>1. Len(<<"C2", "A7", "c">>) = 3
    OBVIOUS
  <2> QED BY <1>1, <2>1 DEF GlyphBytes, Colour, Cedilla
<1>2. CASE g = Cedilla
  <2>1. Len(<<"C3", "A7">>) = 2
    OBVIOUS
  <2> QED BY <1>2, <2>1 DEF GlyphBytes, Colour, Cedilla
<1>3. CASE g \notin {Colour, Cedilla}
  <2>1. Len(<<g>>) = 1
    OBVIOUS
  <2>2. GlyphBytes(g) = <<g>>
    BY <1>3 DEF GlyphBytes
  <2> QED BY <2>1, <2>2
<1> QED BY <1>1, <1>2, <1>3

\* A text is at most three times as long as what was written.
LEMMA BytesAreFew ==
    ASSUME NEW G, Settled(G), NEW glyphs \in Seq(G)
    PROVE  Len(Bytes(glyphs)) \in Nat /\ Len(Bytes(glyphs)) =< 3 * Len(glyphs)
<1> DEFINE n == Len(glyphs)
           X == AsWritten(G)
           seqs == GlyphWords(glyphs)
           all == FlattenSeq(seqs)
<1>1. n \in Nat
  OBVIOUS
<1>2. seqs \in Seq(Seq(X)) /\ Len(seqs) = n /\ Bytes(glyphs) = all
  BY WordsTyped
<1>3. \A k \in 1..n : Len(seqs[k]) \in Nat /\ Len(seqs[k]) =< 3
  BY GlyphIsShort DEF GlyphWords
<1> HIDE DEF seqs, X, n
<1>4. CASE n = 0
  <2>1. seqs = <<>>
    BY <1>2, <1>4
  <2>2. all = <<>>
    BY <2>1 DEF FlattenSeq
  <2> QED BY <1>2, <1>4, <2>2 DEF n
<1>5. CASE n # 0
  <2>1. all \in Seq(X) /\ \E at \in [1..(n + 1) -> Nat \ {0}] : LieAt(seqs, all, at)
    BY <1>2, <1>5, FlattenPlaces
  <2> HIDE DEF all
  <2>2. PICK at \in [1..(n + 1) -> Nat \ {0}] : LieAt(seqs, all, at)
    BY <2>1
  <2>3. /\ at[1] = 1 /\ at[n + 1] = Len(all) + 1
        /\ \A k \in 1..n : at[k + 1] = at[k] + Len(seqs[k])
    BY <1>2, <2>2 DEF LieAt
  <2> DEFINE S == {k \in 1..(n + 1) : at[k] =< 3 * (k - 1) + 1}
  <2>4. \A k \in 1..(n + 1) : (\A j \in 1..(k - 1) : j \in S) => k \in S
    <3> SUFFICES ASSUME NEW k \in 1..(n + 1), \A j \in 1..(k - 1) : j \in S PROVE k \in S
      OBVIOUS
    <3>1. CASE k = 1
      BY <1>1, <2>3, <3>1
    <3>2. CASE k # 1
      <4>1. k - 1 \in 1..(k - 1) /\ k - 1 \in 1..n /\ (k - 1) + 1 = k
        BY <1>1, <3>2
      <4>2. at[k - 1] =< 3 * ((k - 1) - 1) + 1
        BY <4>1
      <4>3. at[k] = at[k - 1] + Len(seqs[k - 1])
        BY <2>3, <4>1
      <4>4. Len(seqs[k - 1]) \in Nat /\ Len(seqs[k - 1]) =< 3
        BY <1>3, <4>1
      <4>5. at[k - 1] \in Nat
        BY <1>1, <4>1
      <4>6. at[k] =< 3 * (k - 1) + 1
        BY <4>2, <4>3, <4>4, <4>5
      <4> QED BY <4>6
    <3> QED BY <3>1, <3>2
  <2> HIDE DEF S
  <2>5. n + 1 \in S
    <3>1. n + 1 \in Nat /\ n + 1 \in 1..(n + 1)
      BY <1>1
    <3> QED BY <2>4, <3>1, UpInduction
  <2>6. Len(all) + 1 =< 3 * ((n + 1) - 1) + 1 /\ Len(all) \in Nat
    BY <2>1, <2>3, <2>5 DEF S
  <2> QED BY <1>1, <1>2, <2>6 DEF n
<1> QED BY <1>4, <1>5

\* What the dispatcher makes of a line, in whichever of the packets it comes.
LEMMA LineIsConsumed ==
    ASSUME NEW G, Settled(G), NEW glyphs \in Seq(G), 3 * Len(glyphs) =< Longest,
           1 =< Longest, NEW packet \in Lines(Bytes(glyphs)),
           NEW line, line = Trim(Shown(glyphs)),
           NEW result, result = HandleOutboundChat(packet, {<<"a">>})
    PROVE  /\ result.drop = IsCommand(line)
           /\ result.does.consumed = IsCommand(line)
           /\ (result.does.runs # <<>>) = (IsCommand(line) /\ CallsA(line))
           /\ (IsCommand(line) /\ CallsA(line)) =>
                 Len(result.does.args) = Cardinality(Begins(line)) - 1
<1> DEFINE X == AsWritten(G) \cup {"a"}
           P == G \ {Colour}
           text == Bytes(glyphs)
<1>1. /\ text \in Seq(X) /\ StripColorCodes(text) = Shown(glyphs)
      /\ Shown(glyphs) \in Seq(P)
  <2>1. \A Y, s : s \in Seq(Y) => s \in Seq(Y \cup {"a"})
    OBVIOUS
  <2> QED BY <2>1, StrippedIsShown
<1>2. Meant(text) = line
  BY <1>1 DEF Meant
<1>3. line \in Seq(P) /\ Trim(line) = line
  BY <1>1, TrimTells, TrimmedOnce
<1>4. Plain(P)
  BY DEF Plain, Settled
<1>5. Len(text) =< Longest
  <2>1. Len(text) \in Nat /\ Len(text) =< 3 * Len(glyphs)
    BY BytesAreFew
  <2>2. 3 * Len(glyphs) \in Nat /\ Longest \in Nat
    BY SafeStringAssumption
  <2> HIDE DEF text
  <2> QED BY <2>1, <2>2
<1>6. "a" \in X
  OBVIOUS
<1> HIDE DEF X, P, text
<1>7. Shows(AllTexts(packet), X, text)
  BY <1>1, <1>5, <1>6, LineIsHeld DEF text
<1>8. /\ result.drop = IsCommandPrefix(line)
      /\ result.does = IF IsCommandPrefix(line) THEN Dispatch(line, {<<"a">>}) ELSE Ignored
  <2> DEFINE commands == {<<"a">>}
  <2>1. result = HandleOutboundChat(packet, commands)
    OBVIOUS
  <2> HIDE DEF commands
  <2>2. Handles(result, Meant(text), commands)
    BY <1>7, <2>1, LineIsHandled, NoCommandAlone
  <2> QED BY <1>2, <2>2 DEF commands, Handles
<1>9. IsCommandPrefix(line) <=> IsCommand(line)
  BY <1>3, PrefixTells
<1>10. result.drop = IsCommand(line)
  <2>1. IsCommandPrefix(line) = IsCommand(line)
    BY <1>9 DEF IsCommandPrefix, IsCommand
  <2> QED BY <1>8, <2>1
<1>11. CASE IsCommand(line)
  <2>1. result.does = Dispatch(line, {<<"a">>})
    BY <1>8, <1>9, <1>11
  <2> DEFINE does == result.does
  <2> HIDE DEF does
  <2>2. /\ does.consumed = TRUE
        /\ does.runs # <<>> <=> CallsA(line)
        /\ CallsA(line) => Len(does.args) = Cardinality(Begins(line)) - 1
    BY <1>3, <1>4, <1>11, <2>1, DispatchTells DEF does
  <2>3. IsCommand(line) = TRUE
    BY <1>11 DEF IsCommand
  <2>4. (does.runs # <<>>) = (IsCommand(line) /\ CallsA(line))
    BY <1>11, <2>2, Zenon
  <2> QED BY <1>10, <2>2, <2>3, <2>4 DEF does
<1>12. CASE ~IsCommand(line)
  <2>1. result.does.consumed = FALSE /\ result.does.runs = <<>>
    BY <1>8, <1>9, <1>12 DEF Ignored
  <2>2. IsCommand(line) = FALSE
    BY <1>12 DEF IsCommand
  <2> QED BY <1>10, <1>12, <2>1, <2>2
<1> QED BY <1>11, <1>12

\* A line of the chat is no longer than the bound of the model.
LineIsShort == kind = "chat" => Len(input) =< ChatLength

\* CommandDispatcher.cpp:212: a line of the chat of any length that can be read is kept
\* from the server if and only if it begins with exactly two semicolons, and then runs
\* the command it names on the words that follow.
THEOREM LinesAreConsumed ==
    ASSUME Settled(ChatGlyphs), ChatLength \in Nat \ {0}, 3 * ChatLength =< Longest
    PROVE  Spec => []ChatConsumed
<1>1. Written /\ LineIsShort => ChatConsumed
  <2> SUFFICES ASSUME Written, LineIsShort, kind = "chat" PROVE ChatConsumed
    BY DEF ChatConsumed
  <2>1. Glyphs["chat"] = ChatGlyphs
    BY DEF Glyphs
  <2>2. input \in Seq(ChatGlyphs) /\ Len(input) \in Nat
    BY <2>1 DEF Written
  <2>3. 3 * Len(input) =< Longest
    <3>1. Len(input) =< ChatLength
      BY DEF LineIsShort
    <3> QED BY <2>2, <3>1, SafeStringAssumption
  <2>5. 1 =< Longest
    BY SafeStringAssumption
  <2> DEFINE line == Trim(Shown(input))
  <2>4. ASSUME NEW packet \in Lines(Bytes(input)),
               NEW result, result = HandleOutboundChat(packet, {<<"a">>})
        PROVE  /\ result.drop = IsCommand(line)
               /\ result.does.consumed = IsCommand(line)
               /\ (result.does.runs # <<>>) = (IsCommand(line) /\ CallsA(line))
               /\ (IsCommand(line) /\ CallsA(line)) =>
                     Len(result.does.args) = Cardinality(Begins(line)) - 1
    BY <2>2, <2>3, <2>4, <2>5, LineIsConsumed
  <2> QED BY <2>4, RegisteredIs DEF ChatConsumed, Lines, IsCommand, CallsA, Begins
<1>2. Init => LineIsShort
  BY DEF Init, LineIsShort
<1>3. Written /\ LineIsShort /\ [Next]_vars => LineIsShort'
  <2> SUFFICES ASSUME Written, LineIsShort, [Next]_vars, kind' = "chat"
               PROVE  Len(input') =< ChatLength
    BY DEF LineIsShort
  <2>1. CASE Write
    <3>1. kind = "chat" /\ Bound[kind] = ChatLength
      BY <2>1 DEF Write, Bound
    <3>2. Len(input) < ChatLength
      BY <2>1, <3>1 DEF Write
    <3>3. PICK g \in Glyphs[kind] : input' = Append(input, g)
      BY <2>1 DEF Write
    <3>4. input \in Seq(Glyphs[kind])
      BY DEF Written
    <3> DEFINE S == Glyphs[kind]
    <3> HIDE DEF S
    <3>5. input \in Seq(S) /\ g \in S
      BY <3>4 DEF S
    <3>6. Len(input') = Len(input) + 1 /\ Len(input) \in Nat
      BY <3>3, <3>5
    <3> QED BY <3>2, <3>6
  <2>2. CASE Change
    BY <2>2 DEF Change, LineIsShort
  <2>3. CASE UNCHANGED vars
    BY <2>3 DEF vars, LineIsShort
  <2> QED BY <2>1, <2>2, <2>3 DEF Next
<1> QED BY <1>1, <1>2, <1>3, InputIsWritten, PTL DEF Spec

-----------------------------------------------------------------------------
(* Texts quoted in a form. *)

\* The bytes an escape of four digits stands for.
Decoded == {"C2", "A7", "ctl", "ascii", "lead", "cont"}

\* The code the digits are.
CodeOf(digits) == FoldLeft(LAMBDA n, c : 16 * n + Digit[c], 0, digits)

\* The digits, and what they are worth.
LEMMA DigitsAre ==
    /\ DOMAIN Digit = {"0", "1", "7", "a"}
    /\ Digit["0"] = 0 /\ Digit["1"] = 1
    /\ \A c \in DOMAIN Digit : Digit[c] \in Nat
<1>1. DOMAIN Digit = {"0", "1", "7", "a"}
  BY DEF Digit
<1>2. Digit["0"] = 0 /\ Digit["1"] = 1 /\ Digit["7"] = 7 /\ Digit["a"] = 10
  BY DEF Digit
<1> QED BY <1>1, <1>2

\* The digits are read one after the other.
LEMMA CodeSteps ==
    ASSUME NEW n \in Nat, NEW digits, DOMAIN digits = 1..n,
           \A k \in 1..n : digits[k] \in DOMAIN Digit
    PROVE  \E it \in [0..n -> Nat] :
               /\ it[0] = 0 /\ CodeOf(digits) = it[n]
               /\ \A k \in 1..n : it[k] = 16 * it[k - 1] + Digit[digits[k]]
<1> DEFINE iter[s \in SUBSET DOMAIN digits] ==
               IF s = {} THEN 0
               ELSE LET x == Max(s) IN 16 * iter[s \ {x}] + Digit[digits[x]]
           Body(s, f) == IF s = {} THEN 0
                         ELSE LET x == Max(s) IN 16 * f[s \ {x}] + Digit[digits[x]]
           Step == [p \in (1..n) \X Nat |-> 16 * p[2] + Digit[digits[p[1]]]]
<1>1. CodeOf(digits) = iter[1..n]
  BY DEF CodeOf, FoldLeft, MapThenFoldSet
<1>2. ASSUME NEW f, f = [s \in SUBSET (1..n) |-> Body(s, f)]
      PROVE  iter = [s \in SUBSET (1..n) |-> Body(s, iter)]
  BY <1>2
<1> HIDE DEF iter
<1>3. /\ Step \in [(1..n) \X Nat -> Nat]
      /\ \A k \in 1..n, v \in Nat : Step[<<k, v>>] = 16 * v + Digit[digits[k]]
  <2>1. \A k \in 1..n : Digit[digits[k]] \in Nat
    BY DigitsAre
  <2> QED BY <2>1
<1> HIDE DEF Step
<1>4. PICK f : Folds(n, Nat, 0, Step, f)
  <2>1. 0 \in Nat
    OBVIOUS
  <2> QED BY <1>3, <2>1, FoldExists
<1>5. ASSUME NEW s \in SUBSET (1..n), s # {} PROVE Max(s) \in s /\ Max(s) \in 1..n
  BY <1>5, MaxIsGreatest
<1>6. ASSUME NEW s \in SUBSET (1..n) PROVE f[s] = Body(s, f)
  <2>1. CASE s = {}
    BY <1>4, <2>1 DEF Folds
  <2>2. CASE s # {}
    <3>1. Max(s) \in 1..n
      BY <1>5, <2>2
    <3>2. f[s \ {Max(s)}] \in Nat
      <4>1. s \ {Max(s)} \in SUBSET (1..n)
        OBVIOUS
      <4> QED BY <1>4, <4>1 DEF Folds
    <3>3. f[s] = Step[<<Max(s), f[s \ {Max(s)}]>>]
      BY <1>4, <2>2 DEF Folds
    <3> QED BY <1>3, <2>2, <3>1, <3>2, <3>3
  <2> QED BY <2>1, <2>2
<1> HIDE DEF Body
<1>7. f = [s \in SUBSET (1..n) |-> Body(s, f)]
  BY <1>4, <1>6 DEF Folds
<1>8. \A s \in SUBSET (1..n) : iter[s] = Body(s, iter)
  <2>1. iter = [s \in SUBSET (1..n) |-> Body(s, iter)]
    BY <1>2, <1>7
  <2> QED BY <2>1
<1> DEFINE it == [k \in 0..n |-> iter[1..k]]
<1>9. ASSUME NEW k \in 1..n
      PROVE  iter[1..k] = 16 * iter[1..(k - 1)] + Digit[digits[k]]
  <2>1. 1..k \in SUBSET (1..n) /\ 1..k # {} /\ (1..k) \ {k} = 1..(k - 1)
    <3>1. k \in 1..k /\ \A j \in 1..k : j \in 1..n
      OBVIOUS
    <3>2. \A j : j \in 1..k /\ j # k <=> j \in 1..(k - 1)
      OBVIOUS
    <3> QED BY <3>1, <3>2
  <2>2. Max(1..k) = k
    <3>1. k \in Nat /\ 1..k \in SUBSET (1..k) /\ k \in 1..k
      OBVIOUS
    <3>2. Max(1..k) \in 1..k /\ \A j \in 1..k : j =< Max(1..k)
      BY <2>1, <3>1, MaxIsGreatest
    <3> QED BY <3>1, <3>2
  <2> QED BY <1>8, <2>1, <2>2 DEF Body
<1>10. iter[{}] = 0 /\ 1..0 = {}
  <2>1. {} \in SUBSET (1..n) /\ 1..0 = {}
    OBVIOUS
  <2>2. iter[{}] = Body({}, iter)
    BY <1>8, <2>1
  <2>3. Body({}, iter) = 0
    BY DEF Body
  <2> QED BY <2>1, <2>2, <2>3
<1> DEFINE S == {k \in 1..(n + 1) : iter[1..(k - 1)] \in Nat}
<1>11. \A k \in 1..(n + 1) : (\A j \in 1..(k - 1) : j \in S) => k \in S
  <2> SUFFICES ASSUME NEW k \in 1..(n + 1), \A j \in 1..(k - 1) : j \in S PROVE k \in S
    OBVIOUS
  <2>1. CASE k = 1
    <3>1. 1..(k - 1) = {}
      BY <2>1
    <3> QED BY <1>10, <3>1
  <2>2. CASE k # 1
    <3>1. k - 1 \in 1..n /\ k - 1 \in 1..(k - 1)
      BY <2>2
    <3>2. iter[1..((k - 1) - 1)] \in Nat
      BY <3>1
    <3>3. Digit[digits[k - 1]] \in Nat
      BY <3>1, DigitsAre
    <3>4. iter[1..(k - 1)] = 16 * iter[1..((k - 1) - 1)] + Digit[digits[k - 1]]
      BY <1>9, <3>1
    <3> QED BY <3>2, <3>3, <3>4
  <2> QED BY <2>1, <2>2
<1> HIDE DEF S
<1>12. \A k \in 1..(n + 1) : k \in S
  <2> DEFINE N == n + 1
  <2>1. N \in Nat
    OBVIOUS
  <2> HIDE DEF N
  <2> QED BY <1>11, <2>1, UpInduction DEF N
<1>13. \A k \in 0..n : iter[1..k] \in Nat
  <2>1. \A k \in 0..n : k + 1 \in 1..(n + 1) /\ (k + 1) - 1 = k
    OBVIOUS
  <2> QED BY <1>12, <2>1 DEF S
<1>14. it \in [0..n -> Nat] /\ \A k \in 0..n : it[k] = iter[1..k]
  BY <1>13
<1> HIDE DEF it
<1>15. it[0] = 0 /\ it[n] = iter[1..n]
  <2>1. 0 \in 0..n /\ n \in 0..n
    OBVIOUS
  <2> QED BY <1>10, <1>14, <2>1
<1>16. \A k \in 1..n : it[k] = 16 * it[k - 1] + Digit[digits[k]]
  <2>1. \A k \in 1..n : k \in 0..n /\ k - 1 \in 0..n
    OBVIOUS
  <2> QED BY <1>9, <1>14, <2>1
<1> QED BY <1>1, <1>14, <1>15, <1>16

\* A code is a number.
LEMMA CodeIsNumber ==
    ASSUME NEW digits \in Seq(DOMAIN Digit)
    PROVE  CodeOf(digits) \in Nat
<1> DEFINE n == Len(digits)
<1>1. n \in Nat /\ DOMAIN digits = 1..n /\ \A k \in 1..n : digits[k] \in DOMAIN Digit
  OBVIOUS
<1> HIDE DEF n
<1>2. PICK it \in [0..n -> Nat] : CodeOf(digits) = it[n]
  BY <1>1, CodeSteps
<1>3. n \in 0..n
  BY <1>1
<1> QED BY <1>2, <1>3

\* The escape of a control character.
LEMMA CodeOfControl ==
    ASSUME NEW digits, DOMAIN digits = 1..4,
           digits[1] = "0", digits[2] = "0", digits[3] = "0", digits[4] = "1"
    PROVE  CodeOf(digits) = 1
<1>1. \A k \in 1..4 : digits[k] \in DOMAIN Digit
  <2>1. \A k \in 1..4 : digits[k] \in {"0", "1"}
    <3>1. \A k \in 1..4 : k = 1 \/ k = 2 \/ k = 3 \/ k = 4
      OBVIOUS
    <3> QED BY <3>1
  <2> QED BY <2>1, DigitsAre
<1>2. PICK it \in [0..4 -> Nat] :
          /\ it[0] = 0 /\ CodeOf(digits) = it[4]
          /\ \A k \in 1..4 : it[k] = 16 * it[k - 1] + Digit[digits[k]]
  <2>1. 4 \in Nat
    OBVIOUS
  <2> QED BY <1>1, <2>1, CodeSteps
<1>3. it[1] = 0
  <2>1. 1 \in 1..4 /\ 1 - 1 = 0
    OBVIOUS
  <2> QED BY <1>2, <2>1, DigitsAre
<1>4. it[2] = 0
  <2>1. 2 \in 1..4 /\ 2 - 1 = 1
    OBVIOUS
  <2> QED BY <1>2, <1>3, <2>1, DigitsAre
<1>5. it[3] = 0
  <2>1. 3 \in 1..4 /\ 3 - 1 = 2
    OBVIOUS
  <2> QED BY <1>2, <1>4, <2>1, DigitsAre
<1>6. it[4] = 1
  <2>1. 4 \in 1..4 /\ 4 - 1 = 3
    OBVIOUS
  <2> QED BY <1>2, <1>5, <2>1, DigitsAre
<1> QED BY <1>2, <1>6

\* The digits of an escape that are read: those before the first that is none.
DigitsOf(four) ==
    LET wrong == SelectInSeq(four, LAMBDA c : c \notin DOMAIN Digit)
    IN  IF wrong = 0 THEN four ELSE SubSeq(four, 1, wrong - 1)

\* What is read of four bytes are digits: all of them, if they all are.
LEMMA DigitsAreRead ==
    ASSUME NEW X, NEW four \in Seq(X)
    PROVE  /\ DigitsOf(four) \in Seq(DOMAIN Digit)
           /\ (\A k \in 1..Len(four) : four[k] \in DOMAIN Digit) => DigitsOf(four) = four
<1> DEFINE wrongs == {k \in 1..Len(four) : four[k] \notin DOMAIN Digit}
           wrong == IF wrongs # {} THEN Min(wrongs) ELSE 0
           D == DOMAIN Digit
<1>1. DigitsOf(four) = IF wrong = 0 THEN four ELSE SubSeq(four, 1, wrong - 1)
  BY DEF DigitsOf, SelectInSeq
<1>2. Len(four) \in Nat
  OBVIOUS
<1>3. CASE wrongs = {}
  <2>1. wrong = 0 /\ \A k \in 1..Len(four) : four[k] \in D
    BY <1>3
  <2> HIDE DEF wrong, wrongs, D
  <2>2. four \in Seq(D)
    BY <2>1
  <2> QED BY <1>1, <2>1, <2>2 DEF D
<1>4. CASE wrongs # {}
  <2>1. wrongs \in SUBSET (1..Len(four))
    OBVIOUS
  <2> HIDE DEF wrongs
  <2>2. Min(wrongs) \in wrongs /\ \A j \in 1..(Min(wrongs) - 1) : j \notin wrongs
    BY <1>2, <1>4, <2>1, MinIsLeast
  <2>3. wrong \in 1..Len(four) /\ wrong \in wrongs
        /\ \A j \in 1..(wrong - 1) : j \notin wrongs
    BY <1>4, <2>1, <2>2
  <2> HIDE DEF wrong
  <2>4. \A j \in 1..(wrong - 1) : four[j] \in D
    <3>1. \A j \in 1..(wrong - 1) : j \in 1..Len(four)
      BY <1>2, <2>3
    <3> QED BY <2>3, <3>1 DEF wrongs
  <2>5. SubSeq(four, 1, wrong - 1) \in Seq(D)
    <3>1. 1 \in Int /\ wrong - 1 \in Int
      BY <1>2, <2>3
    <3> HIDE DEF D
    <3> QED BY <2>4, <3>1, SubSeqProperties
  <2>6. wrong # 0 /\ four[wrong] \notin D
    BY <1>2, <2>3 DEF wrongs
  <2> QED BY <1>1, <2>3, <2>5, <2>6
<1> QED BY <1>3, <1>4

\* The bytes of a code.
Encoded(digits, code) ==
    CASE digits = <<>>                                   -> <<>>
      [] digits # <<>> /\ code = 167                     -> <<"C2", "A7">>
      [] digits # <<>> /\ code = 1                       -> <<"ctl">>
      [] digits # <<>> /\ code < 128 /\ code # 1         -> <<"ascii">>
      [] digits # <<>> /\ code \in (128..2047) \ {167}   -> <<"lead", "cont">>
      [] digits # <<>> /\ code > 2047                    -> <<"lead", "cont", "cont">>

\* Utf8 in the words of this section.
LEMMA Utf8Is ==
    ASSUME NEW four
    PROVE  Utf8(four) = Encoded(DigitsOf(four), CodeOf(DigitsOf(four)))
BY DEF Utf8, DigitsOf, CodeOf, Encoded

\* A code has bytes.
LEMMA EncodedTyped ==
    ASSUME NEW digits, NEW code \in Nat
    PROVE  Encoded(digits, code) \in Seq(Decoded)
<1> DEFINE D == Decoded
<1>1. /\ "C2" \in D /\ "A7" \in D /\ "ctl" \in D /\ "ascii" \in D
      /\ "lead" \in D /\ "cont" \in D
  BY DEF Decoded
<1> HIDE DEF D
<1>2. /\ <<>> \in Seq(D) /\ <<"C2", "A7">> \in Seq(D) /\ <<"ctl">> \in Seq(D)
      /\ <<"ascii">> \in Seq(D) /\ <<"lead", "cont">> \in Seq(D)
      /\ <<"lead", "cont", "cont">> \in Seq(D)
  BY <1>1
<1>3. CASE digits = <<>>
  BY <1>2, <1>3 DEF Encoded, D
<1>4. CASE digits # <<>> /\ code = 167
  BY <1>2, <1>4 DEF Encoded, D
<1>5. CASE digits # <<>> /\ code = 1
  BY <1>2, <1>5 DEF Encoded, D
<1>6. CASE digits # <<>> /\ code < 128 /\ code # 1
  BY <1>2, <1>6 DEF Encoded, D
<1>7. CASE digits # <<>> /\ code \in (128..2047) \ {167}
  BY <1>2, <1>7 DEF Encoded, D
<1>8. CASE digits # <<>> /\ code > 2047
  BY <1>2, <1>8 DEF Encoded, D
<1>9. code = 167 \/ code < 128 \/ code \in (128..2047) \ {167} \/ code > 2047
  OBVIOUS
<1> QED BY <1>3, <1>4, <1>5, <1>6, <1>7, <1>8, <1>9

\* An escape has bytes.
LEMMA Utf8Typed ==
    ASSUME NEW X, NEW four \in Seq(X)
    PROVE  Utf8(four) \in Seq(Decoded)
<1> DEFINE digits == DigitsOf(four)
           code == CodeOf(digits)
<1>1. code \in Nat
  <2>1. digits \in Seq(DOMAIN Digit)
    BY DigitsAreRead
  <2> HIDE DEF digits
  <2> QED BY <2>1, CodeIsNumber
<1>2. Utf8(four) = Encoded(digits, code)
  BY Utf8Is
<1> HIDE DEF digits, code
<1> QED BY <1>1, <1>2, EncodedTyped

\* The escape of a control character is read as it.
LEMMA ControlIsRead ==
    ASSUME NEW X, NEW four \in Seq(X), Len(four) = 4,
           four[1] = "0", four[2] = "0", four[3] = "0", four[4] = "1"
    PROVE  Utf8(four) = <<"ctl">>
<1> DEFINE digits == DigitsOf(four)
           code == CodeOf(digits)
<1>1. \A k \in 1..Len(four) : four[k] \in DOMAIN Digit
  <2>1. \A k \in 1..4 : k = 1 \/ k = 2 \/ k = 3 \/ k = 4
    OBVIOUS
  <2>2. "0" \in DOMAIN Digit /\ "1" \in DOMAIN Digit
    BY DigitsAre
  <2> QED BY <2>1, <2>2
<1>2. digits = four
  BY <1>1, DigitsAreRead
<1>3. code = 1
  <2>1. DOMAIN four = 1..4
    OBVIOUS
  <2> HIDE DEF digits
  <2> QED BY <1>2, <2>1, CodeOfControl
<1>4. digits # <<>>
  <2>1. four # <<>>
    OBVIOUS
  <2> QED BY <1>2, <2>1
<1> HIDE DEF digits, code
<1>5. Utf8(four) = Encoded(digits, code)
  BY Utf8Is DEF digits, code
<1> QED BY <1>3, <1>4, <1>5 DEF Encoded

\* What Unescape reads at a place of a text, and where it goes on.
Undone(text, i) ==
    IF text[i] # Slash \/ i = Len(text) THEN <<text[i]>>
    ELSE IF text[i + 1] = "u" /\ i + 5 <= Len(text) THEN Utf8(SubSeq(text, i + 2, i + 5))
    ELSE <<IF text[i + 1] = "n" THEN "nl" ELSE text[i + 1]>>

UndoneTo(text, i) ==
    IF text[i] # Slash \/ i = Len(text) THEN i + 1
    ELSE IF text[i + 1] = "u" /\ i + 5 <= Len(text) THEN i + 6
    ELSE i + 2

\* What is read at a place are bytes, and the reader goes on behind the place.
LEMMA UndoneTyped ==
    ASSUME NEW X, NEW text \in Seq(X), NEW i \in 1..Len(text)
    PROVE  /\ Undone(text, i) \in Seq(X \cup Decoded \cup {"nl"})
           /\ UndoneTo(text, i) \in (i + 1)..(Len(text) + 1)
<1> DEFINE Y == X \cup Decoded \cup {"nl"}
<1>1. Len(text) \in Nat /\ \A j \in 1..Len(text) : text[j] \in Y
  OBVIOUS
<1>2. \A s : s \in Seq(Decoded) => s \in Seq(Y)
  OBVIOUS
<1>3. "nl" \in Y
  OBVIOUS
<1> HIDE DEF Y
<1>4. CASE text[i] # Slash \/ i = Len(text)
  <2>1. <<text[i]>> \in Seq(Y)
    BY <1>1
  <2>2. Undone(text, i) = <<text[i]>> /\ UndoneTo(text, i) = i + 1
    BY <1>4 DEF Undone, UndoneTo
  <2> QED BY <1>1, <2>1, <2>2 DEF Y
<1>5. CASE ~(text[i] # Slash \/ i = Len(text)) /\ text[i + 1] = "u" /\ i + 5 <= Len(text)
  <2>1. SubSeq(text, i + 2, i + 5) \in Seq(Y)
    <3>1. /\ i + 2 \in Int /\ i + 5 \in Int
          /\ \A j \in (i + 2)..(i + 5) : j \in 1..Len(text)
      BY <1>1, <1>5
    <3> QED BY <1>1, <3>1, SubSeqProperties
  <2>2. Utf8(SubSeq(text, i + 2, i + 5)) \in Seq(Y)
    BY <1>2, <2>1, Utf8Typed
  <2> QED BY <1>1, <1>5, <2>2 DEF Undone, UndoneTo, Y
<1>6. CASE ~(text[i] # Slash \/ i = Len(text)) /\ ~(text[i + 1] = "u" /\ i + 5 <= Len(text))
  <2> DEFINE x == IF text[i + 1] = "n" THEN "nl" ELSE text[i + 1]
  <2>1. i + 1 \in 1..Len(text)
    BY <1>1, <1>6
  <2>2. x \in Y
    BY <1>1, <1>3, <2>1
  <2>3. Undone(text, i) = <<x>> /\ UndoneTo(text, i) = i + 2
    BY <1>6 DEF Undone, UndoneTo
  <2> HIDE DEF x
  <2>4. <<x>> \in Seq(Y)
    BY <2>2
  <2> QED BY <1>1, <2>1, <2>3, <2>4 DEF Y
<1> QED BY <1>4, <1>5, <1>6

\* Unescape is a function that reads a piece at each place and goes on.
LEMMA UnescapeSteps ==
    ASSUME NEW X, NEW text \in Seq(X), NEW Y, Y = X \cup Decoded \cup {"nl"}
    PROVE  \E From \in [1..(Len(text) + 1) -> Seq(Y)] :
               /\ Unescape(text) = From[1]
               /\ From[Len(text) + 1] = <<>>
               /\ \A i \in 1..Len(text) : From[i] = Undone(text, i) \o From[UndoneTo(text, i)]
<1> DEFINE n == Len(text) + 1
           V == Seq(Y)
           From[i \in 1..(Len(text) + 1)] ==
               IF i > Len(text) THEN <<>>
               ELSE IF text[i] # Slash \/ i = Len(text) THEN <<text[i]>> \o From[i + 1]
               ELSE IF text[i + 1] = "u" /\ i + 5 <= Len(text)
                    THEN Utf8(SubSeq(text, i + 2, i + 5)) \o From[i + 6]
               ELSE <<IF text[i + 1] = "n" THEN "nl" ELSE text[i + 1]>> \o From[i + 2]
           Body(i, f) ==
               IF i > Len(text) THEN <<>>
               ELSE IF text[i] # Slash \/ i = Len(text) THEN <<text[i]>> \o f[i + 1]
               ELSE IF text[i + 1] = "u" /\ i + 5 <= Len(text)
                    THEN Utf8(SubSeq(text, i + 2, i + 5)) \o f[i + 6]
               ELSE <<IF text[i + 1] = "n" THEN "nl" ELSE text[i + 1]>> \o f[i + 2]
           R == [i \in 1..Len(text) |-> Undone(text, i)]
           N == [i \in 1..Len(text) |-> UndoneTo(text, i)]
<1>1. Len(text) \in Nat /\ n \in Nat \ {0}
  OBVIOUS
<1>2. Unescape(text) = From[1]
  BY DEF Unescape
<1>3. ASSUME NEW f, f = [i \in 1..n |-> Body(i, f)]
      PROVE  From = [i \in 1..n |-> Body(i, From)]
  BY <1>3
<1> HIDE DEF From
<1>4. ASSUME NEW i \in 1..n, NEW f
      PROVE  Body(i, f) = IF i = n THEN <<>> ELSE Undone(text, i) \o f[UndoneTo(text, i)]
  <2>1. i > Len(text) <=> i = n
    BY <1>1
  <2> HIDE DEF n
  <2> QED BY <2>1 DEF Undone, UndoneTo
<1>5. R \in [1..Len(text) -> Seq(Y)] /\ GoesOn(Len(text), N)
  BY UndoneTyped DEF GoesOn
<1>6. \A i \in 1..Len(text) : R[i] = Undone(text, i) /\ N[i] = UndoneTo(text, i)
  OBVIOUS
<1> HIDE DEF R, N, V, Body
<1>7. PICK f : Reads(Len(text), Y, R, N, f)
  BY <1>1, <1>5, ReaderExists
<1>8. \A i \in 1..n : f[i] = Body(i, f)
  <2> SUFFICES ASSUME NEW i \in 1..n PROVE f[i] = Body(i, f)
    OBVIOUS
  <2>1. CASE i = n
    BY <1>4, <1>7, <2>1 DEF Reads
  <2>2. CASE i # n
    <3>1. i \in 1..Len(text)
      BY <1>1, <2>2
    <3>2. f[i] = Undone(text, i) \o f[UndoneTo(text, i)]
      BY <1>6, <1>7, <3>1 DEF Reads
    <3> QED BY <1>4, <2>2, <3>2
  <2> QED BY <2>1, <2>2
<1>9. f = [i \in 1..n |-> Body(i, f)]
  BY <1>7, <1>8 DEF Reads
<1>10. From = [i \in 1..n |-> Body(i, From)]
  BY <1>3, <1>9
<1>11. Reads(Len(text), Y, R, N, From)
  <2>1. From = [i \in 1..(Len(text) + 1) |-> From[i]]
    BY <1>10
  <2>2. From[Len(text) + 1] = <<>>
    <3>1. n \in 1..n
      BY <1>1
    <3> QED BY <1>4, <1>10, <3>1
  <2>3. ASSUME NEW i \in 1..Len(text)
        PROVE  From[i] = R[i] \o From[N[i]]
    <3>1. i \in 1..n /\ i # n
      BY <1>1
    <3>2. From[i] = Body(i, From)
      BY <1>10, <3>1
    <3>3. From[i] = Undone(text, i) \o From[UndoneTo(text, i)]
      BY <1>4, <3>1, <3>2
    <3> QED BY <1>6, <3>3
  <2> QED BY <1>1, <1>5, <2>1, <2>2, <2>3, ReaderTyped
<1> QED BY <1>2, <1>6, <1>11 DEF Reads

\* A function that does at every place of a text what Unescape does.
UndoesOn(text, From) ==
    \A i \in 1..Len(text) : From[i] = Undone(text, i) \o From[UndoneTo(text, i)]

\* A byte is read from its escape.
LEMMA EscapeIsRead ==
    ASSUME NEW X, NEW text \in Seq(X), NEW From, UndoesOn(text, From),
           NEW i \in Nat \ {0}, NEW c, LiesAt(Escape(c), text, i)
    PROVE  ReadsPiece(From, i, <<c>>, i + Len(Escape(c)))
<1>1. Len(text) \in Nat
  OBVIOUS
<1>2. ASSUME NEW x, NEW y, Escape(c) = <<Slash, x>>, x # "u",
             y = IF x = "n" THEN "nl" ELSE x
      PROVE  ReadsPiece(From, i, <<y>>, i + Len(Escape(c)))
  <2> DEFINE w == <<Slash, x>>
  <2>1. w[1] = Slash /\ w[2] = x /\ Len(w) = 2
    OBVIOUS
  <2> HIDE DEF w
  <2>2. i + 2 =< Len(text) + 1 /\ \A j \in 1..2 : text[i + j - 1] = w[j]
    BY <1>2, <2>1 DEF LiesAt, w
  <2>3. /\ i \in 1..Len(text) /\ i # Len(text)
        /\ 1 \in 1..2 /\ 2 \in 1..2 /\ i + 1 - 1 = i /\ i + 2 - 1 = i + 1
    BY <1>1, <2>2
  <2>4. text[i] = Slash /\ text[i + 1] = x
    BY <2>1, <2>2, <2>3
  <2>5. Undone(text, i) = <<y>> /\ UndoneTo(text, i) = i + 2
    BY <1>2, <2>3, <2>4 DEF Undone, UndoneTo
  <2>6. Len(Escape(c)) = 2
    BY <1>2, <2>1 DEF w
  <2> QED BY <2>3, <2>5, <2>6 DEF UndoesOn, ReadsPiece
<1>3. CASE c = Quote
  <2>1. Escape(c) = <<Slash, Quote>> /\ Quote # "u" /\ Quote # "n"
    BY <1>3 DEF Escape, Quote
  <2> QED BY <1>2, <1>3, <2>1
<1>4. CASE c = Slash
  <2>1. Escape(c) = <<Slash, Slash>> /\ Slash # "u" /\ Slash # "n"
    BY <1>4 DEF Escape, Quote, Slash
  <2> QED BY <1>2, <1>4, <2>1
<1>5. CASE c = "nl"
  <2>1. Escape(c) = <<Slash, "n">>
    BY <1>5 DEF Escape, Quote, Slash
  <2> QED BY <1>2, <1>5, <2>1
<1>6. CASE c = "ctl"
  <2> DEFINE w == <<Slash, "u", "0", "0", "0", "1">>
             four == SubSeq(text, i + 2, i + 5)
  <2>1. Escape(c) = w
    BY <1>6 DEF Escape, Quote, Slash
  <2>2. /\ w[1] = Slash /\ w[2] = "u" /\ w[3] = "0" /\ w[4] = "0" /\ w[5] = "0"
        /\ w[6] = "1" /\ Len(w) = 6
    OBVIOUS
  <2> HIDE DEF w
  <2>3. i + 6 =< Len(text) + 1 /\ \A j \in 1..6 : text[i + j - 1] = w[j]
    BY <2>1, <2>2 DEF LiesAt
  <2>4. /\ i \in 1..Len(text) /\ i # Len(text) /\ i + 5 <= Len(text)
        /\ i + 1 - 1 = i /\ i + 2 - 1 = i + 1 /\ i + 3 - 1 = i + 2
        /\ i + 4 - 1 = i + 3 /\ i + 5 - 1 = i + 4 /\ i + 6 - 1 = i + 5
    BY <1>1, <2>3
  <2>5. 1 \in 1..6 /\ 2 \in 1..6 /\ 3 \in 1..6 /\ 4 \in 1..6 /\ 5 \in 1..6 /\ 6 \in 1..6
    OBVIOUS
  <2>6. /\ text[i] = Slash /\ text[i + 1] = "u" /\ text[i + 2] = "0"
        /\ text[i + 3] = "0" /\ text[i + 4] = "0" /\ text[i + 5] = "1"
    BY <2>2, <2>3, <2>4, <2>5
  <2>7. four \in Seq(X) /\ Len(four) = 4 /\ \A j \in 1..4 : four[j] = text[i + 2 + j - 1]
    <3>1. /\ i + 2 \in Nat \ {0} /\ i + 5 \in Nat /\ i + 2 =< i + 5 + 1
          /\ i + 5 =< Len(text) /\ (i + 5) - (i + 2) + 1 = 4
      BY <2>4
    <3> QED BY <3>1, PartIs
  <2>8. four[1] = "0" /\ four[2] = "0" /\ four[3] = "0" /\ four[4] = "1"
    <3>1. /\ 1 \in 1..4 /\ 2 \in 1..4 /\ 3 \in 1..4 /\ 4 \in 1..4
          /\ i + 2 + 1 - 1 = i + 2 /\ i + 2 + 2 - 1 = i + 3
          /\ i + 2 + 3 - 1 = i + 4 /\ i + 2 + 4 - 1 = i + 5
      OBVIOUS
    <3> QED BY <2>6, <2>7, <3>1
  <2>9. Undone(text, i) = Utf8(four) /\ UndoneTo(text, i) = i + 6
    BY <2>4, <2>6 DEF Undone, UndoneTo
  <2> HIDE DEF four
  <2>10. Utf8(four) = <<"ctl">>
    BY <2>7, <2>8, ControlIsRead
  <2> QED BY <1>6, <2>1, <2>2, <2>4, <2>9, <2>10 DEF UndoesOn, ReadsPiece
<1>7. CASE c \notin {Quote, Slash, "nl", "ctl"}
  <2> DEFINE w == <<c>>
  <2>1. Escape(c) = w
    BY <1>7 DEF Escape
  <2>2. w[1] = c /\ Len(w) = 1 /\ w = <<c>>
    OBVIOUS
  <2> HIDE DEF w
  <2>3. i + 1 =< Len(text) + 1 /\ \A j \in 1..1 : text[i + j - 1] = w[j]
    BY <2>1, <2>2 DEF LiesAt
  <2>4. i \in 1..Len(text) /\ i + 1 - 1 = i /\ 1 \in 1..1
    BY <1>1, <2>3
  <2>5. text[i] = c
    BY <2>2, <2>3, <2>4
  <2>6. Undone(text, i) = w /\ UndoneTo(text, i) = i + 1
    BY <1>7, <2>2, <2>5 DEF Undone, UndoneTo
  <2> QED BY <2>1, <2>2, <2>4, <2>6 DEF UndoesOn, ReadsPiece
<1> QED BY <1>3, <1>4, <1>5, <1>6, <1>7

\* A function that reads each word as its piece reads the words as the pieces.
LEMMA ReadThrough ==
    ASSUME NEW Y, NEW words \in Seq(Seq(Y)), NEW pieces \in Seq(Seq(Y)),
           Len(pieces) = Len(words), Len(words) # 0,
           NEW text, text = FlattenSeq(words),
           NEW From \in [1..(Len(text) + 1) -> Seq(Y)], From[Len(text) + 1] = <<>>,
           \A k \in 1..Len(words) : \A i \in Nat \ {0} :
               LiesAt(words[k], text, i) =>
                   ReadsPiece(From, i, pieces[k], i + Len(words[k]))
    PROVE  From[1] = FlattenSeq(pieces)
<1> DEFINE n == Len(words)
<1>1. n \in Nat /\ Len(pieces) = n /\ n # 0
  OBVIOUS
<1>2. text \in Seq(Y) /\ \E at \in [1..(n + 1) -> Nat \ {0}] : LieAt(words, text, at)
  BY FlattenPlaces
<1>3. PICK at \in [1..(n + 1) -> Nat \ {0}] : LieAt(words, text, at)
  BY <1>2
<1>4. Len(text) \in Nat
  BY <1>2
<1>5. /\ at[1] = 1 /\ at[n + 1] = Len(text) + 1
      /\ \A k \in 1..n : at[k + 1] = at[k] + Len(words[k]) /\ LiesAt(words[k], text, at[k])
  BY <1>3 DEF LieAt
<1>6. \A k \in 1..n : \A i \in Nat \ {0} :
          LiesAt(words[k], text, i) => ReadsPiece(From, i, pieces[k], i + Len(words[k]))
  OBVIOUS
<1> HIDE DEF n
<1>7. ASSUME NEW k \in 1..n
      PROVE  From[at[k]] = pieces[k] \o From[at[k + 1]] /\ at[k + 1] \in 1..(Len(text) + 1)
  <2>1. k \in 1..(n + 1) /\ k + 1 \in 1..(n + 1)
    BY <1>1
  <2>2. at[k] \in Nat \ {0} /\ at[k + 1] \in Nat \ {0}
    BY <2>1
  <2>3. at[k + 1] = at[k] + Len(words[k]) /\ LiesAt(words[k], text, at[k])
    BY <1>5
  <2>4. ReadsPiece(From, at[k], pieces[k], at[k] + Len(words[k]))
    BY <1>6, <2>2, <2>3
  <2>5. at[k + 1] =< Len(text) + 1
    BY <2>3 DEF LiesAt
  <2> QED BY <1>4, <2>2, <2>3, <2>4, <2>5 DEF ReadsPiece
<1>8. ASSUME NEW k \in 1..(n + 1) PROVE at[k] \in 1..(Len(text) + 1)
  <2>1. CASE k = 1
    BY <1>4, <1>5, <2>1
  <2>2. CASE k # 1
    <3>1. k - 1 \in 1..n /\ (k - 1) + 1 = k
      BY <1>1, <2>2
    <3> QED BY <1>7, <3>1
  <2> QED BY <2>1, <2>2
<1> DEFINE H == [k \in 1..(n + 1) |-> From[at[k]]]
<1>9. H \in [1..(n + 1) -> Seq(Y)]
  BY <1>8
<1>10. H[n + 1] = <<>> /\ H[1] = From[1]
  <2>1. n + 1 \in 1..(n + 1) /\ 1 \in 1..(n + 1)
    BY <1>1
  <2> QED BY <1>5, <2>1
<1>11. ASSUME NEW k \in 1..n PROVE H[k] = pieces[k] \o H[k + 1]
  <2>1. k \in 1..(n + 1) /\ k + 1 \in 1..(n + 1)
    BY <1>1
  <2> QED BY <1>7, <2>1
<1> HIDE DEF H
<1>12. H[1] = FlattenSeq(pieces)
  BY <1>1, <1>9, <1>10, <1>11, ReadWords
<1> QED BY <1>10, <1>12

\* JsonUtils.h:14,100: what escapeJson() writes of a text, unescapeJsonString() reads as the
\* text it was, whatever quotes, backslashes, line ends, control characters and words that look
\* like escapes it holds, and however long it is.
THEOREM QuotingIsUndone ==
    ASSUME NEW X, NEW text \in Seq(X)
    PROVE  Unescape(EscapeJson(text)) = text
<1> DEFINE n == Len(text)
           words == [i \in 1..n |-> Escape(text[i])]
           pieces == [i \in 1..n |-> <<text[i]>>]
           quoted == FlattenSeq(words)
           Z == X \cup {Slash, Quote, "n", "u", "0", "1"}
           Y == Z \cup Decoded \cup {"nl"}
<1>1. n \in Nat /\ \A i \in 1..n : text[i] \in X
  OBVIOUS
<1>2. EscapeJson(text) = quoted
  BY DEF EscapeJson
<1>3. \A c \in X : Escape(c) \in Seq(Z)
  <2>1. /\ X \subseteq Z /\ Slash \in Z /\ Quote \in Z /\ "n" \in Z /\ "u" \in Z
        /\ "0" \in Z /\ "1" \in Z
    OBVIOUS
  <2> HIDE DEF Z
  <2> QED BY <2>1 DEF Escape
<1>4. words \in Seq(Seq(Z)) /\ Len(words) = n
  BY <1>1, <1>3
<1>5. pieces \in Seq(Seq(Y)) /\ Len(pieces) = n
  BY <1>1
<1>6. FlattenSeq(pieces) = text
  BY FlattenSingles
<1>7. \A k \in 1..n : words[k] = Escape(text[k]) /\ pieces[k] = <<text[k]>>
  OBVIOUS
<1>8. \A s \in Seq(Seq(Z)) : s \in Seq(Seq(Y))
  OBVIOUS
<1>9. Y = Z \cup Decoded \cup {"nl"}
  OBVIOUS
<1> HIDE DEF words, pieces, n, Z, Y
<1>10. CASE n = 0
  <2>1. words = <<>> /\ text = <<>>
    BY <1>4, <1>10 DEF n
  <2>2. quoted = <<>>
    BY <2>1 DEF FlattenSeq
  <2>3. quoted \in Seq(Z) /\ Len(quoted) = 0
    BY <2>2
  <2> HIDE DEF quoted
  <2>4. PICK From \in [1..(Len(quoted) + 1) -> Seq(Y)] :
            Unescape(quoted) = From[1] /\ From[Len(quoted) + 1] = <<>>
    <3>1. \E From \in [1..(Len(quoted) + 1) -> Seq(Y)] :
              /\ Unescape(quoted) = From[1]
              /\ From[Len(quoted) + 1] = <<>>
              /\ \A i \in 1..Len(quoted) :
                     From[i] = Undone(quoted, i) \o From[UndoneTo(quoted, i)]
      <4>1. quoted \in Seq(Z)
        BY <2>3
      <4> QED BY <1>9, <4>1, UnescapeSteps
    <3> QED BY <3>1
  <2>5. Unescape(quoted) = <<>>
    BY <2>3, <2>4
  <2> QED BY <1>2, <2>1, <2>5
<1>11. CASE n # 0
  <2>1. quoted \in Seq(Z)
    BY <1>4, <1>11, FlattenPlaces
  <2>2. PICK From \in [1..(Len(quoted) + 1) -> Seq(Y)] :
            /\ Unescape(quoted) = From[1] /\ From[Len(quoted) + 1] = <<>>
            /\ UndoesOn(quoted, From)
    BY <1>9, <2>1, UnescapeSteps DEF UndoesOn
  <2>3. quoted = FlattenSeq(words)
    OBVIOUS
  <2> HIDE DEF quoted
  <2>4. \A k \in 1..Len(words) : \A i \in Nat \ {0} :
            LiesAt(words[k], quoted, i) =>
                ReadsPiece(From, i, pieces[k], i + Len(words[k]))
    <3> TAKE k \in 1..Len(words), i \in Nat \ {0}
    <3>1. HAVE LiesAt(words[k], quoted, i)
    <3>2. words[k] = Escape(text[k]) /\ pieces[k] = <<text[k]>>
      BY <1>4, <1>7
    <3>3. LiesAt(Escape(text[k]), quoted, i)
      BY <3>1, <3>2
    <3>4. ReadsPiece(From, i, <<text[k]>>, i + Len(Escape(text[k])))
      BY <2>1, <2>2, <3>3, EscapeIsRead
    <3> QED BY <3>2, <3>4
  <2>5. From[1] = FlattenSeq(pieces)
    <3>1. words \in Seq(Seq(Y)) /\ Len(pieces) = Len(words) /\ Len(words) # 0
      BY <1>4, <1>5, <1>8, <1>11
    <3>2. pieces \in Seq(Seq(Y))
      BY <1>5
    <3>3. /\ words \in Seq(Seq(Y)) /\ Len(pieces) = Len(words) /\ Len(words) # 0
          /\ quoted = FlattenSeq(words)
          /\ From \in [1..(Len(quoted) + 1) -> Seq(Y)] /\ From[Len(quoted) + 1] = <<>>
      BY <2>2, <2>3, <3>1
    <3> QED BY <2>4, <3>2, <3>3, ReadThrough, ZenonT(60)
  <2> QED BY <1>2, <1>6, <2>2, <2>5
<1> QED BY <1>10, <1>11
=============================================================================
