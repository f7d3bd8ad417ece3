----------------------------- MODULE ActorData -----------------------------
(***************************************************************************)
(* The metadata of an actor (src/sdk/DataItem.h): items of several types   *)
(* in the vector of a packet, read and changed by ID.  An item the packet  *)
(* does not have is built with the vtable of its type, which Packet-       *)
(* Interceptor harvests from the items of packets the server sent.         *)
(*                                                                         *)
(* Abstractions.  A packet arrives, is changed by calls, and gives way to  *)
(* the next.  The value of an item is the set of the bits that are on in   *)
(* it.  Allocation succeeds; the bytes of an item, the capacity of the     *)
(* vector and the dirty flag, which nothing here reads, are left out.      *)
(***************************************************************************)
EXTENDS Naturals, SequencesExt

CONSTANTS
    IDs,       \* IDs of items, 0 for the flags among them
    Bits,      \* flags of an actor
    Enough,    \* types harvested after which no packet is looked at: 6
    Most,      \* items of a vector
    MaxItems   \* items of a packet from the server

\* The flags are the item of ID 0.
ASSUME ActorAssumption == 0 \in IDs

Types == {"byte", "long"}

VARIABLES items, vtables

actorVars == <<items, vtables>>

-----------------------------------------------------------------------------
Null == [id |-> 0, type |-> "none", value |-> {}]

\* getItem(): the first item with the ID.
GetItem(data, id) ==
    LET i == SelectInSeq(data, LAMBDA it : it.id = id)
    IN  IF i = 0 THEN Null ELSE data[i]

\* get().
Get(data, id, type) ==
    IF GetItem(data, id).type = type THEN GetItem(data, id).value ELSE {}

MutSet(data, id, type, value) ==
    LET i == SelectInSeq(data, LAMBDA it : it.id = id)
        item == [id |-> id, type |-> type, value |-> value]
    IN  CASE i # 0 -> [done |-> TRUE, data |-> [data EXCEPT ![i].value = value]]
          [] i = 0 /\ type \in vtables -> [done |-> TRUE, data |-> Append(data, item)]
          [] i = 0 /\ type \notin vtables -> [done |-> FALSE, data |-> data]

\* set(): whether it could be, and what becomes of the items.
Set(data, id, type, value) ==
    LET i == SelectInSeq(data, LAMBDA it : it.id = id /\ it.type = type)
        item == [id |-> id, type |-> type, value |-> value]
    IN  CASE i # 0 -> [done |-> TRUE, data |-> [data EXCEPT ![i].value = value]]
          [] i = 0 /\ type \in vtables -> [done |-> TRUE, data |-> Append(data, item)]
          [] i = 0 /\ type \notin vtables -> [done |-> FALSE, data |-> data]

\* getFlag() and setFlag(), which does not say whether it could.
GetFlag(data, flag) == flag \in Get(data, 0, "long")

SetFlag(data, flag, on) ==
    LET current == Get(data, 0, "long")
    IN  Set(data, 0, "long", IF on THEN current \cup {flag} ELSE current \ {flag}).data

-----------------------------------------------------------------------------
ActorInit == items = <<>> /\ vtables = {}

\* A packet of the server: its IDs are distinct.
Packets ==
    {data \in BoundedSeq([id : IDs, type : Types, value : SUBSET Bits],
                         MaxItems) :
        \A i, j \in 1..Len(data) : data[i].id = data[j].id => i = j}

\* harvestDataItems(), unless it has found enough.
Receive ==
    /\ \E data \in Packets : items' = data
    /\ vtables' = IF Cardinality(vtables) >= Enough THEN vtables
                  ELSE vtables \cup {items'[i].type : i \in 1..Len(items')}

CallSet ==
    /\ \E id \in IDs, type \in Types, value \in SUBSET Bits :
          items' = Set(items, id, type, value).data
    /\ Len(items') <= Most
    /\ UNCHANGED vtables

CallSetFlag ==
    /\ \E flag \in Bits, on \in BOOLEAN : items' = SetFlag(items, flag, on)
    /\ Len(items') <= Most
    /\ UNCHANGED vtables

ActorNext == Receive \/ CallSet \/ CallSetFlag

-----------------------------------------------------------------------------
(* Properties. *)

\* An item of another type stands before all of this type and hides them.
Hidden(id, type) == GetItem(items, id).type \notin {type, "none"}

\* DataItem.h:452: what set() reports as done is read back, unless an item of another
\* type hides it; an item of another type is never written, nor one of another ID, and
\* nothing is if set() says so.  A flag that was set is read back too, and no other
\* flag changes.
SetIsRead ==
    /\ \A id \in IDs, type \in Types, value \in SUBSET Bits :
          LET result == Set(items, id, type, value)
          IN  /\ (result.done /\ ~Hidden(id, type)) => Get(result.data, id, type) = value
              /\ ~result.done => result.data = items
              /\ \A i \in 1..Len(items) :
                    items[i].type # type \/ items[i].id # id => result.data[i] = items[i]
    /\ ("long" \in vtables /\ ~Hidden(0, "long")) =>
          \A flag, other \in Bits, on \in BOOLEAN :
              GetFlag(SetFlag(items, flag, on), other) =
                  IF other = flag THEN on ELSE GetFlag(items, other)
=============================================================================
