---------------------------- MODULE PlayerTracker ----------------------------
(***************************************************************************)
(* PlayerTracker (src/services/PlayerTracker.cpp): the roster of players   *)
(* and the four indices kept beside it.                                    *)
(*                                                                         *)
(* m_players maps a UUID to a shared TrackedPlayer; the indices map a      *)
(* runtime ID to the same shared object, and an entity ID, a name and a    *)
(* nametag to a UUID.  Every critical section runs under one recursive     *)
(* mutex, so it is one step here; the callbacks it owes are copied out and *)
(* delivered by the same thread afterwards, one step each.                 *)
(*                                                                         *)
(* Abstractions.  Names and nametags are texts, cleaned and turned into    *)
(* keys by the functions of SafeString.  A map is a total function with    *)
(* Null for an absent key.  The ID 0 is None; None and the empty text are  *)
(* no key of any index, so that erasing or binding them is the no-op the   *)
(* source's "!= 0" and "empty()" tests make of it.  A player that left the *)
(* roster has its cell of the heap blanked: from then on only callbacks    *)
(* read it.  A callback that calls the tracker itself is left out: nothing *)
(* in the repository subscribes one.                                       *)
(***************************************************************************)
EXTENDS Naturals, Sequences

CONSTANTS
    Uuids,      \* UUID strings of players
    EmptyUuid,  \* the empty string: bindPlayerIndices refuses to index it
    NilUuid,    \* the all-zero UUID, which PlayerList entries are skipped for
    Objs,       \* heap cells a TrackedPlayer can occupy
    Ids,        \* nonzero int64 IDs, runtime and unique alike
    Poses,      \* positions
    Threads,    \* threads that call into the tracker
    Events,     \* callback kinds a module may subscribe to
    RidsOf,     \* RidsOf[u]: runtime IDs the server may give player u
    EidsOf,     \* EidsOf[u]: unique entity IDs the server may give player u
    NamesOf,    \* NamesOf[u]: names, as sent, that player u may be given
    TagsOf,     \* TagsOf[u]: nametags, as sent, that player u may be given
    Spelled,    \* Spelled[u]: the text of the UUID, in lower case
    Queries,    \* names somebody looks up
    None,       \* the ID 0
    Null        \* an absent map entry, a null pointer

EventKinds == {"join", "leave", "spawn", "despawn", "move"}

Text == INSTANCE SafeString WITH Inline <- 15, Longest <- 131072

-----------------------------------------------------------------------------
(* Names and the keys they are filed under. *)

Given == UNION {NamesOf[u] : u \in Uuids}

\* The name a PlayerList entry gives: without colours, unless nothing is left.
Listed == [name \in Given |->
    LET plain == Text!StripColorCodes(name)
    IN  IF plain # <<>> THEN plain ELSE name]

\* The name an AddPlayerPacket gives: cleaned, unless nothing is left.
Spoken == [name \in Given \cup {<<>>} |->
    LET clean == Text!CleanPlayerName(name)
    IN  IF clean # <<>> THEN clean ELSE Text!StripColorCodes(name)]

\* The nametags a player can hold: one of which nothing can be seen is not kept.
Tags == {tag \in UNION {TagsOf[u] : u \in Uuids} :
            Text!Trim(Text!StripColorCodes(tag)) # <<>>}

\* The names a player can hold.
Names == (Given \cup {Listed[name] : name \in Given}
                \cup {Spoken[name] : name \in Given \cup {<<>>}})
         \ {<<>>}

\* The key a name or nametag is filed under; the empty text has none.
NameKey == [name \in Names \cup {<<>>} |->
               IF name = <<>> THEN <<>> ELSE Text!ToLower(name)]

TagKey == [tag \in Tags \cup {<<>>} |->
              IF tag = <<>> THEN <<>> ELSE Text!ToLower(Text!StripColorCodes(tag))]

Keys == {NameKey[name] : name \in Names} \cup {TagKey[tag] : tag \in Tags}

\* A field a packet does not carry: the ID 0, no position, the empty text.
Absent == {None, <<>>}

ASSUME TrackerAssumption ==
    /\ Absent \cap (Ids \cup Keys \cup Poses \cup Tags) = {}
    /\ Null \notin Objs \cup Uuids \cup Threads
    /\ None \notin Uuids
    /\ Events \subseteq EventKinds
    /\ RidsOf \in [Uuids -> SUBSET Ids]
    /\ EidsOf \in [Uuids -> SUBSET Ids]
    /\ \A u \in Uuids : <<>> \notin NamesOf[u] \cup TagsOf[u]

VARIABLES
    roster,      \* m_players
    heap,        \* the TrackedPlayer objects
    byRid,       \* m_runtimeIdToPlayer
    byEid,       \* m_entityIdToUuid
    byName,      \* m_nameToUuid
    byTag,       \* m_nametagToUuid
    subs,        \* the callback kinds somebody subscribed to
    calls,       \* callbacks each thread still has to make, in order
    lockOwner,   \* thread that keeps m_mutex while it makes its callbacks
    initialized  \* m_initialized: the packet handlers are registered

indexVars == <<roster, heap, byRid, byEid, byName, byTag>>
vars == <<roster, heap, byRid, byEid, byName, byTag, subs, calls, lockOwner,
          initialized>>

-----------------------------------------------------------------------------
Player == [uuid : Uuids \cup {None}, name : Names \cup {<<>>},
           tag : Tags \cup {<<>>}, rid : Ids \cup {None},
           eid : Ids \cup {None}, spawned : BOOLEAN, pos : Poses \cup {None}]

Blank == [uuid |-> None, name |-> <<>>, tag |-> <<>>, rid |-> None,
          eid |-> None, spawned |-> FALSE, pos |-> None]

Call == [kind : EventKinds, obj : Objs]

MutErase(index, key) ==
    [k \in DOMAIN index |-> IF k = key THEN None ELSE index[k]]

Erase(index, key) ==
    [k \in DOMAIN index |-> IF k = key THEN Null ELSE index[k]]

Put(index, key, value) ==
    [k \in DOMAIN index |-> IF k = key THEN value ELSE index[k]]

\* A cell some pointer still refers to: the roster's, the runtime index's, or
\* the shared_ptr a thread keeps for the callbacks it has yet to make.
Referenced(o) ==
    \/ \E u \in Uuids : roster[u] = o
    \/ \E r \in Ids : byRid[r] = o
    \/ \E t \in Threads : \E i \in 1..Len(calls[t]) : calls[t][i].obj = o

\* getOrCreatePlayerLocked: the tracked object, or a fresh one.
Cells(u) == IF roster[u] # Null THEN {roster[u]}
            ELSE {o \in Objs : ~Referenced(o)}

\* What assigning a field only when the packet carries a value does.
Update(old, value) == IF value \in Absent THEN old ELSE value
FillIn(old, value) == IF old \in Absent THEN value ELSE old

MutReindex(o, old, new) ==
    LET indexed(index, was, is, value) ==
            IF new.uuid = EmptyUuid THEN Erase(index, was)
            ELSE Erase(Put(index, is, value), was)
    IN  /\ heap'   = [heap EXCEPT ![o] = new]
        /\ roster' = [roster EXCEPT ![new.uuid] = o]
        /\ byRid'  = indexed(byRid,  old.rid,  new.rid,  o)
        /\ byEid'  = indexed(byEid,  old.eid,  new.eid,  new.uuid)
        /\ byName' = indexed(byName, NameKey[old.name], NameKey[new.name], new.uuid)
        /\ byTag'  = indexed(byTag,  TagKey[old.tag],   TagKey[new.tag],   new.uuid)

\* unbindPlayerIndices of the old record, the field updates, and
\* bindPlayerIndices of the new one, as every upsert does them in sequence.
Reindex(o, old, new) ==
    LET indexed(index, was, is, value) ==
            IF new.uuid = EmptyUuid THEN Erase(index, was)
            ELSE Put(Erase(index, was), is, value)
    IN  /\ heap'   = [heap EXCEPT ![o] = new]
        /\ roster' = [roster EXCEPT ![new.uuid] = o]
        /\ byRid'  = indexed(byRid,  old.rid,  new.rid,  o)
        /\ byEid'  = indexed(byEid,  old.eid,  new.eid,  new.uuid)
        /\ byName' = indexed(byName, NameKey[old.name], NameKey[new.name], new.uuid)
        /\ byTag'  = indexed(byTag,  TagKey[old.tag],   TagKey[new.tag],   new.uuid)

\* A thread enters m_mutex when nobody keeps it and its own callbacks are done.
Enter(t) == lockOwner = Null /\ calls[t] = <<>>

\* The call a critical section copied out, when its kind has a subscriber.
Owed(kind, o) ==
    IF kind \in subs THEN <<[kind |-> kind, obj |-> o]>> ELSE <<>>

\* join is owed for a player that was not on the roster.
OwedJoin(u, o) == IF roster[u] = Null THEN Owed("join", o) ELSE <<>>

MutOwe(t, called) ==
    calls' = [calls EXCEPT ![t] = IF Len(called) = 2 THEN <<called[2], called[1]>>
                                  ELSE called]

Owe(t, called) == calls' = [calls EXCEPT ![t] = called]

-----------------------------------------------------------------------------
Init ==
    /\ roster = [u \in Uuids |-> Null]
    /\ heap   = [o \in Objs |-> Blank]
    /\ byRid  = [i \in Ids |-> Null]
    /\ byEid  = [i \in Ids |-> Null]
    /\ byName = [k \in Keys |-> Null]
    /\ byTag  = [k \in Keys |-> Null]
    /\ subs = {}
    /\ calls = [t \in Threads |-> <<>>]
    /\ lockOwner = Null
    /\ initialized = FALSE

\* init(): AppCore::start registers the packet handlers.
Register ==
    /\ ~initialized
    /\ initialized' = TRUE
    /\ UNCHANGED <<indexVars, subs, calls, lockOwner>>

\* onPlayerJoin ... onPlayerMove.
Subscribe(kind) ==
    /\ lockOwner = Null
    /\ subs' = subs \cup {kind}
    /\ UNCHANGED <<indexVars, calls, lockOwner, initialized>>

\* addPlayer(uuid, playerName, entityId, runtimeId, pos), the public entry.
AddPlayer(t, u, name, eid, rid, pos) ==
    /\ Enter(t)
    /\ \E o \in Cells(u) :
        LET old == heap[o]
            new == [old EXCEPT !.uuid = u,
                               !.name = Update(@, name),
                               !.eid = Update(@, eid),
                               !.rid = Update(@, rid),
                               !.spawned = (rid # None) \/ @,
                               !.pos = Update(@, pos)]
        IN  /\ Reindex(o, old, new)
            /\ Owe(t, OwedJoin(u, o))
    /\ UNCHANGED <<subs, lockOwner, initialized>>

\* One ADD entry of a PlayerListPacket: the server's roster.
PlayerListAdd(t, u, name, eid) ==
    /\ initialized
    /\ u # NilUuid
    /\ Enter(t)
    /\ \E o \in Cells(u) :
        LET old == heap[o]
            new == [old EXCEPT !.uuid = u,
                               !.name = Listed[name],
                               !.eid = Update(@, eid)]
        IN  /\ Reindex(o, old, new)
            /\ Owe(t, OwedJoin(u, o))
    /\ UNCHANGED <<subs, lockOwner, initialized>>

\* AddPlayerPacket: the player comes into view, at a position, with a nametag.
AddPlayerPacket(t, u, name, eid, rid, tag, pos) ==
    /\ initialized
    /\ Enter(t)
    /\ \E o \in Cells(u) :
        LET old == heap[o]
            new == [old EXCEPT !.uuid = u,
                               !.name = FillIn(@, Spoken[name]),
                               !.eid = FillIn(@, eid),
                               !.rid = rid,
                               !.spawned = TRUE,
                               !.tag = IF tag \in Tags THEN tag ELSE @,
                               !.pos = pos]
        IN  /\ Reindex(o, old, new)
            /\ Owe(t, OwedJoin(u, o) \o Owed("spawn", o))
    /\ UNCHANGED <<subs, lockOwner, initialized>>

MutForget(o) ==
    LET old == heap[o]
    IN  /\ byRid'  = Erase(byRid, old.rid)
        /\ byEid'  = Erase(byEid, old.eid)
        /\ byName' = Erase(byName, NameKey[old.name])
        /\ byTag'  = byTag
        /\ roster' = [roster EXCEPT ![old.uuid] = Null]
        /\ heap'   = [heap EXCEPT ![o] = Blank]

\* The erasure removePlayerByUuid makes, when the UUID is known.
Forget(o) ==
    LET old == heap[o]
    IN  /\ byRid'  = Erase(byRid, old.rid)
        /\ byEid'  = Erase(byEid, old.eid)
        /\ byName' = Erase(byName, NameKey[old.name])
        /\ byTag'  = Erase(byTag, TagKey[old.tag])
        /\ roster' = [roster EXCEPT ![old.uuid] = Null]
        /\ heap'   = [heap EXCEPT ![o] = Blank]

\* removePlayerByUuid: a REMOVE entry of a PlayerListPacket, or a caller.
RemovePlayerByUuid(t, u) ==
    /\ Enter(t)
    /\ roster[u] # Null
    /\ Forget(roster[u])
    /\ Owe(t, Owed("leave", roster[u]))
    /\ UNCHANGED <<subs, lockOwner, initialized>>

\* The REMOVE entry itself skips the nil UUID.
PlayerListRemove(t, u) ==
    /\ initialized
    /\ u # NilUuid
    /\ RemovePlayerByUuid(t, u)

\* removePlayer(runtimeId): its own lock is still held while
\* removePlayerByUuid makes the leave callbacks.
RemovePlayer(t, rid) ==
    /\ Enter(t)
    /\ byRid[rid] # Null
    /\ LET o == roster[heap[byRid[rid]].uuid]
       IN  /\ o # Null
           /\ Forget(o)
           /\ Owe(t, Owed("leave", o))
           /\ lockOwner' = IF "leave" \in subs THEN t ELSE Null
    /\ UNCHANGED <<subs, initialized>>

\* The player RemoveActorPacket's handler resolves an ID to: getPlayer, which
\* reads it as a runtime ID, then getPlayerByEntityId.
Resolve(id) ==
    IF byRid[id] # Null THEN byRid[id]
    ELSE IF byEid[id] # Null THEN roster[byEid[id]] ELSE Null

\* RemoveActorPacket: the actor leaves the world, the roster keeps the player.
RemoveActor(t, id) ==
    /\ initialized
    /\ Enter(t)
    /\ LET o == Resolve(id)
       IN  /\ o # Null
           /\ byRid' = Erase(byRid, heap[o].rid)
           /\ heap' = [heap EXCEPT ![o].rid = None, ![o].spawned = FALSE]
           /\ Owe(t, Owed("despawn", o))
    /\ UNCHANGED <<roster, byEid, byName, byTag, subs, lockOwner, initialized>>

\* updatePlayerPosition, updatePlayerTransform and updatePlayerDeltaTransform,
\* and the three movement packets that call them.
Move(t, rid, pos) ==
    /\ Enter(t)
    /\ byRid[rid] # Null
    /\ heap' = [heap EXCEPT ![byRid[rid]].pos = pos]
    /\ Owe(t, Owed("move", byRid[rid]))
    /\ UNCHANGED <<roster, byRid, byEid, byName, byTag, subs, lockOwner,
                   initialized>>

\* clearWorldActors, on a ChangeDimensionPacket.
ClearWorldActors(t) ==
    /\ Enter(t)
    /\ byRid' = [i \in Ids |-> Null]
    /\ heap' = [o \in Objs |->
                  IF \E u \in Uuids : roster[u] = o
                  THEN [heap[o] EXCEPT !.rid = None, !.spawned = FALSE]
                  ELSE heap[o]]
    /\ UNCHANGED <<roster, byEid, byName, byTag, subs, calls, lockOwner,
                   initialized>>

EmptyMaps ==
    /\ roster' = [u \in Uuids |-> Null]
    /\ heap'   = [o \in Objs |-> Blank]
    /\ byRid'  = [i \in Ids |-> Null]
    /\ byEid'  = [i \in Ids |-> Null]
    /\ byName' = [k \in Keys |-> Null]
    /\ byTag'  = [k \in Keys |-> Null]

\* reset(): DISCONNECT, TRANSFER, or the return to the menu AppCore::tick sees.
Reset(t) ==
    /\ Enter(t)
    /\ EmptyMaps
    /\ UNCHANGED <<subs, calls, lockOwner, initialized>>

\* shutdown(), at ejection.
Shutdown(t) ==
    /\ Enter(t)
    /\ EmptyMaps
    /\ subs' = {}
    /\ initialized' = FALSE
    /\ UNCHANGED <<calls, lockOwner>>

\* A thread makes the next callback it owes; the one that kept the lock for
\* its callbacks lets go after the last.
Deliver(t) ==
    /\ calls[t] # <<>>
    /\ calls' = [calls EXCEPT ![t] = Tail(@)]
    /\ lockOwner' = IF lockOwner = t /\ Len(calls[t]) = 1 THEN Null
                    ELSE lockOwner
    /\ UNCHANGED <<indexVars, subs, initialized>>

Next ==
    \/ Register
    \/ \E kind \in Events : Subscribe(kind)
    \/ \E t \in Threads :
        \/ \E u \in Uuids, pos \in Poses \cup {None} :
            \E name \in NamesOf[u] \cup {<<>>}, eid \in EidsOf[u] \cup {None},
               rid \in RidsOf[u] \cup {None} :
                AddPlayer(t, u, name, eid, rid, pos)
        \/ \E u \in Uuids : \E name \in NamesOf[u], eid \in EidsOf[u] \cup {None} :
            PlayerListAdd(t, u, name, eid)
        \/ \E u \in Uuids, pos \in Poses :
            \E name \in NamesOf[u] \cup {<<>>}, eid \in EidsOf[u] \cup {None},
               rid \in RidsOf[u] \cup {None}, tag \in TagsOf[u] \cup {<<>>} :
                AddPlayerPacket(t, u, name, eid, rid, tag, pos)
        \/ \E u \in Uuids : RemovePlayerByUuid(t, u) \/ PlayerListRemove(t, u)
        \/ \E id \in Ids : RemovePlayer(t, id) \/ RemoveActor(t, id)
        \/ \E id \in Ids, pos \in Poses : Move(t, id, pos)
        \/ ClearWorldActors(t) \/ Reset(t) \/ Shutdown(t) \/ Deliver(t)

Spec == Init /\ [][Next]_vars

\* A server that never gives two rostered players one ID, name or nametag:
\* it may reuse what a player gave up.
Distinct ==
    \A u, v \in Uuids :
        (u # v /\ roster[u] # Null /\ roster[v] # Null) =>
            LET p == heap[roster[u]]
                q == heap[roster[v]]
            IN  /\ p.rid = q.rid => p.rid = None
                /\ p.eid = q.eid => p.eid = None
                /\ NameKey[p.name] = NameKey[q.name] => p.name = <<>>
                /\ TagKey[p.tag] = TagKey[q.tag] => p.tag = <<>>

DistinctSpec == Init /\ [][Next /\ Distinct']_vars

-----------------------------------------------------------------------------
(* The queries. *)

\* getPlayerByEntityId
ByEntityId(id) == IF byEid[id] # Null THEN roster[byEid[id]] ELSE Null

\* findPlayerByNametag: the index alone.
FindByNametag(tag) ==
    LET k == Text!ToLower(Text!StripColorCodes(tag))
    IN  IF k \in Keys /\ byTag[k] # Null THEN {roster[byTag[k]]} ELSE {}

Rostered == {roster[u] : u \in Uuids} \ {Null}

\* The three ways a player can match the text asked for.
Carries(o, k) == k = NameKey[heap[o].name] \/ k = TagKey[heap[o].tag]

StartsWith(o, k) ==
    \E text \in {NameKey[heap[o].name], TagKey[heap[o].tag], Spelled[heap[o].uuid]} :
        Text!Search(k, text, 1) = 1

Contains(o, k) ==
    \E text \in {NameKey[heap[o].name], TagKey[heap[o].tag]} :
        Text!Search(k, text, 1) # 0

MutFindByName(name) ==
    LET k == Text!Sought(name)
        prefixed == {o \in Rostered : StartsWith(o, k)}
    IN  IF k = <<>> THEN {}
        ELSE IF k \in Keys /\ byName[k] # Null THEN {roster[byName[k]]}
        ELSE IF k \in Keys /\ byTag[k] # Null THEN {roster[byTag[k]]}
        ELSE IF prefixed # {} THEN prefixed
        ELSE {o \in Rostered : Contains(o, k)}

\* findPlayerByName: the players it may return.  Each of its three scans goes
\* through a hash map in no particular order and stops at the first match.
FindByName(name) ==
    LET k == Text!Sought(name)
        exact == {o \in Rostered : Carries(o, k)}
        prefixed == {o \in Rostered : StartsWith(o, k)}
    IN  IF k = <<>> THEN {}
        ELSE IF k \in Keys /\ byName[k] # Null THEN {roster[byName[k]]}
        ELSE IF k \in Keys /\ byTag[k] # Null THEN {roster[byTag[k]]}
        ELSE IF exact # {} THEN exact
        ELSE IF prefixed # {} THEN prefixed
        ELSE {o \in Rostered : Contains(o, k)}

\* getWorldPlayers
WorldPlayers == {byRid[i] : i \in {j \in Ids : byRid[j] # Null
                                              /\ heap[byRid[j]].spawned}}

-----------------------------------------------------------------------------
(* Properties. *)

\* Every variable keeps the type its declaration gives it.
TypeOK ==
    /\ roster \in [Uuids -> Objs \cup {Null}]
    /\ heap \in [Objs -> Player]
    /\ byRid \in [Ids -> Objs \cup {Null}]
    /\ byEid \in [Ids -> Uuids \cup {Null}]
    /\ byName \in [Keys -> Uuids \cup {Null}]
    /\ byTag \in [Keys -> Uuids \cup {Null}]
    /\ subs \subseteq EventKinds
    /\ calls \in [Threads -> Seq(Call)]
    /\ lockOwner \in Threads \cup {Null}
    /\ initialized \in BOOLEAN

\* The roster files every player under the UUID it carries.
RosterSound ==
    \A u \in Uuids : roster[u] # Null => heap[roster[u]].uuid = u

RidSound ==
    \A i \in Ids : byRid[i] # Null =>
        LET p == heap[byRid[i]]
        IN  /\ p.uuid \in Uuids
            /\ roster[p.uuid] = byRid[i]
            /\ p.rid = i
            /\ p.spawned

EidSound ==
    \A i \in Ids : byEid[i] # Null =>
        roster[byEid[i]] # Null /\ heap[roster[byEid[i]]].eid = i

NameSound ==
    \A k \in Keys : byName[k] # Null =>
        roster[byName[k]] # Null /\ NameKey[heap[roster[byName[k]]].name] = k

TagSound ==
    \A k \in Keys : byTag[k] # Null =>
        roster[byTag[k]] # Null /\ TagKey[heap[roster[byTag[k]]].tag] = k

\* No index ever serves a player that left the roster, changed the key it is
\* filed under, or is out of the world: whatever mix of upserts, removals,
\* despawns and resets went before, on however many threads, and even when
\* two players share a key (PlayerTracker.cpp:63-127).
IndexSound == RosterSound /\ RidSound /\ EidSound /\ NameSound /\ TagSound

\* While the server keeps IDs, names and nametags distinct, no rostered
\* player with a UUID is ever unreachable: getPlayer, getPlayerByEntityId,
\* findPlayerByNametag and the list of the world's players lead from each of
\* its fields back to it, however those fields were handed from one player to
\* another before (PlayerTracker.cpp:81-127, 330-340, 411-447).
Findable ==
    \A u \in Uuids \ {EmptyUuid} : roster[u] # Null =>
        LET p == heap[roster[u]]
        IN  /\ p.rid # None => /\ byRid[p.rid] = roster[u]
                               /\ roster[u] \in WorldPlayers
            /\ p.eid # None => byEid[p.eid] = u
            /\ p.name # <<>> => byName[NameKey[p.name]] = u
            /\ p.tag # <<>> => byTag[TagKey[p.tag]] = u

\* findPlayerByName never answers with a player that left, or with nobody
\* while somebody on the roster matches; and while somebody carries exactly
\* the name or nametag asked for, nobody is preferred whose name or UUID only
\* begins with it or whose name only contains it.  The latter holds even
\* where players that shared a key made the indices lose it: the first scan
\* covers for them (PlayerTracker.cpp:342-409).
NameLookup ==
    \A name \in Queries :
        LET k == Text!Sought(name)
            found == FindByName(name)
        IN  k # <<>> =>
            /\ found \subseteq Rostered
            /\ \A o \in Rostered :
                /\ StartsWith(o, k) \/ Contains(o, k) => found # {}
                /\ Carries(o, k) => found # {} /\ \A f \in found : Carries(f, k)

\* No callback is made while a join of the same player is still owed.
JoinBefore ==
    \A t \in Threads : Deliver(t) =>
        \A s \in Threads : \A i \in 1..Len(calls'[s]) :
            ~(calls'[s][i].kind = "join" /\ calls'[s][i].obj = Head(calls[t]).obj)

\* When the network thread alone calls the tracker, a subscriber learns of a
\* player's spawn, move or departure only after its join.
JoinFirst == [][JoinBefore]_vars

\* DEVELOPER.md:559: findPlayerByNametag returns a player by their nametag.
TagFindable ==
    \A u \in Uuids : roster[u] # Null /\ heap[roster[u]].tag # <<>> =>
        FindByNametag(heap[roster[u]].tag) # {}

\* DEVELOPER.md:1108: RemoveActorPacket carries the unique entity ID of the
\* removed actor; so a player with that unique ID is the one to despawn.
DespawnsNamedActor ==
    \A id \in Ids : ByEntityId(id) # Null => Resolve(id) = ByEntityId(id)

=============================================================================
