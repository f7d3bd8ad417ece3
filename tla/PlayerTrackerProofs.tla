------------------------- MODULE PlayerTrackerProofs -------------------------
(***************************************************************************)
(* Proofs about PlayerTracker, for every number of players, IDs, keys,     *)
(* threads and subscriptions.                                              *)
(***************************************************************************)
EXTENDS PlayerTracker, TLAPS

\* A player that holds a runtime ID is in the world: what makes it sound to
\* bind that ID again when a later packet updates only the name.
RidSpawned == \A o \in Objs : heap[o].rid # None => heap[o].spawned

Inv == TypeOK /\ IndexSound /\ RidSpawned

\* What stands for an absent field is filed nowhere.
LEMMA AbsentHasNoKey ==
    /\ NameKey[<<>>] = <<>> /\ TagKey[<<>>] = <<>>
    /\ <<>> \notin Keys /\ None \notin Keys
    /\ <<>> \notin Ids /\ None \notin Ids
    /\ <<>> \notin Tags
BY TrackerAssumption DEF NameKey, TagKey, Absent

\* Any name or nametag a player holds is filed under one of Keys.
LEMMA HeldTextHasKey ==
    ASSUME NEW p \in Player
    PROVE  /\ p.name # <<>> => NameKey[p.name] \in Keys
           /\ p.tag # <<>> => TagKey[p.tag] \in Keys
<1>1. p.name \in Names \cup {<<>>} /\ p.tag \in Tags \cup {<<>>}
  BY DEF Player
<1> QED BY <1>1 DEF Keys

\* The names the two packets give are names a player can hold.
LEMMA ListedIsName ==
    ASSUME NEW u \in Uuids, NEW name \in NamesOf[u]
    PROVE  name \in Given /\ Listed[name] \in Names
<1>1. name \in Given /\ name # <<>>
  BY TrackerAssumption DEF Given
<1>2. Listed[name] # <<>>
  BY <1>1 DEF Listed
<1> QED BY <1>1, <1>2 DEF Names

LEMMA SpokenIsName ==
    ASSUME NEW u \in Uuids, NEW name \in NamesOf[u] \cup {<<>>}
    PROVE  Spoken[name] \in Names \cup {<<>>}
BY DEF Names, Given

\* The state after an upsert of player u in cell o, key by key
\* (getOrCreatePlayerLocked, the field updates, bindPlayerIndices).
LEMMA ReindexEffect ==
    ASSUME TypeOK, NEW o \in Objs, NEW u \in Uuids, NEW new \in Player,
           new.uuid = u, Reindex(o, heap[o], new)
    PROVE  /\ roster' \in [Uuids -> Objs \cup {Null}]
           /\ \A v \in Uuids : roster'[v] = IF v = u THEN o ELSE roster[v]
           /\ heap' \in [Objs -> Player]
           /\ \A c \in Objs : heap'[c] = IF c = o THEN new ELSE heap[c]
           /\ byRid' \in [Ids -> Objs \cup {Null}]
           /\ byEid' \in [Ids -> Uuids \cup {Null}]
           /\ byName' \in [Keys -> Uuids \cup {Null}]
           /\ byTag' \in [Keys -> Uuids \cup {Null}]
           /\ \A i \in Ids : byRid'[i] =
                IF u # EmptyUuid /\ i = new.rid THEN o
                ELSE IF i = heap[o].rid THEN Null ELSE byRid[i]
           /\ \A i \in Ids : byEid'[i] =
                IF u # EmptyUuid /\ i = new.eid THEN u
                ELSE IF i = heap[o].eid THEN Null ELSE byEid[i]
           /\ \A k \in Keys : byName'[k] =
                IF u # EmptyUuid /\ k = NameKey[new.name] THEN u
                ELSE IF k = NameKey[heap[o].name] THEN Null ELSE byName[k]
           /\ \A k \in Keys : byTag'[k] =
                IF u # EmptyUuid /\ k = TagKey[new.tag] THEN u
                ELSE IF k = TagKey[heap[o].tag] THEN Null ELSE byTag[k]
<1> USE DEF TypeOK
<1>1. /\ roster' = [roster EXCEPT ![u] = o]
      /\ heap' = [heap EXCEPT ![o] = new]
  BY DEF Reindex
<1>2. CASE u = EmptyUuid
  <2>1. /\ byRid' = Erase(byRid, heap[o].rid)
        /\ byEid' = Erase(byEid, heap[o].eid)
        /\ byName' = Erase(byName, NameKey[heap[o].name])
        /\ byTag' = Erase(byTag, TagKey[heap[o].tag])
    BY <1>2 DEF Reindex
  <2>2. /\ byRid' \in [Ids -> Objs \cup {Null}]
        /\ \A i \in Ids : byRid'[i] = IF i = heap[o].rid THEN Null ELSE byRid[i]
    BY <2>1 DEF Erase
  <2>3. /\ byEid' \in [Ids -> Uuids \cup {Null}]
        /\ \A i \in Ids : byEid'[i] = IF i = heap[o].eid THEN Null ELSE byEid[i]
    BY <2>1 DEF Erase
  <2>4. /\ byName' \in [Keys -> Uuids \cup {Null}]
        /\ \A k \in Keys : byName'[k] = IF k = NameKey[heap[o].name] THEN Null ELSE byName[k]
    BY <2>1 DEF Erase
  <2>5. /\ byTag' \in [Keys -> Uuids \cup {Null}]
        /\ \A k \in Keys : byTag'[k] = IF k = TagKey[heap[o].tag] THEN Null ELSE byTag[k]
    BY <2>1 DEF Erase
  <2> QED BY <1>1, <1>2, <2>2, <2>3, <2>4, <2>5
<1>3. CASE u # EmptyUuid
  <2>1. /\ byRid' = Put(Erase(byRid, heap[o].rid), new.rid, o)
        /\ byEid' = Put(Erase(byEid, heap[o].eid), new.eid, u)
        /\ byName' = Put(Erase(byName, NameKey[heap[o].name]), NameKey[new.name], u)
        /\ byTag' = Put(Erase(byTag, TagKey[heap[o].tag]), TagKey[new.tag], u)
    BY <1>3 DEF Reindex
  <2>2. /\ byRid' \in [Ids -> Objs \cup {Null}]
        /\ \A i \in Ids : byRid'[i] =
             IF i = new.rid THEN o
             ELSE IF i = heap[o].rid THEN Null ELSE byRid[i]
    BY <2>1 DEF Put, Erase
  <2>3. /\ byEid' \in [Ids -> Uuids \cup {Null}]
        /\ \A i \in Ids : byEid'[i] =
             IF i = new.eid THEN u
             ELSE IF i = heap[o].eid THEN Null ELSE byEid[i]
    BY <2>1 DEF Put, Erase
  <2>4. /\ byName' \in [Keys -> Uuids \cup {Null}]
        /\ \A k \in Keys : byName'[k] =
             IF k = NameKey[new.name] THEN u
             ELSE IF k = NameKey[heap[o].name] THEN Null ELSE byName[k]
    BY <2>1 DEF Put, Erase
  <2>5. /\ byTag' \in [Keys -> Uuids \cup {Null}]
        /\ \A k \in Keys : byTag'[k] =
             IF k = TagKey[new.tag] THEN u
             ELSE IF k = TagKey[heap[o].tag] THEN Null ELSE byTag[k]
    BY <2>1 DEF Put, Erase
  <2> QED BY <1>1, <1>3, <2>2, <2>3, <2>4, <2>5
<1> QED BY <1>2, <1>3

\* A cell taken for player u is the player's own or nobody's.
LEMMA CellsFree ==
    ASSUME Inv, NEW u \in Uuids, NEW o \in Cells(u)
    PROVE  /\ o \in Objs
           /\ \A v \in Uuids : roster[v] = o => v = u
           /\ roster[u] \in {o, Null}
BY TrackerAssumption DEF Cells, Referenced, Inv, TypeOK, IndexSound, RosterSound

\* An upsert keeps every index sound.
LEMMA ReindexSound ==
    ASSUME Inv, NEW u \in Uuids, NEW o \in Cells(u), NEW new \in Player,
           new.uuid = u, new.rid # None => new.spawned,
           Reindex(o, heap[o], new)
    PROVE  IndexSound' /\ RidSpawned'
<1> USE TrackerAssumption, AbsentHasNoKey DEF Inv
<1>o. /\ o \in Objs
      /\ \A v \in Uuids : roster[v] = o => v = u
      /\ roster[u] \in {o, Null}
  BY CellsFree
<1>e. /\ \A v \in Uuids : roster'[v] = IF v = u THEN o ELSE roster[v]
      /\ \A c \in Objs : heap'[c] = IF c = o THEN new ELSE heap[c]
      /\ \A i \in Ids : byRid'[i] =
           IF u # EmptyUuid /\ i = new.rid THEN o
           ELSE IF i = heap[o].rid THEN Null ELSE byRid[i]
      /\ \A i \in Ids : byEid'[i] =
           IF u # EmptyUuid /\ i = new.eid THEN u
           ELSE IF i = heap[o].eid THEN Null ELSE byEid[i]
      /\ \A k \in Keys : byName'[k] =
           IF u # EmptyUuid /\ k = NameKey[new.name] THEN u
           ELSE IF k = NameKey[heap[o].name] THEN Null ELSE byName[k]
      /\ \A k \in Keys : byTag'[k] =
           IF u # EmptyUuid /\ k = TagKey[new.tag] THEN u
           ELSE IF k = TagKey[heap[o].tag] THEN Null ELSE byTag[k]
  BY <1>o, ReindexEffect DEF TypeOK
<1>1. RosterSound'
  BY <1>o, <1>e DEF IndexSound, RosterSound, TypeOK
<1>2. RidSound'
  <2> SUFFICES ASSUME NEW i \in Ids, byRid'[i] # Null
               PROVE  /\ heap'[byRid'[i]].uuid \in Uuids
                      /\ roster'[heap'[byRid'[i]].uuid] = byRid'[i]
                      /\ heap'[byRid'[i]].rid = i
                      /\ heap'[byRid'[i]].spawned
    BY DEF RidSound
  <2>1. CASE u # EmptyUuid /\ i = new.rid
    BY <2>1, <1>o, <1>e
  <2>2. CASE ~(u # EmptyUuid /\ i = new.rid)
    <3>1. i # heap[o].rid /\ byRid'[i] = byRid[i] /\ byRid[i] # Null
      BY <2>2, <1>e
    <3>2. /\ byRid[i] \in Objs
          /\ heap[byRid[i]].uuid \in Uuids
          /\ roster[heap[byRid[i]].uuid] = byRid[i]
          /\ heap[byRid[i]].rid = i
          /\ heap[byRid[i]].spawned
      BY <3>1 DEF IndexSound, RidSound, TypeOK
    <3>3. byRid[i] # o /\ heap[byRid[i]].uuid # u
      BY <3>1, <3>2, <1>o
    <3> QED BY <3>1, <3>2, <3>3, <1>e
  <2> QED BY <2>1, <2>2
<1>3. EidSound'
  BY <1>o, <1>e DEF IndexSound, EidSound, RosterSound, TypeOK
<1>4. NameSound'
  BY <1>o, <1>e DEF IndexSound, NameSound, RosterSound, TypeOK
<1>5. TagSound'
  BY <1>o, <1>e DEF IndexSound, TagSound, RosterSound, TypeOK
<1>6. RidSpawned'
  BY <1>o, <1>e DEF RidSpawned
<1> QED BY <1>1, <1>2, <1>3, <1>4, <1>5, <1>6 DEF IndexSound

\* The callbacks an operation owes are well-formed calls.
LEMMA OwedCalls ==
    ASSUME NEW t \in Threads, calls \in [Threads -> Seq(Call)],
           NEW s \in Seq(Call), Owe(t, s)
    PROVE  calls' \in [Threads -> Seq(Call)]
BY DEF Owe

LEMMA OwedType ==
    ASSUME NEW kind \in EventKinds, NEW o \in Objs
    PROVE  Owed(kind, o) \in Seq(Call)
<1>1. [kind |-> kind, obj |-> o] \in Call
  BY DEF Call
<1> QED BY <1>1 DEF Owed

LEMMA OwedJoinType ==
    ASSUME NEW u \in Uuids, NEW o \in Objs
    PROVE  OwedJoin(u, o) \in Seq(Call)
<1>1. Owed("join", o) \in Seq(Call)
  BY OwedType DEF EventKinds
<1> QED BY <1>1 DEF OwedJoin

\* What the three operations that add or update a player have in common.
Upsert(t, u) ==
    \E o \in Cells(u), new \in Player, s \in Seq(Call) :
        /\ new.uuid = u
        /\ new.rid # None => new.spawned
        /\ Reindex(o, heap[o], new)
        /\ Owe(t, s)
        /\ UNCHANGED <<subs, lockOwner, initialized>>

\* An upsert keeps the invariant.
LEMMA UpsertStep ==
    ASSUME Inv, NEW t \in Threads, NEW u \in Uuids, Upsert(t, u)
    PROVE  Inv'
<1>p. PICK o \in Cells(u), new \in Player, s \in Seq(Call) :
        /\ new.uuid = u
        /\ new.rid # None => new.spawned
        /\ Reindex(o, heap[o], new)
        /\ Owe(t, s)
        /\ UNCHANGED <<subs, lockOwner, initialized>>
  BY DEF Upsert
<1>1. o \in Objs
  BY CellsFree
<1>2. TypeOK'
  <2>1. calls' \in [Threads -> Seq(Call)]
    BY <1>p, OwedCalls DEF Inv, TypeOK
  <2> QED BY <1>p, <1>1, <2>1, ReindexEffect DEF Inv, TypeOK
<1> QED BY <1>p, <1>2, ReindexSound DEF Inv

\* Taking a player off the roster and out of every index keeps the invariant.
LEMMA ForgetStep ==
    ASSUME Inv, NEW u \in Uuids, roster[u] # Null, Forget(roster[u])
    PROVE  /\ IndexSound' /\ RidSpawned'
           /\ roster' \in [Uuids -> Objs \cup {Null}]
           /\ heap' \in [Objs -> Player]
           /\ byRid' \in [Ids -> Objs \cup {Null}]
           /\ byEid' \in [Ids -> Uuids \cup {Null}]
           /\ byName' \in [Keys -> Uuids \cup {Null}]
           /\ byTag' \in [Keys -> Uuids \cup {Null}]
<1> USE TrackerAssumption, AbsentHasNoKey DEF Inv
<1> DEFINE o == roster[u]
<1>o. o \in Objs /\ heap[o].uuid = u
  BY DEF TypeOK, IndexSound, RosterSound
<1>f. /\ byRid' = [i \in Ids |-> IF i = heap[o].rid THEN Null ELSE byRid[i]]
      /\ byEid' = [i \in Ids |-> IF i = heap[o].eid THEN Null ELSE byEid[i]]
      /\ byName' = [k \in Keys |-> IF k = NameKey[heap[o].name] THEN Null ELSE byName[k]]
      /\ byTag' = [k \in Keys |-> IF k = TagKey[heap[o].tag] THEN Null ELSE byTag[k]]
      /\ roster' = [roster EXCEPT ![u] = Null]
      /\ heap' = [heap EXCEPT ![o] = Blank]
  BY <1>o DEF Forget, Erase, TypeOK
<1>b. Blank \in Player /\ Blank.rid = None
  BY DEF Blank, Player
<1> HIDE DEF o
<1>t. /\ roster' \in [Uuids -> Objs \cup {Null}]
      /\ heap' \in [Objs -> Player]
      /\ byRid' \in [Ids -> Objs \cup {Null}]
      /\ byEid' \in [Ids -> Uuids \cup {Null}]
      /\ byName' \in [Keys -> Uuids \cup {Null}]
      /\ byTag' \in [Keys -> Uuids \cup {Null}]
  BY <1>o, <1>f, <1>b DEF TypeOK
<1>1. RosterSound'
  BY <1>o, <1>f, <1>b DEF TypeOK, IndexSound, RosterSound, o
<1>2. RidSound'
  <2> SUFFICES ASSUME NEW i \in Ids, byRid'[i] # Null
               PROVE  /\ heap'[byRid'[i]].uuid \in Uuids
                      /\ roster'[heap'[byRid'[i]].uuid] = byRid'[i]
                      /\ heap'[byRid'[i]].rid = i
                      /\ heap'[byRid'[i]].spawned
    BY DEF RidSound
  <2>1. i # heap[o].rid /\ byRid'[i] = byRid[i] /\ byRid[i] # Null
    BY <1>f
  <2>2. /\ byRid[i] \in Objs
        /\ heap[byRid[i]].uuid \in Uuids
        /\ roster[heap[byRid[i]].uuid] = byRid[i]
        /\ heap[byRid[i]].rid = i
        /\ heap[byRid[i]].spawned
    BY <2>1 DEF IndexSound, RidSound, TypeOK
  <2>3. byRid[i] # o /\ heap[byRid[i]].uuid # u
    BY <2>1, <2>2 DEF o
  <2>4. heap'[byRid[i]] = heap[byRid[i]]
    BY <1>f, <2>2, <2>3 DEF TypeOK
  <2>5. roster'[heap[byRid[i]].uuid] = roster[heap[byRid[i]].uuid]
    BY <1>f, <2>2, <2>3 DEF TypeOK
  <2> QED BY <2>1, <2>2, <2>4, <2>5
<1>r. /\ \A v \in Uuids : roster'[v] = IF v = u THEN Null ELSE roster[v]
      /\ \A c \in Objs : heap'[c] = IF c = o THEN Blank ELSE heap[c]
      /\ \A v \in Uuids : roster[v] = o => v = u
  BY <1>o, <1>f DEF TypeOK, IndexSound, RosterSound
<1>3. EidSound'
  BY <1>o, <1>f, <1>r DEF TypeOK, IndexSound, EidSound, o
<1>4. NameSound'
  BY <1>o, <1>f, <1>r DEF TypeOK, IndexSound, NameSound, o
<1>5. TagSound'
  BY <1>o, <1>f, <1>r DEF TypeOK, IndexSound, TagSound, o
<1>6. RidSpawned'
  BY <1>r, <1>b DEF RidSpawned
<1> QED BY <1>t, <1>1, <1>2, <1>3, <1>4, <1>5, <1>6 DEF IndexSound

LEMMA AddPlayerUpserts ==
    ASSUME Inv, NEW t \in Threads, NEW u \in Uuids,
           NEW pos \in Poses \cup {None}, NEW name \in NamesOf[u] \cup {<<>>},
           NEW eid \in EidsOf[u] \cup {None}, NEW rid \in RidsOf[u] \cup {None},
           AddPlayer(t, u, name, eid, rid, pos)
    PROVE  Upsert(t, u)
<1> DEFINE new(o) == [heap[o] EXCEPT !.uuid = u,
                                     !.name = Update(@, name),
                                     !.eid = Update(@, eid),
                                     !.rid = Update(@, rid),
                                     !.spawned = (rid # None) \/ @,
                                     !.pos = Update(@, pos)]
<1>1. PICK o \in Cells(u) : /\ Reindex(o, heap[o], new(o))
                            /\ Owe(t, OwedJoin(u, o))
  BY DEF AddPlayer
<1>2. o \in Objs /\ heap[o] \in Player
  BY CellsFree DEF Inv, TypeOK
<1>3. new(o) \in Player /\ new(o).uuid = u
  <2>1. /\ Update(heap[o].name, name) \in Names \cup {<<>>}
        /\ Update(heap[o].eid, eid) \in Ids \cup {None}
        /\ Update(heap[o].rid, rid) \in Ids \cup {None}
        /\ Update(heap[o].pos, pos) \in Poses \cup {None}
    BY <1>2, TrackerAssumption, ListedIsName DEF Player, Update, Names
  <2>2. ((rid # None) \/ heap[o].spawned) \in BOOLEAN
    OBVIOUS
  <2> QED BY ZenonT(60), <1>2, <2>1, <2>2 DEF Player
<1>4. new(o).rid # None => new(o).spawned
  BY <1>2 DEF Inv, RidSpawned, Update, Player
<1>5. UNCHANGED <<subs, lockOwner, initialized>>
  BY DEF AddPlayer
<1> HIDE DEF new
<1> QED BY <1>1, <1>2, <1>3, <1>4, <1>5, OwedJoinType DEF Upsert

LEMMA PlayerListAddUpserts ==
    ASSUME Inv, NEW t \in Threads, NEW u \in Uuids, NEW name \in NamesOf[u],
           NEW eid \in EidsOf[u] \cup {None}, PlayerListAdd(t, u, name, eid)
    PROVE  Upsert(t, u)
<1> DEFINE new(o) == [heap[o] EXCEPT !.uuid = u, !.name = Listed[name],
                                     !.eid = Update(@, eid)]
<1>1. PICK o \in Cells(u) : /\ Reindex(o, heap[o], new(o))
                            /\ Owe(t, OwedJoin(u, o))
  BY DEF PlayerListAdd
<1>2. o \in Objs /\ heap[o] \in Player
  BY CellsFree DEF Inv, TypeOK
<1>3. new(o) \in Player /\ new(o).uuid = u
  <2>1. Listed[name] \in Names /\ Update(heap[o].eid, eid) \in Ids \cup {None}
    BY <1>2, TrackerAssumption, ListedIsName DEF Player, Update
  <2> QED BY <1>2, <2>1 DEF Player
<1>4. new(o).rid # None => new(o).spawned
  BY <1>2 DEF Inv, RidSpawned, Player
<1>5. UNCHANGED <<subs, lockOwner, initialized>>
  BY DEF PlayerListAdd
<1> HIDE DEF new
<1> QED BY <1>1, <1>2, <1>3, <1>4, <1>5, OwedJoinType DEF Upsert

LEMMA AddPlayerPacketUpserts ==
    ASSUME Inv, NEW t \in Threads, NEW u \in Uuids, NEW pos \in Poses,
           NEW name \in NamesOf[u] \cup {<<>>},
           NEW eid \in EidsOf[u] \cup {None}, NEW rid \in RidsOf[u] \cup {None},
           NEW tag \in TagsOf[u] \cup {<<>>},
           AddPlayerPacket(t, u, name, eid, rid, tag, pos)
    PROVE  Upsert(t, u)
<1> DEFINE new(o) == [heap[o] EXCEPT !.uuid = u,
                                     !.name = FillIn(@, Spoken[name]),
                                     !.eid = FillIn(@, eid),
                                     !.rid = rid,
                                     !.spawned = TRUE,
                                     !.tag = IF tag \in Tags THEN tag ELSE @,
                                     !.pos = pos]
<1>1. PICK o \in Cells(u) : /\ Reindex(o, heap[o], new(o))
                            /\ Owe(t, OwedJoin(u, o) \o Owed("spawn", o))
  BY DEF AddPlayerPacket
<1>2. o \in Objs /\ heap[o] \in Player
  BY CellsFree DEF Inv, TypeOK
<1>3. new(o) \in Player /\ new(o).uuid = u /\ new(o).spawned
  <2>1. /\ FillIn(heap[o].name, Spoken[name]) \in Names \cup {<<>>}
        /\ FillIn(heap[o].eid, eid) \in Ids \cup {None}
        /\ (IF tag \in Tags THEN tag ELSE heap[o].tag) \in Tags \cup {<<>>}
        /\ rid \in Ids \cup {None}
    BY <1>2, TrackerAssumption, SpokenIsName DEF Player, Update, FillIn
  <2> QED BY ZenonT(60), <1>2, <2>1 DEF Player
<1>4. OwedJoin(u, o) \o Owed("spawn", o) \in Seq(Call)
  <2>1. Owed("spawn", o) \in Seq(Call)
    BY <1>2, OwedType DEF EventKinds
  <2> QED BY <1>2, <2>1, OwedJoinType
<1>5. UNCHANGED <<subs, lockOwner, initialized>>
  BY DEF AddPlayerPacket
<1> HIDE DEF new
<1> QED BY <1>1, <1>2, <1>3, <1>4, <1>5 DEF Upsert

LEMMA RemoveStep ==
    ASSUME Inv, NEW t \in Threads, NEW u \in Uuids, RemovePlayerByUuid(t, u)
    PROVE  Inv'
<1>1. roster[u] # Null /\ Forget(roster[u])
  BY DEF RemovePlayerByUuid
<1>2. roster[u] \in Objs
  BY <1>1 DEF Inv, TypeOK
<1>3. Owed("leave", roster[u]) \in Seq(Call)
  BY <1>2, OwedType DEF EventKinds
<1>4. calls' \in [Threads -> Seq(Call)]
  BY <1>3, OwedCalls DEF RemovePlayerByUuid, Inv, TypeOK
<1> QED BY <1>1, <1>4, ForgetStep DEF RemovePlayerByUuid, Inv, TypeOK

LEMMA RemovePlayerStep ==
    ASSUME Inv, NEW t \in Threads, NEW rid \in Ids, RemovePlayer(t, rid)
    PROVE  Inv'
<1> DEFINE u == heap[byRid[rid]].uuid
<1>1. byRid[rid] # Null /\ u \in Uuids /\ roster[u] # Null /\ Forget(roster[u])
  BY DEF RemovePlayer, Inv, IndexSound, RidSound
<1>2. roster[u] \in Objs
  BY <1>1 DEF Inv, TypeOK
<1>3. Owed("leave", roster[u]) \in Seq(Call)
  BY <1>2, OwedType DEF EventKinds
<1>4. calls' \in [Threads -> Seq(Call)]
  BY <1>3, OwedCalls DEF RemovePlayer, Inv, TypeOK
<1>5. /\ lockOwner' \in Threads \cup {Null}
      /\ UNCHANGED <<subs, initialized>>
  BY DEF RemovePlayer
<1> HIDE DEF u
<1> QED BY <1>1, <1>4, <1>5, ForgetStep DEF Inv, TypeOK

\* A step that rewrites players in place, and whose runtime index keeps only
\* entries of players whose runtime ID it kept, preserves soundness.
LEMMA RewriteSound ==
    ASSUME Inv,
           UNCHANGED <<roster, byEid, byName, byTag>>,
           byRid' \in [Ids -> Objs \cup {Null}],
           \A c \in Objs : /\ heap'[c].uuid = heap[c].uuid
                           /\ heap'[c].eid = heap[c].eid
                           /\ heap'[c].name = heap[c].name
                           /\ heap'[c].tag = heap[c].tag
                           /\ heap'[c].rid # None => heap'[c].spawned,
           \A i \in Ids : byRid'[i] # Null =>
                /\ byRid'[i] = byRid[i]
                /\ heap'[byRid[i]].rid = heap[byRid[i]].rid
    PROVE  IndexSound' /\ RidSpawned'
<1> USE TrackerAssumption, AbsentHasNoKey DEF Inv
<1>1. RosterSound'
  BY ZenonT(60) DEF TypeOK, IndexSound, RosterSound
<1>2. EidSound'
  BY DEF TypeOK, IndexSound, EidSound
<1>3. NameSound'
  <2> SUFFICES ASSUME NEW k \in Keys, byName'[k] # Null
               PROVE  /\ roster'[byName'[k]] # Null
                      /\ NameKey[heap'[roster'[byName'[k]]].name] = k
    BY DEF NameSound
  <2>1. /\ roster[byName[k]] \in Objs
        /\ NameKey[heap[roster[byName[k]]].name] = k
    BY DEF TypeOK, IndexSound, NameSound
  <2> QED BY <2>1
<1>4. TagSound'
  <2> SUFFICES ASSUME NEW k \in Keys, byTag'[k] # Null
               PROVE  /\ roster'[byTag'[k]] # Null
                      /\ TagKey[heap'[roster'[byTag'[k]]].tag] = k
    BY DEF TagSound
  <2>1. /\ roster[byTag[k]] \in Objs
        /\ TagKey[heap[roster[byTag[k]]].tag] = k
    BY DEF TypeOK, IndexSound, TagSound
  <2> QED BY <2>1
<1>5. RidSound'
  <2> SUFFICES ASSUME NEW i \in Ids, byRid'[i] # Null
               PROVE  /\ heap'[byRid'[i]].uuid \in Uuids
                      /\ roster'[heap'[byRid'[i]].uuid] = byRid'[i]
                      /\ heap'[byRid'[i]].rid = i
                      /\ heap'[byRid'[i]].spawned
    BY DEF RidSound
  <2>1. /\ byRid[i] \in Objs
        /\ heap[byRid[i]].uuid \in Uuids
        /\ roster[heap[byRid[i]].uuid] = byRid[i]
        /\ heap[byRid[i]].rid = i
    BY DEF TypeOK, IndexSound, RidSound
  <2>2. heap'[byRid[i]].rid = i /\ heap'[byRid[i]].uuid = heap[byRid[i]].uuid
    BY <2>1
  <2> QED BY <2>1, <2>2
<1>6. RidSpawned'
  BY DEF RidSpawned
<1> QED BY <1>1, <1>2, <1>3, <1>4, <1>5, <1>6 DEF IndexSound

LEMMA RemoveActorStep ==
    ASSUME Inv, NEW t \in Threads, NEW id \in Ids, RemoveActor(t, id)
    PROVE  Inv'
<1> USE TrackerAssumption, AbsentHasNoKey DEF Inv
<1>1. PICK o : /\ o = Resolve(id)
               /\ o # Null
               /\ byRid' = Erase(byRid, heap[o].rid)
               /\ heap' = [heap EXCEPT ![o].rid = None, ![o].spawned = FALSE]
               /\ Owe(t, Owed("despawn", o))
  BY DEF RemoveActor
<1>2. o \in Objs /\ heap[o] \in Player
  BY <1>1 DEF Resolve, TypeOK
<1>3. calls' \in [Threads -> Seq(Call)]
  <2>1. Owed("despawn", o) \in Seq(Call)
    BY <1>2, OwedType DEF EventKinds
  <2> QED BY <1>1, <2>1, OwedCalls DEF TypeOK
<1>4. UNCHANGED <<roster, byEid, byName, byTag, subs, lockOwner, initialized>>
  BY DEF RemoveActor
<1>5. byRid' = [i \in Ids |-> IF i = heap[o].rid THEN Null ELSE byRid[i]]
  BY <1>1 DEF Erase, TypeOK
<1> DEFINE new == [heap[o] EXCEPT !.rid = None, !.spawned = FALSE]
<1>6. heap' = [heap EXCEPT ![o] = new]
  BY <1>1, <1>2 DEF TypeOK, Player
<1>7. /\ new \in Player /\ new.uuid = heap[o].uuid /\ new.eid = heap[o].eid
      /\ new.name = heap[o].name /\ new.tag = heap[o].tag /\ new.rid = None
  BY <1>2 DEF Player
<1> HIDE DEF new
<1>8. /\ heap' \in [Objs -> Player]
      /\ \A c \in Objs : heap'[c] = IF c = o THEN new ELSE heap[c]
  BY <1>2, <1>6, <1>7 DEF TypeOK
<1>9. TypeOK'
  BY <1>3, <1>4, <1>5, <1>8 DEF TypeOK
<1>10. \A c \in Objs : /\ heap'[c].uuid = heap[c].uuid
                       /\ heap'[c].eid = heap[c].eid
                       /\ heap'[c].name = heap[c].name
                       /\ heap'[c].tag = heap[c].tag
                       /\ heap'[c].rid # None => heap'[c].spawned
  BY <1>7, <1>8 DEF RidSpawned
<1>11. \A i \in Ids : byRid'[i] # Null =>
         byRid'[i] = byRid[i] /\ heap'[byRid[i]].rid = heap[byRid[i]].rid
  <2> SUFFICES ASSUME NEW i \in Ids, byRid'[i] # Null
               PROVE  byRid'[i] = byRid[i]
                      /\ heap'[byRid[i]].rid = heap[byRid[i]].rid
    OBVIOUS
  <2>1. i # heap[o].rid /\ byRid'[i] = byRid[i]
    BY <1>5
  <2>2. byRid[i] \in Objs /\ heap[byRid[i]].rid = i
    BY <2>1 DEF TypeOK, IndexSound, RidSound
  <2> QED BY <1>8, <2>1, <2>2
<1> QED BY <1>4, <1>9, <1>10, <1>11, RewriteSound DEF TypeOK

LEMMA MoveStep ==
    ASSUME Inv, NEW t \in Threads, NEW rid \in Ids, NEW pos \in Poses,
           Move(t, rid, pos)
    PROVE  Inv'
<1> USE TrackerAssumption, AbsentHasNoKey DEF Inv
<1> DEFINE o == byRid[rid]
           new == [heap[o] EXCEPT !.pos = pos]
<1>1. o \in Objs /\ heap[o] \in Player
  BY DEF Move, TypeOK
<1>2. calls' \in [Threads -> Seq(Call)]
  <2>1. Owed("move", byRid[rid]) \in Seq(Call)
    BY <1>1, OwedType DEF EventKinds
  <2> QED BY <2>1, OwedCalls DEF Move, TypeOK
<1>3. UNCHANGED <<roster, byRid, byEid, byName, byTag, subs, lockOwner,
                  initialized>>
  BY DEF Move
<1>4. heap' = [heap EXCEPT ![o] = new]
  BY <1>1 DEF Move, TypeOK, Player
<1>5. /\ new \in Player /\ new.uuid = heap[o].uuid /\ new.eid = heap[o].eid
      /\ new.name = heap[o].name /\ new.tag = heap[o].tag
      /\ new.rid = heap[o].rid
  BY <1>1 DEF Player
<1>6. new.rid # None => new.spawned
  BY <1>1 DEF Player, RidSpawned
<1> HIDE DEF new, o
<1>7. /\ heap' \in [Objs -> Player]
      /\ \A c \in Objs : heap'[c] = IF c = o THEN new ELSE heap[c]
  BY <1>1, <1>4, <1>5 DEF TypeOK
<1>8. TypeOK'
  BY <1>2, <1>3, <1>7 DEF TypeOK
<1>9. \A c \in Objs : /\ heap'[c].uuid = heap[c].uuid
                      /\ heap'[c].eid = heap[c].eid
                      /\ heap'[c].name = heap[c].name
                      /\ heap'[c].tag = heap[c].tag
                      /\ heap'[c].rid # None => heap'[c].spawned
  BY <1>5, <1>6, <1>7 DEF RidSpawned
<1>10. \A i \in Ids : byRid'[i] # Null =>
         byRid'[i] = byRid[i] /\ heap'[byRid[i]].rid = heap[byRid[i]].rid
  BY <1>3, <1>5, <1>7 DEF TypeOK
<1> QED BY <1>3, <1>8, <1>9, <1>10, RewriteSound DEF TypeOK

LEMMA ClearStep ==
    ASSUME Inv, NEW t \in Threads, ClearWorldActors(t)
    PROVE  Inv'
<1> USE TrackerAssumption, AbsentHasNoKey DEF Inv
<1> DEFINE new(c) == [heap[c] EXCEPT !.rid = None, !.spawned = FALSE]
<1>1. /\ byRid' = [i \in Ids |-> Null]
      /\ UNCHANGED <<roster, byEid, byName, byTag, subs, calls, lockOwner,
                     initialized>>
  BY DEF ClearWorldActors
<1>2. heap' = [c \in Objs |-> IF \E u \in Uuids : roster[u] = c
                              THEN new(c) ELSE heap[c]]
  BY DEF ClearWorldActors
<1>3. \A c \in Objs : /\ new(c) \in Player /\ new(c).uuid = heap[c].uuid
                      /\ new(c).eid = heap[c].eid /\ new(c).name = heap[c].name
                      /\ new(c).tag = heap[c].tag /\ new(c).rid = None
  <2> TAKE c \in Objs
  <2>1. heap[c] \in Player
    BY DEF TypeOK
  <2> QED BY <2>1 DEF Player
<1> HIDE DEF new
<1>4. /\ heap' \in [Objs -> Player]
      /\ \A c \in Objs : heap'[c] = new(c) \/ heap'[c] = heap[c]
  BY <1>2, <1>3 DEF TypeOK
<1>5. TypeOK'
  BY <1>1, <1>4 DEF TypeOK
<1>6. \A c \in Objs : /\ heap'[c].uuid = heap[c].uuid
                      /\ heap'[c].eid = heap[c].eid
                      /\ heap'[c].name = heap[c].name
                      /\ heap'[c].tag = heap[c].tag
                      /\ heap'[c].rid # None => heap'[c].spawned
  <2> SUFFICES ASSUME NEW c \in Objs
               PROVE  /\ heap'[c].uuid = heap[c].uuid
                      /\ heap'[c].eid = heap[c].eid
                      /\ heap'[c].name = heap[c].name
                      /\ heap'[c].tag = heap[c].tag
                      /\ heap'[c].rid # None => heap'[c].spawned
    OBVIOUS
  <2> QED BY <1>3, <1>4 DEF RidSpawned
<1> QED BY <1>1, <1>5, <1>6, RewriteSound DEF TypeOK

LEMMA EmptyMapsStep ==
    ASSUME Inv, EmptyMaps, UNCHANGED <<calls, lockOwner>>,
           subs' \subseteq EventKinds, initialized' \in BOOLEAN
    PROVE  Inv'
BY TrackerAssumption DEF Inv, TypeOK, EmptyMaps, Blank, Player, IndexSound,
   RosterSound, RidSound, EidSound, NameSound, TagSound, RidSpawned

LEMMA DeliverStep ==
    ASSUME Inv, NEW t \in Threads, Deliver(t)
    PROVE  Inv'
<1>1. calls' \in [Threads -> Seq(Call)]
  <2>1. calls[t] \in Seq(Call) /\ calls[t] # <<>>
    BY DEF Deliver, Inv, TypeOK
  <2>2. Tail(calls[t]) \in Seq(Call)
    BY <2>1
  <2> QED BY <2>2 DEF Deliver, Inv, TypeOK
<1>2. lockOwner' \in Threads \cup {Null}
  BY DEF Deliver, Inv, TypeOK
<1>3. UNCHANGED <<indexVars, subs, initialized>>
  BY DEF Deliver
<1> QED BY <1>1, <1>2, <1>3 DEF Inv, TypeOK, IndexSound, RosterSound,
   RidSound, EidSound, NameSound, TagSound, RidSpawned, indexVars

LEMMA InvStep == Inv /\ [Next]_vars => Inv'
<1> SUFFICES ASSUME Inv, [Next]_vars PROVE Inv'
  OBVIOUS
<1>1. CASE Register \/ (\E kind \in Events : Subscribe(kind)) \/ UNCHANGED vars
  <2>1. UNCHANGED <<indexVars, calls, lockOwner>>
    BY <1>1 DEF Register, Subscribe, vars, indexVars
  <2>2. subs' \subseteq EventKinds /\ initialized' \in BOOLEAN
    BY <1>1, TrackerAssumption DEF Register, Subscribe, vars, Inv, TypeOK
  <2> QED BY <2>1, <2>2 DEF Inv, TypeOK, IndexSound, RosterSound, RidSound,
     EidSound, NameSound, TagSound, RidSpawned, indexVars
<1>2. CASE \E t \in Threads, u \in Uuids, pos \in Poses \cup {None} :
             \E name \in NamesOf[u] \cup {<<>>}, eid \in EidsOf[u] \cup {None},
                rid \in RidsOf[u] \cup {None} :
                 AddPlayer(t, u, name, eid, rid, pos)
  BY <1>2, AddPlayerUpserts, UpsertStep
<1>3. CASE \E t \in Threads, u \in Uuids :
             \E name \in NamesOf[u], eid \in EidsOf[u] \cup {None} :
                 PlayerListAdd(t, u, name, eid)
  BY <1>3, PlayerListAddUpserts, UpsertStep
<1>4. CASE \E t \in Threads, u \in Uuids, pos \in Poses :
             \E name \in NamesOf[u] \cup {<<>>}, eid \in EidsOf[u] \cup {None},
                rid \in RidsOf[u] \cup {None}, tag \in TagsOf[u] \cup {<<>>} :
                 AddPlayerPacket(t, u, name, eid, rid, tag, pos)
  BY <1>4, AddPlayerPacketUpserts, UpsertStep
<1>5. CASE \E t \in Threads, u \in Uuids :
             RemovePlayerByUuid(t, u) \/ PlayerListRemove(t, u)
  BY <1>5, RemoveStep DEF PlayerListRemove
<1>6. CASE \E t \in Threads, id \in Ids :
             RemovePlayer(t, id) \/ RemoveActor(t, id)
  BY <1>6, RemovePlayerStep, RemoveActorStep
<1>7. CASE \E t \in Threads, id \in Ids, pos \in Poses : Move(t, id, pos)
  BY <1>7, MoveStep
<1>8. CASE \E t \in Threads : ClearWorldActors(t)
  BY <1>8, ClearStep
<1>9. CASE \E t \in Threads : Reset(t) \/ Shutdown(t)
  BY <1>9, EmptyMapsStep DEF Reset, Shutdown, Inv, TypeOK
<1>10. CASE \E t \in Threads : Deliver(t)
  BY <1>10, DeliverStep
<1> QED BY <1>1, <1>2, <1>3, <1>4, <1>5, <1>6, <1>7, <1>8, <1>9, <1>10 DEF Next

LEMMA InitInv == Init => Inv
<1> SUFFICES ASSUME Init PROVE Inv
  OBVIOUS
<1>1. Blank \in Player /\ Blank.rid = None
  BY DEF Blank, Player
<1>2. TypeOK
  <2>1. heap \in [Objs -> Player]
    BY <1>1 DEF Init
  <2>2. calls \in [Threads -> Seq(Call)]
    BY DEF Init
  <2> QED BY <2>1, <2>2 DEF Init, TypeOK
<1>3. IndexSound
  BY DEF Init, IndexSound, RosterSound, RidSound, EidSound, NameSound, TagSound
<1>4. RidSpawned
  BY <1>1 DEF Init, RidSpawned
<1> QED BY <1>2, <1>3, <1>4 DEF Inv

\* The invariant holds of every behaviour.
THEOREM Invariance == Spec => []Inv
BY InitInv, InvStep, PTL DEF Spec

\* Every variable keeps its type.
THEOREM TypeCorrect == Spec => []TypeOK
<1>1. Inv => TypeOK
  BY DEF Inv
<1> QED BY <1>1, Invariance, PTL

\* No index ever serves a stale or departed player, whatever the server and
\* the modules do (PlayerTracker.cpp:63-127, 284-310, 739-786).
THEOREM IndexSoundness == Spec => []IndexSound
<1>1. Inv => IndexSound
  BY DEF Inv
<1> QED BY <1>1, Invariance, PTL

\* Where the name index answers, it answers with a rostered player whose name
\* has that key; so does the nametag index.
LEMMA IndexAnswers ==
    ASSUME Inv, NEW k \in Keys
    PROVE  /\ byName[k] # Null => /\ roster[byName[k]] \in Rostered
                                  /\ Carries(roster[byName[k]], k)
           /\ byTag[k] # Null => /\ roster[byTag[k]] \in Rostered
                                 /\ Carries(roster[byTag[k]], k)
<1>1. ASSUME byName[k] # Null
      PROVE  roster[byName[k]] \in Rostered /\ Carries(roster[byName[k]], k)
  <2>1. /\ byName[k] \in Uuids
        /\ roster[byName[k]] # Null
        /\ NameKey[heap[roster[byName[k]]].name] = k
    BY <1>1 DEF Inv, TypeOK, IndexSound, NameSound
  <2> QED BY <2>1 DEF Rostered, Carries
<1>2. ASSUME byTag[k] # Null
      PROVE  roster[byTag[k]] \in Rostered /\ Carries(roster[byTag[k]], k)
  <2>1. /\ byTag[k] \in Uuids
        /\ roster[byTag[k]] # Null
        /\ TagKey[heap[roster[byTag[k]]].tag] = k
    BY <1>2 DEF Inv, TypeOK, IndexSound, TagSound
  <2> QED BY <2>1 DEF Rostered, Carries
<1> QED BY <1>1, <1>2

\* findPlayerByName answers with somebody on the roster whenever anybody there
\* matches what is asked for, and with a player of exactly that name or nametag
\* when there is one, even after shared keys punched holes in the indices.
THEOREM NameLookupComplete == Spec => []NameLookup
<1>1. Inv => NameLookup
  <2> SUFFICES ASSUME Inv, NEW name \in Queries, Text!Sought(name) # <<>>
               PROVE  LET k == Text!Sought(name)
                          found == FindByName(name)
                      IN  /\ found \subseteq Rostered
                          /\ \A o \in Rostered :
                              /\ StartsWith(o, k) \/ Contains(o, k) => found # {}
                              /\ Carries(o, k) => /\ found # {}
                                                  /\ \A f \in found : Carries(f, k)
    BY DEF NameLookup
  <2> DEFINE k == Text!Sought(name)
             found == FindByName(name)
             exact == {o \in Rostered : Carries(o, k)}
             prefixed == {o \in Rostered : StartsWith(o, k)}
             within == {o \in Rostered : Contains(o, k)}
             byIndex == \/ k \in Keys /\ byName[k] # Null
                        \/ k \in Keys /\ byTag[k] # Null
  <2> SUFFICES /\ found \subseteq Rostered
               /\ \A o \in Rostered :
                   /\ StartsWith(o, k) \/ Contains(o, k) => found # {}
                   /\ Carries(o, k) => /\ found # {}
                                       /\ \A f \in found : Carries(f, k)
    OBVIOUS
  <2>1. CASE byIndex
    <3>1. \E o \in exact : found = {o}
      BY <2>1, IndexAnswers DEF FindByName
    <3> QED BY <3>1
  <2>2. CASE ~byIndex
    <3>1. found = IF exact # {} THEN exact
                  ELSE IF prefixed # {} THEN prefixed ELSE within
      BY <2>2 DEF FindByName
    <3> HIDE DEF found, k
    <3> QED BY <3>1
  <2> QED BY <2>1, <2>2
<1> QED BY <1>1, Invariance, PTL

-----------------------------------------------------------------------------
(* Findability, for a server that keeps IDs, names and nametags distinct.  *)

\* A cell off the roster is blank: its fields erase nobody's index entry.
BlankCells ==
    \A o \in Objs : (\A u \in Uuids : roster[u] # o) => heap[o] = Blank

\* Each index leads from a rostered player's fields back to it.
Served ==
    \A u \in Uuids \ {EmptyUuid} : roster[u] # Null =>
        LET p == heap[roster[u]]
        IN  /\ p.rid # None => byRid[p.rid] = roster[u]
            /\ p.eid # None => byEid[p.eid] = u
            /\ p.name # <<>> => byName[NameKey[p.name]] = u
            /\ p.tag # <<>> => byTag[TagKey[p.tag]] = u

FInv == Inv /\ Distinct /\ BlankCells /\ Served

\* An upsert keeps everybody findable.
LEMMA ReindexFindable ==
    ASSUME FInv, NEW u \in Uuids, NEW o \in Cells(u), NEW new \in Player,
           new.uuid = u, Reindex(o, heap[o], new), Distinct'
    PROVE  BlankCells' /\ Served'
<1> USE TrackerAssumption, AbsentHasNoKey DEF FInv, Inv
<1>o. /\ o \in Objs
      /\ \A v \in Uuids : roster[v] = o => v = u
      /\ roster[u] \in {o, Null}
  BY CellsFree
<1>e. /\ \A v \in Uuids : roster'[v] = IF v = u THEN o ELSE roster[v]
      /\ \A c \in Objs : heap'[c] = IF c = o THEN new ELSE heap[c]
      /\ \A i \in Ids : byRid'[i] =
           IF u # EmptyUuid /\ i = new.rid THEN o
           ELSE IF i = heap[o].rid THEN Null ELSE byRid[i]
      /\ \A i \in Ids : byEid'[i] =
           IF u # EmptyUuid /\ i = new.eid THEN u
           ELSE IF i = heap[o].eid THEN Null ELSE byEid[i]
      /\ \A k \in Keys : byName'[k] =
           IF u # EmptyUuid /\ k = NameKey[new.name] THEN u
           ELSE IF k = NameKey[heap[o].name] THEN Null ELSE byName[k]
      /\ \A k \in Keys : byTag'[k] =
           IF u # EmptyUuid /\ k = TagKey[new.tag] THEN u
           ELSE IF k = TagKey[heap[o].tag] THEN Null ELSE byTag[k]
  BY <1>o, ReindexEffect DEF TypeOK
<1>1. BlankCells'
  <2> SUFFICES ASSUME NEW c \in Objs, \A v \in Uuids : roster'[v] # c
               PROVE  heap'[c] = Blank
    BY DEF BlankCells
  <2>1. c # o /\ heap'[c] = heap[c]
    BY <1>e
  <2>2. \A v \in Uuids : roster[v] # c
    BY <1>o, <1>e, <2>1
  <2> QED BY <2>1, <2>2 DEF BlankCells
<1>2. Served'
  <2> SUFFICES ASSUME NEW v \in Uuids \ {EmptyUuid}, roster'[v] # Null
               PROVE  LET p == heap'[roster'[v]]
                      IN  /\ p.rid # None => byRid'[p.rid] = roster'[v]
                          /\ p.eid # None => byEid'[p.eid] = v
                          /\ p.name # <<>> => byName'[NameKey[p.name]] = v
                          /\ p.tag # <<>> => byTag'[TagKey[p.tag]] = v
    BY DEF Served
  <2>1. CASE v = u
    <3>1. roster'[v] = o /\ heap'[o] = new
      BY <1>o, <1>e, <2>1
    <3>2. /\ new.rid # None => new.rid \in Ids
          /\ new.eid # None => new.eid \in Ids
          /\ new.name # <<>> => NameKey[new.name] \in Keys
          /\ new.tag # <<>> => TagKey[new.tag] \in Keys
      BY HeldTextHasKey DEF Player
    <3> QED BY <1>e, <2>1, <3>1, <3>2
  <2>2. CASE v # u
    <3> DEFINE p == heap[roster[v]]
    <3>1. /\ roster'[v] = roster[v] /\ roster[v] \in Objs /\ roster[v] # o
          /\ heap'[roster[v]] = p /\ p \in Player
      BY <1>o, <1>e, <2>2 DEF TypeOK
    <3>2. /\ p.rid # None => p.rid \in Ids /\ byRid[p.rid] = roster[v]
          /\ p.eid # None => p.eid \in Ids /\ byEid[p.eid] = v
          /\ p.name # <<>> => NameKey[p.name] \in Keys /\ byName[NameKey[p.name]] = v
          /\ p.tag # <<>> => TagKey[p.tag] \in Keys /\ byTag[TagKey[p.tag]] = v
      BY <3>1, HeldTextHasKey DEF Served, Player
    \* The new fields of u are nobody else's: the server's promise now.
    <3>3. /\ p.rid = new.rid => p.rid = None
          /\ p.eid = new.eid => p.eid = None
          /\ NameKey[p.name] = NameKey[new.name] => p.name = <<>>
          /\ TagKey[p.tag] = TagKey[new.tag] => p.tag = <<>>
      <4>1. roster'[u] = o /\ o # Null /\ heap'[o] = new
        BY <1>o, <1>e
      <4> QED BY <2>2, <3>1, <4>1 DEF Distinct
    \* The old ones were nobody else's either, or blank.
    <3>4. /\ p.rid = heap[o].rid => p.rid = None
          /\ p.eid = heap[o].eid => p.eid = None
          /\ NameKey[p.name] = NameKey[heap[o].name] => p.name = <<>>
          /\ TagKey[p.tag] = TagKey[heap[o].tag] => p.tag = <<>>
      <4>1. CASE roster[u] = o
        BY <1>o, <2>2, <3>1, <4>1 DEF Distinct
      <4>2. CASE roster[u] = Null
        <5>1. heap[o] = Blank
          BY <1>o, <4>2 DEF BlankCells
        <5> QED BY <3>2, <5>1, AbsentHasNoKey DEF Blank
      <4> QED BY <1>o, <4>1, <4>2
    <3> HIDE DEF p
    <3>5. p.rid # None => byRid'[p.rid] = roster[v]
      BY <1>e, <3>2, <3>3, <3>4
    <3>6. p.eid # None => byEid'[p.eid] = v
      BY <1>e, <3>2, <3>3, <3>4
    <3>7. p.name # <<>> => byName'[NameKey[p.name]] = v
      BY <1>e, <3>2, <3>3, <3>4
    <3>8. p.tag # <<>> => byTag'[TagKey[p.tag]] = v
      BY <1>e, <3>2, <3>3, <3>4
    <3> QED BY <3>1, <3>5, <3>6, <3>7, <3>8
  <2> QED BY <2>1, <2>2
<1> QED BY <1>1, <1>2

\* Removing one player keeps the others findable.
LEMMA ForgetFindable ==
    ASSUME FInv, NEW u \in Uuids, roster[u] # Null, Forget(roster[u])
    PROVE  BlankCells' /\ Served'
<1> USE TrackerAssumption, AbsentHasNoKey DEF FInv, Inv
<1> DEFINE o == roster[u]
<1>o. o \in Objs /\ heap[o].uuid = u /\ \A v \in Uuids : roster[v] = o => v = u
  BY DEF TypeOK, IndexSound, RosterSound
<1>f. /\ \A i \in Ids : byRid'[i] = IF i = heap[o].rid THEN Null ELSE byRid[i]
      /\ \A i \in Ids : byEid'[i] = IF i = heap[o].eid THEN Null ELSE byEid[i]
      /\ \A k \in Keys : byName'[k] = IF k = NameKey[heap[o].name] THEN Null ELSE byName[k]
      /\ \A k \in Keys : byTag'[k] = IF k = TagKey[heap[o].tag] THEN Null ELSE byTag[k]
      /\ \A v \in Uuids : roster'[v] = IF v = u THEN Null ELSE roster[v]
      /\ \A c \in Objs : heap'[c] = IF c = o THEN Blank ELSE heap[c]
  BY <1>o DEF Forget, Erase, TypeOK
<1>d. \A v \in Uuids : v # u /\ roster[v] # Null =>
        /\ heap[roster[v]].rid = heap[o].rid => heap[o].rid = None
        /\ heap[roster[v]].eid = heap[o].eid => heap[o].eid = None
        /\ NameKey[heap[roster[v]].name] = NameKey[heap[o].name] => heap[roster[v]].name = <<>>
        /\ TagKey[heap[roster[v]].tag] = TagKey[heap[o].tag] => heap[roster[v]].tag = <<>>
  BY DEF Distinct
<1> HIDE DEF o
<1>1. BlankCells'
  <2> SUFFICES ASSUME NEW c \in Objs, \A v \in Uuids : roster'[v] # c, c # o
               PROVE  heap'[c] = Blank
    BY <1>f DEF BlankCells
  <2>1. \A v \in Uuids : roster[v] # c
    BY <1>f DEF o
  <2> QED BY <1>f, <2>1 DEF BlankCells
<1>2. Served'
  <2> SUFFICES ASSUME NEW v \in Uuids \ {EmptyUuid}, roster'[v] # Null
               PROVE  LET p == heap'[roster'[v]]
                      IN  /\ p.rid # None => byRid'[p.rid] = roster'[v]
                          /\ p.eid # None => byEid'[p.eid] = v
                          /\ p.name # <<>> => byName'[NameKey[p.name]] = v
                          /\ p.tag # <<>> => byTag'[TagKey[p.tag]] = v
    BY DEF Served
  <2> DEFINE p == heap[roster[v]]
  <2>1. /\ v # u /\ roster'[v] = roster[v] /\ roster[v] \in Objs
        /\ roster[v] # o /\ heap'[roster[v]] = p /\ p \in Player
    BY <1>o, <1>f DEF TypeOK
  <2>2. /\ p.rid # None => p.rid \in Ids /\ byRid[p.rid] = roster[v]
        /\ p.eid # None => p.eid \in Ids /\ byEid[p.eid] = v
        /\ p.name # <<>> => NameKey[p.name] \in Keys /\ byName[NameKey[p.name]] = v
        /\ p.tag # <<>> => TagKey[p.tag] \in Keys /\ byTag[TagKey[p.tag]] = v
    BY <2>1, HeldTextHasKey DEF Served, Player
  <2>3. /\ p.rid # None => p.rid # heap[o].rid
        /\ p.eid # None => p.eid # heap[o].eid
        /\ p.name # <<>> => NameKey[p.name] # NameKey[heap[o].name]
        /\ p.tag # <<>> => TagKey[p.tag] # TagKey[heap[o].tag]
    BY <1>d, <2>1
  <2> HIDE DEF p
  <2> QED BY <1>f, <2>1, <2>2, <2>3
<1> QED BY <1>1, <1>2

\* So does despawning one.
LEMMA RemoveActorFindable ==
    ASSUME FInv, NEW t \in Threads, NEW id \in Ids, RemoveActor(t, id)
    PROVE  BlankCells' /\ Served'
<1> USE TrackerAssumption, AbsentHasNoKey DEF FInv, Inv
<1>1. PICK o : /\ o = Resolve(id)
               /\ o # Null
               /\ byRid' = Erase(byRid, heap[o].rid)
               /\ heap' = [heap EXCEPT ![o].rid = None, ![o].spawned = FALSE]
  BY DEF RemoveActor
<1>2. o \in Objs /\ heap[o] \in Player /\ \E u \in Uuids : roster[u] = o
  <2>1. CASE byRid[id] # Null
    <3>1. o = byRid[id]
      BY <1>1, <2>1 DEF Resolve
    <3>2. heap[o].uuid \in Uuids /\ roster[heap[o].uuid] = o
      BY <2>1, <3>1 DEF IndexSound, RidSound
    <3> QED BY <2>1, <3>1, <3>2 DEF TypeOK
  <2>2. CASE byRid[id] = Null
    BY <1>1, <2>2 DEF Resolve, TypeOK
  <2> QED BY <2>1, <2>2
<1>3. PICK u \in Uuids : roster[u] = o
  BY <1>2
<1>4. UNCHANGED <<roster, byEid, byName, byTag>>
  BY DEF RemoveActor
<1>5. \A i \in Ids : byRid'[i] = IF i = heap[o].rid THEN Null ELSE byRid[i]
  BY <1>1 DEF Erase, TypeOK
<1> DEFINE new == [heap[o] EXCEPT !.rid = None, !.spawned = FALSE]
<1>6. heap' = [heap EXCEPT ![o] = new]
  BY <1>1, <1>2 DEF TypeOK, Player
<1>7. /\ new.eid = heap[o].eid /\ new.name = heap[o].name
      /\ new.tag = heap[o].tag /\ new.rid = None
  BY <1>2 DEF Player
<1> HIDE DEF new
<1>8. \A c \in Objs : heap'[c] = IF c = o THEN new ELSE heap[c]
  BY <1>2, <1>6 DEF TypeOK
<1>9. BlankCells'
  BY <1>3, <1>4, <1>8 DEF BlankCells
<1>10. Served'
  <2> SUFFICES ASSUME NEW v \in Uuids \ {EmptyUuid}, roster[v] # Null
               PROVE  LET p == heap'[roster[v]]
                      IN  /\ p.rid # None => byRid'[p.rid] = roster[v]
                          /\ p.eid # None => byEid[p.eid] = v
                          /\ p.name # <<>> => byName[NameKey[p.name]] = v
                          /\ p.tag # <<>> => byTag[TagKey[p.tag]] = v
    BY <1>4 DEF Served
  <2> DEFINE p == heap[roster[v]]
  <2>1. roster[v] \in Objs /\ p \in Player
    BY DEF TypeOK
  <2>2. /\ p.rid # None => p.rid \in Ids /\ byRid[p.rid] = roster[v]
        /\ p.eid # None => byEid[p.eid] = v
        /\ p.name # <<>> => byName[NameKey[p.name]] = v
        /\ p.tag # <<>> => byTag[TagKey[p.tag]] = v
    BY <2>1 DEF Served, Player
  <2>3. CASE roster[v] = o
    BY <1>2, <1>7, <1>8, <2>2, <2>3
  <2>4. CASE roster[v] # o
    <3>1. p.rid # None => p.rid # heap[o].rid
      <4>1. u # v /\ roster[u] # Null /\ roster[v] # Null
        BY <1>1, <1>3, <2>4
      <4>2. heap[roster[u]].rid = heap[roster[v]].rid => heap[roster[u]].rid = None
        BY <4>1 DEF Distinct
      <4> QED BY <1>3, <4>2
    <3>2. heap'[roster[v]] = p
      BY <1>8, <2>1, <2>4
    <3> HIDE DEF p
    <3> QED BY <1>5, <2>2, <3>1, <3>2
  <2> QED BY <2>3, <2>4
<1> QED BY <1>9, <1>10

\* Moving a player changes no key.
LEMMA MoveFindable ==
    ASSUME FInv, NEW t \in Threads, NEW rid \in Ids, NEW pos \in Poses,
           Move(t, rid, pos)
    PROVE  BlankCells' /\ Served'
<1> USE TrackerAssumption, AbsentHasNoKey DEF FInv, Inv
<1> DEFINE o == byRid[rid]
           new == [heap[o] EXCEPT !.pos = pos]
<1>1. /\ o \in Objs /\ heap[o] \in Player /\ heap[o].uuid \in Uuids
      /\ roster[heap[o].uuid] = o
  BY DEF Move, TypeOK, IndexSound, RidSound
<1>2. UNCHANGED <<roster, byRid, byEid, byName, byTag>>
  BY DEF Move
<1>3. heap' = [heap EXCEPT ![o] = new]
  BY <1>1 DEF Move, TypeOK, Player
<1>4. /\ new.eid = heap[o].eid /\ new.name = heap[o].name
      /\ new.tag = heap[o].tag /\ new.rid = heap[o].rid
  BY <1>1 DEF Player
<1> HIDE DEF new, o
<1>5. \A c \in Objs : heap'[c] = IF c = o THEN new ELSE heap[c]
  BY <1>1, <1>3 DEF TypeOK
<1>6. BlankCells'
  BY <1>1, <1>2, <1>5 DEF BlankCells
<1>7. \A c \in Objs : /\ heap'[c].rid = heap[c].rid
                      /\ heap'[c].eid = heap[c].eid
                      /\ heap'[c].name = heap[c].name
                      /\ heap'[c].tag = heap[c].tag
  BY <1>4, <1>5
<1>8. Served'
  BY SMTT(30), <1>2, <1>7 DEF Served, TypeOK
<1> QED BY <1>6, <1>8

\* Leaving a dimension takes every runtime ID away.
LEMMA ClearFindable ==
    ASSUME FInv, NEW t \in Threads, ClearWorldActors(t)
    PROVE  BlankCells' /\ Served'
<1> USE TrackerAssumption, AbsentHasNoKey DEF FInv, Inv
<1> DEFINE new(c) == [heap[c] EXCEPT !.rid = None, !.spawned = FALSE]
<1>1. UNCHANGED <<roster, byEid, byName, byTag>>
  BY DEF ClearWorldActors
<1>2. \A c \in Objs : heap'[c] = IF \E u \in Uuids : roster[u] = c
                                 THEN new(c) ELSE heap[c]
  BY DEF ClearWorldActors
<1>3. \A c \in Objs : /\ new(c).eid = heap[c].eid /\ new(c).name = heap[c].name
                      /\ new(c).tag = heap[c].tag /\ new(c).rid = None
  <2> TAKE c \in Objs
  <2>1. heap[c] \in Player
    BY DEF TypeOK
  <2> QED BY <2>1 DEF Player
<1> HIDE DEF new
<1>4. BlankCells'
  BY <1>1, <1>2 DEF BlankCells
<1>5. Served'
  BY SMTT(30), <1>1, <1>2, <1>3 DEF Served, TypeOK
<1> QED BY <1>4, <1>5

LEMMA FindableStep == FInv /\ [Next /\ Distinct']_vars => FInv'
<1> SUFFICES ASSUME FInv, [Next /\ Distinct']_vars PROVE FInv'
  OBVIOUS
<1>i. Inv'
  BY InvStep DEF FInv
<1> SUFFICES Distinct' /\ BlankCells' /\ Served'
  BY <1>i DEF FInv
<1>u. CASE UNCHANGED indexVars
  BY <1>u DEF FInv, indexVars, Distinct, BlankCells, Served
<1>n. CASE Next /\ Distinct' /\ ~UNCHANGED indexVars
  <2>0. ASSUME NEW t \in Threads, NEW u \in Uuids, Upsert(t, u)
        PROVE  BlankCells' /\ Served'
    BY <1>n, <2>0, ReindexFindable DEF Upsert, FInv
  <2>1. CASE \E t \in Threads, u \in Uuids, pos \in Poses \cup {None} :
               \E name \in NamesOf[u] \cup {<<>>}, eid \in EidsOf[u] \cup {None},
                  rid \in RidsOf[u] \cup {None} :
                   AddPlayer(t, u, name, eid, rid, pos)
    BY <1>n, <2>0, <2>1, AddPlayerUpserts DEF FInv
  <2>2. CASE \E t \in Threads, u \in Uuids :
               \E name \in NamesOf[u], eid \in EidsOf[u] \cup {None} :
                   PlayerListAdd(t, u, name, eid)
    BY <1>n, <2>0, <2>2, PlayerListAddUpserts DEF FInv
  <2>3. CASE \E t \in Threads, u \in Uuids, pos \in Poses :
               \E name \in NamesOf[u] \cup {<<>>}, eid \in EidsOf[u] \cup {None},
                  rid \in RidsOf[u] \cup {None}, tag \in TagsOf[u] \cup {<<>>} :
                   AddPlayerPacket(t, u, name, eid, rid, tag, pos)
    BY <1>n, <2>0, <2>3, AddPlayerPacketUpserts DEF FInv
  <2>4. CASE \E t \in Threads, u \in Uuids :
               RemovePlayerByUuid(t, u) \/ PlayerListRemove(t, u)
    BY <1>n, <2>4, ForgetFindable DEF RemovePlayerByUuid, PlayerListRemove
  <2>5. CASE \E t \in Threads, id \in Ids : RemovePlayer(t, id)
    <3>1. PICK t \in Threads, id \in Ids : RemovePlayer(t, id)
      BY <2>5
    <3>2. /\ heap[byRid[id]].uuid \in Uuids
          /\ roster[heap[byRid[id]].uuid] # Null
          /\ Forget(roster[heap[byRid[id]].uuid])
      BY <3>1 DEF RemovePlayer, FInv, Inv, IndexSound, RidSound
    <3> QED BY <1>n, <3>2, ForgetFindable
  <2>6. CASE \E t \in Threads, id \in Ids : RemoveActor(t, id)
    BY <1>n, <2>6, RemoveActorFindable
  <2>7. CASE \E t \in Threads, id \in Ids, pos \in Poses : Move(t, id, pos)
    BY <1>n, <2>7, MoveFindable
  <2>8. CASE \E t \in Threads : ClearWorldActors(t)
    BY <1>n, <2>8, ClearFindable
  <2>9. CASE EmptyMaps
    BY <1>n, <2>9 DEF EmptyMaps, BlankCells, Served
  <2> QED BY <1>n, <2>1, <2>2, <2>3, <2>4, <2>5, <2>6, <2>7, <2>8, <2>9
          DEF Next, Reset, Shutdown, Register, Subscribe, Deliver
<1> QED BY <1>u, <1>n DEF vars, indexVars

\* While the server keeps IDs, names and nametags distinct, every rostered
\* player can be found under each of them, always.
THEOREM Findability == DistinctSpec => []Findable
<1>1. Init => FInv
  <2> SUFFICES ASSUME Init PROVE FInv
    OBVIOUS
  <2>1. Inv
    BY InitInv
  <2> QED BY <2>1 DEF Init, FInv, Distinct, BlankCells, Served
<1>2. FInv => Findable
  <2> SUFFICES ASSUME FInv, NEW u \in Uuids \ {EmptyUuid}, roster[u] # Null,
                      heap[roster[u]].rid # None
               PROVE  roster[u] \in WorldPlayers
    BY DEF FInv, Served, Findable
  <2> DEFINE i == heap[roster[u]].rid
  <2>1. roster[u] \in Objs /\ i \in Ids
    BY DEF FInv, Inv, TypeOK, Player
  <2>2. byRid[i] = roster[u]
    BY DEF FInv, Served
  <2>3. heap[roster[u]].spawned
    BY <2>1 DEF FInv, Inv, RidSpawned
  <2> HIDE DEF i
  <2> QED BY <2>1, <2>2, <2>3 DEF WorldPlayers
<1> QED BY <1>1, <1>2, FindableStep, PTL DEF DistinctSpec
-----------------------------------------------------------------------------
(* The order of the callbacks, for one calling thread.                     *)

\* A join is only ever the first call of a critical section.
Leads(s) == \A i \in 1..Len(s) : s[i].kind = "join" => i = 1

JoinsLead == \A t \in Threads : Leads(calls[t])

LEMMA OwedLeads ==
    ASSUME NEW kind, NEW o
    PROVE  Leads(Owed(kind, o))
BY DEF Owed, Leads

LEMMA OwedJoinLeads ==
    ASSUME NEW u, NEW o
    PROVE  Leads(OwedJoin(u, o))
BY OwedLeads DEF OwedJoin, Leads

\* The one section that owes two calls owes the join before the spawn.
LEMMA JoinThenSpawnLeads ==
    ASSUME NEW u \in Uuids, NEW o \in Objs
    PROVE  Leads(OwedJoin(u, o) \o Owed("spawn", o))
<1> DEFINE join == [kind |-> "join", obj |-> o]
           spawn == [kind |-> "spawn", obj |-> o]
<1>1. join \in Call /\ spawn \in Call /\ spawn.kind # "join"
  BY DEF Call, EventKinds
<1>2. OwedJoin(u, o) \in {<<>>, <<join>>} /\ Owed("spawn", o) \in {<<>>, <<spawn>>}
  BY DEF OwedJoin, Owed
<1> HIDE DEF join, spawn
<1>3. CASE OwedJoin(u, o) = <<>>
  <2>1. OwedJoin(u, o) \o Owed("spawn", o) = Owed("spawn", o)
    BY <1>1, <1>2, <1>3
  <2> QED BY <2>1, OwedLeads
<1>4. CASE OwedJoin(u, o) = <<join>>
  BY <1>1, <1>2, <1>4 DEF Leads
<1> QED BY <1>2, <1>3, <1>4

\* Every step leaves the calls alone, fills one thread's queue, or makes the
\* first call of one.
LEMMA CallsStep ==
    ASSUME Inv, Next
    PROVE  \/ UNCHANGED calls
           \/ \E t \in Threads : \E s : Leads(s) /\ Enter(t) /\ Owe(t, s)
           \/ \E t \in Threads : Deliver(t)
<1>1. CASE Register \/ (\E kind \in Events : Subscribe(kind))
           \/ (\E t \in Threads : ClearWorldActors(t) \/ Reset(t) \/ Shutdown(t))
  BY <1>1 DEF Register, Subscribe, ClearWorldActors, Reset, Shutdown
<1>2. ASSUME NEW t \in Threads, NEW u \in Uuids, NEW pos \in Poses \cup {None},
             NEW name, NEW eid, NEW rid, AddPlayer(t, u, name, eid, rid, pos)
      PROVE  \E s : Leads(s) /\ Enter(t) /\ Owe(t, s)
  BY <1>2, OwedJoinLeads DEF AddPlayer
<1>3. ASSUME NEW t \in Threads, NEW u \in Uuids, NEW name, NEW eid,
             PlayerListAdd(t, u, name, eid)
      PROVE  \E s : Leads(s) /\ Enter(t) /\ Owe(t, s)
  BY <1>3, OwedJoinLeads DEF PlayerListAdd
<1>4. ASSUME NEW t \in Threads, NEW u \in Uuids, NEW pos, NEW name, NEW eid,
             NEW rid, NEW tag, AddPlayerPacket(t, u, name, eid, rid, tag, pos)
      PROVE  \E s : Leads(s) /\ Enter(t) /\ Owe(t, s)
  <2>1. PICK o \in Cells(u) : Owe(t, OwedJoin(u, o) \o Owed("spawn", o))
    BY <1>4 DEF AddPlayerPacket
  <2>2. o \in Objs
    BY CellsFree DEF Inv
  <2>3. Leads(OwedJoin(u, o) \o Owed("spawn", o))
    BY <2>2, JoinThenSpawnLeads
  <2> QED BY <1>4, <2>1, <2>3 DEF AddPlayerPacket
<1>5. ASSUME NEW t \in Threads, NEW u \in Uuids,
             RemovePlayerByUuid(t, u) \/ PlayerListRemove(t, u)
      PROVE  \E s : Leads(s) /\ Enter(t) /\ Owe(t, s)
  BY <1>5, OwedLeads DEF PlayerListRemove, RemovePlayerByUuid
<1>6. ASSUME NEW t \in Threads, NEW id \in Ids,
             RemovePlayer(t, id) \/ RemoveActor(t, id)
      PROVE  \E s : Leads(s) /\ Enter(t) /\ Owe(t, s)
  BY <1>6, OwedLeads DEF RemovePlayer, RemoveActor
<1>7. ASSUME NEW t \in Threads, NEW id \in Ids, NEW pos \in Poses, Move(t, id, pos)
      PROVE  \E s : Leads(s) /\ Enter(t) /\ Owe(t, s)
  BY <1>7, OwedLeads DEF Move
<1> QED BY <1>1, <1>2, <1>3, <1>4, <1>5, <1>6, <1>7 DEF Next

LEMMA JoinsLeadStep ==
    ASSUME Inv, JoinsLead, [Next]_vars
    PROVE  JoinsLead'
<1>t. calls \in [Threads -> Seq(Call)]
  BY DEF Inv, TypeOK
<1>1. CASE UNCHANGED calls
  BY <1>1 DEF JoinsLead
<1>2. ASSUME NEW t \in Threads, NEW s, Leads(s), Owe(t, s)
      PROVE  JoinsLead'
  BY <1>2, <1>t DEF JoinsLead, Owe
<1>3. ASSUME NEW t \in Threads, Deliver(t)
      PROVE  JoinsLead'
  <2>1. calls' = [calls EXCEPT ![t] = Tail(calls[t])] /\ calls[t] # <<>>
    BY <1>3 DEF Deliver
  <2>2. calls[t] \in Seq(Call) /\ Leads(calls[t])
    BY <1>t DEF JoinsLead
  <2>3. Leads(Tail(calls[t]))
    BY <2>1, <2>2 DEF Leads
  <2> QED BY <1>t, <2>1, <2>3 DEF JoinsLead
<1>4. CASE UNCHANGED vars
  BY <1>1, <1>4 DEF vars
<1> QED BY <1>1, <1>2, <1>3, <1>4, CallsStep

\* With one thread in the tracker no callback is made while the join of the
\* same player is still owed, whatever the thread does between: the join leads
\* the section that owes it, and a section starts with no call outstanding.
THEOREM JoinComesFirst ==
    (\A s, t \in Threads : s = t) => (Spec => JoinFirst)
<1> SUFFICES ASSUME \A s, t \in Threads : s = t
             PROVE  Spec => JoinFirst
  OBVIOUS
<1>1. Init => JoinsLead
  BY DEF Init, JoinsLead, Leads
<1>2. Inv /\ JoinsLead /\ [Next]_vars => JoinsLead'
  BY JoinsLeadStep
<1>3. Inv /\ JoinsLead /\ [Next]_vars => [JoinBefore]_vars
  <2> SUFFICES ASSUME Inv, JoinsLead, NEW t \in Threads, Deliver(t),
                      NEW s \in Threads, NEW i \in 1..Len(calls'[s])
               PROVE  calls'[s][i].kind # "join"
    BY DEF JoinBefore
  <2>1. s = t
    OBVIOUS
  <2>2. calls[t] \in Seq(Call) /\ calls[t] # <<>> /\ Leads(calls[t])
    BY DEF Inv, TypeOK, JoinsLead, Deliver
  <2>3. calls'[s] = Tail(calls[t])
    BY <2>1 DEF Inv, TypeOK, Deliver
  <2> QED BY <2>2, <2>3 DEF Leads
<1> QED BY <1>1, <1>2, <1>3, Invariance, PTL DEF Spec, JoinFirst

=============================================================================
