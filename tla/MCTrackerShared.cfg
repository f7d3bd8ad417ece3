SPECIFICATION Spec
CONSTANTS
    Uuids = {u1, u2, uE}
    EmptyUuid = uE
    NilUuid = uN
    None = None
    Null = Null
    u1 = u1
    u2 = u2
    uE = uE
    o1 = o1
    o2 = o2
    o3 = o3
    o4 = o4
    i1 = i1
    i2 = i2
    Objs = {o1, o2}
    Ids = {i1}
    Poses = {p}
    Threads = {net}
    Events = {"leave"}
    RidsOf <- AnyId
    EidsOf <- AnyId
    NamesOf <- SentName
    TagsOf <- AnyName
    Spelled <- SpelledOut
    Queries <- Asked
SYMMETRY Symmetry
INVARIANTS TypeOK IndexSound NameLookup
