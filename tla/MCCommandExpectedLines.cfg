SPECIFICATION HistorySpec
CONSTANTS
    r1 = r1
    r2 = r2
    word = word
    err = err
    chat = chat
    help = help
    list = list
    Reqs = {r1, r2}
    Users = {mod}
    Net = net
    Run = run
    Lines = {word, err, chat}
    ErrorLines = {err}
    ChatLines = {chat}
    Forms = {}
    TextPackets <- WordPackets
    Bases = {help, list}
    Attr <- Attributes2
    LineCap = 3
    MaxRegs = 2
    NoFilter = NoFilter
    Null = Null
INVARIANT ExpectedLinesHeard
