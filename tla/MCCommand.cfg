SPECIFICATION FairSpec
CONSTANTS
    r1 = r1
    r2 = r2
    word = word
    err = err
    chat = chat
    form1 = form1
    help = help
    list = list
    Reqs = {r1, r2}
    Users = {mod, ui}
    Net = net
    Run = run
    Lines = {word, err, chat}
    ErrorLines = {err}
    ChatLines = {chat}
    Forms = {form1}
    TextPackets <- TwoLinePackets
    Bases = {help, list}
    Attr <- TextAndForm
    LineCap = 3
    MaxRegs = 2
    NoFilter = NoFilter
    Null = Null
INVARIANTS AtMostOnce NobodyForgotten FittingAnswer
PROPERTIES Serves EventuallyAnswered EventuallyErased
