SPECIFICATION Spec
CONSTANTS
    s1 = s1
    k1 = k1
    Senders = {s1}
    Connectors = {k1}
    Main = main
    Ips = {ip1}
    MaxConnId = 1
    MaxTask = 6
    MaxStart = 1
    Env = {}
    NoThread = nothread
    NoIp = noip
CHECK_DEADLOCK FALSE
INVARIANT AnswerBelongsToTask
