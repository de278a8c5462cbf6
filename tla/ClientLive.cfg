SPECIFICATION FairSpec
CONSTANTS
    s1 = s1
    s2 = s2
    k1 = k1
    Senders = {s1, s2}
    Connectors = {k1}
    Main = main
    Ips = {ip1}
    MaxConnId = 4
    MaxTask = 3
    MaxStart = 1
    Env = {"shutdown"}
    NoThread = nothread
    NoIp = noip
CHECK_DEADLOCK FALSE
PROPERTIES
    CallReturns
    ShutdownTerminates
