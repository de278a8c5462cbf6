SPECIFICATION FairSpec
CONSTANTS
    s1 = s1
    k1 = k1
    k2 = k2
    Senders = {s1}
    Connectors = {k1}
    Main = main
    Ips = {ip1}
    MaxConnId = 3
    MaxTask = 3
    MaxStart = 1
    Env = {"eof"}
    NoThread = nothread
    NoIp = noip
CHECK_DEADLOCK FALSE
PROPERTY CallReturns
