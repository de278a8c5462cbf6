SPECIFICATION Spec
CONSTANTS
    s1 = s1
    s2 = s2
    k1 = k1
    k2 = k2
    Senders = {s1, s2}
    Connectors = {k1, k2}
    Main = main
    Ips = {ip1, ip2}
    MaxConnId = 2
    MaxTask = 3
    MaxStart = 2
    Env = {"eof", "shutdown"}
    NoThread = nothread
    NoIp = noip
SYMMETRY Symmetry
CHECK_DEADLOCK FALSE
INVARIANTS
    TypeOK
    TaskTableLive
    OneConnPerIp
    CallbackContract
    ResponseMatches
    WriteTaskLive
    ConnTableSafe
    ConnectTimerSafe
PROPERTY CompletedOnce
