CONSTANTS
    c1 = c1
    c2 = c2
    a1 = a1
    a2 = a2
    Hub = Hub
    NoTxn = NoTxn
    NoClient = NoClient
    Clients <- OneClient
    Agents <- TwoAgents
    AgentName <- TwoDevices
    Key <- TwoDevices
    Guarded = {}
    Reliable = {c1, c2, a1, a2}
    Ifaces = {"can0"}
    Groups = {}
    BindingsMax = 2
    ChannelMod = 3
    Transactions = {a1, a2}
    IsoTp = {a2}
    TxnIds = {1}
    TableMax = 2
    BeginMax = 2
    OpenModes = {TRUE}
    BeginModes = {FALSE}
SPECIFICATION RelaySpec
INVARIANTS TransactionsHaveEndpoints BeginsAccounted 
PROPERTIES ClientHearsTheEnd AgentNotLeftRunning
CHECK_DEADLOCK FALSE
