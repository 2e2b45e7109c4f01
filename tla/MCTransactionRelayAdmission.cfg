CONSTANTS
    c1 = c1
    c2 = c2
    a1 = a1
    a2 = a2
    Hub = Hub
    NoTxn = NoTxn
    NoClient = NoClient
    Clients <- OneClient
    Agents <- TwoAgents
    AgentName <- OneDevice
    Key <- OneDevice
    Guarded = {c1}
    Reliable = {c1, c2, a1, a2}
    Ifaces = {"can0"}
    Groups = {"can0"}
    BindingsMax = 1
    ChannelMod = 2
    Transactions = {a1, a2}
    IsoTp = {a2}
    TxnIds = {1, 2}
    TableMax = 2
    BeginMax = 1
    OpenModes = {TRUE, FALSE}
    BeginModes = {TRUE, FALSE}
SPECIFICATION RelaySpec
INVARIANTS RelayTypeOK 
CHECK_DEADLOCK FALSE
