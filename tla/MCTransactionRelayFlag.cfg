CONSTANTS
    c1 = c1
    c2 = c2
    a1 = a1
    a2 = a2
    Hub = Hub
    NoTxn = NoTxn
    NoClient = NoClient
    Clients <- TwoClients
    Agents <- TwoAgents
    AgentName <- OneDevice
    Key <- OneDevice
    Guarded = {}
    Reliable = {c1, c2, a1, a2}
    Ifaces = {"can0"}
    Groups = {}
    BindingsMax = 2
    ChannelMod = 3
    Transactions = {a1, a2}
    IsoTp = {a2}
    TxnIds = {1}
    TableMax = 2
    BeginMax = 1
    OpenModes = {TRUE}
    BeginModes = {TRUE, FALSE}
SPECIFICATION RelaySpec
INVARIANTS LeaseFlagCleared
CHECK_DEADLOCK FALSE
