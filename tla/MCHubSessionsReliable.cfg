CONSTANTS
    c1 = c1
    c2 = c2
    a1 = a1
    a2 = a2
    a3 = a3
    Hub = Hub
    Clients <- OneClient
    Agents <- TwoAgents
    AgentName <- MCAgentName
    Key <- MCKey
    Guarded = {}
    Reliable = {c1, a1, a2}
    Ifaces = {"can0"}
    Groups = {}
    BindingsMax = 2
    ChannelMod = 3
SPECIFICATION Spec
INVARIANTS ReliableLegKept
CHECK_DEADLOCK FALSE
