SPECIFICATION Spec
CONSTANTS
    Absent = Absent
    Keys = {"k1", "k2"}
    Capabilities = {"read", "note", "move"}
    SkillIds = {"a", "b"}
    Values = {"p", "q"}
    Requests = {"ask", "go", "slip"}
    ControlCapability = "move"
    Contexts = {"c1", "c2"}
    Contracts = {"k1", "k2"}
    Policies = {"p1", "p2"}
    SkillRegistries = {"s1", "s2"}
    EndpointRegistries = {"e1", "e2"}
    Deployments <- MCDeployments
    RequestOf <- MCRequestOf
    ContextOf <- MCContextOf
    ContractOf <- MCContractOf
    PolicyOf <- MCPolicyOf
    SkillOf <- MCSkillOf
    EndpointsOf <- MCEndpointsOf
    MaxChanges = 1
    MaxPlans = 2
    MaxBindings = 1
    MaxUses = 1
INVARIANTS
    StagesAgree
    RevalidationSound
    OnlyGroundedLeaves
PROPERTIES
    ImplementsGate
CHECK_DEADLOCK FALSE
