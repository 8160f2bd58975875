SPECIFICATION Spec
CONSTANTS
    MtuValues <- MCMtuValues
    MaxProxies = 1
INVARIANTS DescriptorsOwned GroupsStayRegistered SessionWired
CHECK_DEADLOCK FALSE
