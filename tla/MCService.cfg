SPECIFICATION ServiceSpec
CONSTANTS
    p1 = p1
    q1 = q1
    s1 = s1
    k1 = k1
    k2 = k2
    Publishers <- OnePublisher
    Consumers <- OneConsumer
    Setters <- OneSetter
    Closers <- TwoClosers
    Machines <- AllMachines
    Definitions <- ThreeSecrets
INVARIANTS
    ServiceTypeOK
    SecretsResolved
    DefaultsAgree
    NobodyStuck
    CloseCompletes
    OptionsDoNotLeak
PROPERTIES
    ObservedAsReturned
CHECK_DEADLOCK FALSE
