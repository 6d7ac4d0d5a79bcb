SPECIFICATION MCSpec
CONSTANTS
    Members <- MCMembers
    Amount <- MCAmount
    InitialBalance = 10
    Shares = {"zero", "s", "t"}
    Resources = {"zero", "r"}
    Zero = "zero"
    Values = {0, 2, 5}
    Keypers <- MCKeypers
    Threshold = 2
    Rewards = {0, 2}
    MaxTime = 1
    KeyperSet <- MCKeyperSet
    EvidenceFiles <- MCEvidenceFiles
    Bond = 3
    Delay = 1
    GasCosts = {1, 2, 4}
    Others = {"other"}
    Openers = {"o1", "o2"}
    Submitters = {"s1", "s2"}
    Wallet <- MCWallet
INVARIANTS
    RecordsAreTrue
    PenaltiesPaidOnce
    AcceptedRecordIsTrue
PROPERTIES
    BuyerPaysFloor
    ImplementsWorld
    DeliveryExtendsWorld
CHECK_DEADLOCK FALSE
