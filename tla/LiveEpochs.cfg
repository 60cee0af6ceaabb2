SPECIFICATION Spec
CONSTANTS
    Node = {"a", "b", "l"}
    Mode <- Modes
    NeuronOf <- Neurons
    Weight <- Marginal
    Budget = 5
    Depth = 1
    MaxLinks <- Links
    MaxEpoch <- Epochs
    MaxAccs = 1
    MaxHeight = 1
    Genesis = Genesis
CHECK_DEADLOCK FALSE
INVARIANTS TypeOK RewardsConserved NothingOverdue ClaimedOnce FrozenClaims BeaconsChain
