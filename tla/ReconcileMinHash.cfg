SPECIFICATION Spec
CONSTANTS
    n1 = n1
    n2 = n2
    Node <- TwoNodes
    Neuron <- TwoNeurons
    Honest <- OnlyA
    MaxStep = 1
    Signal <- TwoChains
    Strategy = "MinHash"
    Genesis = Genesis
    NoLinks = NoLinks
    Phi <- InDegree
    None = None
    ConflictUnderSerialize = ConflictUnderSerialize
SYMMETRY Symmetry
INVARIANTS
    TypeOK
    IncrementalIsBatch
    HonestUnconflicted
    ChainsAgree
    PastPositionsFixed
