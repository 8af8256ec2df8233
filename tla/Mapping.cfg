CONSTANTS
    Vertices = {0, 1, 2}
    Couplings = {{0, 1}, {1, 2}}
    Operations <- MCOperations
    Programs <- MCPrograms
    MaxSwaps = 2
SPECIFICATION FairSpec
INVARIANTS GatesAdjacent RecordsAgree RegionsAgree OperandsKept AllRouted FourApproximation
PROPERTY RoutingEnds
