SPECIFICATION Spec
CONSTANTS
  NQubits = 3
  Bits = {0, 1, 2}
  Passes = {"swapReconstruction", "cancelCNOTs", "singleQubitGateFusion", "removeIdentities", "flattenOperations",
            "decomposeSWAP", "replaceMCXWithMCZ", "elidePermutations", "backpropagateOutputPermutation",
            "removeDiagonalGatesBeforeMeasure", "removeFinalMeasurements", "eliminateResets", "deferMeasurements",
            "collectBlocks", "collectCliffordBlocks"}
  Alphabet <- MCAlphabet
  MaxOps <- MCMaxOps
  Arguments <- MCArguments
  Supported <- MCSupported
  MaxAdded = 2
INVARIANTS MeaningKept DagCurrent OutcomesKept LayoutTracksSwaps
CHECK_DEADLOCK FALSE
