\* Two launches or tunes of every calibration, in every order with drifts and stops.
SPECIFICATION Spec
CONSTANTS
  Documents <- SomeDocuments
  Powers <- SomePowers
  Freqs <- SomeFreqs
  MaxCalls = 2
INVARIANTS LimitsHeld ScriptAgrees NearestLevel StepsToNeighbour
CHECK_DEADLOCK FALSE
