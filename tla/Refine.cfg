SPECIFICATION MCSpec
CONSTANTS
  Modulus = 11
  Seeds = {1, 4}
  Blocks = 2
  Word <- ToyWord
  Inputs <- ToyWord
  Zero = 0
  None = None
  Add <- ToyAdd
  sigma0 <- Toysigma0
  sigma1 <- Toysigma1
  Sigma0 <- ToySigma0
  Sigma1 <- ToySigma1
  Ch <- ToyCh
  Maj <- ToyMaj
  Swap <- ToySwap
  K <- ToyK
  IV <- ToyIV
INVARIANTS
  CounterInStep
  SigmasAhead
PROPERTIES
  ImplementsStandard
  EveryBlockFinishes
