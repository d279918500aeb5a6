SPECIFICATION MCSpec
CONSTANTS
  Word <- Word32
  Inputs <- MCInputs
  Zero <- Zero32
  None = None
  Add <- Add32
  sigma0 <- SmallSigma0
  sigma1 <- SmallSigma1
  Sigma0 <- BigSigma0
  Sigma1 <- BigSigma1
  Ch <- Ch32
  Maj <- Maj32
  Swap <- Swap32
  K <- rom_k
  IV <- IV32
INVARIANTS
  DigestCorrect
  TypeOK
