SPECIFICATION Spec
CONSTANTS
  Digest <- MCDigest
  MinN = 2
  MinJ = 1
  MaxJ = 8
  MaxHashes = 128
  NoNonce = 40008
  Headers = {1, 2, 3}
  Nonces <- MCNonces
  MaxSearches = 8
INVARIANTS
  KeptOutputsCorrect
  HashesCorrectUnlessRedrawn
PROPERTY
  SearchesAreNew
