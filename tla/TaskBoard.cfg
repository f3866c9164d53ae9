CONSTANTS
  Workers = {w1, w2, w3}
  Dimension = 2
  NoOne = NoOne
SPECIFICATION FairSpec
INVARIANTS OncePerTask NoneMissed ResultComplete
PROPERTY Termination
