SPECIFICATION Spec
CONSTANTS
  a = a
  b = b
  c = c
  s = s
  t = t
  Names = {a, b, c}
  Streams = {NoStream, s, t}
  NoStream = NoStream
  Repos <- AllRepos
  NoRepo = "none"
  Crossing = 2
  LeappPkgs = {}
  Inputs <- ExcludedInputs
CHECK_DEADLOCK FALSE
INVARIANTS
  BlocklistRemovesNothing
