SPECIFICATION Spec
CONSTANTS
  Type = {"int", "reference", "long"}
  Method = {"main", "shuffle", "static", "virtual", "native"}
  Static = {"main", "shuffle", "static", "native"}
  Native = {"native"}
  Entry = {"main", "shuffle"}
  Callees <- MCCallees
  Bits <- MCBits
  Params <- MCParams
  Result <- MCResult
  MaxStack <- MCMaxStack
  MaxLocals <- MCMaxLocals
  Depth = 2
  NoValue = NoValue
PROPERTY WordsAsSpecified
