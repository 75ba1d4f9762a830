CONSTANTS
  RECV_CAPACITY = 6
  SizeMod = 64
  StreamLen = 10
SPECIFICATION Spec
INVARIANTS ListNormalised SizeExact OutputIsPrefix
PROPERTIES ImplementsReassembler ImplementsFifo
