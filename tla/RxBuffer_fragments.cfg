SPECIFICATION Spec
CONSTANTS
  FRAME = 4
  MIN = 1
  MaxFrames = 3
  Coalesced = FALSE
INVARIANTS FragmentsReassembled
