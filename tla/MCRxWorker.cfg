CONSTANTS
  Items = {i1, i2, i3}
  Null = Null
  Capacity = 2
SPECIFICATION RxFairSpec
INVARIANTS SlotRaceFree NoLostWakeup StopDrains
PROPERTIES ImplementsFifo SentIsHandled StopTerminates
