SPECIFICATION FairSpec
CONSTANTS
  a = a
  b = b
  c = c
  Device = {a, b}
  Offer = {o1}
  NoOffer = NoOffer
  NoPeer = NoPeer
  Circumstances <- Liveness
  Half = 32
PROPERTIES
  ExchangeCompletes
CHECK_DEADLOCK FALSE
