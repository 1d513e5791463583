SPECIFICATION Spec
CONSTANTS
  a = a
  b = b
  c = c
  Device = {a, b, c}
  Offer = {o1, o2}
  NoOffer = NoOffer
  NoPeer = NoPeer
  Circumstances <- Safety
  Half = 32
INVARIANTS
  TypeOK
  PairingIsMutual
  OfferIsAuthorised
  SuccessIsShared
  NoFalseAccusation
  AckIsHonest
PROPERTIES
  OfferIsPinned
CHECK_DEADLOCK FALSE
