SPECIFICATION FairSpec
CONSTANTS
  WebCalls = {w1, w2}
  MainCalls = {m1, m2}
  NoCall = NoCall
INVARIANTS
  ModalTypeOK
  OneReturnPerTap
  AnswerIsAsked
  DialogIsVisible
PROPERTIES
  ClosedReturns
CHECK_DEADLOCK FALSE
