SPECIFICATION Spec
CONSTANTS
  NBUFS = 2
  BUF_SIZE = 2
  HeadLen = 2
  MaxBytes = 6
INVARIANTS
  BuffersOwned
  StreamIntact
  AnswerSent
PROPERTIES
  HandlerReturns
  ImplementsSocket
