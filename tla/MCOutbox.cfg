\* A poison message ahead of a good one, two relays of which one may die; handlers
\* and the store raise now and then; the operator dead-letters, and requeues once.
SPECIFICATION FairSpec
CONSTANTS
  a = a
  b = b
  Messages = {1, 2}
  Poison = {1}
  Relays = {a, b}
  Mortal = {a}
  MaxAttempts = 3
  BatchLimit = 100
  RequeueBound = 1
  Faults = {"handler", "store"}
INVARIANTS
  TypeOK
  DeliveredIsRecorded
  OneWinner
  AttemptsLeft
PROPERTIES
  KeepsPromise
  EveryMessageSettles
CHECK_DEADLOCK FALSE
