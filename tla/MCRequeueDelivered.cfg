\* outbox_mark_failed of one relay dead-letters what another has delivered.
SPECIFICATION Spec
CONSTANTS
  a = a
  b = b
  Messages = {1}
  Poison = {}
  Relays = {a, b}
  Mortal = {}
  MaxAttempts = 5
  BatchLimit = 100
  RequeueBound = 1
  Faults = {"handler"}
PROPERTY
  RequeueReturns
CHECK_DEADLOCK FALSE
