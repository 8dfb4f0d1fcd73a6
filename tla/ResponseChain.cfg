SPECIFICATION Spec
CONSTANT Statuses <- MCStatuses
INVARIANTS
  PenalisesExactlyFaultyKeys
  HandlersAgree
\* one decision per response, then nothing is left to do
CHECK_DEADLOCK FALSE
