SPECIFICATION Spec
CONSTANTS
  Ids = {1, 2, 3}
  Tokens = {t1, t2}
  Default = t0
INVARIANT ActivationWorks
CHECK_DEADLOCK FALSE
