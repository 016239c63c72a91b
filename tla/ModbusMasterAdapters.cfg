\* Two addresses in each of the four tables; 2 stands for every word that is
\* neither 0 nor 1.
CONSTANTS
  LastAddress = 1
  Words = {0, 2}
  NoRequest = none
SPECIFICATION Spec
INVARIANTS
  ContextsBalance
PROPERTIES
  ImplementsRegisterBank
CHECK_DEADLOCK FALSE
