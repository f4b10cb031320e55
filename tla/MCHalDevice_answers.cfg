\* The answers of a service without its HAL.
CONSTANTS
  Descriptors = {0, 1}
SPECIFICATION Spec
INVARIANTS
  ServiceAnswers
