\* Five descriptors.
CONSTANTS
  Descriptors = {0, 1, 2, 3, 4}
SPECIFICATION Spec
INVARIANTS
  TypeOK
  DescriptorKept
  ForeignKept
