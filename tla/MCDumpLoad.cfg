\* The program may stop making objects.
SPECIFICATION Spec
CONSTANT Settings <- AllSettings
CHECK_DEADLOCK FALSE
INVARIANTS LoadsBack DocumentsAreAlone
