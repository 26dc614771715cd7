\* A run that is interrupted at any point and fails at any command.
SPECIFICATION FairSpec
CONSTANT Codes <- MCCodes
INVARIANTS NothingLeft ExitCodeTells
PROPERTY InterruptEnds
CHECK_DEADLOCK FALSE
