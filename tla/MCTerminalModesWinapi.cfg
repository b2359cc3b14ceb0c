CONSTANT Systems = {"windows"}
CONSTANT InputModes = {"", "ansi", "winapi", "ConPTY"}
CONSTANT Masks <- SomeMasks
CONSTANT Lines <- SomeLines
CONSTANT Terms <- SomeTerms
CONSTANT MaxOpened = 2
CONSTANT MaxBehind = 0
SPECIFICATION Spec
INVARIANT NoRedundantProtocols
CHECK_DEADLOCK FALSE
