CONSTANT Systems = {"unix", "windows"}
CONSTANT InputModes = {"", "ansi", "winapi", "ConPTY"}
CONSTANT Masks <- SomeMasks
CONSTANT Lines <- SomeLines
CONSTANT Terms <- SomeTerms
CONSTANT MaxOpened = 4
CONSTANT MaxBehind = 0
SPECIFICATION Spec
INVARIANT TypeOK LineRestored TerminalRestored StaysRaw ReportsMeetRaw ConsoleGetsKeys
CHECK_DEADLOCK FALSE
