CONSTANT Kinds = {"tty"}
CONSTANT Inputs <- WholeInputs
CONSTANT Timeouts = {3}
CONSTANT Ms = 2
CONSTANT EscWait = 4
CONSTANT MaxSignals = 0
SPECIFICATION FairSpec
PROPERTY TimedCallReturns
