CONSTANT Kinds = {"pipe"}
CONSTANT Inputs <- WholeInputs
CONSTANT Timeouts = {0}
CONSTANT Ms = 2
CONSTANT EscWait = 4
CONSTANT MaxSignals = 0
SPECIFICATION FairSpec
PROPERTY EndReported
