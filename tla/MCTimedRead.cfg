CONSTANT Kinds = {"tty", "pipe"}
CONSTANT Inputs <- ShortInputs
CONSTANT Timeouts = {0, 1, 3, 6}
CONSTANT Ms = 2
CONSTANT EscWait = 4
CONSTANT MaxSignals = 1
SPECIFICATION FairSpec
INVARIANT TypeOK NilNeedsDeadline EscapeNeedsWait ClosedStaysClosed
PROPERTY CloseEndsCall TerminalEndReported
