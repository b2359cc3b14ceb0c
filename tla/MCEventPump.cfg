CONSTANT Platforms = {"tty", "conpty", "ansi", "bypass"}
CONSTANT Inputs <- ShortInputs
CONSTANT QueueCap = 1
CONSTANT MaxRetries = 1
CONSTANT MaxFaults = 2
CONSTANT Closers = {c1, c2}
SPECIFICATION FairSpec
INVARIANT TypeOK InOrder NothingLostAtEOF OneLateEvent RetriesBounded PanicNeedsOverlap
PROPERTY CloseEndsPump Delivered KeepsStream
