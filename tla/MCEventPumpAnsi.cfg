CONSTANT Platforms = {"ansi"}
CONSTANT Inputs <- KeyInputs
CONSTANT QueueCap = 1
CONSTANT MaxRetries = 1
CONSTANT MaxFaults = 1
CONSTANT Closers = {c1}
SPECIFICATION FairSpec
PROPERTY ChannelClosed
