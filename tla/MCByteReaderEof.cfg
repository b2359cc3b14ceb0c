CONSTANT Streams <- CutStreams
SPECIFICATION FairSpec
PROPERTY EofReported
