CONSTANT Streams <- TypedStreams
SPECIFICATION Spec
INVARIANT WrapStartsWithEsc
