CONSTANT Streams <- AllStreams
SPECIFICATION FairSpecByHand
INVARIANT TypeOK ChunkIndependence UnwrapTransparent LoopShrinks SlicesInside
PROPERTY Drains
