SPECIFICATION Spec
CONSTANTS
    MaxRxPayload = 3
    Frames <- MCFrames
    NoiseBytes <- MCNoiseBytes
    MaxFaults = 2
INVARIANTS TypeOK WritesInBounds OnlySent ChecksWhole MissedBounded
PROPERTY AlignedDelivered
