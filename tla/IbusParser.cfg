SPECIFICATION Spec
CONSTANTS
    Payloads <- MCPayloads
    Noise <- MCNoise
    MaxLost = 1
    MaxChanged = 1
INVARIANTS
    NoForgedFrame
    CppResyncs
    CResyncs
