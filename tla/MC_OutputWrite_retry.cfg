CONSTANTS
    Geometries <- MCGeometriesHdmi
    ClientFrames <- MCClientFrames
SPECIFICATION Spec
INVARIANT
    RetryResamplesClientData
