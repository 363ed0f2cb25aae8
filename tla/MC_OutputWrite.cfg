CONSTANTS
    Geometries <- MCGeometriesStarted
    ClientFrames <- MCClientFrames
SPECIFICATION Spec
INVARIANTS
    TypeOK
PROPERTIES
    NoUnderrunWhileWaiting
    OutWriteReturns
