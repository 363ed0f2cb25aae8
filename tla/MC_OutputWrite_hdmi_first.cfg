CONSTANTS
    Geometries <- MCGeometriesHdmiFirst
    ClientFrames <- MCClientFrames
SPECIFICATION Spec
PROPERTIES
    NoUnderrunWhileWaiting
