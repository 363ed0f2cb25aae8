---------------------------- MODULE MC_InputPull ----------------------------
(* The capture pull path at a reduced scale: a period of 6 frames at a    *)
(* PCM rate of 11 units resampled to 4 units, the 44100 Hz to 16000 Hz    *)
(* ratio (2.75) of a 16 kHz client on the 44.1 kHz microphone PCM.         *)
EXTENDS InputPull

MCPeriod == 6
MCPcmRate == 11
MCReqRate == 4

\* size_t is 32 bits on the device; TLC's integers are 32-bit signed, so
\* the wrap is taken at 16 bits, which still lands far above any period.
MCSizeWidth == 16

\* A client that always reads the same number of frames.
MCRequestsFixed == {2}

\* A client that changes its read size between calls.
MCRequestsVaried == {1, 2}
====
