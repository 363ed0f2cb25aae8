----------------------------- MODULE InputPull -----------------------------
(***************************************************************************)
(* The pull-based capture path of in_read() (src/audio/audio_hw.c): when   *)
(* the input stream has a resampler, in_read() calls read_frames(), which  *)
(* asks the resampler for output frames; the resampler calls back into     *)
(* get_next_buffer() whenever its own input store is short, and            *)
(* release_buffer() when it has copied the frames it was given.            *)
(*                                                                         *)
(* in_read() holds in->lock for the whole call and in_standby() needs the  *)
(* same mutex, so a read and a standby never interleave: the model is one  *)
(* thread whose reads are separated by standby and restart.                *)
(*                                                                         *)
(* The audio_utils resampler is not part of this repository; it is        *)
(* modelled by the contract of resample_from_provider(): it caches the     *)
(* number of input frames needed for the requested output count, calls    *)
(* get_next_buffer() for the shortfall whenever it holds fewer, stops at a *)
(* NULL buffer, releases exactly the frames it copied, and converts at the *)
(* ratio of the two rates (one frame of filter slack).                     *)
(***************************************************************************)
EXTENDS Integers

CONSTANTS
    Period,     \* in->pcm_config.period_size of the open capture PCM
    PcmRate,    \* in->pcm_config.rate, the resampler's input rate
    ReqRate,    \* in->requested_rate, the resampler's output rate
    Requests,   \* frame counts (bytes / frame size) a client may read
    SizeWidth   \* bits of size_t (32 on the ARM build)

ASSUME Period \in Nat \ {0}
ASSUME PcmRate \in Nat \ {0} /\ ReqRate \in Nat \ {0}
ASSUME Requests \subseteq Nat
ASSUME SizeWidth \in Nat \ {0}

\* size_t arithmetic wraps modulo 2^SizeWidth.
SIZE_MAX == 2^SizeWidth

\* pcm_read() reports a failure as a negative value.
EIO == -1

VARIABLES
    standby,     \* in->standby
    framesIn,    \* in->frames_in: frames of in->buffer not yet handed out
    readStatus,  \* in->read_status: result of the last pcm_read()
    rsIn,        \* resampler: frames held in its input store
    rsRq,        \* resampler: cached output request (frames_rq)
    rsNeeded,    \* resampler: cached input need (frames_needed)
    pc,          \* where the capture thread is in in_read()
    frames,      \* read_frames(): frames requested
    framesWr,    \* read_frames(): frames written so far
    rsFramesRq,  \* resample_from_provider(): *outFrameCount on entry
    rsWr,        \* resample_from_provider(): frames produced so far
    pending,     \* captured in this session and not yet handed out
    pcmFailed,   \* a pcm_read() failed during the current read
    result       \* outcome of the last read_frames()

vars == <<standby, framesIn, readStatus, rsIn, rsRq, rsNeeded, pc, frames,
          framesWr, rsFramesRq, rsWr, pending, pcmFailed, result>>

Pcs == {"idle", "rf_loop", "rs_loop", "rs_process", "rf_check"}

NoResult == [error |-> FALSE, pcmFailed |-> FALSE]

\* adev_open_input_stream(): the stream starts in standby with frames_in
\* and the resampler's store empty; read_status is 0 from calloc().
Init ==
    /\ standby = TRUE
    /\ framesIn = 0 /\ readStatus = 0
    /\ rsIn = 0 /\ rsRq = 0 /\ rsNeeded = 0
    /\ pc = "idle" /\ frames = 0 /\ framesWr = 0
    /\ rsFramesRq = 0 /\ rsWr = 0
    /\ pending = 0 /\ pcmFailed = FALSE /\ result = NoResult

-----------------------------------------------------------------------------
(* Stream calls.                                                           *)

\* in_standby() / do_in_standby(): closes the PCM. Neither frames_in nor
\* read_status nor the resampler is touched.
InStandby ==
    /\ pc = "idle" /\ ~standby
    /\ standby' = TRUE
    /\ UNCHANGED <<framesIn, readStatus, rsIn, rsRq, rsNeeded, pc, frames,
                   framesWr, rsFramesRq, rsWr, pending, pcmFailed, result>>

\* in_read() entry (915-937): a stream in standby is started first, and on
\* success start_input_stream() resets the resampler and frames_in
\* (416-420); then read_frames() is asked for bytes / frame size frames. A
\* failed start returns before reading and changes nothing modelled here.
InRead ==
    /\ pc = "idle"
    /\ \E rq \in Requests : frames' = rq
    /\ framesWr' = 0 /\ pcmFailed' = FALSE /\ pc' = "rf_loop"
    /\ IF standby
       THEN /\ standby' = FALSE
            /\ rsIn' = 0 /\ rsRq' = 0 /\ framesIn' = 0 /\ pending' = 0
       ELSE UNCHANGED <<standby, rsIn, rsRq, framesIn, pending>>
    /\ UNCHANGED <<readStatus, rsNeeded, rsFramesRq, rsWr, result>>

\* read_frames() loop head: while frames_wr < frames, ask the resampler for
\* the rest; resample_from_provider() recomputes frames_needed when the
\* request differs from the cached one. When the loop is done it returns
\* the frame count.
ReadFramesLoop ==
    /\ pc = "rf_loop"
    /\ IF framesWr < frames
       THEN LET rq == frames - framesWr
            IN /\ rsFramesRq' = rq /\ rsWr' = 0
               /\ IF rq # rsRq
                  THEN rsRq' = rq /\ rsNeeded' = (rq * PcmRate) \div ReqRate + 1
                  ELSE UNCHANGED <<rsRq, rsNeeded>>
               /\ pc' = "rs_loop"
               /\ UNCHANGED result
       ELSE /\ pc' = "idle"
            /\ result' = [error |-> FALSE, pcmFailed |-> pcmFailed]
            /\ UNCHANGED <<rsFramesRq, rsWr, rsRq, rsNeeded>>
    /\ UNCHANGED <<standby, framesIn, readStatus, rsIn, frames, framesWr,
                   pending, pcmFailed>>

\* get_next_buffer() reading a new period on every call, dropping the test
\* of frames_in.
GetNextBufferRereads(count, ok) ==
    [given |-> IF ok THEN (IF count > Period THEN Period ELSE count) ELSE 0,
     raw |-> ok, left |-> IF ok THEN Period ELSE 0, read |-> TRUE,
     status |-> IF ok THEN 0 ELSE EIO]

\* get_next_buffer() storing pcm_read()'s frame count as the status.
GetNextBufferStatusCount(count, ok) ==
    LET filled == IF framesIn = 0 THEN Period ELSE framesIn
        fails  == framesIn = 0 /\ ~ok
    IN [given |-> IF fails THEN 0 ELSE IF count > filled THEN filled ELSE count,
        raw |-> ~fails, left |-> IF fails THEN 0 ELSE filled,
        read |-> framesIn = 0,
        status |-> IF framesIn = 0 THEN (IF ok THEN Period ELSE EIO)
                   ELSE readStatus]

\* get_next_buffer(): with frames_in at 0, one pcm_read() of a whole
\* period; a failure sets read_status and hands out no buffer. Returns the
\* number of frames handed out (0 for a NULL buffer), the frames left in
\* in->buffer, and the status; the count is clamped to frames_in.
GetNextBuffer(count, ok) ==
    LET filled == IF framesIn = 0 THEN Period ELSE framesIn
        fails  == framesIn = 0 /\ ~ok
    IN [given  |-> IF fails THEN 0
                   ELSE IF count > filled THEN filled ELSE count,
        raw    |-> ~fails,
        left   |-> IF fails THEN 0 ELSE filled,
        read   |-> framesIn = 0,
        status |-> IF framesIn = 0 THEN (IF ok THEN 0 ELSE EIO)
                   ELSE readStatus]

\* release_buffer(): frames_in -= frame_count, on a size_t.
ReleaseBuffer(left, count) == (left - count) % SIZE_MAX

\* resample_from_provider(), fill step: while fewer than frames_rq frames
\* are produced and the store holds fewer than frames_needed input frames,
\* get_next_buffer() for the shortfall; a NULL buffer ends the call with
\* what was produced, otherwise the frames are copied into the store and
\* released. With enough input, or nothing left to produce, no call is made.
ResampleFill ==
    /\ pc = "rs_loop"
    /\ \/ /\ rsWr >= rsFramesRq
          /\ pc' = "rf_check"
          /\ UNCHANGED <<framesIn, readStatus, rsIn, pending, pcmFailed>>
       \/ /\ rsWr < rsFramesRq /\ rsIn >= rsNeeded
          /\ pc' = "rs_process"
          /\ UNCHANGED <<framesIn, readStatus, rsIn, pending, pcmFailed>>
       \/ /\ rsWr < rsFramesRq /\ rsIn < rsNeeded
          /\ \E ok \in BOOLEAN :
               LET b == GetNextBuffer(rsNeeded - rsIn, ok)
               IN /\ readStatus' = b.status
                  /\ pcmFailed' = (pcmFailed \/ (b.read /\ ~ok))
                  /\ pending' = IF b.read /\ ok THEN pending + Period - b.given
                                ELSE pending - b.given
                  /\ IF b.raw
                     THEN /\ rsIn' = rsIn + b.given
                          /\ framesIn' = ReleaseBuffer(b.left, b.given)
                          /\ pc' = "rs_process"
                     ELSE /\ pc' = "rf_check"
                          /\ UNCHANGED <<rsIn, framesIn>>
    /\ UNCHANGED <<standby, rsRq, rsNeeded, frames, framesWr, rsFramesRq,
                   rsWr, result>>

\* The resampler's conversion step: with frames_needed input frames it
\* produces everything still asked for, otherwise as much as its input
\* allows; it consumes input in the ratio of the two rates, with one frame
\* of slack for the filter.
Consumed(o) ==
    {k \in {(o * PcmRate) \div ReqRate, (o * PcmRate) \div ReqRate + 1} :
        k <= rsIn}

ResampleProcess ==
    /\ pc = "rs_process"
    /\ LET m == rsFramesRq - rsWr
           o == IF rsIn >= rsNeeded THEN m
                ELSE IF (rsIn * ReqRate) \div PcmRate < m
                     THEN (rsIn * ReqRate) \div PcmRate ELSE m
       IN \E c \in Consumed(o) :
            /\ rsWr' = rsWr + o
            /\ rsIn' = rsIn - c
    /\ pc' = "rs_loop"
    /\ UNCHANGED <<standby, framesIn, readStatus, rsRq, rsNeeded, frames,
                   framesWr, rsFramesRq, pending, pcmFailed, result>>

\* read_frames() that does not add the produced frames to frames_wr.
ReadFramesCheckNoAccumulate ==
    /\ pc = "rf_check"
    /\ IF readStatus # 0
       THEN /\ pc' = "idle"
            /\ result' = [error |-> TRUE, pcmFailed |-> pcmFailed]
            /\ UNCHANGED framesWr
       ELSE /\ pc' = "rf_loop"
            /\ UNCHANGED <<framesWr, result>>
    /\ UNCHANGED <<standby, framesIn, readStatus, rsIn, rsRq, rsNeeded,
                   frames, rsFramesRq, rsWr, pending, pcmFailed>>

\* read_frames() after resample_from_provider(): a non-zero
\* in->read_status ends the read with that status; otherwise the frames
\* produced are added to frames_wr.
ReadFramesCheck ==
    /\ pc = "rf_check"
    /\ IF readStatus # 0
       THEN /\ pc' = "idle"
            /\ result' = [error |-> TRUE, pcmFailed |-> pcmFailed]
            /\ UNCHANGED framesWr
       ELSE /\ pc' = "rf_loop"
            /\ framesWr' = framesWr + rsWr
            /\ UNCHANGED result
    /\ UNCHANGED <<standby, framesIn, readStatus, rsIn, rsRq, rsNeeded,
                   frames, rsFramesRq, rsWr, pending, pcmFailed>>

\* The steps the capture thread takes inside one in_read() call.
ReadStep == ReadFramesLoop \/ ResampleFill \/ ResampleProcess \/ ReadFramesCheck

Next == InStandby \/ InRead \/ ReadStep

\* The capture thread keeps running while it is inside in_read(): it holds
\* in->lock, so no other call can disable its next step.
Spec == Init /\ [][Next]_vars /\ WF_vars(ReadStep)

-----------------------------------------------------------------------------
(* Properties.                                                             *)

TypeOK ==
    /\ standby \in BOOLEAN
    /\ framesIn \in Nat /\ readStatus \in {0, EIO}
    /\ rsIn \in Nat /\ rsRq \in Nat /\ rsNeeded \in Nat
    /\ pc \in Pcs /\ frames \in Nat /\ framesWr \in Nat
    /\ rsFramesRq \in Nat /\ rsWr \in Nat /\ pending \in Int
    /\ pcmFailed \in BOOLEAN
    /\ result \in [error : BOOLEAN, pcmFailed : BOOLEAN]

\* The frames handed to the resampler are gap-free: since the PCM was
\* started, every frame pcm_read() captured has either been handed out by
\* get_next_buffer() or is still counted in in->frames_in; none is skipped
\* by a re-read and none is handed out twice.
PullGapFree == ~standby => pending = framesIn

\* read_frames() reports a failure only when a pcm_read() of this call
\* failed, as the comment on in->read_status says it is refreshed by every
\* get_next_buffer() the resampler makes.
ReadErrorIsCurrent == result.error => result.pcmFailed

\* Every read_frames() call returns: the pull loop makes progress.
ReadFramesReturns == pc # "idle" ~> pc = "idle"

====
