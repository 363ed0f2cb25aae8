---------------------------- MODULE OutputWrite ----------------------------
(***************************************************************************)
(* The data path of out_write() in src/audio/audio_hw.c for one output     *)
(* stream, from the point where its mutexes are held: resampling into      *)
(* out->buffer, the flow-control loop on the kernel ring buffer, the      *)
(* pcm_mmap_write() and the -EPIPE recovery that restarts the whole call   *)
(* at do_over.                                                             *)
(*                                                                         *)
(* The ring buffer is the environment: the hardware drains it one period   *)
(* at a time while the PCM runs, and the PCM underruns (XRUN) when it      *)
(* drains empty. A PCM is prepared when opened and starts running once     *)
(* start_threshold frames are queued. A write to an underrun PCM fails     *)
(* with -EPIPE. While the thread sleeps in the flow-control loop the      *)
(* hardware plays at most what the computed sleep time covers at the PCM   *)
(* rate, rounded up to whole periods. Mutex steps, open failures and      *)
(* allocation failures are in AudioHw; here the PCM opens and the          *)
(* resampler exists when needed.                                           *)
(***************************************************************************)
EXTENDS Integers, BufferGeometry

CONSTANTS
    Geometries,   \* [cfg, threshold, start] an output can be started with
    ClientFrames  \* frame counts (bytes / frame size) a client may write

\* The PCM's ring buffer size in frames, pcm_get_buffer_size().
BufferFrames(g) == g.cfg.period_size * g.cfg.period_count

VARIABLES
    geo,          \* out->pcm_config, write_threshold, start_threshold
    scoOn,        \* adev->out_device & AUDIO_DEVICE_OUT_ALL_SCO
    pcm,          \* out->pcm: "closed" (standby), "prepared", "running", "xrun"
    occ,          \* frames queued in the kernel ring buffer
    pc,           \* where the playback thread is in out_write()
    clientFrames, \* bytes / frame_size of the current call
    inFrames,     \* in_frames
    outFrames,    \* out_frames
    inBuf,        \* what in_buffer points to: "client" or "scratch"
    lastWrite,    \* the last pcm_mmap_write(): source, frames, client frames
    sleepLeft     \* frames the hardware plays during the current usleep()

vars == <<geo, scoOn, pcm, occ, pc, clientFrames, inFrames, outFrames,
          inBuf, lastWrite, sleepLeft>>

Pcs == {"idle", "start", "convert", "poll", "sleep", "write", "epipe"}

NoWrite == [src |-> "none", frames |-> 0, client |-> 0]

\* An opened output in standby; the geometry is the one its next start
\* gives it, and sco_on follows the routing.
Init ==
    /\ geo \in Geometries /\ scoOn \in BOOLEAN
    /\ pcm = "closed" /\ occ = 0 /\ pc = "idle"
    /\ clientFrames = 0 /\ inFrames = 0 /\ outFrames = 0
    /\ inBuf = "client" /\ lastWrite = NoWrite /\ sleepLeft = 0

-----------------------------------------------------------------------------
(* out_write().                                                            *)

\* out_write() entry: in_frames = bytes / frame_size, in_buffer = buffer,
\* out_frames = the resampler buffer's capacity.
OutWrite ==
    /\ pc = "idle"
    /\ \E n \in ClientFrames :
         /\ clientFrames' = n /\ inFrames' = n
    /\ outFrames' = OutResampleCapacity /\ inBuf' = "client"
    /\ pc' = "start"
    /\ UNCHANGED <<geo, scoOn, pcm, occ, lastWrite, sleepLeft>>

\* do_over: a stream in standby is started (start_output_stream() opens a
\* prepared PCM with an empty ring buffer and resets the resampler). The
\* local in_frames, out_frames and in_buffer keep their values.
DoOver ==
    /\ pc = "start"
    /\ IF pcm = "closed"
       THEN pcm' = "prepared" /\ occ' = 0
       ELSE UNCHANGED <<pcm, occ>>
    /\ pc' = "convert"
    /\ UNCHANGED <<geo, scoOn, clientFrames, inFrames, outFrames, inBuf,
                   lastWrite, sleepLeft>>

\* A PCM rate other than OUT_SAMPLING_RATE: resample_from_input() converts
\* in_frames frames of in_buffer into out->buffer, at most out_frames of
\* them, and sets in_frames to the frames consumed and out_frames to the
\* frames made; in_buffer then points to out->buffer. Otherwise out_frames
\* = in_frames. The flow-control loop is skipped when SCO is on.
Resample ==
    /\ pc = "convert"
    /\ IF geo.cfg.rate # OUT_SAMPLING_RATE
       THEN \E made \in {ResampledFrames(inFrames, geo.cfg.rate) - 1,
                         ResampledFrames(inFrames, geo.cfg.rate)} :
              IF made <= outFrames
              THEN /\ outFrames' = made
                   /\ inBuf' = "scratch"
                   /\ UNCHANGED inFrames
              ELSE /\ inFrames' = (outFrames * OUT_SAMPLING_RATE) \div geo.cfg.rate
                   /\ inBuf' = "scratch"
                   /\ UNCHANGED outFrames
       ELSE /\ outFrames' = inFrames
            /\ UNCHANGED <<inFrames, inBuf>>
    /\ pc' = IF scoOn THEN "write" ELSE "poll"
    /\ UNCHANGED <<geo, scoOn, pcm, occ, clientFrames, lastWrite, sleepLeft>>

\* The frames the hardware plays at the PCM rate during the usleep() the
\* loop computes for `excess' frames above write_threshold (the code
\* converts at MM_FULL_POWER_SAMPLING_RATE and sleeps MIN_WRITE_SLEEP_US at
\* least).
SleepFrames(excess, rate) ==
    LET t == (excess * rate) \div MM_FULL_POWER_SAMPLING_RATE
        m == (MIN_WRITE_SLEEP_US * rate) \div 1000000
    IN  IF t < m THEN m ELSE t

\* Mutant: kernel_frames taken as the available space pcm_get_htimestamp()
\* reports, without subtracting it from the buffer size.
FlowControlPollAvail ==
    /\ pc = "poll"
    /\ LET k == BufferFrames(geo) - occ IN
       IF pcm = "running" /\ k > geo.threshold
       THEN pc' = "sleep" /\ sleepLeft' = SleepFrames(k - geo.threshold, geo.cfg.rate)
       ELSE pc' = "write" /\ UNCHANGED sleepLeft
    /\ UNCHANGED <<geo, scoOn, pcm, occ, clientFrames, inFrames, outFrames,
                   inBuf, lastWrite>>

\* One pass of the flow-control loop: pcm_get_htimestamp() fails unless
\* the PCM runs, which ends the loop; otherwise kernel_frames = buffer size
\* - available, the frames queued, and while they exceed write_threshold
\* the thread sleeps for the excess.
FlowControlPoll ==
    /\ pc = "poll"
    /\ IF pcm = "running" /\ occ > geo.threshold
       THEN pc' = "sleep" /\ sleepLeft' = SleepFrames(occ - geo.threshold, geo.cfg.rate)
       ELSE pc' = "write" /\ UNCHANGED sleepLeft
    /\ UNCHANGED <<geo, scoOn, pcm, occ, clientFrames, inFrames, outFrames,
                   inBuf, lastWrite>>

\* usleep() returns, and the loop condition is evaluated again.
FlowControlSleep ==
    /\ pc = "sleep"
    /\ pc' = "poll" /\ sleepLeft' = 0
    /\ UNCHANGED <<geo, scoOn, pcm, occ, clientFrames, inFrames, outFrames,
                   inBuf, lastWrite>>

\* Mutant: the call does not wait for room in the ring buffer.
PcmMmapWriteNoWait ==
    /\ pc = "write"
    /\ IF pcm = "xrun"
       THEN /\ pc' = "epipe"
            /\ UNCHANGED <<pcm, occ, lastWrite>>
       ELSE /\ occ' = occ + outFrames
            /\ pcm' = IF pcm = "prepared" /\ occ' >= geo.start
                      THEN "running" ELSE pcm
            /\ lastWrite' = [src |-> "client", frames |-> outFrames,
                             client |-> clientFrames]
            /\ pc' = "idle"
    /\ UNCHANGED <<geo, scoOn, clientFrames, inFrames, outFrames, inBuf,
                   sleepLeft>>

\* pcm_mmap_write(out->pcm, buffer, out_frames * frame_size): the source is
\* the client's `buffer', whatever in_buffer points to. An underrun PCM
\* fails with -EPIPE; otherwise the call blocks until out_frames fit, queues
\* them and starts the PCM once start_threshold frames are queued.
PcmMmapWrite ==
    /\ pc = "write"
    /\ IF pcm = "xrun"
       THEN /\ pc' = "epipe"
            /\ UNCHANGED <<pcm, occ, lastWrite>>
       ELSE /\ occ + outFrames <= BufferFrames(geo)
            /\ occ' = occ + outFrames
            /\ pcm' = IF pcm = "prepared" /\ occ' >= geo.start
                      THEN "running" ELSE pcm
            /\ lastWrite' = [src |-> "client", frames |-> outFrames,
                             client |-> clientFrames]
            /\ pc' = "idle"
    /\ UNCHANGED <<geo, scoOn, clientFrames, inFrames, outFrames, inBuf,
                   sleepLeft>>

\* Mutant: the -EPIPE path retries without putting the stream in standby.
RecoverXrunNoStandby ==
    /\ pc = "epipe"
    /\ pc' = "start"
    /\ UNCHANGED <<geo, scoOn, pcm, occ, clientFrames, inFrames, outFrames,
                   inBuf, lastWrite, sleepLeft>>

\* -EPIPE: with both mutexes retaken, do_out_standby() closes the PCM,
\* then goto do_over.
RecoverXrun ==
    /\ pc = "epipe"
    /\ pcm' = "closed" /\ occ' = 0
    /\ pc' = "start"
    /\ UNCHANGED <<geo, scoOn, clientFrames, inFrames, outFrames, inBuf,
                   lastWrite, sleepLeft>>

\* The hardware plays one period of a running PCM; draining it empty is
\* an underrun. While the playback thread sleeps, only as much plays as
\* the sleep lasts.
HardwareDrain ==
    /\ pcm = "running" /\ occ > 0
    /\ pc = "sleep" => sleepLeft > 0
    /\ occ' = IF occ > geo.cfg.period_size THEN occ - geo.cfg.period_size ELSE 0
    /\ pcm' = IF occ' = 0 THEN "xrun" ELSE "running"
    /\ sleepLeft' = IF sleepLeft > geo.cfg.period_size
                    THEN sleepLeft - geo.cfg.period_size ELSE 0
    /\ UNCHANGED <<geo, scoOn, pc, clientFrames, inFrames, outFrames, inBuf,
                   lastWrite>>

WriteStep ==
    DoOver \/ Resample \/ FlowControlPoll \/ FlowControlSleep
    \/ PcmMmapWrite \/ RecoverXrun

Next == OutWrite \/ WriteStep \/ HardwareDrain

\* The playback thread runs while it is inside out_write() (it holds
\* out->lock, nothing else moves it), and the hardware clock keeps
\* draining a running PCM.
Spec == Init /\ [][Next]_vars /\ WF_vars(WriteStep) /\ WF_vars(HardwareDrain)

-----------------------------------------------------------------------------
(* Properties.                                                             *)

TypeOK ==
    /\ geo \in Geometries /\ scoOn \in BOOLEAN
    /\ pcm \in {"closed", "prepared", "running", "xrun"}
    /\ occ \in 0..BufferFrames(geo)
    /\ pc \in Pcs
    /\ clientFrames \in {0} \cup ClientFrames
    /\ inFrames \in 0..OutResampleCapacity
    /\ outFrames \in 0..OutResampleCapacity
    /\ inBuf \in {"client", "scratch"}
    /\ sleepLeft \in Nat

\* out_write() never underruns the PCM by its own waiting: no underrun
\* happens while the playback thread sleeps in the flow-control loop with
\* data in hand.
NoUnderrunWhileWaiting ==
    [][pcm' = "xrun" => pc # "sleep"]_vars

\* Every out_write() returns: the flow-control loop ends as the hardware
\* drains, and the -EPIPE retry starts a fresh PCM that accepts the data.
OutWriteReturns == pc # "idle" ~> pc = "idle"

\* pcm_mmap_write() reads no more frames from its source than the source
\* holds: the client's buffer holds bytes / frame_size frames.
WritesWithinSource ==
    lastWrite.src = "client" => lastWrite.frames <= lastWrite.client

\* The identical write is retried after an underrun: every resampling
\* pass of out_write() converts the client's frames, also on the retry
\* that goto do_over makes.
RetryResamplesClientData ==
    pc = "convert" /\ geo.cfg.rate # OUT_SAMPLING_RATE => inBuf = "client"

====
