------------------------------- MODULE AudioHw -------------------------------
(***************************************************************************)
(* The primary audio HAL of src/audio/audio_hw.c: the device coordinator  *)
(* (struct audio_device), its output streams (struct stream_out) and      *)
(* input streams (struct stream_in), the three kinds of mutex, and the    *)
(* client threads calling into them.                                      *)
(*                                                                         *)
(* Every stream has one client thread (the AudioFlinger playback or record *)
(* thread) that makes all calls on it, and Ctl stands for the binder      *)
(* threads making device-wide calls.  A call is one action when it only    *)
(* waits for the device mutex on entry; out_write() and in_read() are cut  *)
(* at every point where they wait for a mutex, since other threads run     *)
(* between those points.                                                   *)
(*                                                                         *)
(* PCM data is abstracted away; what is kept is which PCMs are open, with *)
(* which configuration, and for reads whether the client buffer holds      *)
(* captured audio.                                                         *)
(***************************************************************************)
EXTENDS Integers, FiniteSets, DeviceRouter, BufferGeometry

CONSTANTS
    Outs,            \* output streams; also their client threads
    Ins,             \* input streams; also their client threads
    Ctl,             \* the thread making adev_* calls
    NULL,
    DeepBuffer,      \* outputs opened with AUDIO_OUTPUT_FLAG_DEEP_BUFFER
    OutOpenDevices,  \* `devices' passed to adev_open_output_stream()
    OutRoutes,       \* routing values passed to out_set_parameters()
    InOpenDevices,   \* `devices' passed to adev_open_input_stream()
    InRoutes,        \* routing values passed to in_set_parameters()
    InRates,         \* sample rates requested at adev_open_input_stream()
    Orientations,    \* orientation values of adev_set_parameters()
    AllocFail,      \* whether malloc() and create_resampler() may fail
    MaxXrun          \* bound on the underruns of one out_write() call

Streams == Outs \cup Ins
Threads == Streams \cup {Ctl}

\* Device masks of <system/audio.h> the HAL tests.
AUDIO_DEVICE_OUT_AUX_DIGITAL == "aux_digital"
AUDIO_DEVICE_OUT_ALL_SCO == {"bt_sco"}
AUDIO_DEVICE_OUT_ALL == OutBits
AUDIO_DEVICE_IN_ALL_SCO == {BIT_IN, "bt_sco_headset_in"}
AUDIO_DEVICE_IN_ALL == InBits \cup {BIT_IN}

-----------------------------------------------------------------------------
VARIABLES
    pc,          \* pc[s]: where the client thread of stream s is
    adevLock,    \* owner of adev->lock, or NULL
    lock,        \* lock[s]: owner of the stream's mutex, or NULL
    outDevice,   \* adev->out_device
    inDevice,    \* adev->in_device
    micMute,     \* adev->mic_mute
    orientation, \* adev->orientation
    routes,      \* the mixer paths applied by the last select_devices()
    activeOut,   \* adev->active_out
    activeIn,    \* adev->active_in
    out,         \* out[o]: the struct stream_out fields kept
    in,          \* in[i]: the struct stream_in fields kept
    xruns,       \* xruns[o]: underruns so far in the current out_write()
    lastRead     \* lastRead[i]: mute flag and content of the last read

adevVars == <<outDevice, inDevice, micMute, orientation, routes>>
vars == <<pc, adevLock, lock, adevVars, activeOut, activeIn, out, in,
          xruns, lastRead>>

\* A stream_out before adev_open_output_stream() (calloc'ed).  standby
\* stands for both out->standby and out->pcm # NULL; card is the card the
\* PCM was opened on.
ClosedOut == [open |-> FALSE, standby |-> TRUE, cfg |-> pcm_config_out,
              card |-> PCM_CARD, threshold |-> 0,
              resampler |-> FALSE, buffer |-> FALSE]

\* A stream_in before adev_open_input_stream(); scratch is whether
\* in->buffer holds audio captured by an earlier pcm_read(); bytes is the
\* buffer size the client last read from in_get_buffer_size(), the byte
\* count it passes to in_read().
ClosedIn == [open |-> FALSE, standby |-> TRUE, cfg |-> pcm_config_in,
             requested |-> OUT_SAMPLING_RATE, resampler |-> FALSE,
             scratch |-> FALSE, bytes |-> 0]

\* write_threshold: 0 from calloc() until set by start_output_stream().
WriteThresholds == {0, PLAYBACK_PERIOD_COUNT * SHORT_PERIOD_SIZE,
                    PLAYBACK_PERIOD_COUNT * LONG_PERIOD_SIZE}

OutPcs == {"idle", "w_lock", "w_check_in", "w_open", "w_body", "w_xrun"}
InPcs  == {"idle", "r_lock", "r_check_out", "r_open", "r_body"}

TypeOK ==
    /\ \A o \in Outs : pc[o] \in OutPcs
    /\ \A i \in Ins : pc[i] \in InPcs
    /\ adevLock \in Threads \cup {NULL}
    /\ lock \in [Streams -> Threads \cup {NULL}]
    /\ outDevice \subseteq OutBits /\ inDevice \subseteq InBits \cup {BIT_IN}
    /\ micMute \in BOOLEAN
    /\ orientation \in Orientations \cup {"undefined"}
    /\ routes \subseteq PathNames
    /\ activeOut \in Outs \cup {NULL} /\ activeIn \in Ins \cup {NULL}
    /\ out \in [Outs -> [open : BOOLEAN, standby : BOOLEAN, cfg : PcmConfigs,
                         card : {PCM_CARD, PCM_CARD_HDMI}, threshold : WriteThresholds,
                         resampler : BOOLEAN, buffer : BOOLEAN]]
    /\ in \in [Ins -> [open : BOOLEAN, standby : BOOLEAN, cfg : PcmConfigs,
                       requested : InRates \cup {OUT_SAMPLING_RATE},
                       resampler : BOOLEAN, scratch : BOOLEAN, bytes : Nat]]
    /\ xruns \in [Outs -> 0..MaxXrun]
    /\ lastRead \in [Ins -> {NULL} \cup [muted : BOOLEAN, audio : BOOLEAN]]

\* adev_open(): the device as the HAL creates it; no stream is open and
\* select_devices() has not run yet.
Init ==
    /\ pc = [s \in Streams |-> "idle"]
    /\ adevLock = NULL
    /\ lock = [s \in Streams |-> NULL]
    /\ outDevice = {"speaker"}
    /\ inDevice = {"builtin_mic"}
    /\ micMute = FALSE
    /\ orientation = "undefined"
    /\ routes = {}
    /\ activeOut = NULL
    /\ activeIn = NULL
    /\ out = [o \in Outs |-> ClosedOut]
    /\ in = [i \in Ins |-> ClosedIn]
    /\ xruns = [o \in Outs |-> 0]
    /\ lastRead = [i \in Ins |-> NULL]

-----------------------------------------------------------------------------
(* Helpers called with the device mutex held.                             *)

\* do_out_standby(): close the PCM and clear adev->active_out, whichever
\* output that names.
DoOutStandby(o) ==
    /\ out' = [out EXCEPT ![o].standby = TRUE]
    /\ activeOut' = IF out[o].standby THEN activeOut ELSE NULL

\* do_in_standby()
DoInStandby(i) ==
    /\ in' = [in EXCEPT ![i].standby = TRUE]
    /\ activeIn' = IF in[i].standby THEN activeIn ELSE NULL

\* Mutant: write_threshold takes the start_threshold value.
StartOutputGeometryStartThreshold(o) ==
    IF AUDIO_DEVICE_OUT_AUX_DIGITAL \in outDevice
    THEN [out[o] EXCEPT !.cfg = pcm_config_hdmi, !.card = PCM_CARD_HDMI]
    ELSE [out[o] EXCEPT !.card = PCM_CARD,
             !.threshold = 2 * (IF o \in DeepBuffer THEN LONG_PERIOD_SIZE ELSE SHORT_PERIOD_SIZE)]

\* The geometry start_output_stream() picks before opening the PCM: the
\* HDMI configuration when AUX_DIGITAL is routed, otherwise the stream
\* keeps out->pcm_config and only its thresholds are set.
StartOutputGeometry(o) ==
    IF AUDIO_DEVICE_OUT_AUX_DIGITAL \in outDevice
    THEN [out[o] EXCEPT !.cfg = pcm_config_hdmi, !.card = PCM_CARD_HDMI]
    ELSE [out[o] EXCEPT !.card = PCM_CARD,
             !.threshold = PLAYBACK_PERIOD_COUNT *
                 (IF o \in DeepBuffer THEN LONG_PERIOD_SIZE ELSE SHORT_PERIOD_SIZE)]

\* The configuration start_input_stream() picks: SCO when a Bluetooth SCO
\* input is routed (tested after subtracting AUDIO_DEVICE_BIT_IN).
StartInputConfig ==
    IF SubBitIn(inDevice) \cap SubBitIn(AUDIO_DEVICE_IN_ALL_SCO) # {}
    THEN pcm_config_sco ELSE pcm_config_in

-----------------------------------------------------------------------------
(* Output stream calls.                                                   *)

\* adev_open_output_stream(): SCO devices get a 44.1->48 kHz resampler
\* and a scratch buffer (whose malloc() is not checked); the configuration
\* follows the deep-buffer flag; the device mutex is taken to set
\* adev->out_device and re-apply the routing.
OpenOutputStream(o) ==
    /\ pc[o] = "idle" /\ ~out[o].open /\ adevLock = NULL
    /\ \E devices \in OutOpenDevices :
         LET sco == devices \cap AUDIO_DEVICE_OUT_ALL_SCO # {}
         IN \/ /\ sco /\ AllocFail          \* create_resampler() fails
               /\ UNCHANGED <<adevVars, out>>
            \/ \E buf \in IF sco /\ AllocFail THEN BOOLEAN ELSE {TRUE} :
                 /\ out' = [out EXCEPT ![o] =
                              [ClosedOut EXCEPT !.open = TRUE,
                                 !.cfg = IF o \in DeepBuffer
                                         THEN pcm_config_out_lp ELSE pcm_config_out,
                                 !.resampler = sco, !.buffer = sco /\ buf]]
                 /\ outDevice' = (outDevice \ AUDIO_DEVICE_OUT_ALL) \cup devices
                 /\ routes' = SelectedPaths(outDevice', inDevice)
                 /\ UNCHANGED <<inDevice, micMute, orientation>>
    /\ UNCHANGED <<pc, adevLock, lock, activeOut, activeIn, in, xruns, lastRead>>

\* adev_close_output_stream(): out_standby(), then the resampler, the
\* buffer and the stream are freed.
CloseOutputStream(o) ==
    /\ pc[o] = "idle" /\ out[o].open /\ adevLock = NULL
    /\ out' = [out EXCEPT ![o] = ClosedOut]
    /\ activeOut' = IF out[o].standby THEN activeOut ELSE NULL
    /\ UNCHANGED <<pc, adevLock, lock, adevVars, activeIn, in, xruns, lastRead>>

\* out_standby(): device mutex, stream mutex, do_out_standby().  The
\* stream mutex is free whenever the device mutex is: apart from this
\* thread, only a thread holding the device mutex takes it.
OutStandby(o) ==
    /\ pc[o] = "idle" /\ out[o].open /\ adevLock = NULL
    /\ DoOutStandby(o)
    /\ UNCHANGED <<pc, adevLock, lock, adevVars, activeIn, in, xruns, lastRead>>

\* out_set_parameters() with a routing value: a new non-zero mask is
\* stored and routed; turning SCO on or off puts this stream in standby.
OutSetParameters(o) ==
    /\ pc[o] = "idle" /\ out[o].open /\ adevLock = NULL
    /\ \E val \in OutRoutes :
         IF outDevice # val /\ val # {}
         THEN /\ IF (val \cap AUDIO_DEVICE_OUT_ALL_SCO) # (outDevice \cap AUDIO_DEVICE_OUT_ALL_SCO)
                 THEN DoOutStandby(o)
                 ELSE UNCHANGED <<out, activeOut>>
              /\ outDevice' = val
              /\ routes' = SelectedPaths(val, inDevice)
              /\ UNCHANGED <<inDevice, micMute, orientation>>
         ELSE UNCHANGED <<adevVars, out, activeOut>>
    /\ UNCHANGED <<pc, adevLock, lock, activeIn, in, xruns, lastRead>>

\* out_write() is called.
OutWrite(o) ==
    /\ pc[o] = "idle" /\ out[o].open
    /\ pc' = [pc EXCEPT ![o] = "w_lock"]
    /\ xruns' = [xruns EXCEPT ![o] = 0]
    /\ UNCHANGED <<adevLock, lock, adevVars, activeOut, activeIn, out, in, lastRead>>

\* Mutant: start_output_stream()'s geometry is applied on every write.
WriteLockAlwaysGeometry(o) ==
    /\ pc[o] = "w_lock" /\ adevLock = NULL
    /\ lock' = [lock EXCEPT ![o] = o]
    /\ out' = [out EXCEPT ![o] = StartOutputGeometry(o)]
    /\ IF out[o].standby
       THEN /\ adevLock' = o
            /\ pc' = [pc EXCEPT ![o] = IF activeIn = NULL THEN "w_open" ELSE "w_check_in"]
       ELSE /\ pc' = [pc EXCEPT ![o] = "w_body"]
            /\ UNCHANGED adevLock
    /\ UNCHANGED <<adevVars, activeOut, activeIn, in, xruns, lastRead>>

\* out_write() at do_over: device mutex, then stream mutex.  In standby,
\* start_output_stream() picks the geometry and, if an input is active,
\* goes on to take its mutex; otherwise sco_on is read and the device
\* mutex is dropped again.
WriteLock(o) ==
    /\ pc[o] = "w_lock" /\ adevLock = NULL
    /\ lock' = [lock EXCEPT ![o] = o]
    /\ IF out[o].standby
       THEN /\ adevLock' = o
            /\ out' = [out EXCEPT ![o] = StartOutputGeometry(o)]
            /\ pc' = [pc EXCEPT ![o] = IF activeIn = NULL THEN "w_open" ELSE "w_check_in"]
       ELSE /\ pc' = [pc EXCEPT ![o] = "w_body"]
            /\ UNCHANGED <<adevLock, out>>
    /\ UNCHANGED <<adevVars, activeOut, activeIn, in, xruns, lastRead>>

\* start_output_stream(): with the active input's mutex, put that input
\* in standby if its rate is in the other rate group.
StartOutCheckIn(o) ==
    /\ pc[o] = "w_check_in"
    /\ LET i == activeIn
       IN /\ lock[i] = NULL
          /\ IF RateConflict(out[o].cfg.rate, in[i].cfg.rate)
             THEN DoInStandby(i)
             ELSE UNCHANGED <<in, activeIn>>
    /\ pc' = [pc EXCEPT ![o] = "w_open"]
    /\ UNCHANGED <<adevLock, lock, adevVars, activeOut, out, xruns, lastRead>>

\* Mutant: the failure path returns without unlocking the device mutex.
StartOutOpenKeepsDevLock(o) ==
    /\ pc[o] = "w_open"
    /\ \/ /\ adevLock' = NULL
          /\ out' = [out EXCEPT ![o].standby = FALSE]
          /\ activeOut' = o
          /\ pc' = [pc EXCEPT ![o] = "w_body"]
          /\ UNCHANGED lock
       \/ /\ lock' = [lock EXCEPT ![o] = NULL]
          /\ pc' = [pc EXCEPT ![o] = "idle"]
          /\ UNCHANGED <<adevLock, out, activeOut>>
    /\ UNCHANGED <<adevVars, activeIn, in, xruns, lastRead>>

\* start_output_stream(): pcm_open().  On success the stream becomes
\* adev->active_out and leaves standby, and the device mutex is dropped;
\* on failure (-ENOMEM) out_write() drops both mutexes and returns.
StartOutOpen(o) ==
    /\ pc[o] = "w_open"
    /\ adevLock' = NULL
    /\ \/ /\ out' = [out EXCEPT ![o].standby = FALSE]
          /\ activeOut' = o
          /\ pc' = [pc EXCEPT ![o] = "w_body"]
          /\ UNCHANGED lock
       \/ /\ lock' = [lock EXCEPT ![o] = NULL]
          /\ pc' = [pc EXCEPT ![o] = "idle"]
          /\ UNCHANGED <<out, activeOut>>
    /\ UNCHANGED <<adevVars, activeIn, in, xruns, lastRead>>

\* The end of out_write(): the stream mutex is dropped and the call
\* returns `bytes', whatever ret was.
WriteReturns(o) ==
    /\ lock' = [lock EXCEPT ![o] = NULL]
    /\ pc' = [pc EXCEPT ![o] = "idle"]
    /\ UNCHANGED xruns

\* pcm_mmap_write() and the exit path: success and errors other than
\* -EPIPE return; -EPIPE drops the stream mutex and goes to recovery.
PcmMmapWrite(o) ==
    \/ WriteReturns(o)
    \/ /\ xruns[o] < MaxXrun
       /\ lock' = [lock EXCEPT ![o] = NULL]
       /\ pc' = [pc EXCEPT ![o] = "w_xrun"]
       /\ UNCHANGED xruns

\* out_write() with only the stream mutex held: create the resampler and
\* its buffer the first time the PCM rate is not 44.1 kHz (either may fail,
\* and a failed malloc() keeps the resampler), resample into out->buffer,
\* then the write.  With a resampler and a NULL out->buffer, audio_utils'
\* resample_from_input() returns -EINVAL without writing, the result is
\* ignored (715) and the write goes ahead.  Flow control only sleeps and
\* is not modelled here.
WriteBody(o) ==
    /\ pc[o] = "w_body"
    /\ LET needs == out[o].cfg.rate # OUT_SAMPLING_RATE
       IN \/ /\ needs /\ ~out[o].resampler
             /\ \/ /\ AllocFail                      \* create_resampler() fails
                   /\ WriteReturns(o) /\ UNCHANGED out
                \/ /\ AllocFail                      \* malloc() fails
                   /\ out' = [out EXCEPT ![o].resampler = TRUE]
                   /\ WriteReturns(o)
                \/ /\ out' = [out EXCEPT ![o].resampler = TRUE, ![o].buffer = TRUE]
                   /\ PcmMmapWrite(o)
          \/ /\ ~needs \/ out[o].resampler
             /\ PcmMmapWrite(o)
             /\ UNCHANGED out
    /\ UNCHANGED <<adevLock, adevVars, activeOut, activeIn, in, lastRead>>

\* out_write() after -EPIPE: device mutex, stream mutex, do_out_standby(),
\* drop both, and start over at do_over.
WriteXrun(o) ==
    /\ pc[o] = "w_xrun" /\ adevLock = NULL
    /\ DoOutStandby(o)
    /\ xruns' = [xruns EXCEPT ![o] = @ + 1]
    /\ pc' = [pc EXCEPT ![o] = "w_lock"]
    /\ UNCHANGED <<adevLock, lock, adevVars, activeIn, in, lastRead>>

-----------------------------------------------------------------------------
(* Input stream calls.                                                    *)

\* adev_open_input_stream() for a mono request: adev->in_device is set to
\* `devices' and routed under the device mutex before the scratch buffer
\* is allocated; a failed malloc() or create_resampler() then returns an
\* error with no stream.  A resampler is created when the requested rate
\* is not the 44.1 kHz of pcm_config_in.
OpenInputStream(i) ==
    /\ pc[i] = "idle" /\ ~in[i].open /\ adevLock = NULL
    /\ \E devices \in InOpenDevices, rate \in InRates :
         /\ inDevice' = (inDevice \ AUDIO_DEVICE_IN_ALL) \cup devices
         /\ routes' = SelectedPaths(outDevice, inDevice')
         /\ \/ /\ AllocFail                 \* malloc() or create_resampler() fails
               /\ UNCHANGED in
            \/ in' = [in EXCEPT ![i] =
                        [ClosedIn EXCEPT !.open = TRUE, !.requested = rate,
                           !.resampler = (rate # pcm_config_in.rate),
                           !.bytes = InGetBufferSize(pcm_config_in, rate)]]
    /\ UNCHANGED <<pc, adevLock, lock, outDevice, micMute, orientation,
                   activeOut, activeIn, out, xruns, lastRead>>

\* adev_close_input_stream(): in_standby(), then everything is freed.
CloseInputStream(i) ==
    /\ pc[i] = "idle" /\ in[i].open /\ adevLock = NULL
    /\ in' = [in EXCEPT ![i] = ClosedIn]
    /\ activeIn' = IF in[i].standby THEN activeIn ELSE NULL
    /\ UNCHANGED <<pc, adevLock, lock, adevVars, activeOut, out, xruns, lastRead>>

\* in_standby()
InStandby(i) ==
    /\ pc[i] = "idle" /\ in[i].open /\ adevLock = NULL
    /\ DoInStandby(i)
    /\ UNCHANGED <<pc, adevLock, lock, adevVars, activeOut, out, xruns, lastRead>>

\* Mutant: the new input device is stored but select_devices() is not run.
InSetParametersNoRoute(i) ==
    /\ pc[i] = "idle" /\ in[i].open /\ adevLock = NULL
    /\ \E v \in InRoutes :
         LET val == v \ {BIT_IN}
         IN IF inDevice # val /\ val # {}
            THEN /\ IF (val \cap AUDIO_DEVICE_IN_ALL_SCO) # (inDevice \cap AUDIO_DEVICE_IN_ALL_SCO)
                    THEN DoInStandby(i)
                    ELSE UNCHANGED <<in, activeIn>>
                 /\ inDevice' = val
                 /\ UNCHANGED <<outDevice, micMute, orientation, routes>>
            ELSE UNCHANGED <<adevVars, in, activeIn>>
    /\ UNCHANGED <<pc, adevLock, lock, activeOut, out, xruns, lastRead>>

\* in_set_parameters() with a routing value v: val = v & ~BIT_IN; a new
\* non-zero val is stored and routed, and the stream goes to standby when
\* the AUDIO_DEVICE_IN_ALL_SCO bits of val and adev->in_device differ.
InSetParameters(i) ==
    /\ pc[i] = "idle" /\ in[i].open /\ adevLock = NULL
    /\ \E v \in InRoutes :
         LET val == v \ {BIT_IN}
         IN IF inDevice # val /\ val # {}
            THEN /\ IF (val \cap AUDIO_DEVICE_IN_ALL_SCO) # (inDevice \cap AUDIO_DEVICE_IN_ALL_SCO)
                    THEN DoInStandby(i)
                    ELSE UNCHANGED <<in, activeIn>>
                 /\ inDevice' = val
                 /\ routes' = SelectedPaths(outDevice, val)
                 /\ UNCHANGED <<outDevice, micMute, orientation>>
            ELSE UNCHANGED <<adevVars, in, activeIn>>
    /\ UNCHANGED <<pc, adevLock, lock, activeOut, out, xruns, lastRead>>

\* in_get_buffer_size(), which reads in->pcm_config without any mutex:
\* the configuration the stream last started with. The client sizes its
\* reads by the answer.
InGetBufferSizeCall(i) ==
    /\ pc[i] = "idle" /\ in[i].open
    /\ in' = [in EXCEPT ![i].bytes = InGetBufferSize(in[i].cfg, in[i].requested)]
    /\ UNCHANGED <<pc, adevLock, lock, adevVars, activeOut, activeIn, out,
                   xruns, lastRead>>

\* in_read() is called.
InRead(i) ==
    /\ pc[i] = "idle" /\ in[i].open
    /\ pc' = [pc EXCEPT ![i] = "r_lock"]
    /\ UNCHANGED <<adevLock, lock, adevVars, activeOut, activeIn, out, in,
                   xruns, lastRead>>

\* in_read(): device mutex, stream mutex.  In standby, start_input_stream()
\* picks the configuration and, if an output is active, goes on to take
\* its mutex; otherwise the device mutex is dropped.
ReadLock(i) ==
    /\ pc[i] = "r_lock" /\ adevLock = NULL
    /\ lock' = [lock EXCEPT ![i] = i]
    /\ IF in[i].standby
       THEN /\ adevLock' = i
            /\ in' = [in EXCEPT ![i].cfg = StartInputConfig]
            /\ pc' = [pc EXCEPT ![i] = IF activeOut = NULL THEN "r_open" ELSE "r_check_out"]
       ELSE /\ pc' = [pc EXCEPT ![i] = "r_body"]
            /\ UNCHANGED <<adevLock, in>>
    /\ UNCHANGED <<adevVars, activeOut, activeIn, out, xruns, lastRead>>

\* start_input_stream(): with the active output's mutex, put that output
\* in standby if its rate is in the other rate group.
StartInCheckOut(i) ==
    /\ pc[i] = "r_check_out"
    /\ LET o == activeOut
       IN /\ lock[o] = NULL
          /\ IF RateConflict(in[i].cfg.rate, out[o].cfg.rate)
             THEN DoOutStandby(o)
             ELSE UNCHANGED <<out, activeOut>>
    /\ pc' = [pc EXCEPT ![i] = "r_open"]
    /\ UNCHANGED <<adevLock, lock, adevVars, activeIn, in, xruns, lastRead>>

\* start_input_stream(): pcm_open().  On success the stream becomes
\* adev->active_in and leaves standby (the resampler is reset); the device
\* mutex is dropped either way, and on failure in_read() sleeps, drops the
\* stream mutex and returns with the client buffer untouched.
StartInOpen(i) ==
    /\ pc[i] = "r_open"
    /\ adevLock' = NULL
    /\ \/ /\ in' = [in EXCEPT ![i].standby = FALSE]
          /\ activeIn' = i
          /\ pc' = [pc EXCEPT ![i] = "r_body"]
          /\ UNCHANGED <<lock, lastRead>>
       \/ /\ lock' = [lock EXCEPT ![i] = NULL]
          /\ pc' = [pc EXCEPT ![i] = "idle"]
          /\ lastRead' = [lastRead EXCEPT ![i] = [muted |-> micMute, audio |-> FALSE]]
          /\ UNCHANGED <<in, activeIn>>
    /\ UNCHANGED <<adevVars, activeOut, out, xruns>>

\* in_read() with only the stream mutex held.  Through the resampler
\* (read_frames()), a failing pcm_read() may come after some frames were
\* already delivered; without one, a stereo PCM is read into in->buffer
\* and its left channel copied to the client even when pcm_read() failed;
\* a mono PCM is read straight into the client buffer.  Only a successful
\* read is zeroed when adev->mic_mute (read without the device mutex) is
\* set.  The call returns `bytes' either way.
ReadBody(i) ==
    /\ pc[i] = "r_body"
    /\ \E ok \in BOOLEAN, partial \in BOOLEAN :
         LET r == in[i]
             stereo == r.cfg.channels = 2
             captured == CASE r.resampler -> ok \/ partial
                           [] stereo      -> ok \/ r.scratch
                           [] OTHER       -> ok
             refills == r.resampler \/ stereo
         IN /\ partial => r.resampler /\ ~ok
            /\ in' = [in EXCEPT ![i].scratch = @ \/ (refills /\ captured)]
            /\ lastRead' = [lastRead EXCEPT ![i] =
                              [muted |-> micMute, audio |-> captured /\ ~(ok /\ micMute)]]
    /\ lock' = [lock EXCEPT ![i] = NULL]
    /\ pc' = [pc EXCEPT ![i] = "idle"]
    /\ UNCHANGED <<adevLock, adevVars, activeOut, activeIn, out, xruns>>

-----------------------------------------------------------------------------
(* Device-wide calls, made by Ctl.                                        *)

\* adev_set_parameters() with "orientation": a changed orientation is
\* stored and routed under the device mutex. Its "screen_state" key writes
\* adev->low_power, which nothing in the HAL reads; it is not kept.
AdevSetParameters ==
    /\ adevLock = NULL
    /\ \E o \in Orientations :
         IF o # orientation
         THEN /\ orientation' = o
              /\ routes' = SelectedPaths(outDevice, inDevice)
         ELSE UNCHANGED <<orientation, routes>>
    /\ UNCHANGED <<pc, adevLock, lock, outDevice, inDevice, micMute,
                   activeOut, activeIn, out, in, xruns, lastRead>>

\* adev_set_mic_mute(): written without any mutex.
AdevSetMicMute ==
    /\ \E state \in BOOLEAN : micMute' = state
    /\ UNCHANGED <<pc, adevLock, lock, outDevice, inDevice, orientation,
                   routes, activeOut, activeIn, out, in, xruns, lastRead>>

-----------------------------------------------------------------------------
\* The steps a thread takes inside a call it has made.
OutCallStep(o) ==
    WriteLock(o) \/ StartOutCheckIn(o) \/ StartOutOpen(o) \/ WriteBody(o) \/ WriteXrun(o)

InCallStep(i) ==
    ReadLock(i) \/ StartInCheckOut(i) \/ StartInOpen(i) \/ ReadBody(i)

OutThread(o) ==
    \/ OpenOutputStream(o) \/ CloseOutputStream(o) \/ OutStandby(o)
    \/ OutSetParameters(o) \/ OutWrite(o) \/ OutCallStep(o)

InThread(i) ==
    \/ OpenInputStream(i) \/ CloseInputStream(i) \/ InStandby(i)
    \/ InSetParameters(i) \/ InGetBufferSizeCall(i) \/ InRead(i)
    \/ InCallStep(i)

Next ==
    \/ \E o \in Outs : OutThread(o)
    \/ \E i \in Ins : InThread(i)
    \/ AdevSetParameters \/ AdevSetMicMute

\* Clients need not call anything; a thread inside a call is scheduled
\* whenever it can run, and a thread waiting for a mutex that is free
\* infinitely often gets it.
Spec ==
    /\ Init /\ [][Next]_vars
    /\ \A o \in Outs : SF_vars(OutCallStep(o))
    /\ \A i \in Ins : SF_vars(InCallStep(i))

-----------------------------------------------------------------------------
(* Properties.                                                            *)

\* The two rate groups of the comment in start_output_stream().
RateGroups == {{11025, 22050, 44100}, {8000, 16000, 32000, 48000}}

\* Rates of the PCMs open on the SoC's card (PCM_CARD).
Card0Rates ==
    {out[o].cfg.rate : o \in {o \in Outs : ~out[o].standby /\ out[o].card = PCM_CARD}}
    \cup {in[i].cfg.rate : i \in {i \in Ins : ~in[i].standby}}

\* "All open PCMs can only use a single group of rates at once"
\* (start_output_stream(), start_input_stream()): the PCMs open on the
\* SoC's card at any time all have rates of one group, however writes,
\* reads, standbys and routing changes of the threads interleave.
RateFamilyExclusion ==
    \E g \in RateGroups : Card0Rates \subseteq g

\* Whenever a PCM is open, the mixer has the paths select_devices()
\* derives from the current adev->out_device and adev->in_device: every
\* routing change since the first stream was opened has been applied.
RoutingCurrent ==
    (\E o \in Outs : ~out[o].standby) \/ (\E i \in Ins : ~in[i].standby)
        => routes = SelectedPaths(outDevice, inDevice)

\* Every out_write() and in_read() call returns: no thread waits forever
\* for a mutex (the device mutex is always taken before a stream mutex),
\* and the underrun recovery of out_write() ends when the PCM stops
\* underrunning.
CallsReturn ==
    \A s \in Streams : pc[s] # "idle" ~> pc[s] = "idle"

\* Spec: "If mic-mute is asserted, the delivered buffer is zero-filled
\* regardless of what was captured": no in_read() returns captured audio
\* to the client while adev->mic_mute is set.
MuteSilencesCapture ==
    \A i \in Ins : lastRead[i] # NULL /\ lastRead[i].muted => ~lastRead[i].audio

\* Spec: a routing change that does not switch the SCO path on or off
\* applies the routing "without disrupting an already-open stream": an
\* in_set_parameters() step that keeps the SCO input bit leaves an open
\* capture PCM open.
InRoutingKeepsCapture ==
    [][\A i \in Ins :
         (/\ inDevice' # inDevice
          /\ ("bt_sco_headset_in" \in inDevice) = ("bt_sco_headset_in" \in inDevice')
          /\ in[i].open /\ in'[i].open)
         => (~in[i].standby => ~in'[i].standby)]_vars

\* Spec: a (re)started output not routed to HDMI uses the short- or
\* long-period geometry of its low-power flag: an output open on the
\* SoC's card has the configuration of pcm_config_out or pcm_config_out_lp.
OutGeometryFollowsFlag ==
    \A o \in Outs :
        ~out[o].standby /\ out[o].card = PCM_CARD =>
            out[o].cfg = IF o \in DeepBuffer THEN pcm_config_out_lp ELSE pcm_config_out

\* create_resampler(in->pcm_config.rate, in->requested_rate, ...) at open
\* builds a converter from the PCM rate to the client rate: whenever a
\* capture PCM with a resampler is open, it runs at the rate the
\* resampler converts from (pcm_config_in's).
ResamplerRateMatchesPcm ==
    \A i \in Ins : ~in[i].standby /\ in[i].resampler => in[i].cfg.rate = pcm_config_in.rate

\* in_read() on a stereo PCM without resampler asks pcm_read() for twice
\* the client's bytes in in->buffer, which adev_open_input_stream() sized
\* for one pcm_config_in period: a client reading the size
\* in_get_buffer_size() reported never makes that read overrun in->buffer.
StereoReadFitsScratch ==
    \A i \in Ins :
        pc[i] = "r_body" /\ ~in[i].resampler /\ in[i].cfg.channels = 2 =>
            StereoReadBytes(in[i].bytes) <= InScratchBytes

\* out_write() hands resample_from_input() an output buffer: when the
\* malloc() of out->buffer fails, the -ENOMEM path (709-711) returns before
\* any resampling, so no later write reaches the resampler with a NULL
\* out->buffer (which makes the resampler fail and pcm_mmap_write() read
\* RESAMPLER_BUFFER_SIZE bytes from the client's buffer).
NoResampleWithoutBuffer ==
    \A o \in Outs :
        pc[o] = "w_body" /\ out[o].cfg.rate # OUT_SAMPLING_RATE /\ out[o].resampler
            => out[o].buffer

=============================================================================
