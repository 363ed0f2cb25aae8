# TLA+ models of the OMAP4 primary audio HAL

This directory holds TLA+ models of `src/audio/audio_hw.c`, the primary audio
HAL of the Amazon OMAP4 devices. Each model is checked with TLC.

The HAL is one C file (about 1400 lines). Android's audio framework calls it
from several threads at once:
- one playback thread per output stream calls `out_write`;
- one capture thread per input stream calls `in_read`;
- the framework's control thread calls `adev_set_parameters`,
  `adev_set_mic_mute`, `adev_open_*_stream`, `adev_close_*_stream` and the
  streams' `set_parameters` and `standby`.

Three kinds of mutex serialise this. There is the device mutex `adev->lock`,
plus one mutex per stream (`out->lock`, `in->lock`). The lock order is the
device mutex first, then the stream mutex. A stream may additionally take the
*other* direction's stream mutex, nested inside its own start function.

## 1. Inventory

### Parts of the system

| Part | Code | State | Operations |
|---|---|---|---|
| Device coordinator | `struct audio_device`, `adev_*` | `out_device`, `in_device`, `mic_mute`, `orientation`, `low_power`, `active_out`, `active_in`, the mixer paths, `lock` | `adev_open`, `adev_set_parameters`, `adev_set_mic_mute`, open/close of streams, `adev_close` |
| Device router | `dev_names[]`, `select_devices`, `adev_get_supported_devices` | the routed mixer paths | switches every path whose mask meets the current devices |
| Output stream engine | `struct stream_out`, `start_output_stream`, `do_out_standby`, `out_write`, `out_set_parameters` | `standby`, `pcm`, `pcm_config`, `write_threshold`, `resampler`, `buffer`, `lock` | open, close, standby, routing, write with resampling, flow control and `-EPIPE` recovery |
| Input stream engine | `struct stream_in`, `start_input_stream`, `do_in_standby`, `in_read`, `in_set_parameters` | `standby`, `pcm`, `pcm_config`, `requested_rate`, `resampler`, `buffer`, `frames_in`, `read_status` | open, close, standby, routing, read in three ways (resampled, stereo-to-mono, direct), mute |
| Buffer provider | `get_next_buffer`, `release_buffer`, `read_frames` | `frames_in`, `read_status` | the pull interface that feeds the capture resampler |
| Rate converter | `audio_utils` resampler (external) | opaque | create, resample, release |
| Endpoint access | tinyalsa (external) | opaque | `pcm_open`, `pcm_read`, `pcm_mmap_write`, `pcm_get_htimestamp` |
| Size queries | `out_get_buffer_size`, `in_get_buffer_size`, `adev_get_input_buffer_size`, `out_get_latency` | none | arithmetic |
| Registration glue | function tables, `HAL_MODULE_INFO_SYM`, constant getters | none | none |

### How the parts interact

- **Rate groups.** The card-0 PCMs must all run in one rate group: either a
  multiple of 11025 Hz or a multiple of 8000 Hz.
  - `start_output_stream` enforces this against the active input.
  - `start_input_stream` enforces it against the active output.
  - Each side forces the other into standby when the rates conflict. To do
    so it takes the other stream's mutex while holding the device mutex and
    its own stream mutex.
- **Routing.** `select_devices` runs after every device change: in
  `out_set_parameters`, `in_set_parameters`, `adev_open_input_stream` and
  `adev_set_parameters`.
- **Forced standby on SCO changes.** A change that toggles the Bluetooth SCO
  bits forces the stream into standby. Its PCM must then be reopened with the
  SCO configuration.
- **Two-phase calls.** `out_write` and `in_read` take both mutexes, start the
  PCM if it is in standby, then drop the device mutex. The data transfer runs
  under the stream mutex alone.

### Hazards

The hazards are listed with their lines in `PROJECT.json` "hazards":
- the single `active_out` and `active_in` references;
- PCM use after the device mutex is dropped;
- nested locking in both directions;
- the unbounded `-EPIPE` retry;
- a resampler left without its buffer after a failed `malloc`, which makes
  `pcm_mmap_write` over-read the client's buffer;
- the stale HDMI `pcm_config`;
- the `AUDIO_DEVICE_BIT_IN` arithmetic in routing and in the SCO test;
- mute applied only to successful reads;
- `mic_mute` read without a lock;
- the capture resampler built for the wrong rate;
- the sticky `read_status`;
- the stereo scratch-buffer size;
- the source buffer handed to `pcm_mmap_write`;
- the HDMI write threshold of 0;
- routing changed before a failed input open;
- a stream start that holds the device mutex while it waits for the other
  stream's mutex, which that stream holds across its sleeps.

## 2. Modules

### `DeviceRouter.tla`: the device router

Device masks are **sets of bit names**, so bitwise AND is intersection. The
source subtracts `AUDIO_DEVICE_BIT_IN` from the input device, an unsigned
subtraction that flips bit 31. That is `SubBitIn(x) == SymDiff(x, {BIT_IN})`.

The operators:
- `dev_names` is the 13-entry table.
- `EntryMatches` is the test at lines 246-256.
- `ApplyFrom` (RECURSIVE) is the `for` loop. It applies **every** matching
  entry.
- `SupportedDevices` is `adev_get_supported_devices`. For each path name it
  takes the mask of the first table entry with that name; "headphone" appears
  twice.

`MC_DeviceRouter` enumerates every output mask and every input mask, with
and without BIT_IN, as a constant `probe`. It compares both operators with
reference definitions (`RefPaths`, `RefSupported`) written from the meaning
of the table.

### `AudioHw.tla`: coordinator, output and input engines

**Constants:**
- `Outs` and `Ins` are the streams. One client thread per stream, plus a
  control thread `Ctl`.
- `DeepBuffer` is the set of outputs opened with `AUDIO_OUTPUT_FLAG_DEEP_BUFFER`.
- `OutOpenDevices`, `OutRoutes`, `InOpenDevices`, `InRoutes`, `InRates` and
  `Orientations` are the argument sets the framework may pass.
- `AllocFail` switches the `malloc` and `create_resampler` failures on.
- `MaxXrun` bounds the underruns within one `out_write`.

**State:**
- `adevLock` and `lock[s]` are the mutex owners (NULL when free).
- `outDevice`, `inDevice`, `micMute`, `orientation`, `routes`,
  `activeOut` and `activeIn` are the fields of `struct audio_device`.
  `adev->low_power` is left out: `adev_set_parameters` writes it and nothing
  reads it.
- `out[o]` and `in[i]` are records holding the fields of `stream_out` and
  `stream_in` that affect control flow: `open`, `standby`, `cfg`
  (`pcm_config`), `card`, `threshold`, `resampler`, `buffer`, `requested`
  rate, `scratch`, and `bytes`, the buffer size the client last got from
  `in_get_buffer_size`.
- `pc[t]` is where each client thread is inside `out_write` or `in_read`.
- `xruns` counts the underruns of the current write.
- `lastRead` records what the last `in_read` returned.

**Actions:**
- Each control call is **one action**. It runs under the device mutex, and
  the stream mutexes it takes are free whenever the device mutex is. That
  holds because a stream mutex is held either by its own thread or by a thread
  that holds the device mutex. These actions are `OpenOutputStream`,
  `CloseOutputStream`, `OutStandby`, `OutSetParameters`, `OpenInputStream`,
  `CloseInputStream`, `InStandby`, `InSetParameters`, `AdevSetParameters` and
  `AdevSetMicMute`. Each includes the `select_devices` and `do_*_standby` it
  calls.
- `out_write` is split at each point where it can wait for a mutex:
  1. `OutWrite` enters;
  2. `WriteLock` takes the device and output mutexes when in standby,
     otherwise the output mutex only;
  3. `StartOutCheckIn` waits for the input's mutex and checks the rate group;
  4. `StartOutOpen` runs `pcm_open`, which succeeds or fails;
  5. `WriteBody` creates the resampler and buffer, with their failures;
  6. `PcmMmapWrite` gives the result, which is success, an error, or
     `-EPIPE`;
  7. `WriteXrun` waits for the device mutex, puts the stream in standby and
     goes back to `do_over`;
  8. `WriteReturns` returns.
- `in_read` is split the same way: `InRead`, `ReadLock`,
  `StartInCheckOut`, `StartInOpen` and `ReadBody`. `ReadBody` models the
  three read paths, with full success, partial failure or failure, and the
  mute.
- `InGetBufferSizeCall` is the client querying `in_get_buffer_size`, which
  reads `in->pcm_config` with no mutex. The client then reads that many bytes.

The captured data is reduced to the flag `lastRead.audio`, which says
whether the client received microphone audio.

### `AudioConfig.tla` and `BufferGeometry.tla`: geometry and size arithmetic

`AudioConfig` holds the `#define`s, the five `pcm_config` structures and
the rate-group test `RateConflict`. Every other module extends it.

`BufferGeometry` turns each size query into an operator:
`OutGetBufferSize`, `OutGetLatency`, `InGetBufferSize` and
`AdevGetInputBufferSize`. It also holds the sizes the code reads and writes
with:
- `InScratchBytes`, the `malloc` of `in->buffer`;
- `StereoReadBytes` and `ProviderReadBytes`, the `pcm_read` counts;
- `OutResampleCapacity`, the `out_frames` passed to the resampler;
- `ResampledFrames`, what the resampler makes from the client frames.

`MC_BufferGeometry` enumerates probes as a constant `probe`. An output probe
is a queried configuration, a running configuration and a write size
(multiples of 16 frames up to the advertised size). An input probe is a
queried configuration, a running configuration and a client rate.

### `InputPull.tla`: the capture pull path

This module models `read_frames` on the resampler path, with
`get_next_buffer` and `release_buffer`. The state is `frames_in`,
`read_status`, the resampler's input store and its cached request, and the
loop locals `frames` and `frames_wr`.

`in_read` holds `in->lock` for the whole call, and so does `in_standby`. The
model is therefore one thread, with `InStandby` between reads.

The audio_utils resampler is external, so it is modelled by the contract of
`resample_from_provider`:
- it computes `frames_needed` from the request and recomputes it only when
  the request changes;
- it calls `get_next_buffer` for the shortfall while its store holds less;
- it stops at a NULL buffer;
- it releases exactly the count it was given;
- it converts at the ratio of the rates, with one frame of slack.

`pcm_read` succeeds or fails. `release_buffer` subtracts modulo
`2^SizeWidth`. `pending` is auxiliary: it counts the frames captured since
the last start and not yet handed out.

### `OutputWrite.tla`: the playback data path

This module models one `out_write`, with its mutexes held (AudioHw models
those steps), against the kernel ring buffer.

The state is:
- `occ`, the queued frames;
- the PCM state: closed, prepared, running or XRUN;
- the locals `in_frames`, `out_frames` and `in_buffer`, which survive the
  `goto do_over`;
- the sleep budget `sleepLeft`;
- `lastWrite`, what the last `pcm_mmap_write` was handed.

The actions are `OutWrite`, `DoOver`, `Resample`, `FlowControlPoll`,
`FlowControlSleep`, `PcmMmapWrite` and `RecoverXrun`. The hardware is
`HardwareDrain`: it plays one period at a time, and draining the buffer
empty is an underrun.

The endpoint contract:
- `pcm_get_htimestamp` fails unless the PCM runs, which ends the loop;
- a write blocks until its frames fit, and starts the PCM at
  `start_threshold`;
- a write to an underrun PCM returns `-EPIPE`.

During a `usleep` the hardware plays at most the frames the computed sleep
covers at the PCM rate: `SleepFrames`, at least `MIN_WRITE_SLEEP_US`,
rounded up to whole periods. This is the only timing assumption.

The geometry is a constant set of (`pcm_config`, `write_threshold`,
`start_threshold`) triples. These are exactly the combinations
`start_output_stream` produces, including the stale ones found by
`hdmi_geometry`.

### `StreamLifecycle.tla` and `AudioHwLifecycle.tla`: the abstraction and its refinement

`StreamLifecycle` says what the HAL promises about its PCMs, with no threads,
mutexes or call steps. Its state is:
- `opened`, the open streams;
- `pcm[s]`, the rate and card of the PCM stream `s` has open, or `None`;
- `busy`, the streams in the middle of a transfer.

Its actions are:
- `Open` and `Close`, from `adev_open_*_stream` and `adev_close_*_stream`;
- `Stop`, a `do_*_standby` of a PCM no transfer is using;
- `Start`, a stream opening its own PCM and going on to transfer on it;
- `Enter` and `Leave`, the start and the end of a transfer on an open PCM.

On the shared card (`PCM_CARD`), `Start` may only pick a rate that keeps the
open rates in one group. This is the rule in the comment of
`start_output_stream` and `start_input_stream`. A PCM keeps its rate and card
until `Stop` or `Close`. Weak fairness on `Leave` says that every transfer
ends.

`AudioHwLifecycle` extends `AudioHw` and instantiates `StreamLifecycle` with
this mapping:
- `opened` is the streams whose `open` flag is set;
- `pcm[s]` is `None` in standby; otherwise it is the stream's `cfg.rate` and
  the card it was opened on (`PCM_CARD` for inputs);
- `busy` is the streams whose thread is at `w_body` or `r_body`.

The program counters, the mutexes, `active_out`/`active_in`, the routing and
the resampler fields are hidden. A successful `StartOutOpen` or `StartInOpen`
is `Start`. A `WriteLock` or `ReadLock` out of standby is `Enter`. A
`WriteBody` or `ReadBody` step is `Leave`. Every
`do_*_standby` of an open PCM is `Stop`, and every other step stutters.
`MC_AudioHw` extends `AudioHwLifecycle`, so every AudioHw configuration can
check `LifecycleRefinement`.

`LifecycleRefinement` is `Lifecycle!SafetySpec`, with the step part written
as `[][UNCHANGED Lifecycle!vars \/ Lifecycle!Next]_vars`. This is the same
formula, but TLC tests the stuttering case first, which halves the time the
check takes. The abstract `Fairness` (every transfer ends) is not checked as
a second temporal property, which would push the core run towards its time
limit. It follows from `CallsReturn`, which the same run checks: a thread at
`w_body` or `r_body` is not idle, and it becomes idle only through a step
that maps to `Leave`. The abstract invariant `SharedClock` (the rate-group
rule on card 0) and "no PCM is closed under a transfer" follow from the
refinement, so the core run does not check them again as AudioHw invariants.

## 3. Runs

| Run | Configuration | Expect | What it shows |
|---|---|---|---|
| router | `MC_DeviceRouter.cfg` | pass | `RoutingAppliesEveryMatch` and `SupportedMatchesTable`: the routing loop, BIT_IN arithmetic included, and the supported-devices search agree with their references for all masks. |
| core | `MC_AudioHw.cfg` | pass | With failing `malloc`, `create_resampler` and `pcm_open`: `TypeOK`; `RoutingCurrent`: while a PCM is open, the routed paths are those `select_devices` gives for the current devices; `CallsReturn`: every write and read returns (no deadlock in the nested locking); `LifecycleRefinement`: AudioHw implements the safety part of `StreamLifecycle`, so open card-0 PCMs lie in one rate group and no PCM is closed under a transfer. |
| two_outputs | `MC_AudioHw_two_outputs.cfg` | violation | With a normal and a deep-buffer output, `active_out` forgets an open output and an 8 kHz SCO capture opens beside 44.1 kHz playback. |
| mic_mute | `MC_AudioHw_mute.cfg` | violation | A failed read returns microphone audio while muted. |
| in_routing | `MC_AudioHw_in_routing.cfg` | violation | The stray BIT_IN makes the first input routing change stop the capture. |
| hdmi_geometry | `MC_AudioHw_hdmi_geometry.cfg` | violation | After an HDMI start, a speaker start keeps 48 kHz and the long period. |
| resampler_no_buffer | `MC_AudioHw_no_buffer.cfg` | violation | `NoResampleWithoutBuffer`: a failed buffer `malloc` leaves a resampler with a NULL `out->buffer`; the next write's `resample_from_input` fails with `-EINVAL`, which is ignored, and `pcm_mmap_write` reads the full resampled count from the client's buffer. |
| sco_resampler | `MC_AudioHw_sco_resampler.cfg` | violation | A capture resampler built for 44.1 kHz is fed 8 kHz SCO data. |
| stereo_overflow | `MC_AudioHw_stereo_overflow.cfg` | violation | `StereoReadFitsScratch`: the client queries the size while SCO is configured, and after a restart on the mic the stereo path reads 5696 bytes into the 3840-byte `in->buffer`. |
| input_pull | `MC_InputPull.cfg` | pass | `PullGapFree`: between starts, every captured frame is handed out exactly once; `ReadFramesReturns`: every `read_frames` returns. |
| write_path | `MC_OutputWrite.cfg` | pass | `NoUnderrunWhileWaiting`: the loop never sleeps the PCM into an underrun. `OutWriteReturns`: every write returns, through underrun restarts. |
| mmap_overread | `MC_OutputWrite_overread.cfg` | violation | `WritesWithinSource`: at 48 kHz `pcm_mmap_write` is handed the client buffer with the resampled count, and reads 976 frames from an 896-frame client buffer. |

Each violation comes with a finding in `PROJECT.json`. Each property of a
passing run is also checked against a mutant of the code it depends on (for
example, a rate check that tests one direction only, or a start that keeps the
device mutex).

### Supplementary configurations

The following configurations are kept beside the runs and are not in
`PROJECT.json`'s run list. Each shows one more disagreement found while
modelling, and the hazards in `PROJECT.json` point to them. Run each with
`tlc -config <cfg> <MC module>`.

| Name | Configuration | TLC result | What it shows |
|---|---|---|---|
| geometry | `MC_BufferGeometry.cfg` | holds | `ResampleFitsScratch`: every write size the HAL advertises resamples into `out->buffer`. `ProviderReadFitsScratch`: a provider read of any configuration fits `in->buffer`. |
| latency | `MC_BufferGeometry_latency.cfg` | violated | `out_get_latency` reports 87 ms for the deep buffer, whose ring buffer holds 174 ms. |
| stale_status | `MC_InputPull_stale_status.cfg` | violated | A read served from the resampler store reports an earlier `pcm_read` failure. |
| hdmi_first_underrun | `MC_OutputWrite_hdmi_first.cfg` | violated | With `write_threshold` 0, the loop waits until the buffer is empty. |
| xrun_retry | `MC_OutputWrite_retry.cfg` | violated | The retry after `-EPIPE` resamples `out->buffer` into itself. |

`MC_OutputWrite` enumerates stale (`pcm_config`, threshold) pairs. These
are the stale HDMI geometry that the `hdmi_geometry` run exposes.

### Bounds

The runs use one output and one input, plus the control thread. That is
enough for every cross-stream interaction the code has: the rate check in both
directions, nested locking in both orders, and forced standby across streams.
`two_outputs` adds a second, deep-buffer output, which is the only way to reach
the `active_out` hazard.

The argument sets:
- output devices: speaker, HDMI and SCO;
- input devices: built-in mic and SCO headset;
- requested input rates: 44100 and 16000, which give a resampler and no
  resampler;
- orientation: two values.

These cover each branch of `start_*_stream`, of the SCO toggles and of the
resampler creation. `MaxXrun = 1` lets one underrun recovery happen inside a
write. The core run has `AllocFail = TRUE`. Its behaviours include every
behaviour without allocation failures, so its properties hold in both
settings.

`InputPull` runs at a reduced scale:
- a 6-frame period;
- rates 11 and 4, the 44100:16000 ratio of a 16 kHz client;
- requests of 1 and 2 frames.

This is enough for:
- a request that the store already covers;
- a request that needs one `pcm_read`, and one that needs two;
- a read size that changes between calls.

`size_t` arithmetic is kept modulo `2^SizeWidth`, with `SizeWidth = 16`
because TLC's integers are 32-bit signed.

`OutputWrite` runs at the real frame counts:
- periods of 960 and 1920;
- buffers of 3840 and 7680;
- client writes of 960 and 896 frames.

Only these make the thresholds, start thresholds and resampled counts
interact as on the device. The state space is large, about 1.8 million
states, because the queue takes many values.

### Fairness

Each client thread has **strong fairness** on its in-call steps
(`OutCallStep`, `InCallStep`). The framework's playback and capture threads
keep calling into the HAL once a call has started. A mutex waiter is scheduled
when the mutex is free infinitely often, which is strong fairness on a lock
acquisition that can be disabled in between.

The control thread has no fairness: the framework may stop issuing control
calls. `CallsReturn` therefore does not depend on control calls happening.

The abstract `Fairness` of `StreamLifecycle`, weak fairness on `Leave`,
follows from this strong fairness. A thread at `w_body` or `r_body` holds its
stream mutex, and its body step is always enabled.

In `InputPull` and `OutputWrite`, the thread inside a call has weak fairness:
it holds its stream mutex and nothing else moves it. `OutputWrite` also gives
`HardwareDrain` weak fairness, because the hardware clock plays a running PCM.

## 4. Not modelled

- `adev_close`, which only frees memory at teardown.
- Logging.
- `str_parms` parsing. The parsed values are the argument sets.
- The effect stubs.
- The constant getters.
- tinyalsa and the resampler internals. Their results are nondeterministic.
- Channel reduction in `out_write`. Every configuration is stereo, so it
  never runs.
- The no-resampler branch of `read_frames`. It is unreachable because
  `in_read` calls `read_frames` only when a resampler exists.
- The resampling filter itself, which is signal processing.
- Sleep lengths beyond the frame budget.

## 5. Further work

1. A property that a failed start or open leaves the other streams and the
   routing alone (hazards at lines 341 and 1275). The code violates it: a
   failed `pcm_open` has already put the other direction in standby, and a
   failed input open has already rerouted. `StreamLifecycle` deliberately
   allows a `Stop` at any time, so the refinement does not cover it.
2. Runs for the disagreements now shown only by the supplementary
   configurations: `stale_status` (line 523), `xrun_retry` (line 771) and
   `latency` (line 640).
3. Composing `OutputWrite` with `AudioHw`, so that a starting capture waits
   for the playback thread's flow-control sleeps inside one model (the hazard
   at line 392). No run covers it: `AudioHw` takes the body of a write or a
   read as one step without sleeps, and `OutputWrite` has no mutexes.
