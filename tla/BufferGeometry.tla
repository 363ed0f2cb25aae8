--------------------------- MODULE BufferGeometry ---------------------------
(***************************************************************************)
(* The buffer-size and latency arithmetic of src/audio/audio_hw.c: what    *)
(* the HAL tells the framework about its buffers (out_get_buffer_size,     *)
(* out_get_latency, in_get_buffer_size, adev_get_input_buffer_size), and   *)
(* the sizes it reads and writes with (the scratch buffers, the resampler  *)
(* capacity in out_write(), the pcm_read() counts of in_read() and         *)
(* get_next_buffer()). All counts are size_t values far below any wrap.    *)
(***************************************************************************)
EXTENDS AudioConfig

\* audio_stream_frame_size(): 16-bit samples; outputs report stereo
\* (out_get_channels), inputs mono (in_get_channels).
OUT_FRAME_SIZE == 2 * 2
IN_FRAME_SIZE == 1 * 2

\* "the closest majoring multiple of 16 frames".
RoundUp16(frames) == ((frames + 15) \div 16) * 16

\* out_get_buffer_size(): one short period at the client rate, in bytes.
OutGetBufferSize(cfg) ==
    RoundUp16((SHORT_PERIOD_SIZE * OUT_SAMPLING_RATE) \div cfg.rate)
        * OUT_FRAME_SIZE

\* out_get_latency(), in milliseconds.
OutGetLatency(cfg) ==
    (SHORT_PERIOD_SIZE * PLAYBACK_PERIOD_COUNT * 1000) \div cfg.rate

\* in_get_buffer_size(): one PCM period at the requested rate, in bytes.
InGetBufferSize(cfg, requested) ==
    RoundUp16((cfg.period_size * requested) \div cfg.rate) * IN_FRAME_SIZE

\* adev_get_input_buffer_size() for a client configuration.
AdevGetInputBufferSize(rate, channels) ==
    RoundUp16((pcm_config_in.period_size * rate) \div pcm_config_in.rate)
        * channels * 2

\* Mutant: in->buffer sized for one mono period.
InScratchBytesMono == pcm_config_in.period_size * IN_FRAME_SIZE

\* Bytes malloc'ed for in->buffer by adev_open_input_stream(), which sizes
\* it from pcm_config_in whatever configuration the stream later starts
\* with.
InScratchBytes ==
    pcm_config_in.channels * pcm_config_in.period_size * IN_FRAME_SIZE

\* Bytes in_read() and get_next_buffer() ask pcm_read() to put in
\* in->buffer: twice the client bytes on the stereo path, one period of the
\* open configuration in the buffer provider.
StereoReadBytes(bytes) == bytes * 2
ProviderReadBytes(cfg) == cfg.channels * cfg.period_size * IN_FRAME_SIZE

\* Mutant: the capacity counted from RESAMPLER_BUFFER_FRAMES.
OutResampleCapacityFrames == RESAMPLER_BUFFER_FRAMES \div OUT_FRAME_SIZE

\* out_write(): the resampler output capacity passed as out_frames.
OutResampleCapacity == RESAMPLER_BUFFER_SIZE \div OUT_FRAME_SIZE

\* The frames resample_from_input() needs to produce from `frames' client
\* frames at OUT_SAMPLING_RATE for a PCM at `rate' (one frame of filter
\* slack).
ResampledFrames(frames, rate) == (frames * rate) \div OUT_SAMPLING_RATE + 1

====
