------------------------- MODULE MC_BufferGeometry -------------------------
(* Checks the buffer arithmetic for every configuration a stream can be   *)
(* in: `probe' is a constant drawn from all of them, so each initial state *)
(* is one case.                                                            *)
EXTENDS BufferGeometry

\* The configurations an output or input stream can be started with.
OutConfigs == {pcm_config_out, pcm_config_out_lp, pcm_config_hdmi}
InConfigs == {pcm_config_in, pcm_config_sco}

\* Client rates of the framework's capture sources.
InRequestRates == {8000, 11025, 16000, 22050, 32000, 44100, 48000}

VARIABLE probe

\* queried: the configuration when the framework read the buffer size;
\* cfg: the one the stream writes or reads with; frames: a write of any
\* multiple of 16 frames up to the size reported; requested: the client
\* rate of an input.
Probes ==
    {p \in [kind : {"out"}, queried : OutConfigs, cfg : OutConfigs,
             frames : {16 * k : k \in 1..60}] :
        p.frames * OUT_FRAME_SIZE <= OutGetBufferSize(p.queried)}
    \cup [kind : {"in"}, queried : InConfigs, cfg : InConfigs,
          requested : InRequestRates]

Init == probe \in Probes
Next == UNCHANGED probe
Spec == Init /\ [][Next]_probe

\* out_write() with a client buffer of at most out_get_buffer_size() bytes,
\* as the framework last read it, never loses client frames to the resampler: the
\* out_frames capacity holds all the frames resample_from_input() makes
\* from them at the PCM rate, whichever configuration the stream has.
ResampleFitsScratch ==
    probe.kind = "out" /\ probe.cfg.rate # OUT_SAMPLING_RATE =>
        ResampledFrames(probe.frames, probe.cfg.rate) <= OutResampleCapacity

\* get_next_buffer() reads one period of whichever configuration the input
\* started with into in->buffer, which adev_open_input_stream() sized from
\* pcm_config_in: the read fits for both capture configurations.
ProviderReadFitsScratch ==
    probe.kind = "in" => ProviderReadBytes(probe.cfg) <= InScratchBytes

\* out_get_latency() reports the time the stream's own ring buffer holds,
\* period_size * period_count frames at the PCM rate, as the spec says.
LatencyMatchesGeometry ==
    probe.kind = "out" =>
        OutGetLatency(probe.cfg) =
            (probe.cfg.period_size * probe.cfg.period_count * 1000)
                \div probe.cfg.rate
====
