--------------------------- MODULE MC_OutputWrite ---------------------------
(* The geometries start_output_stream() gives an output: pcm_config, write *)
(* threshold and start threshold in frames. The HDMI branch copies         *)
(* pcm_config_hdmi and leaves write_threshold as it was; the card-0        *)
(* branch sets both thresholds and leaves pcm_config as it was.            *)
EXTENDS OutputWrite

Geo(cfg, threshold, start) == [cfg |-> cfg, threshold |-> threshold, start |-> start]

\* Speaker, deep buffer, HDMI after a speaker or deep-buffer start, and a
\* speaker start after HDMI (pcm_config_hdmi kept on card 0).
MCGeometriesStarted ==
    { Geo(pcm_config_out, PLAYBACK_PERIOD_COUNT * SHORT_PERIOD_SIZE, SHORT_PERIOD_SIZE * 2),
      Geo(pcm_config_out_lp, PLAYBACK_PERIOD_COUNT * LONG_PERIOD_SIZE, LONG_PERIOD_SIZE * 2),
      Geo(pcm_config_hdmi, PLAYBACK_PERIOD_COUNT * SHORT_PERIOD_SIZE, LONG_PERIOD_SIZE * 2),
      Geo(pcm_config_hdmi, PLAYBACK_PERIOD_COUNT * LONG_PERIOD_SIZE, LONG_PERIOD_SIZE * 2),
      Geo(pcm_config_hdmi, PLAYBACK_PERIOD_COUNT * SHORT_PERIOD_SIZE, SHORT_PERIOD_SIZE * 2) }

\* An output whose first start is on HDMI: write_threshold is still the
\* zero calloc() left.
MCGeometriesHdmiFirst == { Geo(pcm_config_hdmi, 0, LONG_PERIOD_SIZE * 2) }

\* HDMI with a threshold a card-0 start left (the resampling cases).
MCGeometriesHdmi ==
    { Geo(pcm_config_hdmi, PLAYBACK_PERIOD_COUNT * SHORT_PERIOD_SIZE, LONG_PERIOD_SIZE * 2) }

\* The frames AudioFlinger writes: out_get_buffer_size() / frame size for
\* the configuration it queried, 44.1 kHz or HDMI.
MCClientFrames == { OutGetBufferSize(pcm_config_out) \div OUT_FRAME_SIZE,
                    OutGetBufferSize(pcm_config_hdmi) \div OUT_FRAME_SIZE }
====
