---------------------------- MODULE AudioConfig ----------------------------
(***************************************************************************)
(* The fixed geometry of src/audio/audio_hw.c (lines 44-131): PCM cards,   *)
(* period sizes and counts, sample rates, the five pcm_config structures  *)
(* and the rate-group test both start functions apply.                    *)
(***************************************************************************)
EXTENDS Integers

PCM_CARD == 0
PCM_CARD_HDMI == 1
SHORT_PERIOD_SIZE == 24 * 40
LONG_PERIOD_SIZE == SHORT_PERIOD_SIZE * 2
PLAYBACK_PERIOD_COUNT == 4
CAPTURE_PERIOD_COUNT == 2
OUT_SAMPLING_RATE == 44100
MM_FULL_POWER_SAMPLING_RATE == 48000
SCO_PERIOD_SIZE == 256
SCO_PERIOD_COUNT == 4
SCO_SAMPLING_RATE == 8000
MIN_WRITE_SLEEP_US == 5000
RESAMPLER_BUFFER_FRAMES == SHORT_PERIOD_SIZE * 2
RESAMPLER_BUFFER_SIZE == 4 * RESAMPLER_BUFFER_FRAMES

Config(ch, r, ps, pc) ==
    [channels |-> ch, rate |-> r, period_size |-> ps, period_count |-> pc]

pcm_config_out    == Config(2, OUT_SAMPLING_RATE, SHORT_PERIOD_SIZE, PLAYBACK_PERIOD_COUNT)
pcm_config_out_lp == Config(2, OUT_SAMPLING_RATE, LONG_PERIOD_SIZE, PLAYBACK_PERIOD_COUNT)
pcm_config_in     == Config(2, OUT_SAMPLING_RATE, SHORT_PERIOD_SIZE, CAPTURE_PERIOD_COUNT)
pcm_config_sco    == Config(1, SCO_SAMPLING_RATE, SCO_PERIOD_SIZE, SCO_PERIOD_COUNT)
pcm_config_hdmi   == Config(2, 48000, LONG_PERIOD_SIZE, PLAYBACK_PERIOD_COUNT)
PcmConfigs == {pcm_config_out, pcm_config_out_lp, pcm_config_in,
               pcm_config_sco, pcm_config_hdmi}


\* The rate-group test of start_output_stream() and start_input_stream():
\* a PCM at rate `mine' conflicts with an open PCM at rate `other'.
RateConflict(mine, other) ==
    \/ mine % 8000 = 0 /\ other % 8000 # 0
    \/ mine % 11025 = 0 /\ other % 11025 # 0

====
