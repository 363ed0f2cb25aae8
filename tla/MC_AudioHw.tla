----------------------------- MODULE MC_AudioHw -----------------------------
(***************************************************************************)
(* Instantiates AudioHw for TLC.  The device masks are those that select *)
(* a different PCM or path: speaker, HDMI (AUX_DIGITAL) and Bluetooth SCO *)
(* for output; the built-in mic and a Bluetooth SCO headset for input,    *)
(* passed with AUDIO_DEVICE_BIT_IN as the framework passes them.  Input  *)
(* rates 44100 (no resampler) and 16000 (resampler).                      *)
(***************************************************************************)
EXTENDS AudioHwLifecycle

MCOutOpenDevices == {{"speaker"}, {"bt_sco"}}
MCOutRoutes == {{"speaker"}, {"aux_digital"}, {"bt_sco"}}
\* Routing without HDMI: every output PCM stays at 44.1 kHz.
MCOutRoutesNoHdmi == {{"speaker"}, {"bt_sco"}}
MCInOpenDevices == {{BIT_IN, "builtin_mic"}}
MCInRoutes == {{BIT_IN, "builtin_mic"}, {BIT_IN, "bt_sco_headset_in"}}
MCInRates == {44100, 16000}
MCOrientations == {"undefined", "landscape"}
=============================================================================
