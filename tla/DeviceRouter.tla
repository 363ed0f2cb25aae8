---------------------------- MODULE DeviceRouter ----------------------------
(***************************************************************************)
(* The device router of src/audio/audio_hw.c: the dev_names table, the    *)
(* loop of select_devices() that applies every mixer path whose device    *)
(* bits are set, and adev_get_supported_devices().                        *)
(*                                                                         *)
(* A device bitmask is a set of bit names.  AUDIO_DEVICE_BIT_IN is the    *)
(* top bit (0x80000000) of every input device constant.                   *)
(***************************************************************************)
EXTENDS Integers, Sequences, FiniteSetsExt, Functions

BIT_IN == "BIT_IN"

\* The output and input device bits the table names, plus the SCO bits
\* the rest of the HAL tests (AUDIO_DEVICE_OUT_ALL_SCO, _IN_ALL_SCO).
OutBits == {"earpiece", "speaker", "wired_headset", "wired_headphone",
            "aux_digital", "anlg_dock", "dgtl_dock", "bt_sco"}
InBits  == {"communication", "ambient", "builtin_mic", "wired_headset_in",
            "aux_digital_in", "back_mic", "bt_sco_headset_in"}

\* The dev_names table: { mask, output_flag, name }, in source order.
dev_names ==
  << [mask |-> {"earpiece"},                           output_flag |-> 1, name |-> "earpiece"],
     [mask |-> {"speaker"},                            output_flag |-> 1, name |-> "speaker"],
     [mask |-> {"wired_headset", "wired_headphone"},   output_flag |-> 1, name |-> "headphone"],
     [mask |-> {"wired_headset", "wired_headphone"},   output_flag |-> 1, name |-> "headphone"],
     [mask |-> {"aux_digital"},                        output_flag |-> 1, name |-> "aux-digital-out"],
     [mask |-> {"anlg_dock"},                          output_flag |-> 1, name |-> "analog-dock"],
     [mask |-> {"dgtl_dock"},                          output_flag |-> 1, name |-> "digital-dock"],
     [mask |-> {BIT_IN, "communication"},              output_flag |-> 0, name |-> "comms"],
     [mask |-> {BIT_IN, "ambient"},                    output_flag |-> 0, name |-> "ambient"],
     [mask |-> {BIT_IN, "builtin_mic"},                output_flag |-> 0, name |-> "builtin-mic"],
     [mask |-> {BIT_IN, "wired_headset_in"},           output_flag |-> 0, name |-> "headset"],
     [mask |-> {BIT_IN, "aux_digital_in"},             output_flag |-> 0, name |-> "aux-digital-in"],
     [mask |-> {BIT_IN, "back_mic"},                   output_flag |-> 0, name |-> "back-mic"] >>

PathNames == {dev_names[k].name : k \in DOMAIN dev_names}

\* The unsigned subtraction x - AUDIO_DEVICE_BIT_IN on a 32-bit mask:
\* modulo 2^32 it flips bit 31, whether or not x had it set.
SubBitIn(x) == SymDiff(x, {BIT_IN})

\* The test of one table entry in the loop of select_devices().
EntryMatches(k, out_device, in_device) ==
    IF dev_names[k].output_flag # 0
    THEN out_device \cap dev_names[k].mask # {}
    ELSE SubBitIn(in_device) \cap SubBitIn(dev_names[k].mask) # {}

\* Mutant: the loop stops at the first matching entry.
RECURSIVE ApplyFromFirstOnly(_, _, _, _)
ApplyFromFirstOnly(k, out_device, in_device, applied) ==
    IF k > Len(dev_names) THEN applied
    ELSE IF EntryMatches(k, out_device, in_device)
         THEN applied \cup {dev_names[k].name}
         ELSE ApplyFromFirstOnly(k + 1, out_device, in_device, applied)

\* The loop of select_devices() from entry k on: every matching entry's
\* path is applied to the mixer state, no early exit.
RECURSIVE ApplyFrom(_, _, _, _)
ApplyFrom(k, out_device, in_device, applied) ==
    IF k > Len(dev_names) THEN applied
    ELSE ApplyFrom(k + 1, out_device, in_device,
                   IF EntryMatches(k, out_device, in_device)
                   THEN applied \cup {dev_names[k].name}
                   ELSE applied)

\* select_devices(): reset_mixer_state, the loop, update_mixer_state.  The
\* mixer then has exactly the applied paths.
SelectedPaths(out_device, in_device) == ApplyFrom(1, out_device, in_device, {})

\* adev_get_supported_devices(): for every mixer path, the mask of the
\* first table entry of that name.
RECURSIVE FirstMaskNamed(_, _)
FirstMaskNamed(name, k) ==
    IF k > Len(dev_names) THEN {}
    ELSE IF dev_names[k].name = name THEN dev_names[k].mask
    ELSE FirstMaskNamed(name, k + 1)

\* Mutant: the table search starts one entry late.
SupportedDevicesSkipFirst(mixer_paths) ==
    UNION {FirstMaskNamed(p, 2) : p \in mixer_paths}

SupportedDevices(mixer_paths) ==
    UNION {FirstMaskNamed(p, 1) : p \in mixer_paths}

-----------------------------------------------------------------------------
(* Reference definitions, from the routing policy the HAL promises: every *)
(* table entry whose device bits are set is applied (outputs compared     *)
(* directly, inputs after clearing the IN marker on both sides); the      *)
(* supported devices are the masks of every entry naming a mixer path.    *)

RefPaths(out_device, in_device) ==
    {e.name : e \in {e \in Range(dev_names) :
                       IF e.output_flag # 0
                       THEN out_device \cap e.mask # {}
                       ELSE (in_device \ {BIT_IN}) \cap (e.mask \ {BIT_IN}) # {}}}

RefSupported(mixer_paths) ==
    UNION {e.mask : e \in {e \in Range(dev_names) : e.name \in mixer_paths}}
=============================================================================
