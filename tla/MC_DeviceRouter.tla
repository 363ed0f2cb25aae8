--------------------------- MODULE MC_DeviceRouter ---------------------------
(***************************************************************************)
(* Checks the routing loop of select_devices() and the table search of    *)
(* adev_get_supported_devices() against their reference definitions, for  *)
(* every output mask over the output bits, every input mask over the      *)
(* input bits with or without AUDIO_DEVICE_BIT_IN, and every set of mixer *)
(* paths.                                                                 *)
(***************************************************************************)
EXTENDS DeviceRouter

VARIABLE probe

Probes ==
    [kind : {"route"}, out : SUBSET OutBits,
     in : SUBSET (InBits \cup {BIT_IN}), paths : {{}}]
    \cup
    [kind : {"supported"}, out : {{}}, in : {{}}, paths : SUBSET PathNames]

Init == probe \in Probes

Next == UNCHANGED probe

Spec == Init /\ [][Next]_probe

\* select_devices() applies the path of every table entry whose device
\* bits are set in adev->out_device / adev->in_device, whether in_device
\* carries AUDIO_DEVICE_BIT_IN or not, and nothing else.
RoutingAppliesEveryMatch ==
    probe.kind = "route" =>
        SelectedPaths(probe.out, probe.in) = RefPaths(probe.out, probe.in)

\* adev_get_supported_devices() reports the masks of exactly the table
\* entries whose name is a mixer path.
SupportedMatchesTable ==
    probe.kind = "supported" =>
        SupportedDevices(probe.paths) = RefSupported(probe.paths)
=============================================================================
