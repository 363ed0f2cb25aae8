-------------------------- MODULE AudioHwLifecycle --------------------------
(***************************************************************************)
(* The refinement mapping from AudioHw to StreamLifecycle.  The program   *)
(* counters, the mutexes, adev->active_out/active_in, the routing and the *)
(* resampler fields are hidden:                                           *)
(*  - a stream is open from adev_open_*_stream() to adev_close_*_stream(); *)
(*  - its PCM is open while it is out of standby, with the rate of its    *)
(*    pcm_config and the card start_*_stream() opened it on (inputs        *)
(*    always use PCM_CARD);                                                *)
(*  - it is busy while its thread is past the device mutex of out_write() *)
(*    or in_read() with the PCM open (pc w_body / r_body).                 *)
(* A WriteLock or ReadLock step of a stream out of standby is Enter, a    *)
(* successful StartOutOpen or StartInOpen is Start, WriteBody and         *)
(* ReadBody are Leave, and every do_*_standby() of an open PCM is Stop.   *)
(***************************************************************************)
EXTENDS AudioHw

\* The rate and card of the PCM stream s has open, or NULL.
PcmOf(s) ==
    IF s \in Outs
    THEN IF out[s].standby THEN NULL
         ELSE [rate |-> out[s].cfg.rate, card |-> out[s].card]
    ELSE IF in[s].standby THEN NULL
         ELSE [rate |-> in[s].cfg.rate, card |-> PCM_CARD]

Lifecycle == INSTANCE StreamLifecycle WITH
    Cards <- {PCM_CARD, PCM_CARD_HDMI},
    SharedCard <- PCM_CARD,
    None <- NULL,
    opened <- {o \in Outs : out[o].open} \cup {i \in Ins : in[i].open},
    pcm <- [s \in Streams |-> PcmOf(s)],
    busy <- {o \in Outs : pc[o] = "w_body"} \cup {i \in Ins : pc[i] = "r_body"}

\* AudioHw implements the safety part of StreamLifecycle: however the
\* client threads of the streams interleave their steps of out_write(),
\* in_read(), the standby and routing calls, a PCM is only opened by its
\* own stream's start_*_stream() with a rate the PCMs open on PCM_CARD
\* allow, keeps its rate and card while open, and is never closed under a
\* transfer in progress.  This is Lifecycle!SafetySpec, with
\* [][Lifecycle!Next]_Lifecycle!vars written in the equivalent form that
\* tests the stuttering case first.  Lifecycle!Fairness, every transfer
\* ends, follows from CallsReturn: a thread at w_body or r_body is not
\* idle, and it becomes idle only through a Leave.
LifecycleRefinement ==
    /\ Lifecycle!Init
    /\ [][UNCHANGED Lifecycle!vars \/ Lifecycle!Next]_vars
=============================================================================
