-------------------------- MODULE StreamLifecycle --------------------------
(***************************************************************************)
(* What the audio HAL of src/audio/audio_hw.c promises about the PCMs of   *)
(* its streams, with no threads, mutexes or call steps: a stream is       *)
(* opened and closed, its PCM is opened (started) with some rate on some   *)
(* card and closed again (standby), and a transfer (the body of           *)
(* out_write() or in_read()) uses an open PCM.                             *)
(*                                                                         *)
(*  - A PCM is opened by its own stream, which goes on to transfer on it;  *)
(*    opening it on the card whose PCMs share one clock (the SoC's card)   *)
(*    needs the rates open there to stay in one rate group, the rule of    *)
(*    the comment "All open PCMs can only use a single group of rates at   *)
(*    once" in start_output_stream() and start_input_stream().            *)
(*  - An open PCM keeps its rate and card until it is closed.             *)
(*  - No PCM is closed while a transfer is using it, and every transfer   *)
(*    ends.                                                                *)
(***************************************************************************)
CONSTANTS
    Outs, Ins,      \* output and input streams
    RateGroups,     \* sets of rates that can share the SoC's clock
    Cards,          \* sound cards
    SharedCard,     \* the card whose PCMs share one clock
    None            \* no PCM open

Streams == Outs \cup Ins
Pcms == [rate : UNION RateGroups, card : Cards]

VARIABLES
    opened,   \* the streams that are open
    pcm,      \* pcm[s]: the rate and card of the PCM s has open, or None
    busy      \* the streams in the middle of a transfer

vars == <<opened, pcm, busy>>

TypeOK ==
    /\ opened \subseteq Streams
    /\ pcm \in [Streams -> Pcms \cup {None}]
    /\ busy \subseteq opened

Init ==
    /\ opened = {}
    /\ pcm = [s \in Streams |-> None]
    /\ busy = {}

\* Rates of the PCMs open on the shared card by the streams of S.
SharedRates(S) ==
    {pcm[t].rate : t \in {t \in S : pcm[t] # None /\ pcm[t].card = SharedCard}}

OneGroup(R) == \E g \in RateGroups : R \subseteq g

Open(s) ==
    /\ s \notin opened
    /\ opened' = opened \cup {s}
    /\ UNCHANGED <<pcm, busy>>

Close(s) ==
    /\ s \in opened \ busy
    /\ opened' = opened \ {s}
    /\ pcm' = [pcm EXCEPT ![s] = None]
    /\ UNCHANGED busy

Stop(s) ==
    /\ pcm[s] # None /\ s \notin busy
    /\ pcm' = [pcm EXCEPT ![s] = None]
    /\ UNCHANGED <<opened, busy>>

Start(s) ==
    /\ s \in opened \ busy /\ pcm[s] = None
    /\ \E p \in Pcms :
         /\ p.card = SharedCard => OneGroup(SharedRates(Streams \ {s}) \cup {p.rate})
         /\ pcm' = [pcm EXCEPT ![s] = p]
    /\ busy' = busy \cup {s}
    /\ UNCHANGED opened

Enter(s) ==
    /\ s \in opened \ busy /\ pcm[s] # None
    /\ busy' = busy \cup {s}
    /\ UNCHANGED <<opened, pcm>>

Leave(s) ==
    /\ s \in busy
    /\ busy' = busy \ {s}
    /\ UNCHANGED <<opened, pcm>>

Next ==
    \E s \in Streams :
        Open(s) \/ Close(s) \/ Stop(s) \/ Start(s) \/ Enter(s) \/ Leave(s)

SafetySpec == Init /\ [][Next]_vars

\* A transfer is never blocked for good.
Fairness == \A s \in Streams : WF_vars(Leave(s))

Spec == SafetySpec /\ Fairness

\* The PCMs open on the shared card have rates of one group.
SharedClock == OneGroup(SharedRates(Streams))
=============================================================================
