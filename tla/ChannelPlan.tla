------------------------------ MODULE ChannelPlan ------------------------------
(***************************************************************************)
(* From the radio settings to the registers of the SX1302 concentrator:    *)
(* _resolve_radio_frequency of src/config.py, ConcentratorChannelPlan of   *)
(* src/hal/concentrator_config.py and the two _configure functions of      *)
(* src/hal/sx1302_wrapper.py.  Frequencies are in Hz.  The concentrator    *)
(* has two radio chains, eight multi-SF channels and one channel of a      *)
(* single spreading factor; each channel is an offset from the centre of   *)
(* the chain it is put on.  The region IN is written IND, IN being a word  *)
(* of TLA+.                                                                *)
(***************************************************************************)
EXTENDS Integers, Sequences, TLC

AllRegions == {"US", "EU_868", "ANZ", "IND", "KR", "SG_923"}

\* The default of config.py and of the dashboard (radio/presets.py) ...
DefaultHz == [US |-> 906875000, EU_868 |-> 869525000, ANZ |-> 916000000,
              IND |-> 865462500, KR |-> 921900000, SG_923 |-> 923000000]
\* ... and the one of the concentrator.
HalDefaultHz == [US |-> 906875000, EU_868 |-> 869525000, ANZ |-> 919875000,
                 IND |-> 865875000, KR |-> 922875000, SG_923 |-> 917875000]
BandHz == [US |-> <<902000000, 928000000>>, EU_868 |-> <<863000000, 870000000>>,
           ANZ |-> <<915000000, 928000000>>, IND |-> <<865000000, 867000000>>,
           KR |-> <<920000000, 923000000>>, SG_923 |-> <<917000000, 925000000>>]

InBand(region, hz) == BandHz[region][1] <= hz /\ hz <= BandHz[region][2]

\* The presets of the radio tab: spreading factor and bandwidth.
Presets == [LONG_FAST |-> [sf |-> 11, bw |-> 250000],
            MEDIUM_FAST |-> [sf |-> 9, bw |-> 250000],
            SHORT_TURBO |-> [sf |-> 7, bw |-> 500000]]

\* 0 stands for a frequency or a slot that is not set.
ResolvedHz(region, preset, hz, slot) ==
    LET bw == Presets[preset].bw
    IN  CASE hz # 0 -> hz
          [] hz = 0 /\ slot # 0 ->
                BandHz[region][1] + bw \div 2 + (slot - 1) * bw
          [] OTHER -> DefaultHz[region]

-----------------------------------------------------------------------------
Channels(base, n) == [i \in 1..n |-> [hz |-> base + (i - 1) * 200000,
                                      on |-> TRUE]]
Unused(hz, n) == [i \in 1..n |-> [hz |-> hz, on |-> FALSE]]

Plan(radio0, radio1, multi, single, preset) ==
    [radio |-> <<radio0, radio1>>, multi |-> multi,
     single |-> [hz |-> single, sf |-> Presets[preset].sf,
                 bw |-> Presets[preset].bw]]

NoPlan == [radio |-> <<0, 0>>, multi |-> <<>>,
           single |-> [hz |-> 0, sf |-> 0, bw |-> 0]]

CenteredPlan(hz, preset) ==
    Plan(hz, hz + 800000, Channels(hz - 700000, 8), hz, preset)
NarrowPlan(hz, preset) ==
    Plan(hz, hz, << [hz |-> hz - 62500, on |-> TRUE],
                    [hz |-> hz + 62500, on |-> TRUE] >> \o Unused(hz, 6),
         hz, preset)

\* for_region: the LongFast plan of a region.
WideBase == [US |-> 906200000, ANZ |-> 919200000, IND |-> 865200000,
             SG_923 |-> 917200000]

ForRegion(region) ==
    LET hz == HalDefaultHz[region]
    IN  CASE region = "EU_868" -> NarrowPlan(hz, "LONG_FAST")
          [] region = "KR" ->
                Plan(922400000, 921400000,
                     Channels(921800000, 6) \o Unused(922400000, 2),
                     hz, "LONG_FAST")
          [] OTHER ->
                Plan(WideBase[region] + 600000, WideBase[region] + 1200000,
                     Channels(WideBase[region], 8), hz, "LONG_FAST")

\* from_radio_config: a frequency out of the band is replaced when it is the
\* concentrator's default of another region, and refused otherwise (NoPlan).
FromRadioConfig(region, preset, hz) ==
    LET default == HalDefaultHz[region]
        foreign == ~InBand(region, hz)
                   /\ hz \in {HalDefaultHz[r] : r \in AllRegions}
        tuned == IF foreign THEN default ELSE hz
        regional == hz = default /\ preset = "LONG_FAST"
        inBand == InBand(region, tuned)
    IN  CASE regional -> ForRegion(region)
          [] ~regional /\ ~inBand -> NoPlan
          [] ~regional /\ inBand /\ region = "EU_868" ->
                NarrowPlan(tuned, preset)
          [] OTHER -> CenteredPlan(tuned, preset)

\* Mutant: the second chain is used too late.
OnChainLate(plan, hz) == IF hz <= plan.radio[1] + 1500000 THEN 1 ELSE 2

\* _configure_rf_chains, _configure_if_channels: the chain of each channel
\* and its offset from the centre of that chain.
OnChain(plan, hz) == IF hz <= plan.radio[1] + 500000 THEN 1 ELSE 2

Offsets(plan) ==
    {plan.multi[i].hz - plan.radio[OnChain(plan, plan.multi[i].hz)] :
        i \in {j \in DOMAIN plan.multi : plan.multi[j].on}}
    \cup {plan.single.hz - plan.radio[1]}
=============================================================================
