------------------------- MODULE ConfigurationProofs -------------------------
(***************************************************************************)
(* What holds of the configuration for any regions to choose from, any     *)
(* number of requests and starts, and the wizard's runs with an id of      *)
(* their own each: a setting once stored stays in local.yaml (SavedStays), *)
(* memory and file agree on everything a route reported saved              *)
(* (MemoryIsSaved), the running service is what a restart would build      *)
(* (RunningIsSaved), a restart keeps the node id peers know                *)
(* (IdentityStable) and every enabled channel is in reach of its radio     *)
(* chain (ReachesEveryChannel).                                            *)
(*                                                                         *)
(* The first part is SavedStays: every writer merges, and each way not to  *)
(* is recorded in astray.  The second is arithmetic on the channel plans.  *)
(* The third is one invariant, ConfigInv: MemoryIsSaved and RunningIsSaved *)
(* need the values (TypesInv), that no route touches what the radio was    *)
(* built from without asking for a restart (RadioInv) and that the id on   *)
(* the air is the one the file gives (IdInv).                              *)
(***************************************************************************)
EXTENDS Configuration, FiniteSetTheorems, TLAPS

Total(f) == Fields \subseteq DOMAIN f

SettingsInv == Total(file) /\ Total(saved) /\ Total(copy) /\ SavedStays

-----------------------------------------------------------------------------
\* An update leaves nothing undefined, and changes what it names.
LEMMA UpdatedTotal ==
    ASSUME NEW f, NEW g, Total(g)
    PROVE  /\ Total(Updated(g, f))
           /\ \A x \in Fields : Updated(g, f)[x] = IF x \in DOMAIN f THEN f[x] ELSE g[x]
  BY DEF Total, Updated

\* A missing local.yaml says "absent" of every setting.
LEMMA EmptyIsTotal == Total(EmptyFile)
  BY DEF Total, EmptyFile

\* A service that never ran has stored nothing that is not in the file.
LEMMA InitInv == Init => SettingsInv
<1> SUFFICES ASSUME Init PROVE SettingsInv
  OBVIOUS
<1>1. \A f \in InitialFiles : DOMAIN f = DOMAIN EmptyFile
  BY DEF InitialFiles, Provisioned
<1> QED  BY <1>1, EmptyIsTotal DEF Init, SettingsInv, SavedStays, Total

\* What is merged into the file and recorded as stored is in the file.
LEMMA MergeInv ==
    ASSUME SettingsInv, NEW upd, NEW a,
           astray \ DOMAIN upd \subseteq a,
           file' = Merged(upd, file), saved' = Updated(saved, upd), astray' = a,
           copy' = copy
    PROVE  SettingsInv'
<1>1. /\ Total(file) /\ Total(saved) /\ Total(copy)
      /\ \A f \in Fields \ astray : file[f] = saved[f]
  BY DEF SettingsInv, SavedStays
<1>2. /\ Total(Updated(file, upd)) /\ Total(Updated(saved, upd))
      /\ \A f \in Fields :
             Updated(file, upd)[f] = IF f \in DOMAIN upd THEN upd[f] ELSE file[f]
      /\ \A f \in Fields :
             Updated(saved, upd)[f] = IF f \in DOMAIN upd THEN upd[f] ELSE saved[f]
  BY <1>1, UpdatedTotal
<1>3. file' = Updated(file, upd)
  BY DEF Merged
<1>4. ASSUME NEW f \in Fields \ astray' PROVE file'[f] = saved'[f]
  BY <1>1, <1>2, <1>3
<1>5. Total(file') /\ Total(saved') /\ Total(copy')
  BY <1>1, <1>2, <1>3
<1> QED  BY <1>4, <1>5 DEF SettingsInv, SavedStays, Total

\* A file that is lost leaves every setting astray.
LEMMA LostInv ==
    ASSUME SettingsInv, file' = EmptyFile, saved' = saved, astray' = Fields,
           copy' \in {copy, EmptyFile}
    PROVE  SettingsInv'
  BY EmptyIsTotal DEF SettingsInv, SavedStays, Total

\* The wizard reads the file or drops its copy: nothing stored moves.
LEMMA Unmoved ==
    ASSUME SettingsInv, UNCHANGED <<file, saved, astray>>,
           copy' \in {copy, file, EmptyFile}
    PROVE  SettingsInv'
  BY EmptyIsTotal DEF SettingsInv, SavedStays, Total

\* save_section_to_yaml, whatever becomes of the write.
LEMMA SaveInv ==
    ASSUME SettingsInv, NEW upd, NEW o \in Outcomes, NEW told,
           Save(upd, o, told), copy' = copy
    PROVE  SettingsInv'
<1>1. CASE o = "saved"
  <2>1. /\ file' = Merged(upd, file) /\ saved' = Updated(saved, upd)
        /\ astray' = astray \ DOMAIN upd
    BY <1>1 DEF Save, Written
  <2> QED  BY <2>1, MergeInv
<1>2. CASE o = "denied"
  <2>1. file' = file /\ saved' = saved /\ astray' = astray
    BY <1>2 DEF Save, Written
  <2> QED  BY <2>1, Unmoved
<1>3. CASE o = "lost"
  <2>1. file' = EmptyFile /\ saved' = saved /\ astray' = Fields
    BY <1>3 DEF Save, Written
  <2> QED  BY <2>1, LostInv
<1> QED  BY <1>1, <1>2, <1>3 DEF Outcomes

-----------------------------------------------------------------------------
\* The five routes of one section each.
LEMMA PutInv ==
    ASSUME SettingsInv, NEW sec, NEW r, Put(sec, r)
    PROVE  SettingsInv'
<1>1. CASE PutRefused(sec, r)
  BY <1>1, Unmoved DEF PutRefused, Asked, Refused
<1>2. ASSUME NEW o \in Outcomes, PutSection(sec, r, o) PROVE SettingsInv'
  BY <1>2, SaveInv DEF PutSection, Asked
<1> QED  BY <1>1, <1>2 DEF Put

\* The route of the radio settings.
LEMMA PutRadioInv ==
    ASSUME SettingsInv, NEW r, NEW o \in Outcomes, PutRadio(r, o)
    PROVE  SettingsInv'
<1>1. copy' = copy
  BY DEF PutRadio, Asked
<1>2. CASE Refused(<<>>)
  BY <1>1, <1>2, Unmoved DEF Refused
<1>3. CASE Save(RadioUpdates(r), o, RadioTold(r))
  BY <1>1, <1>3, SaveInv
<1> QED  BY <1>2, <1>3 DEF PutRadio

\* The route of the channels writes twice, and the second write can fail.
LEMMA PutChannelsInv ==
    ASSUME SettingsInv, NEW p, NEW k, NEW o \in Outcomes \cup {"second"},
           PutChannels(p, k, o)
    PROVE  SettingsInv'
<1> DEFINE primary == [primary |-> p]
           both == [primary |-> p, keys |-> k]
<1>1. copy' = copy
  BY DEF PutChannels, Asked
<1>2. CASE o = "denied"
  <2>1. Save(primary, o, FALSE)
    BY <1>2 DEF PutChannels
  <2> QED  BY <1>1, <1>2, <2>1, SaveInv DEF Outcomes
<1>3. CASE o = "second"
  <2>1. /\ file' = Merged(primary, file) /\ saved' = Updated(saved, primary)
        /\ astray' = astray \ {"primary"}
    BY <1>3 DEF PutChannels, Outcomes
  <2>2. DOMAIN primary = {"primary"}
    OBVIOUS
  <2> QED  BY <1>1, <2>1, <2>2, MergeInv
<1>4. CASE o \in {"saved", "lost"}
  <2>1. Save(both, o, FALSE)
    BY <1>4 DEF PutChannels
  <2> QED  BY <1>1, <1>4, <2>1, SaveInv DEF Outcomes
<1> QED  BY <1>2, <1>3, <1>4 DEF Outcomes

\* The wizard merges into what it read; what was stored since is astray.
LEMMA WizardWritesInv ==
    ASSUME SettingsInv, NEW answers, NEW o \in {"saved", "lost"},
           WizardWrites(answers, o)
    PROVE  SettingsInv'
<1>1. CASE o = "saved"
  <2> DEFINE lost == {f \in Fields \ DOMAIN answers : copy[f] # file[f]}
  <2>1. /\ file' = Updated(copy, answers) /\ saved' = Updated(saved, answers)
        /\ astray' = (astray \ DOMAIN answers) \cup lost
        /\ copy' = EmptyFile
    BY <1>1 DEF WizardWrites, Merged
  <2>2. /\ Total(file) /\ Total(saved) /\ Total(copy)
        /\ \A f \in Fields \ astray : file[f] = saved[f]
    BY DEF SettingsInv, SavedStays
  <2>3. /\ Total(Updated(copy, answers)) /\ Total(Updated(saved, answers))
        /\ \A f \in Fields : Updated(copy, answers)[f]
              = IF f \in DOMAIN answers THEN answers[f] ELSE copy[f]
        /\ \A f \in Fields : Updated(saved, answers)[f]
              = IF f \in DOMAIN answers THEN answers[f] ELSE saved[f]
    BY <2>2, UpdatedTotal
  <2>4. ASSUME NEW f \in Fields \ astray' PROVE file'[f] = saved'[f]
    BY <2>1, <2>2, <2>3
  <2>5. Total(file') /\ Total(saved') /\ Total(copy')
    BY <2>1, <2>3, EmptyIsTotal
  <2> QED  BY <2>4, <2>5 DEF SettingsInv, SavedStays, Total
<1>2. CASE o = "lost"
  <2>1. /\ file' = EmptyFile /\ saved' = saved /\ astray' = Fields
        /\ copy' = EmptyFile
    BY <1>2 DEF WizardWrites
  <2> QED  BY <2>1, LostInv
<1> QED  BY <1>1, <1>2

\* The start of the service may store a derived node id.
LEMMA BootInv ==
    ASSUME SettingsInv, NEW o \in Outcomes, Boot(o)
    PROVE  SettingsInv'
<1> DEFINE cfg == Load(file)
           derived == /\ cfg.tx_enabled = "on"
                      /\ cfg.node_id \in ReservedIds
                      /\ cfg.device_id # "absent"
           id == [node_id |-> NodeId(cfg)]
<1>1. /\ copy' = copy
      /\ o # "saved" => derived
      /\ file' = IF derived THEN Written(id, file, o) ELSE file
      /\ saved' = IF derived /\ o = "saved" THEN Updated(saved, id) ELSE saved
      /\ astray' = IF o = "lost" THEN Fields
                   ELSE IF derived /\ o = "saved" THEN astray \ {"node_id"} ELSE astray
  BY DEF Boot
<1>2. DOMAIN id = {"node_id"}
  OBVIOUS
<1> HIDE DEF cfg, derived, id
<1>3. CASE o = "lost"
  <2>1. file' = EmptyFile /\ saved' = saved /\ astray' = Fields
    BY <1>1, <1>3 DEF Written
  <2> QED  BY <1>1, <2>1, LostInv
<1>4. CASE o = "saved" /\ derived
  <2>1. /\ file' = Merged(id, file) /\ saved' = Updated(saved, id)
        /\ astray' = astray \ DOMAIN id
    BY <1>1, <1>2, <1>4 DEF Written
  <2> QED  BY <1>1, <2>1, MergeInv
<1>5. CASE o = "denied" \/ (o = "saved" /\ ~derived)
  <2>1. file' = file /\ saved' = saved /\ astray' = astray
    BY <1>1, <1>5 DEF Written
  <2> QED  BY <1>1, <2>1, Unmoved
<1> QED  BY <1>3, <1>4, <1>5 DEF Outcomes

\* Every action keeps what was stored.
LEMMA NextInv == SettingsInv /\ [Next]_vars => SettingsInv'
<1> SUFFICES ASSUME SettingsInv, [Next]_vars PROVE SettingsInv'
  OBVIOUS
<1>1. CASE UpdateTransmit \/ UpdateIdentity \/ UpdateNodeinfo \/ UpdateMqtt \/ UpdateTak
  BY <1>1, PutInv
  DEF UpdateTransmit, UpdateIdentity, UpdateNodeinfo, UpdateMqtt, UpdateTak
<1>2. CASE \E r \in RadioRequests, o \in Outcomes : PutRadio(r, o)
  BY <1>2, PutRadioInv
<1>3. CASE \E p \in {"Club"}, k \in {"two", "bad"},
              o \in Outcomes \cup {"second"} : PutChannels(p, k, o)
  BY <1>3, PutChannelsInv
<1>4. CASE Wizard
  <2>1. CASE WizardOpens
    BY <2>1, Unmoved DEF WizardOpens, history
  <2>2. CASE WizardAborts
    BY <2>2, Unmoved DEF WizardAborts, history
  <2> QED  BY <1>4, <2>1, <2>2, WizardWritesInv DEF Wizard
<1>5. CASE BootFails \/ Stop
  BY <1>5, Unmoved DEF BootFails, Stop, history
<1>6. ASSUME NEW o \in Outcomes, Boot(o) PROVE SettingsInv'
  BY <1>6, BootInv
<1>7. CASE UNCHANGED vars
  BY <1>7, Unmoved DEF vars, history
<1> QED  BY <1>1, <1>2, <1>3, <1>4, <1>5, <1>6, <1>7 DEF Next, Routes

-----------------------------------------------------------------------------
\* A stored setting stays stored, whichever route, start or wizard writes next
\* (config.py, save_section_to_yaml; setup_wizard.py, _deep_merge).
THEOREM SettingsStayStored == Spec => []SavedStays
<1>1. SettingsInv => SavedStays
  BY DEF SettingsInv
<1> QED  BY <1>1, InitInv, NextInv, PTL DEF Spec

-----------------------------------------------------------------------------
\* The channel plans.  A demodulator reaches 737.5 kHz on either side of its
\* radio chain; the lemmas below take the plans one constructor at a time.
Reach == {d \in Int : -737500 <= d /\ d <= 737500}
Reached(plan) == \A d \in Offsets(plan) : -737500 <= d /\ d <= 737500

\* Reached, channel by channel.
LEMMA OffsetsReached ==
    ASSUME NEW p,
           p.single.hz - p.radio[1] \in Reach,
           \A i \in DOMAIN p.multi : p.multi[i].on =>
              p.multi[i].hz - p.radio[OnChain(p, p.multi[i].hz)] \in Reach
    PROVE  Reached(p)
  BY DEF Offsets, Reached, Reach

\* A plan tuned to one frequency: channels 200 kHz apart around it.
LEMMA CenteredReached ==
    ASSUME NEW hz \in Int, NEW preset
    PROVE  Reached(CenteredPlan(hz, preset))
<1> DEFINE p == CenteredPlan(hz, preset)
<1>1. /\ p.radio[1] = hz /\ p.radio[2] = hz + 800000
      /\ p.single.hz = hz /\ DOMAIN p.multi = 1..8
      /\ \A i \in 1..8 : p.multi[i].hz = hz - 700000 + (i - 1) * 200000
  BY SMTT(60) DEF CenteredPlan, Plan, Channels
<1> HIDE DEF p
<1>2. ASSUME NEW i \in 1..8
      PROVE  p.multi[i].hz - p.radio[OnChain(p, p.multi[i].hz)] \in Reach
  BY <1>1, SMTT(60) DEF OnChain, Reach
<1>3. p.single.hz - p.radio[1] \in Reach /\ DOMAIN p.multi = 1..8
  BY <1>1, SMTT(60) DEF Reach
<1>4. Reached(p)
  BY <1>2, <1>3, OffsetsReached, SMTT(60)
<1> QED BY <1>4 DEF p

\* A regional plan with all eight channels.
LEMMA WideReached ==
    ASSUME NEW base \in Int, NEW hz \in Int, NEW preset,
           hz - (base + 600000) \in Reach
    PROVE  Reached(Plan(base + 600000, base + 1200000, Channels(base, 8), hz, preset))
<1> DEFINE p == Plan(base + 600000, base + 1200000, Channels(base, 8), hz, preset)
<1>1. /\ p.radio[1] = base + 600000 /\ p.radio[2] = base + 1200000
      /\ p.single.hz = hz /\ DOMAIN p.multi = 1..8
      /\ \A i \in 1..8 : p.multi[i].hz = base + (i - 1) * 200000
  BY SMTT(60) DEF Plan, Channels
<1> HIDE DEF p
<1>2. ASSUME NEW i \in 1..8
      PROVE  p.multi[i].hz - p.radio[OnChain(p, p.multi[i].hz)] \in Reach
  BY <1>1, SMTT(60) DEF OnChain, Reach
<1>3. p.single.hz - p.radio[1] \in Reach /\ DOMAIN p.multi = 1..8
  BY <1>1, SMTT(60) DEF Reach
<1>4. Reached(p)
  BY <1>2, <1>3, OffsetsReached, SMTT(60)
<1> QED BY <1>4 DEF p

Channel == [hz : Int, on : BOOLEAN]

\* Channels in use followed by channels switched off.
LEMMA Joined ==
    ASSUME NEW s \in Seq(Channel), NEW u \in Seq(Channel)
    PROVE  /\ DOMAIN (s \o u) = 1..(Len(s) + Len(u))
           /\ \A i \in 1..Len(s) : (s \o u)[i] = s[i]
           /\ \A i \in (Len(s) + 1)..(Len(s) + Len(u)) : (s \o u)[i] = u[i - Len(s)]
  OBVIOUS

\* What pads a plan of fewer than eight channels is switched off.
LEMMA UnusedOff ==
    ASSUME NEW hz \in Int, NEW n \in Nat
    PROVE  /\ Unused(hz, n) \in Seq(Channel) /\ Len(Unused(hz, n)) = n
           /\ \A i \in 1..n : ~Unused(hz, n)[i].on
  BY DEF Unused, Channel

\* The spacing of the channels, kept apart from the sequences it is about.
Step == 200000
Spaced(s, base) == \A i \in 1..6 : s[i].hz = base + (i - 1) * Step

\* The spacing depends on the first six channels alone.
LEMMA SpacedSame ==
    ASSUME NEW base, NEW s, NEW w, Spaced(s, base), \A i \in 1..6 : w[i] = s[i]
    PROVE  Spaced(w, base)
  BY Zenon DEF Spaced

\* Six channels from a base frequency.
LEMMA ChannelsOf ==
    ASSUME NEW base \in Int
    PROVE  /\ Channels(base, 6) \in Seq(Channel) /\ Len(Channels(base, 6)) = 6
           /\ Spaced(Channels(base, 6), base)
  BY DEF Channels, Channel, Spaced, Step

\* The narrow European plan, its chains either side of the carrier.
LEMMA NarrowReached ==
    ASSUME NEW hz \in Int, NEW preset
    PROVE  Reached(NarrowPlan(hz, preset))
<1> DEFINE p == NarrowPlan(hz, preset)
<1>1. /\ p.radio[1] = hz
      /\ p.single.hz = hz 
      /\ p.multi = << [hz |-> hz - 62500, on |-> TRUE],
                      [hz |-> hz + 62500, on |-> TRUE] >> \o Unused(hz, 6)
  BY DEF NarrowPlan, Plan
<1>2. /\ DOMAIN p.multi = 1..8
      /\ p.multi[1].hz = hz - 62500 /\ p.multi[2].hz = hz + 62500
      /\ \A i \in 3..8 : ~p.multi[i].on
  <2> DEFINE low == [hz |-> hz - 62500, on |-> TRUE]
             high == [hz |-> hz + 62500, on |-> TRUE]
             s == <<low, high>>
             u == Unused(hz, 6)
  <2>1. u \in Seq(Channel) /\ Len(u) = 6 /\ \A i \in 1..6 : ~u[i].on
    BY UnusedOff
  <2>2. low \in Channel /\ high \in Channel /\ low.hz = hz - 62500 /\ high.hz = hz + 62500
    BY DEF Channel
  <2>3. p.multi = s \o u
    BY <1>1
  <2> HIDE DEF low, high, u, p
  <2>4. s \in Seq(Channel) /\ Len(s) = 2 /\ s[1] = low /\ s[2] = high
    BY <2>2
  <2> HIDE DEF s
  <2>5. /\ DOMAIN (s \o u) = 1..8 /\ (s \o u)[1] = low /\ (s \o u)[2] = high
        /\ \A i \in 3..8 : (s \o u)[i] = u[i - 2]
    <3>1. /\ DOMAIN (s \o u) = 1..(Len(s) + Len(u))
          /\ \A i \in 1..Len(s) : (s \o u)[i] = s[i]
          /\ \A i \in (Len(s) + 1)..(Len(s) + Len(u)) : (s \o u)[i] = u[i - Len(s)]
      BY <2>1, <2>4, Joined
    <3> HIDE DEF u
    <3> QED  BY <2>1, <2>4, <3>1, SMTT(40)
  <2>6. \A i \in 3..8 : i - 2 \in 1..6
    OBVIOUS
  <2>7. \A i \in 3..8 : ~(s \o u)[i].on
    BY <2>1, <2>5, <2>6
  <2> DEFINE w == s \o u
  <2>8. /\ p.multi = w /\ DOMAIN w = 1..8 /\ w[1] = low /\ w[2] = high
        /\ \A i \in 3..8 : ~w[i].on
    BY <2>3, <2>5, <2>7
  <2> HIDE DEF w
  <2> QED  BY <2>2, <2>8
<1> HIDE DEF p
<1>3. ASSUME NEW i \in 1..8, p.multi[i].on
      PROVE  p.multi[i].hz - p.radio[OnChain(p, p.multi[i].hz)] \in Reach
  <2>1. i \in {1, 2}
    BY <1>2, <1>3
  <2> QED
  BY <1>1, <1>2, <2>1, SMTT(60) DEF OnChain, Reach
<1>4. p.single.hz - p.radio[1] \in Reach
  BY <1>1 DEF Reach
<1>5. Reached(p)
  BY <1>2, <1>3, <1>4, OffsetsReached
<1> QED BY <1>5 DEF p

\* Six channels and two switched off.
LEMMA SixAndTwo ==
    ASSUME NEW base \in Int, NEW s \in Seq(Channel), NEW u \in Seq(Channel),
           Len(s) = 6, Spaced(s, base), Len(u) = 2, \A i \in 1..2 : ~u[i].on
    PROVE  DOMAIN (s \o u) = 1..8 /\ Spaced(s \o u, base)
           /\ ~(s \o u)[7].on /\ ~(s \o u)[8].on
<1>1. /\ DOMAIN (s \o u) = 1..8
      /\ \A i \in 1..6 : (s \o u)[i] = s[i]
      /\ \A i \in 7..8 : (s \o u)[i] = u[i - 6]
  <2>1. /\ DOMAIN (s \o u) = 1..(Len(s) + Len(u))
        /\ \A i \in 1..Len(s) : (s \o u)[i] = s[i]
        /\ \A i \in (Len(s) + 1)..(Len(s) + Len(u)) : (s \o u)[i] = u[i - Len(s)]
    BY Joined
  <2> QED  BY <2>1
<1>2. Spaced(s \o u, base)
  BY <1>1, SpacedSame
<1>3. (s \o u)[7] = u[1] /\ (s \o u)[8] = u[2]
  BY <1>1
<1> QED  BY <1>1, <1>2, <1>3

\* Where the Korean plan puts its chains.
Chains(base, chain, chain2) == chain = base + 600000 /\ chain2 = base - 400000

\* The Korean plan: six channels, two of them on the second chain.
LEMMA KoreanReached ==
    ASSUME NEW base \in Int, NEW chain \in Int, NEW chain2 \in Int,
           NEW hz \in Int, NEW preset,
           Chains(base, chain, chain2), hz - chain \in Reach
    PROVE  Reached(Plan(chain, chain2, Channels(base, 6) \o Unused(chain, 2),
                        hz, preset))
<1> DEFINE w == Channels(base, 6) \o Unused(chain, 2)
           p == Plan(chain, chain2, w, hz, preset)
<1>1. /\ p.radio[1] = chain /\ p.radio[2] = chain2
      /\ p.single.hz = hz /\ p.multi = w
  BY DEF Plan
<1>2. DOMAIN w = 1..8 /\ Spaced(w, base) /\ ~w[7].on /\ ~w[8].on
  <2>1. Channels(base, 6) \in Seq(Channel) /\ Len(Channels(base, 6)) = 6
        /\ Spaced(Channels(base, 6), base)
    BY ChannelsOf, Zenon
  <2>2. Unused(chain, 2) \in Seq(Channel) /\ Len(Unused(chain, 2)) = 2
        /\ \A i \in 1..2 : ~Unused(chain, 2)[i].on
    BY UnusedOff
  <2> QED  BY <2>1, <2>2, SixAndTwo, Zenon
<1> HIDE DEF w, p
<1>5. ASSUME NEW i \in 1..8, p.multi[i].on
      PROVE  p.multi[i].hz - p.radio[OnChain(p, p.multi[i].hz)] \in Reach
  <2>1. i \in 1..6
    BY <1>1, <1>2, <1>5
  <2>2. p.multi[i].hz = base + (i - 1) * 200000
    BY <1>1, <1>2, <2>1 DEF Spaced, Step
  <2> QED  BY <1>1, <2>1, <2>2, SMTT(60) DEF OnChain, Reach, Chains
<1>6. p.single.hz - p.radio[1] \in Reach
  BY <1>1
<1>7. Reached(p)
  BY <1>1, <1>2, <1>5, <1>6, OffsetsReached
<1> QED  BY <1>7 DEF p, w

\* for_region, region by region.
LEMMA ForRegionReached ==
    ASSUME NEW region \in AllRegions
    PROVE  Reached(ForRegion(region))
<1>1. CASE region = "EU_868"
  <2>1. HalDefaultHz["EU_868"] \in Int
    BY DEF HalDefaultHz
  <2> QED  BY <1>1, <2>1, NarrowReached DEF ForRegion
<1>2. CASE region = "KR"
  <2>1. /\ HalDefaultHz["KR"] \in Int
        /\ HalDefaultHz["KR"] - 922400000 \in Reach
    BY DEF HalDefaultHz, Reach
  <2>2. ForRegion(region)
        = Plan(922400000, 921400000, Channels(921800000, 6) \o Unused(922400000, 2),
               HalDefaultHz["KR"], "LONG_FAST")
    BY <1>2 DEF ForRegion
  <2>3. Chains(921800000, 922400000, 921400000)
    BY DEF Chains
  <2> QED  BY <2>1, <2>2, <2>3, KoreanReached
<1>3. CASE region \in {"US", "ANZ", "IND", "SG_923"}
  <2>1. /\ WideBase[region] \in Int /\ HalDefaultHz[region] \in Int
        /\ HalDefaultHz[region] - (WideBase[region] + 600000) \in Reach
    BY <1>3 DEF WideBase, HalDefaultHz, Reach
  <2>2. ForRegion(region)
        = Plan(WideBase[region] + 600000, WideBase[region] + 1200000,
               Channels(WideBase[region], 8), HalDefaultHz[region], "LONG_FAST")
    BY <1>3 DEF ForRegion
  <2> QED  BY <2>1, <2>2, WideReached
<1> QED  BY <1>1, <1>2, <1>3 DEF AllRegions

\* from_radio_config: a regional, a narrow or a centered plan.
LEMMA FromRadioConfigReached ==
    ASSUME NEW region \in AllRegions, NEW preset, NEW hz \in Int
    PROVE  Reached(FromRadioConfig(region, preset, hz))
<1> DEFINE default == HalDefaultHz[region]
           foreign == ~InBand(region, hz)
                      /\ hz \in {HalDefaultHz[r] : r \in AllRegions}
           tuned == IF foreign THEN default ELSE hz
<1>1. tuned \in Int
  BY DEF HalDefaultHz, AllRegions
<1>2. Reached(NoPlan)
  <2>1. NoPlan.multi = <<>> /\ NoPlan.single.hz = 0 /\ NoPlan.radio[1] = 0
    BY DEF NoPlan
  <2>2. NoPlan.single.hz - NoPlan.radio[1] \in Reach /\ DOMAIN NoPlan.multi = {}
    BY <2>1 DEF Reach
  <2> QED  BY <2>2, OffsetsReached
<1>3. FromRadioConfig(region, preset, hz)
         \in {ForRegion(region), NoPlan, NarrowPlan(tuned, preset),
             CenteredPlan(tuned, preset)}
  BY DEF FromRadioConfig
<1> HIDE DEF tuned
<1> QED  BY <1>1, <1>2, <1>3, ForRegionReached, NarrowReached, CenteredReached

-----------------------------------------------------------------------------
\* Settings and updates.
LEMMA FieldsAre ==
    Fields = {"region", "preset", "frequency", "slot", "primary", "keys",
              "sources", "tx_enabled", "power", "long_name", "node_id",
              "interval", "delay", "mqtt_enabled", "broker", "auth_mode",
              "username", "api_key", "publish", "json", "tak_enabled", "host",
              "relay", "device_id", "device_name", "upstream", "token"}
  BY DEF Fields, Default

\* dict.update changes what it names and nothing else.
LEMMA UpdatedIs ==
    ASSUME NEW g, NEW u
    PROVE  /\ DOMAIN Updated(g, u) = DOMAIN g \cup DOMAIN u
           /\ \A f \in DOMAIN u : Updated(g, u)[f] = u[f]
           /\ \A f \in DOMAIN g \ DOMAIN u : Updated(g, u)[f] = g[f]
  BY DEF Updated

\* The same of a file or a memory, which says something of every setting.
LEMMA UpdatedAs ==
    ASSUME NEW g, NEW u, NEW h, h = Updated(g, u),
           DOMAIN g = Fields, DOMAIN u \subseteq Fields
    PROVE  /\ DOMAIN h = Fields
           /\ \A f \in DOMAIN u : h[f] = u[f]
           /\ \A f \in Fields \ DOMAIN u : h[f] = g[f]
  BY DEF Updated

-----------------------------------------------------------------------------
\* What the settings that decide frequencies and ids can hold, in the file ...
Devices == {"d0", "d1", "d2"}
KeySets == {"none", "one", "two", "bad"}
Spreading == {"LONG_FAST", "MEDIUM_FAST"}
StoredTypes(g) ==
    /\ DOMAIN g = Fields
    /\ g["region"] \in AllRegions \cup {"absent"}
    /\ g["preset"] \in Spreading \cup {"absent"}
    /\ g["frequency"] \in Frequencies
    /\ g["slot"] \in {"absent", "s20"}
    /\ g["device_id"] \in Devices \cup {"absent"}
    /\ g["keys"] \in KeySets \cup {"absent"}

\* ... and in what a request, a start or the wizard adds to it.
Allowed(u) ==
    /\ DOMAIN u \subseteq Fields \ {"slot"}
    /\ "region" \in DOMAIN u => u["region"] \in AllRegions
    /\ "preset" \in DOMAIN u => u["preset"] \in Spreading
    /\ "frequency" \in DOMAIN u => u["frequency"] \in Frequencies \ {"absent"}
    /\ "device_id" \in DOMAIN u => u["device_id"] \in Devices
    /\ "keys" \in DOMAIN u => u["keys"] \in KeySets
    /\ \A f \in DOMAIN u \cap {"interval", "delay"} : u[f] # "absent"

\* A file merged with an allowed update is a file.
LEMMA UpdatedTypes ==
    ASSUME NEW g, NEW u, StoredTypes(g), Allowed(u)
    PROVE  StoredTypes(Updated(g, u))
<1>1. /\ DOMAIN g = Fields /\ DOMAIN u \subseteq Fields
      /\ {"region", "preset", "frequency", "slot", "device_id", "keys"} \subseteq Fields
  BY FieldsAre DEF StoredTypes, Allowed
<1>2. /\ DOMAIN Updated(g, u) = Fields
      /\ \A f \in DOMAIN u : Updated(g, u)[f] = u[f]
      /\ \A f \in Fields \ DOMAIN u : Updated(g, u)[f] = g[f]
  BY <1>1, UpdatedIs
<1> QED  BY <1>1, <1>2 DEF StoredTypes, Allowed

\* A missing file, and the files a service can first start with.
LEMMA EmptyTypes == StoredTypes(EmptyFile)
  BY FieldsAre DEF StoredTypes, EmptyFile, Frequencies

\* The files a service can first start with, and what is in memory then.
LEMMA ProvisionedTypes == \A g \in InitialFiles : StoredTypes(g)
<1>1. DOMAIN EmptyFile = Fields /\ \A f \in Fields : EmptyFile[f] = "absent"
  BY DEF EmptyFile
<1>2. StoredTypes(Provisioned)
  BY <1>1, FieldsAre DEF Provisioned, StoredTypes, Frequencies, AllRegions,
                         Devices
<1>3. /\ StoredTypes([Provisioned EXCEPT !.tx_enabled = "on", !.publish = "legacy"])
      /\ StoredTypes([Provisioned EXCEPT !.tx_enabled = "on", !.slot = "s20",
                         !.node_id = "reserved", !.keys = "one"])
  BY <1>2, FieldsAre DEF StoredTypes, KeySets
<1> QED  BY <1>3, EmptyTypes DEF InitialFiles

\* Over the defaults every typed field is set.
LoadedTypes(m) ==
    /\ DOMAIN m = Fields
    /\ m["interval"] # "absent" /\ m["delay"] # "absent"
    /\ m["region"] \in AllRegions
    /\ m["preset"] \in Spreading
    /\ m["frequency"] \in Frequencies
    /\ m["slot"] \in {"absent", "s20"}
    /\ m["device_id"] \in Devices \cup {"absent"}
    /\ m["keys"] \in KeySets

\* load_config: the file over the defaults.
LEMMA LoadTypes ==
    ASSUME NEW g, StoredTypes(g)
    PROVE  /\ LoadedTypes(Load(g))
           /\ \A f \in Fields :
                  Load(g)[f] = IF g[f] = "absent" THEN Default[f] ELSE g[f]
           /\ Load(g)["node_id"] = g["node_id"]
           /\ Load(g)["device_id"] = g["device_id"]
           /\ Load(g)["frequency"] = g["frequency"]
           /\ Load(g)["slot"] = g["slot"]
<1>1. /\ DOMAIN Load(g) = Fields
      /\ \A f \in Fields :
             Load(g)[f] = IF g[f] = "absent" THEN Default[f] ELSE g[f]
  BY DEF Load
<1>2. /\ Default["region"] \in AllRegions /\ Default["preset"] \in Spreading
      /\ Default["frequency"] = "absent" /\ Default["slot"] = "absent"
      /\ Default["device_id"] = "absent" /\ Default["keys"] \in KeySets
      /\ Default["node_id"] = "absent"
      /\ Default["interval"] # "absent" /\ Default["delay"] # "absent"
  BY DEF Default, AllRegions, Spreading, KeySets
<1> QED  BY <1>1, <1>2, FieldsAre DEF LoadedTypes, StoredTypes, Frequencies

\* The defaults, and an allowed update of what is in memory.
LEMMA DefaultTypes == LoadedTypes(Default)
  BY FieldsAre DEF LoadedTypes, Default, AllRegions, Spreading, KeySets,
                   Frequencies, Fields

\* Memory with an allowed update is memory.
LEMMA UpdatedLoaded ==
    ASSUME NEW m, NEW u, LoadedTypes(m), Allowed(u)
    PROVE  LoadedTypes(Updated(m, u))
<1>1. /\ DOMAIN m = Fields /\ DOMAIN u \subseteq Fields
      /\ {"region", "preset", "frequency", "slot", "device_id", "keys",
          "interval", "delay"} \subseteq Fields
  BY FieldsAre DEF LoadedTypes, Allowed
<1>2. /\ DOMAIN Updated(m, u) = Fields
      /\ \A f \in DOMAIN u : Updated(m, u)[f] = u[f]
      /\ \A f \in Fields \ DOMAIN u : Updated(m, u)[f] = m[f]
  BY <1>1, UpdatedIs
<1> QED  BY <1>1, <1>2 DEF LoadedTypes, Allowed

-----------------------------------------------------------------------------
\* The settings the radio is configured from.
Radio == {"region", "preset", "frequency", "slot", "sources"}

\* The frequency the radio is tuned to; a stored one wins over slot and preset.
LEMMA FrequencyTypes ==
    ASSUME NEW m, LoadedTypes(m)
    PROVE  /\ Frequency(m) \in Int
           /\ m["frequency"] # "absent" => Frequency(m) = Hz[m["frequency"]]
<1>1. Hz[m["frequency"]] \in Int /\ (m["frequency"] # "absent" => Hz[m["frequency"]] # 0)
  BY DEF LoadedTypes, Frequencies, Hz
<1>2. Slot[m["slot"]] \in Int
  BY DEF LoadedTypes, Slot
<1>3. /\ Presets[m["preset"]].bw \in {250000}
      /\ BandHz[m["region"]][1] \in Int /\ DefaultHz[m["region"]] \in Int
  BY DEF LoadedTypes, Spreading, Presets, BandHz, DefaultHz, AllRegions
<1> QED  BY <1>1, <1>2, <1>3 DEF Frequency, ResolvedHz

\* Settings that agree on the radio give the same plan.
LEMMA SameRadio ==
    ASSUME NEW a, NEW b, \A f \in Radio : a[f] = b[f]
    PROVE  Frequency(a) = Frequency(b) /\ ReceivePlan(a) = ReceivePlan(b)
<1>1. /\ a["region"] = b["region"]
      /\ a["preset"] = b["preset"]
      /\ a["frequency"] = b["frequency"]
      /\ a["slot"] = b["slot"] /\ a["sources"] = b["sources"]
  BY DEF Radio
<1>2. Frequency(a) = Frequency(b)
  BY <1>1 DEF Frequency
<1> QED  BY <1>1, <1>2 DEF ReceivePlan

\* A file whose radio settings are those in memory, with the same frequency.
LEMMA SameFrequency ==
    ASSUME NEW a, NEW b, \A f \in Radio \ {"frequency", "slot"} : a[f] = b[f],
           Frequency(a) = Frequency(b)
    PROVE  ReceivePlan(a) = ReceivePlan(b)
<1>1. /\ a["region"] = b["region"]
      /\ a["preset"] = b["preset"]
      /\ a["sources"] = b["sources"]
  BY DEF Radio
<1> QED  BY <1>1 DEF ReceivePlan

\* Settings that agree on the ids give the same node id.
LEMMA SameNodeId ==
    ASSUME NEW a, NEW b, a["node_id"] = b["node_id"], a["device_id"] = b["device_id"]
    PROVE  NodeId(a) = NodeId(b)
  BY DEF NodeId

\* What a node id in use says of the settings it comes from.
LEMMA NodeIdIs ==
    ASSUME NEW g, g["device_id"] \in Devices \cup {"absent"}
    PROVE  /\ g["node_id"] \notin ReservedIds => NodeId(g) = g["node_id"]
           /\ (g["node_id"] \in ReservedIds /\ g["device_id"] # "absent") =>
                 NodeId(g) = DerivedId[g["device_id"]] /\ NodeId(g) \notin ReservedIds
           /\ (g["node_id"] \in ReservedIds /\ g["device_id"] = "absent") =>
                 NodeId(g) = "random"
<1>1. /\ DerivedId["d0"] \notin ReservedIds
      /\ DerivedId["d1"] \notin ReservedIds
      /\ DerivedId["d2"] \notin ReservedIds
  BY DEF DerivedId, ReservedIds
<1>2. \A d \in Devices : DerivedId[d] \notin ReservedIds
  BY <1>1 DEF Devices
<1> QED  BY <1>2 DEF NodeId

-----------------------------------------------------------------------------
\* What the five properties rest on.  The values: what is stored, and what
\* the wizard read, can be put in place of a default.
TypesInv ==
    /\ StoredTypes(file) /\ StoredTypes(copy) /\ LoadedTypes(mem)
    /\ DOMAIN saved = Fields
    /\ astray \subseteq Fields
    /\ apart \subseteq Fields
    /\ restartDue \in BOOLEAN
    /\ svc \in {"down", "up", "failed"} /\ wizard \in {"closed", "open"}
    /\ requests \in 0..MaxRequests /\ boots \in 0..MaxBoots
    /\ wizards \in 0..MaxWizards
    /\ wizard = "open" => wizards \in 1..MaxWizards
    /\ DOMAIN rt = DOMAIN Off /\ rt.crypto \subseteq {"club", "family"}
    /\ svc # "up" => rt = Off

\* What no route touches while the service runs: the radio is what the
\* memory says, and the memory what the file says until a restart is due.
Lasting == {"region", "preset", "sources", "slot", "device_id"}
RadioInv ==
    svc = "up" =>
        /\ rt.plan = ReceivePlan(mem) /\ rt.tx_hz = Frequency(mem)
        /\ ~restartDue => \A f \in Lasting : mem[f] = Load(file)[f]

\* The id peers know is the one the file gives.
IdInv == onAir \notin {"none", "random"} => NodeId(file) = onAir

\* RunningIsSaved with the records taken apart.
RunsAs(g) ==
    /\ rt.tx = Load(g)["tx_enabled"]
    /\ rt.node_id = IF Load(g)["tx_enabled"] = "on" THEN NodeId(Load(g)) ELSE "none"
    /\ rt.crypto = KeysIn[Load(g)["keys"]]
    /\ rt.broadcaster = "on" => rt.interval = Load(g)["interval"]
    /\ \/ rt.plan = ReceivePlan(Load(g)) /\ rt.tx_hz = Frequency(Load(g))
       \/ g["frequency"] = RegionFrequency[Load(g)["region"]]

\* The running service is what the file gives, unless a restart is due.
LEMMA RunsAsSaved ==
    /\ RunningIsSaved <=> (svc = "up" /\ ~restartDue => RunsAs(file))
    /\ RunningIsSaved' <=> (svc' = "up" /\ ~restartDue' => RunsAs(file)')
  BY DEF RunningIsSaved, RunsAs, Started

\* The inductive invariant.
ConfigInv == TypesInv /\ RadioInv /\ IdInv /\ MemoryIsSaved /\ RunningIsSaved

-----------------------------------------------------------------------------
\* What a route may store without asking for a restart.
Untold(u) ==
    /\ DOMAIN u \cap {"tx_enabled", "node_id"} = {}
    /\ "region" \in DOMAIN u => u["region"] = mem["region"]
    /\ "preset" \in DOMAIN u => u["preset"] = mem["preset"]
    /\ "frequency" \in DOMAIN u =>
          \/ Hz[u["frequency"]] = Frequency(mem)
          \/ "region" \in DOMAIN u /\ u["frequency"] = RegionFrequency[u["region"]]

\* A route stores u: memory gets it but for the radio's settings.
Stores(u, o, told) ==
    /\ svc = "up" /\ Asked /\ Save(u, o, told)
    /\ Allowed(u) /\ DOMAIN u \cap {"device_id", "sources"} = {}
    /\ \A f \in DOMAIN u : u[f] # "absent"
    /\ LoadedTypes(mem)'
    /\ \A f \in Radio \cup {"device_id"} : mem'[f] = mem[f]
    /\ \A f \in Fields \ (DOMAIN u \cup Radio) : mem'[f] = mem[f] \/ o = "lost"
    /\ \A f \in DOMAIN u \ Radio : mem'[f] = u[f]
    /\ DOMAIN rt' = DOMAIN rt /\ rt'.crypto \subseteq {"club", "family"}
    /\ rt'.plan = rt.plan /\ rt'.tx_hz = rt.tx_hz /\ rt'.tx = rt.tx
    /\ rt'.node_id = rt.node_id /\ rt'.broadcaster = rt.broadcaster
    /\ o = "saved" /\ ~told => Untold(u)
    /\ o # "saved" => rt' = rt
    /\ rt'.crypto = IF o = "saved" /\ "keys" \in DOMAIN u
                    THEN KeysIn[u["keys"]] ELSE rt.crypto
    /\ rt.broadcaster = "on" /\ o = "saved" /\ ~told =>
           rt'.interval = IF "interval" \in DOMAIN u
                          THEN u["interval"] ELSE rt.interval

\* A route that changes memory, writes the file and keeps the service running
\* as Stores says keeps the invariant, whatever becomes of the write.
LEMMA SaveKeeps ==
    ASSUME ConfigInv, NEW u, NEW o \in Outcomes, NEW told \in BOOLEAN,
           Stores(u, o, told)
    PROVE  ConfigInv'
<1> USE DEF Outcomes
<1>1. /\ svc' = "up" /\ wizard' = wizard /\ copy' = copy /\ wizards' = wizards
      /\ boots' = boots /\ requests' \in 0..MaxRequests
  <2>1. MaxRequests \in Nat
    BY ConfigurationAssumption
  <2> QED  BY <2>1 DEF ConfigInv, TypesInv, Asked, Save, Stores
<1>2. /\ StoredTypes(file) /\ DOMAIN file = Fields /\ DOMAIN u \subseteq Fields
      /\ DOMAIN saved = Fields /\ "device_id" \notin DOMAIN u
      /\ \A f \in DOMAIN u : u[f] # "absent"
  BY DEF ConfigInv, TypesInv, StoredTypes, Allowed, Stores
<1>3. /\ o = "saved" => /\ file' = Updated(file, u) /\ saved' = Updated(saved, u)
                        /\ apart' = apart \ DOMAIN u
                        /\ astray' = astray \ DOMAIN u
                        /\ restartDue' = (restartDue \/ told)
                        /\ onAir' = IF "node_id" \in DOMAIN u THEN "none" ELSE onAir
      /\ o = "denied" => /\ file' = file /\ saved' = saved /\ apart' = apart \cup DOMAIN u
                         /\ astray' = astray
                         /\ restartDue' = restartDue
                         /\ onAir' = onAir
      /\ o = "lost" => /\ file' = EmptyFile /\ saved' = saved /\ apart' = Fields
                       /\ astray' = Fields
                       /\ restartDue' = TRUE
                       /\ onAir' = "none"
  BY DEF Save, Written, Merged, ConfigInv, TypesInv, Stores
<1>11. o = "saved" => /\ DOMAIN saved' = Fields
                      /\ \A f \in DOMAIN u : file'[f] = u[f]
                      /\ \A f \in Fields \ DOMAIN u : file'[f] = file[f]
  <2> DEFINE a == Updated(file, u)
             b == Updated(saved, u)
  <2>1. DOMAIN b = DOMAIN saved \cup DOMAIN u
    BY UpdatedIs
  <2>2. /\ \A f \in DOMAIN u : a[f] = u[f]
        /\ \A f \in DOMAIN file \ DOMAIN u : a[f] = file[f]
    BY UpdatedIs
  <2>3. o = "saved" => file' = a /\ saved' = b
    BY <1>3
  <2> HIDE DEF a, b
  <2> QED  BY <1>2, <2>1, <2>2, <2>3
<1>4. StoredTypes(file')
  BY <1>2, <1>3, UpdatedTypes, EmptyTypes DEF Stores
<1>5. TypesInv'
  <2>1. DOMAIN saved' = Fields
    BY <1>2, <1>3, <1>11
  <2>2. astray' \subseteq Fields /\ apart' \subseteq Fields /\ restartDue' \in BOOLEAN
    BY <1>2, <1>3 DEF ConfigInv, TypesInv
  <2> QED  BY <1>1, <1>4, <2>1, <2>2 DEF ConfigInv, TypesInv, Stores
\* The file after the write, for each setting.
<1>6. /\ o = "saved" => /\ \A f \in DOMAIN u : file'[f] = u[f] /\ Load(file')[f] = u[f]
                        /\ \A f \in Fields \ DOMAIN u :
                              file'[f] = file[f] /\ Load(file')[f] = Load(file)[f]
      /\ o = "denied" => file' = file
  <2>2. /\ \A f \in Fields :
               Load(file')[f] = IF file'[f] = "absent" THEN Default[f] ELSE file'[f]
        /\ \A f \in Fields :
               Load(file)[f] = IF file[f] = "absent" THEN Default[f] ELSE file[f]
    BY <1>2, <1>4, LoadTypes
  <2> QED  BY <1>2, <1>3, <1>11, <2>2
<1>7. RadioInv'
  <2>1. ReceivePlan(mem') = ReceivePlan(mem) /\ Frequency(mem') = Frequency(mem)
    BY SameRadio DEF Stores
  <2>2. ASSUME ~restartDue', NEW f \in Lasting PROVE mem'[f] = Load(file')[f]
    <3>1. ~restartDue /\ o # "lost" /\ (o = "saved" => ~told)
      BY <1>3, <2>2 DEF ConfigInv, TypesInv
    <3>2. mem[f] = Load(file)[f] /\ mem'[f] = mem[f]
      BY <3>1 DEF ConfigInv, RadioInv, Lasting, Radio, Stores
    <3>3. o = "saved" /\ f \in DOMAIN u => u[f] = mem[f]
      BY <3>1 DEF Lasting, Untold, Allowed, Stores
    <3>4. f \in Fields
      BY FieldsAre DEF Lasting
    <3> QED  BY <1>6, <3>1, <3>2, <3>3, <3>4
  <2> QED  BY <1>1, <2>1, <2>2 DEF ConfigInv, RadioInv, Stores
<1>8. IdInv'
  <2>1. CASE o = "saved" /\ "node_id" \notin DOMAIN u
    <3>1. file'["node_id"] = file["node_id"] /\ file'["device_id"] = file["device_id"]
      BY <1>2, <1>6, <2>1, FieldsAre
    <3>2. NodeId(file') = NodeId(file) /\ onAir' = onAir
      BY <1>3, <2>1, <3>1, SameNodeId
    <3> QED  BY <3>2 DEF ConfigInv, IdInv
  <2>2. CASE o = "denied"
    BY <1>3, <2>2 DEF ConfigInv, IdInv
  <2> QED  BY <1>3, <2>1, <2>2 DEF IdInv
<1>9. MemoryIsSaved'
  <2> SUFFICES ASSUME NEW f \in Fields \ (apart' \cup {"region", "preset", "frequency"})
               PROVE  mem'[f] = Load(file')[f]
    BY DEF MemoryIsSaved
  <2>1. CASE f \in {"slot", "sources"}
    <3>1. f \notin DOMAIN u /\ mem'[f] = mem[f]
      BY <2>1 DEF Allowed, Radio, Stores
    <3>2. f \notin apart => mem[f] = Load(file)[f]
      BY <2>1 DEF ConfigInv, MemoryIsSaved, Stores
    <3> QED  BY <1>2, <1>3, <1>6, <3>1, <3>2
  <2>2. CASE f \in DOMAIN u /\ f \notin {"slot", "sources"}
    BY <1>2, <1>3, <1>6, <2>2 DEF Radio, Stores
  <2>3. CASE f \notin DOMAIN u /\ f \notin {"slot", "sources"}
    <3>1. f \notin apart => mem[f] = Load(file)[f]
      BY <2>3 DEF ConfigInv, MemoryIsSaved, Stores
    <3>2. f \notin Radio
      BY <2>3 DEF Radio
    <3> QED  BY <1>2, <1>3, <1>6, <2>3, <3>1, <3>2 DEF Stores
  <2> QED  BY <2>1, <2>2, <2>3
<1>10. RunningIsSaved'
  <2> SUFFICES ASSUME ~restartDue' PROVE RunsAs(file)'
    BY RunsAsSaved DEF Stores
  <2>1. ~restartDue /\ o # "lost" /\ (o = "saved" => ~told)
    BY <1>3 DEF ConfigInv, TypesInv
  <2>2. RunsAs(file) /\ RadioInv
    BY <2>1, RunsAsSaved DEF ConfigInv, Stores
  <2>3. CASE o = "denied"
    <3>1. file' = file /\ rt' = rt
      BY <1>3, <2>3 DEF Stores
    <3> QED  BY <2>2, <3>1 DEF RunsAs
  <2>4. CASE o = "saved"
    <3> DEFINE l == Load(file)
               n == Load(file')
    <3>1. /\ \A f \in DOMAIN u : n[f] = u[f] /\ file'[f] = u[f]
          /\ \A f \in Fields \ DOMAIN u : n[f] = l[f] /\ file'[f] = file[f]
      BY <1>6, <2>4
    <3>2. Untold(u)
      BY <2>1, <2>4 DEF Stores
    <3>3. /\ LoadedTypes(l)
          /\ LoadedTypes(n)
          /\ n["frequency"] = file'["frequency"]
      BY <1>2, <1>4, LoadTypes
    <3> HIDE DEF l, n
    <3>4. n["tx_enabled"] = l["tx_enabled"] /\ NodeId(n) = NodeId(l)
      <4>1. /\ n["node_id"] = l["node_id"] /\ n["device_id"] = l["device_id"]
            /\ n["tx_enabled"] = l["tx_enabled"]
        BY <1>2, <3>1, <3>2, FieldsAre DEF Untold
      <4> QED  BY <4>1, SameNodeId
    <3>5. rt'.crypto = KeysIn[n["keys"]]
      <4>1. rt.crypto = KeysIn[l["keys"]]
        BY <2>2 DEF RunsAs, l
      <4> QED  BY <2>4, <3>1, <4>1, FieldsAre DEF Stores
    <3>6. rt'.broadcaster = "on" => rt'.interval = n["interval"]
      <4>1. rt.broadcaster = "on" => rt.interval = l["interval"]
        BY <2>2 DEF RunsAs, l
      <4> QED  BY <2>1, <2>4, <3>1, <4>1, FieldsAre DEF Stores
    <3>7. \/ rt'.plan = ReceivePlan(n) /\ rt'.tx_hz = Frequency(n)
          \/ file'["frequency"] = RegionFrequency[n["region"]]
      <4>1. /\ \A f \in Lasting : mem[f] = l[f]
            /\ rt.plan = ReceivePlan(mem) /\ rt.tx_hz = Frequency(mem)
        BY <2>1, <2>2 DEF RadioInv, l, Stores
      <4>2. \A f \in Lasting : n[f] = l[f]
        <5> SUFFICES ASSUME NEW f \in Lasting PROVE n[f] = l[f]
          OBVIOUS
        <5>1. f \in DOMAIN u => u[f] = mem[f]
          BY <3>2 DEF Lasting, Untold, Allowed, Stores
        <5> QED  BY <3>1, <4>1, <5>1, FieldsAre DEF Lasting
      <4>3. CASE "frequency" \notin DOMAIN u
        <5>1. n["frequency"] = l["frequency"] /\ file'["frequency"] = file["frequency"]
          BY <3>1, <4>3, FieldsAre
        <5>2. \A f \in Radio : n[f] = l[f]
          BY <4>2, <5>1 DEF Radio, Lasting
        <5>3. Frequency(n) = Frequency(l) /\ ReceivePlan(n) = ReceivePlan(l)
          BY <5>2, SameRadio
        <5>4. \/ rt.plan = ReceivePlan(l) /\ rt.tx_hz = Frequency(l)
              \/ file["frequency"] = RegionFrequency[l["region"]]
          BY <2>2 DEF RunsAs, l
        <5>5. n["region"] = l["region"]
          BY <5>2 DEF Radio
        <5> QED  BY <5>1, <5>3, <5>4, <5>5 DEF Stores
      <4>4. CASE "frequency" \in DOMAIN u /\ Hz[u["frequency"]] = Frequency(mem)
        <5>1. Frequency(n) = Frequency(mem)
          BY <1>2, <3>1, <3>3, <4>4, FrequencyTypes
        <5>2. \A f \in Radio \ {"frequency", "slot"} : n[f] = mem[f]
          BY <4>1, <4>2 DEF Radio, Lasting
        <5>3. ReceivePlan(n) = ReceivePlan(mem)
          BY <5>1, <5>2, SameFrequency
        <5> QED  BY <4>1, <5>1, <5>3 DEF Stores
      <4>5. CASE "region" \in DOMAIN u /\ "frequency" \in DOMAIN u
                 /\ u["frequency"] = RegionFrequency[u["region"]]
        BY <3>1, <4>5
      <4> QED  BY <3>2, <4>3, <4>4, <4>5 DEF Untold
    <3>8. /\ rt.tx = l["tx_enabled"]
          /\ rt.node_id = IF l["tx_enabled"] = "on" THEN NodeId(l) ELSE "none"
      BY <2>2 DEF RunsAs, l
    <3> QED  BY <3>4, <3>5, <3>6, <3>7, <3>8 DEF RunsAs, n, Stores
  <2> QED  BY <2>1, <2>3, <2>4
<1> QED  BY <1>5, <1>7, <1>8, <1>9, <1>10 DEF ConfigInv

-----------------------------------------------------------------------------
\* The settings of the sections, none of which decides a frequency.
Editable(sec) == {Order[sec][i] : i \in DOMAIN Order[sec]}
Sections == {"transmit", "identity", "nodeinfo", "mqtt", "tak"}
Ordinary == {"tx_enabled", "power", "long_name", "node_id", "interval", "delay",
             "mqtt_enabled", "broker", "auth_mode", "username", "api_key",
             "publish", "json", "tak_enabled", "host"}

\* Order lists the settings of each section.
LEMMA EditableAre ==
    /\ Editable("transmit") = {"tx_enabled", "power"}
    /\ Editable("identity") = {"long_name", "node_id"}
    /\ Editable("nodeinfo") = {"interval", "delay"}
    /\ Editable("mqtt") = {"mqtt_enabled", "broker", "auth_mode", "username",
                           "api_key", "publish", "json"}
    /\ Editable("tak") = {"tak_enabled", "host"}
<1>1. ASSUME NEW a, NEW b PROVE {<<a, b>>[i] : i \in DOMAIN <<a, b>>} = {a, b}
  OBVIOUS
<1>2. ASSUME NEW a, NEW b, NEW c, NEW d, NEW e, NEW f, NEW g
      PROVE  {<<a, b, c, d, e, f, g>>[i] : i \in DOMAIN <<a, b, c, d, e, f, g>>}
             = {a, b, c, d, e, f, g}
  OBVIOUS
<1> QED  BY <1>1, <1>2 DEF Editable, Order

\* No choice a client has means "absent".
LEMMA ChoicesSet == \A f \in DOMAIN Choices : "absent" \notin Choices[f]
<1>1. DOMAIN Choices = {"tx_enabled", "power", "long_name", "node_id",
                        "interval", "delay", "broker", "auth_mode", "username",
                        "api_key", "json", "tak_enabled", "host"}
  BY DEF Choices
<1>2. /\ "absent" \notin Choices["tx_enabled"]
      /\ "absent" \notin Choices["power"]
      /\ "absent" \notin Choices["long_name"]
      /\ "absent" \notin Choices["node_id"]
      /\ "absent" \notin Choices["interval"]
      /\ "absent" \notin Choices["delay"]
      /\ "absent" \notin Choices["broker"]
      /\ "absent" \notin Choices["auth_mode"]
      /\ "absent" \notin Choices["username"]
      /\ "absent" \notin Choices["api_key"]
      /\ "absent" \notin Choices["json"]
      /\ "absent" \notin Choices["tak_enabled"]
      /\ "absent" \notin Choices["host"]
  BY DEF Choices
<1> QED
  BY <1>1, <1>2

\* What a request of a section is.
Asks(sec, r) == /\ DOMAIN r \subseteq Editable(sec) /\ DOMAIN r # {}
                /\ \A f \in DOMAIN r : r[f] # "absent"

\* A request names some settings of its section.
LEMMA RequestsAsk ==
    ASSUME NEW sec, NEW r \in Requests(sec)
    PROVE  Asks(sec, r)
<1> DEFINE fields == Editable(sec) \cap DOMAIN Choices
           filled(given) == {q \in [given -> UNION {Choices[f] : f \in given}] :
                               \A f \in given : q[f] \in Choices[f]}
<1>1. PICK given \in {g \in SUBSET fields : Cardinality(g) \in 1..2} : r \in filled(given)
  BY Zenon DEF Requests, Editable
<1>2. DOMAIN r = given /\ \A f \in given : r[f] \in Choices[f]
  BY <1>1, Zenon
<1>3. given \subseteq fields /\ given # {}
  BY <1>1, FS_EmptySet
<1> QED  BY <1>2, <1>3, ChoicesSet DEF Asks

\* What a route has assigned when it answers: all that was asked for, if
\* every value passed its check.
LEMMA AssignedIs ==
    ASSUME NEW sec, NEW r, Asks(sec, r), NEW a, a = Assigned(sec, r)
    PROVE  /\ DOMAIN a \subseteq DOMAIN r \cup (IF sec = "mqtt" THEN {"publish"} ELSE {})
           /\ \A f \in DOMAIN a : a[f] # "absent"
           /\ (\A f \in DOMAIN r : Passes(r, f)) =>
                 \A f \in DOMAIN r \ {"host"} : f \in DOMAIN a /\ a[f] = r[f]
<1> DEFINE order == Order[sec]
           stop == {i \in DOMAIN order :
                       order[i] \in DOMAIN r /\ ~Passes(r, order[i])}
           kept == {order[i] : i \in {j \in DOMAIN order : \A k \in stop : j < k}}
           taken == [f \in DOMAIN r \cap kept |->
                        IF r[f] = "bad" THEN "" ELSE r[f]]
           legacy == sec = "mqtt" /\ stop = {} /\ "publish" \notin DOMAIN r
                     /\ mem.publish = "legacy"
           more == [publish |-> "all"]
<1>1. a = IF legacy THEN Updated(taken, more) ELSE taken
  BY DEF Assigned
<1>2. /\ DOMAIN taken \subseteq DOMAIN r
      /\ \A f \in DOMAIN taken : taken[f] # "absent"
      /\ \A f \in DOMAIN taken : taken[f] = IF r[f] = "bad" THEN "" ELSE r[f]
  BY DEF Asks
<1>3. ASSUME \A f \in DOMAIN r : Passes(r, f), NEW f \in DOMAIN r \ {"host"}
      PROVE  f \in DOMAIN taken /\ taken[f] = r[f]
  <2>1. r[f] # "bad"
    BY <1>3 DEF Passes
  <2>2. stop = {}
    BY <1>3
  <2>3. f \in kept
    BY <2>2, <1>3 DEF Asks, Editable
  <2> QED  BY <2>1, <2>3
<1>4. legacy => sec = "mqtt" /\ "publish" \notin DOMAIN r
  OBVIOUS
<1>5. DOMAIN more = {"publish"} /\ more["publish"] = "all"
  OBVIOUS
<1>6. /\ DOMAIN Updated(taken, more) = DOMAIN taken \cup DOMAIN more
      /\ \A f \in DOMAIN more : Updated(taken, more)[f] = more[f]
      /\ \A f \in DOMAIN taken \ DOMAIN more : Updated(taken, more)[f] = taken[f]
  BY UpdatedIs
<1> HIDE DEF taken, legacy, more
<1> QED  BY <1>1, <1>2, <1>3, <1>4, <1>5, <1>6

\* The settings a section assigns and stores.
Of(sec, u) == DOMAIN u \subseteq Editable(sec) /\ \A f \in DOMAIN u : u[f] # "absent"

\* No section decides a frequency, a device id or a key.
LEMMA OrdinaryFields ==
    ASSUME NEW sec \in Sections, NEW u, Of(sec, u)
    PROVE  /\ Allowed(u)
           /\ DOMAIN u \cap (Radio \cup {"device_id", "keys"}) = {}
           /\ "tx_enabled" \in DOMAIN u => sec = "transmit"
           /\ "node_id" \in DOMAIN u => sec = "identity"
           /\ "interval" \in DOMAIN u => sec = "nodeinfo"
<1>1. /\ DOMAIN u \subseteq Ordinary
      /\ "tx_enabled" \in DOMAIN u => sec = "transmit"
      /\ "node_id" \in DOMAIN u => sec = "identity"
      /\ "interval" \in DOMAIN u => sec = "nodeinfo"
  BY EditableAre DEF Of, Sections, Ordinary
<1>2. Ordinary \subseteq Fields \ (Radio \cup {"device_id", "keys"})
  BY FieldsAre DEF Ordinary, Radio
<1>3. /\ DOMAIN u \subseteq Fields \ {"slot"} /\ "region" \notin DOMAIN u
      /\ "preset" \notin DOMAIN u /\ "frequency" \notin DOMAIN u
      /\ "device_id" \notin DOMAIN u /\ "keys" \notin DOMAIN u
      /\ \A f \in DOMAIN u : u[f] # "absent"
  BY <1>1, <1>2 DEF Radio, Of
<1>4. Allowed(u)
  BY <1>3 DEF Allowed
<1> QED  BY <1>1, <1>2, <1>4

\* What a route of one section puts into memory.
LEMMA UpdatesAre ==
    ASSUME NEW sec \in Sections, NEW r, Asks(sec, r)
    PROVE  /\ Of(sec, Assigned(sec, r)) /\ Of(sec, Updates(sec, r))
           /\ sec # "mqtt" => /\ Updates(sec, r) = Assigned(sec, r)
                              /\ DOMAIN Assigned(sec, r) \subseteq DOMAIN r
           /\ (\A f \in DOMAIN r : Passes(r, f)) /\ "interval" \in DOMAIN r =>
                 /\ "interval" \in DOMAIN Assigned(sec, r)
                 /\ Assigned(sec, r)["interval"] = r["interval"]
<1> DEFINE a == Assigned(sec, r)
           more == [json |-> "on"]
<1>1. /\ DOMAIN a \subseteq DOMAIN r \cup (IF sec = "mqtt" THEN {"publish"} ELSE {})
      /\ \A f \in DOMAIN a : a[f] # "absent"
      /\ (\A f \in DOMAIN r : Passes(r, f)) =>
            \A f \in DOMAIN r \ {"host"} : f \in DOMAIN a /\ a[f] = r[f]
  BY AssignedIs
<1>2. Updates(sec, r) = a \/ (sec = "mqtt" /\ Updates(sec, r) = Updated(a, more))
  BY DEF Updates
<1>3. DOMAIN more = {"json"} /\ more["json"] = "on"
  OBVIOUS
<1>4. /\ DOMAIN Updated(a, more) = DOMAIN a \cup DOMAIN more
      /\ \A f \in DOMAIN more : Updated(a, more)[f] = more[f]
      /\ \A f \in DOMAIN a \ DOMAIN more : Updated(a, more)[f] = a[f]
  BY UpdatedIs
<1> HIDE DEF a, more
<1>5. Of(sec, a)
  BY <1>1, EditableAre DEF Of, Asks
<1>6. sec = "mqtt" => Of(sec, Updated(a, more))
  BY <1>3, <1>4, <1>5, EditableAre DEF Of
<1>7. Of(sec, Updates(sec, r))
  BY <1>2, <1>5, <1>6
<1> QED  BY <1>1, <1>2, <1>5, <1>7 DEF a

\* What is stored is what memory gets.
LEMMA ValuesAre ==
    ASSUME NEW sec \in Sections, NEW r, Asks(sec, r), LoadedTypes(mem)
    PROVE  /\ Of(sec, Values(sec, r))
           /\ DOMAIN Updates(sec, r) \subseteq DOMAIN Values(sec, r)
           /\ \A f \in DOMAIN Values(sec, r) :
                 Updated(mem, Updates(sec, r))[f] = Values(sec, r)[f]
           /\ sec # "nodeinfo" => Values(sec, r) = Updates(sec, r)
           /\ sec = "nodeinfo" => DOMAIN Values(sec, r) = {"interval", "delay"}
<1> DEFINE u == Updates(sec, r)
           m == Updated(mem, u)
           v == Values(sec, r)
<1>1. Of(sec, u)
  BY UpdatesAre
<1>2. v = IF sec = "nodeinfo" THEN [f \in {"interval", "delay"} |-> m[f]] ELSE u
  BY DEF Values
<1>3. /\ DOMAIN m = DOMAIN mem \cup DOMAIN u
      /\ \A f \in DOMAIN u : m[f] = u[f]
      /\ \A f \in DOMAIN mem \ DOMAIN u : m[f] = mem[f]
  BY UpdatedIs
<1>4. LoadedTypes(m)
  BY <1>1, OrdinaryFields, UpdatedLoaded
<1>5. m["interval"] # "absent" /\ m["delay"] # "absent"
  BY <1>4 DEF LoadedTypes
<1> HIDE DEF u, m, v
<1>6. CASE sec = "nodeinfo"
  <2>1. /\ v = [f \in {"interval", "delay"} |-> m[f]]
        /\ DOMAIN u \subseteq {"interval", "delay"}
    BY <1>1, <1>2, <1>6, EditableAre DEF Of
  <2> QED  BY <1>5, <1>6, <2>1, EditableAre DEF Of, u, m, v
<1>7. CASE sec # "nodeinfo"
  BY <1>1, <1>2, <1>3, <1>7 DEF u, m, v
<1> QED  BY <1>6, <1>7

-----------------------------------------------------------------------------
\* A request that fails leaves in memory what it had assigned.
LEMMA RefusedKeeps ==
    ASSUME ConfigInv, NEW a, svc = "up", Asked, Refused(a), Allowed(a),
           DOMAIN a \cap (Radio \cup {"device_id"}) = {}
    PROVE  ConfigInv'
<1>1. /\ UNCHANGED <<file, svc, rt, saved, astray, restartDue, onAir, wizard,
                     copy, wizards, boots>>
      /\ requests' \in 0..MaxRequests /\ apart' = apart \cup DOMAIN a
      /\ mem' = Updated(mem, a)
  <2>1. MaxRequests \in Nat
    BY ConfigurationAssumption
  <2> QED  BY <2>1 DEF ConfigInv, TypesInv, Asked, Refused
<1>2. LoadedTypes(mem') /\ DOMAIN a \subseteq Fields
  BY <1>1, UpdatedLoaded DEF ConfigInv, TypesInv, Allowed
<1>3. TypesInv'
  BY <1>1, <1>2 DEF ConfigInv, TypesInv
<1>4. \A f \in Fields \ DOMAIN a : mem'[f] = mem[f]
  <2>1. DOMAIN mem = Fields
    BY DEF ConfigInv, TypesInv, LoadedTypes
  <2> QED  BY <1>1, <2>1, UpdatedIs
<1>5. Radio \cup Lasting \subseteq Fields
  BY FieldsAre DEF Radio, Lasting
<1>6. RadioInv'
  <2>1. \A f \in Radio \cup Lasting : mem'[f] = mem[f]
    BY <1>4, <1>5 DEF Radio, Lasting
  <2>2. ReceivePlan(mem') = ReceivePlan(mem) /\ Frequency(mem') = Frequency(mem)
    BY <2>1, SameRadio
  <2> QED  BY <1>1, <2>1, <2>2 DEF ConfigInv, RadioInv
<1>7. IdInv'
  BY <1>1 DEF ConfigInv, IdInv
<1>8. MemoryIsSaved'
  BY <1>1, <1>4 DEF ConfigInv, MemoryIsSaved
<1>9. RunningIsSaved'
  BY <1>1 DEF ConfigInv, RunningIsSaved
<1> QED  BY <1>3, <1>6, <1>7, <1>8, <1>9 DEF ConfigInv

\* The five routes of one section each, refused or not.
LEMMA PutKeeps ==
    ASSUME ConfigInv, NEW sec \in Sections, NEW r \in Requests(sec), Put(sec, r)
    PROVE  ConfigInv'
<1>1. Asks(sec, r)
  BY RequestsAsk
<1>2. CASE PutRefused(sec, r)
  <2> DEFINE a == Assigned(sec, r)
  <2>1. svc = "up" /\ Asked /\ Refused(a)
    BY <1>2 DEF PutRefused, Asked
  <2>2. Of(sec, a)
    BY <1>1, UpdatesAre
  <2> HIDE DEF a
  <2>3. Allowed(a) /\ DOMAIN a \cap (Radio \cup {"device_id"}) = {}
    BY <2>2, OrdinaryFields
  <2> QED  BY <2>1, <2>3, RefusedKeeps
<1>3. ASSUME NEW o \in Outcomes, PutSection(sec, r, o) PROVE ConfigInv'
  <2> DEFINE u == Updates(sec, r)
             v == Values(sec, r)
             told == Told(sec, r)
  <2>1. /\ svc = "up" /\ Asked /\ Save(v, o, told)
        /\ mem' = Updated(mem, u)
        /\ rt' = IF o = "saved" /\ "interval" \in DOMAIN r /\ rt.broadcaster = "on"
                 THEN [rt EXCEPT !.interval = r["interval"]] ELSE rt
    BY <1>3 DEF PutSection, Asked
  <2>2. /\ LoadedTypes(mem)
        /\ DOMAIN rt = DOMAIN Off /\ rt.crypto \subseteq {"club", "family"}
    BY DEF ConfigInv, TypesInv
  <2>3. /\ Of(sec, u) /\ Of(sec, v) /\ DOMAIN u \subseteq DOMAIN v
        /\ \A f \in DOMAIN v : Updated(mem, u)[f] = v[f]
    BY <1>1, <2>2, UpdatesAre, ValuesAre
  <2>4. /\ Allowed(v) /\ DOMAIN v \cap (Radio \cup {"device_id", "keys"}) = {}
        /\ "tx_enabled" \in DOMAIN v => sec = "transmit"
        /\ "node_id" \in DOMAIN v => sec = "identity"
        /\ "interval" \in DOMAIN v => sec = "nodeinfo"
        /\ Allowed(u)
    BY <2>3, OrdinaryFields
  <2>5. /\ DOMAIN Updated(mem, u) = DOMAIN mem \cup DOMAIN u
        /\ \A f \in DOMAIN u : Updated(mem, u)[f] = u[f]
        /\ \A f \in DOMAIN mem \ DOMAIN u : Updated(mem, u)[f] = mem[f]
    <3> HIDE DEF u
    <3> QED  BY UpdatedIs
  <2>6. told \in BOOLEAN
    BY DEF Told
  <2>7. ~told => /\ DOMAIN v \cap {"tx_enabled", "node_id"} = {}
                 /\ rt.broadcaster = "on" /\ o = "saved" =>
                       rt'.interval = IF "interval" \in DOMAIN v
                                      THEN v["interval"] ELSE rt.interval
    <3> SUFFICES ASSUME ~told
                 PROVE  /\ DOMAIN v \cap {"tx_enabled", "node_id"} = {}
                        /\ rt.broadcaster = "on" /\ o = "saved" =>
                              rt'.interval = IF "interval" \in DOMAIN v
                                             THEN v["interval"] ELSE rt.interval
      OBVIOUS
    <3>1. DOMAIN r \cap {"tx_enabled", "node_id", "delay"} = {}
      BY DEF Told
    <3>2. /\ sec # "nodeinfo" => v = u
          /\ sec = "nodeinfo" => DOMAIN v = {"interval", "delay"}
          /\ sec # "mqtt" => /\ u = Assigned(sec, r)
                             /\ DOMAIN Assigned(sec, r) \subseteq DOMAIN r
      BY <1>1, <2>2, ValuesAre, UpdatesAre
    <3>3. (\A f \in DOMAIN r : Passes(r, f))
      BY <1>3 DEF PutSection, Accepts
    <3>4. "interval" \in DOMAIN r => /\ "interval" \in DOMAIN Assigned(sec, r)
                                     /\ Assigned(sec, r)["interval"] = r["interval"]
      BY <1>1, <3>3, UpdatesAre
    <3>5. "interval" \in DOMAIN u => Updated(mem, u)["interval"] = u["interval"]
      BY <2>5
    <3>6. /\ DOMAIN r \subseteq Editable(sec) /\ DOMAIN r # {}
      BY <1>1 DEF Asks
    <3>7. "interval" \in DOMAIN rt
      BY <2>2 DEF Off
    <3> HIDE DEF u, v, told
    <3>8. DOMAIN v \cap {"tx_enabled", "node_id"} = {}
      BY <2>4, <3>1, <3>2
    <3>9. CASE sec = "nodeinfo"
      <4>1. "interval" \in DOMAIN r
        BY <3>1, <3>6, <3>9, EditableAre
      <4>2. v["interval"] = r["interval"] /\ "interval" \in DOMAIN v
        BY <2>3, <3>2, <3>4, <3>5, <3>9, <4>1
      <4> QED  BY <2>1, <3>7, <3>8, <4>1, <4>2
    <3>10. CASE sec # "nodeinfo"
      <4>1. "interval" \notin DOMAIN r
        BY <3>6, <3>10, EditableAre DEF Sections
      <4> QED  BY <2>1, <2>4, <3>8, <3>10, <4>1
    <3> QED  BY <3>9, <3>10
  <2>8. LoadedTypes(mem)'
    BY <2>1, <2>2, <2>4, UpdatedLoaded
  <2>9. \A f \in Fields \ DOMAIN v : mem'[f] = mem[f]
    <3>1. DOMAIN mem = Fields
      BY <2>2 DEF LoadedTypes
    <3> QED  BY <2>1, <2>3, <2>5, <3>1
  <2>10. DOMAIN rt' = DOMAIN rt /\ rt'.crypto = rt.crypto
        /\ rt'.plan = rt.plan /\ rt'.tx_hz = rt.tx_hz /\ rt'.tx = rt.tx
        /\ rt'.node_id = rt.node_id /\ rt'.broadcaster = rt.broadcaster
        /\ (o # "saved" => rt' = rt)
    BY <2>1, <2>2 DEF Off
  <2> HIDE DEF u, v, told
  <2>11. Radio \cup {"device_id"} \subseteq Fields
    BY FieldsAre DEF Radio
  <2>12. Stores(v, o, told)
    BY <2>1, <2>2, <2>3, <2>4, <2>7, <2>8, <2>9, <2>10, <2>11 DEF Stores, Of,
                                                                 Untold, Radio
  <2> QED  BY <2>6, <2>12, SaveKeeps
<1> QED  BY <1>2, <1>3 DEF Put

\* What the radio tab may ask for.
RadioAsks(r) ==
    /\ DOMAIN r \subseteq {"region", "preset", "frequency"}
    /\ "region" \in DOMAIN r => r["region"] \in AllRegions
    /\ "preset" \in DOMAIN r => r["preset"] = "MEDIUM_FAST"
    /\ "frequency" \in DOMAIN r => r["frequency"] = "917.0"

\* The route of the radio settings: a change of region brings its frequency.
LEMMA RadioRequestsAsk ==
    ASSUME NEW r \in RadioRequests, ~("region" \in DOMAIN r /\ r["region"] = "bad")
    PROVE  RadioAsks(r)
<1>1. Regions \subseteq AllRegions
  BY ConfigurationAssumption
<1>2. CASE r \in {[region |-> x] : x \in Regions \cup {"bad"}}
  BY <1>1, <1>2 DEF RadioAsks
<1>3. CASE r \in {[preset |-> "MEDIUM_FAST"], [frequency |-> "917.0"]}
  BY <1>3 DEF RadioAsks
<1>4. CASE r \in {[region |-> x, preset |-> "MEDIUM_FAST"] : x \in Regions}
  BY <1>1, <1>4 DEF RadioAsks
<1>5. CASE r \in {[region |-> x, frequency |-> "917.0"] : x \in Regions}
  BY <1>1, <1>5 DEF RadioAsks
<1> QED  BY <1>2, <1>3, <1>4, <1>5 DEF RadioRequests

\* Every region has a frequency of its own.
LEMMA RegionFrequencies ==
    \A x \in AllRegions : RegionFrequency[x] \in Frequencies \ {"absent"}
<1>1. /\ RegionFrequency["US"] \in Frequencies \ {"absent"}
      /\ RegionFrequency["EU_868"] \in Frequencies \ {"absent"}
      /\ RegionFrequency["ANZ"] \in Frequencies \ {"absent"}
      /\ RegionFrequency["IND"] \in Frequencies \ {"absent"}
      /\ RegionFrequency["KR"] \in Frequencies \ {"absent"}
      /\ RegionFrequency["SG_923"] \in Frequencies \ {"absent"}
  BY DEF RegionFrequency, Frequencies
<1> QED  BY <1>1 DEF AllRegions

\* A change that asks for no restart leaves the radio as it is.
LEMMA RadioUpdatesAre ==
    ASSUME NEW r, RadioAsks(r), NEW u, u = RadioUpdates(r)
    PROVE  /\ DOMAIN u \subseteq {"region", "preset", "frequency"}
           /\ Allowed(u) /\ \A f \in DOMAIN u : u[f] # "absent"
           /\ ~RadioTold(r) => Untold(u)
<1> DEFINE more == [frequency |-> RegionFrequency[r["region"]]]
           added == "region" \in DOMAIN r /\ "frequency" \notin DOMAIN r
<1>1. u = IF added THEN Updated(r, more) ELSE r
  BY DEF RadioUpdates
<1>2. DOMAIN more = {"frequency"} /\ more["frequency"] = RegionFrequency[r["region"]]
  OBVIOUS
<1>3. /\ DOMAIN Updated(r, more) = DOMAIN r \cup DOMAIN more
      /\ \A f \in DOMAIN more : Updated(r, more)[f] = more[f]
      /\ \A f \in DOMAIN r \ DOMAIN more : Updated(r, more)[f] = r[f]
  BY UpdatedIs
<1> HIDE DEF more
<1>4. /\ DOMAIN u \subseteq {"region", "preset", "frequency"}
      /\ \A f \in {"region", "preset"} : /\ f \in DOMAIN u <=> f \in DOMAIN r
                                         /\ f \in DOMAIN r => u[f] = r[f]
      /\ "frequency" \in DOMAIN r => u["frequency"] = r["frequency"]
      /\ "frequency" \in DOMAIN u /\ "frequency" \notin DOMAIN r =>
            "region" \in DOMAIN r /\ u["frequency"] = RegionFrequency[r["region"]]
  BY <1>1, <1>2, <1>3 DEF RadioAsks
<1>5. /\ "region" \in DOMAIN u => u["region"] \in AllRegions
      /\ "preset" \in DOMAIN u => u["preset"] = "MEDIUM_FAST"
      /\ "frequency" \in DOMAIN u => u["frequency"] \in Frequencies \ {"absent"}
  BY <1>4, RegionFrequencies DEF RadioAsks, Frequencies
<1>6. {"region", "preset", "frequency"} \subseteq Fields \ {"slot"}
  BY FieldsAre
<1>7. Allowed(u)
  BY <1>4, <1>5, <1>6 DEF Allowed, Spreading
<1>8. \A f \in DOMAIN u : u[f] # "absent"
  BY <1>4, <1>5 DEF AllRegions
<1>9. ASSUME ~RadioTold(r) PROVE Untold(u)
  <2>1. /\ \A f \in DOMAIN r \cap {"region", "preset"} : r[f] = mem[f]
        /\ "frequency" \in DOMAIN r => Hz[r["frequency"]] = Frequency(mem)
    BY <1>9 DEF RadioTold
  <2> QED  BY <1>4, <2>1 DEF Untold
<1> QED  BY <1>4, <1>7, <1>8, <1>9

\* The route of the radio settings.
LEMMA PutRadioKeeps ==
    ASSUME ConfigInv, NEW r \in RadioRequests, NEW o \in Outcomes, PutRadio(r, o)
    PROVE  ConfigInv'
<1>1. CASE "region" \in DOMAIN r /\ r["region"] = "bad"
  <2>1. svc = "up" /\ Asked /\ Refused(<<>>)
    BY <1>1 DEF PutRadio, Asked
  <2>2. DOMAIN <<>> = {}
    OBVIOUS
  <2>3. Allowed(<<>>) /\ DOMAIN <<>> \cap (Radio \cup {"device_id"}) = {}
    BY <2>2 DEF Allowed
  <2> QED  BY <2>1, <2>3, RefusedKeeps
<1>2. CASE ~("region" \in DOMAIN r /\ r["region"] = "bad")
  <2> DEFINE u == RadioUpdates(r)
             told == RadioTold(r)
  <2>1. svc = "up" /\ Asked /\ Save(u, o, told) /\ mem' = mem /\ rt' = rt
    BY <1>2 DEF PutRadio, Asked
  <2>2. told \in BOOLEAN
    BY DEF RadioTold
  <2>3. RadioAsks(r)
    BY <1>2, RadioRequestsAsk
  <2>4. /\ DOMAIN u \subseteq {"region", "preset", "frequency"}
        /\ Allowed(u) /\ \A f \in DOMAIN u : u[f] # "absent"
        /\ ~told => Untold(u)
    BY <2>3, RadioUpdatesAre
  <2> HIDE DEF u, told
  <2>5. LoadedTypes(mem) /\ rt.crypto \subseteq {"club", "family"}
    BY DEF ConfigInv, TypesInv
  <2>6. LoadedTypes(mem)'
    BY <2>1, <2>5 DEF LoadedTypes
  <2>7. /\ DOMAIN u \cap {"device_id", "sources", "keys", "interval"} = {}
        /\ DOMAIN u \ Radio = {}
    BY <2>4 DEF Radio
  <2>8. Stores(u, o, told)
    BY <2>1, <2>4, <2>5, <2>6, <2>7 DEF Stores
  <2> QED  BY <2>2, <2>8, SaveKeeps
<1> QED  BY <1>1, <1>2

\* The keys a concentrator's decoders can be given.
LEMMA KeysInTypes == \A k \in KeySets : KeysIn[k] \subseteq {"club", "family"}
<1>1. /\ KeysIn["none"] \subseteq {"club", "family"}
      /\ KeysIn["one"] \subseteq {"club", "family"}
      /\ KeysIn["two"] \subseteq {"club", "family"}
      /\ KeysIn["bad"] \subseteq {"club", "family"}
  BY DEF KeysIn
<1> QED  BY <1>1 DEF KeySets

\* The route of the channels: the crypto gets the keys once they are stored.
LEMMA PutChannelsKeeps ==
    ASSUME ConfigInv, NEW p \in {"Club"}, NEW k \in {"two", "bad"},
           NEW o \in Outcomes \cup {"second"}, PutChannels(p, k, o)
    PROVE  ConfigInv'
<1> DEFINE primary == [primary |-> p]
           both == [primary |-> p, keys |-> k]
<1>1. /\ DOMAIN primary = {"primary"} /\ DOMAIN both = {"primary", "keys"}
      /\ primary["primary"] = p /\ both["primary"] = p /\ both["keys"] = k
  OBVIOUS
<1>2. /\ svc = "up" /\ Asked
      /\ mem' = Updated(mem, IF o = "denied" THEN primary ELSE both)
      /\ rt' = IF o = "saved" THEN [rt EXCEPT !.crypto = KeysIn[k]] ELSE rt
      /\ o = "denied" => Save(primary, o, FALSE)
      /\ o \in {"saved", "lost"} => Save(both, o, FALSE)
      /\ o = "second" => /\ file' = Merged(primary, file)
                         /\ saved' = Updated(saved, primary)
                         /\ astray' = astray \ {"primary"}
                         /\ apart' = (apart \ {"primary"}) \cup {"keys"}
                         /\ UNCHANGED <<svc, restartDue, onAir>>
  BY DEF PutChannels, Asked
<1> HIDE DEF primary, both
<1>3. /\ LoadedTypes(mem) /\ DOMAIN mem = Fields
      /\ DOMAIN rt = DOMAIN Off /\ rt.crypto \subseteq {"club", "family"}
  BY DEF ConfigInv, TypesInv, LoadedTypes
<1>4. /\ "primary" \in Fields
      /\ "keys" \in Fields
      /\ Radio \cup {"device_id"} \subseteq Fields \ {"primary", "keys"}
  BY FieldsAre DEF Radio
<1>5. /\ Allowed(primary) /\ Allowed(both)
      /\ \A f \in DOMAIN primary : primary[f] # "absent"
      /\ \A f \in DOMAIN both : both[f] # "absent"
  BY <1>1, <1>4 DEF Allowed, KeySets
<1>6. KeysIn[k] \subseteq {"club", "family"}
  BY KeysInTypes DEF KeySets
<1>7. /\ DOMAIN rt' = DOMAIN rt
      /\ rt'.crypto = IF o = "saved" THEN KeysIn[k] ELSE rt.crypto
      /\ rt'.plan = rt.plan
      /\ rt'.tx_hz = rt.tx_hz
      /\ rt'.tx = rt.tx
      /\ rt'.interval = rt.interval
      /\ rt'.node_id = rt.node_id /\ rt'.broadcaster = rt.broadcaster
      /\ (o # "saved" => rt' = rt)
  BY <1>2, <1>3 DEF Off
<1>8. CASE o \in Outcomes
  <2> DEFINE u == IF o = "denied" THEN primary ELSE both
  <2>1. Save(u, o, FALSE) /\ mem' = Updated(mem, u)
    BY <1>2, <1>8 DEF Outcomes
  <2>2. /\ Allowed(u) /\ \A f \in DOMAIN u : u[f] # "absent"
        /\ DOMAIN u \subseteq {"primary", "keys"}
        /\ o = "saved" => "keys" \in DOMAIN u /\ u["keys"] = k
    BY <1>1, <1>5
  <2> HIDE DEF u
  <2>3. DOMAIN u \cap (Radio \cup {"device_id", "interval", "tx_enabled", "node_id"}) = {}
    BY <2>2 DEF Radio
  <2>4. LoadedTypes(mem)'
    BY <1>3, <2>1, <2>2, UpdatedLoaded
  <2>5. /\ \A f \in DOMAIN u : mem'[f] = u[f]
        /\ \A f \in Fields \ DOMAIN u : mem'[f] = mem[f]
    BY <1>3, <1>4, <2>1, <2>2, UpdatedAs
  <2>6. Untold(u)
    BY <2>3 DEF Untold, Radio
  <2>7. Stores(u, o, FALSE)
    BY <1>2, <1>3, <1>4, <1>6, <1>7, <2>1, <2>2, <2>3, <2>4, <2>5, <2>6
       DEF Stores, Radio
  <2> QED  BY <1>8, <2>7, SaveKeeps
<1>9. CASE o = "second"
  <2>1. svc = "up" /\ svc' = "up" /\ rt' = rt /\ restartDue' = restartDue /\ onAir' = onAir
        /\ wizard' = wizard
        /\ copy' = copy
        /\ wizards' = wizards
        /\ boots' = boots
        /\ requests' \in 0..MaxRequests
        /\ mem' = Updated(mem, both) /\ file' = Updated(file, primary)
        /\ saved' = Updated(saved, primary) /\ astray' = astray \ {"primary"}
        /\ apart' = (apart \ {"primary"}) \cup {"keys"}
    <3>1. MaxRequests \in Nat
      BY ConfigurationAssumption
    <3> QED  BY <1>2, <1>9, <3>1 DEF ConfigInv, TypesInv, Asked, Merged
  <2>2. StoredTypes(file) /\ StoredTypes(file') /\ LoadedTypes(mem')
    BY <1>3, <1>5, <2>1, UpdatedTypes, UpdatedLoaded DEF ConfigInv, TypesInv
  <2>3. DOMAIN file = Fields /\ DOMAIN saved = Fields
    BY DEF ConfigInv, TypesInv, StoredTypes
  <2>4. /\ file'["primary"] = p
        /\ \A f \in Fields \ {"primary"} : file'[f] = file[f]
        /\ mem'["primary"] = p
        /\ \A f \in Fields \ {"primary", "keys"} : mem'[f] = mem[f]
        /\ DOMAIN saved' = Fields
    <3>1. DOMAIN primary \subseteq Fields /\ DOMAIN both \subseteq Fields
      BY <1>1, <1>4
    <3>2. /\ \A f \in DOMAIN primary : file'[f] = primary[f]
          /\ \A f \in Fields \ DOMAIN primary : file'[f] = file[f]
      BY <2>1, <2>3, <3>1, UpdatedAs
    <3>3. /\ \A f \in DOMAIN both : mem'[f] = both[f]
          /\ \A f \in Fields \ DOMAIN both : mem'[f] = mem[f]
      BY <1>3, <2>1, <3>1, UpdatedAs
    <3>4. DOMAIN saved' = Fields
      BY <2>1, <2>3, <3>1, UpdatedAs
    <3> QED  BY <1>1, <3>2, <3>3, <3>4
  <2>5. /\ \A f \in Fields :
               Load(file')[f] = IF file'[f] = "absent" THEN Default[f] ELSE file'[f]
        /\ \A f \in Fields :
               Load(file)[f] = IF file[f] = "absent" THEN Default[f] ELSE file[f]
    BY <2>2, LoadTypes
  <2>6. /\ Load(file')["primary"] = p
        /\ \A f \in Fields \ {"primary"} : Load(file')[f] = Load(file)[f]
    BY <1>4, <2>4, <2>5
  <2>7. TypesInv'
    BY <1>4, <2>1, <2>2, <2>4 DEF ConfigInv, TypesInv
  <2>8. RadioInv'
    <3>1. ReceivePlan(mem') = ReceivePlan(mem) /\ Frequency(mem') = Frequency(mem)
      BY <1>4, <2>4, SameRadio
    <3> QED  BY <1>4, <2>1, <2>4, <2>6, <3>1 DEF ConfigInv, RadioInv, Lasting,
                                                 Radio
  <2>9. IdInv'
    <3>1. file'["node_id"] = file["node_id"] /\ file'["device_id"] = file["device_id"]
      BY <2>4, FieldsAre
    <3> QED  BY <2>1, <3>1, SameNodeId DEF ConfigInv, IdInv
  <2>10. MemoryIsSaved'
    BY <2>1, <2>4, <2>6 DEF ConfigInv, MemoryIsSaved
  <2>11. RunningIsSaved'
    <3> SUFFICES ASSUME ~restartDue' PROVE RunsAs(file)'
      BY RunsAsSaved
    <3>1. RunsAs(file)
      BY <2>1, RunsAsSaved DEF ConfigInv
    <3> DEFINE l == Load(file)
               n == Load(file')
    <3>2. \A f \in Radio \cup {"tx_enabled", "node_id", "device_id", "keys", "interval"} :
             n[f] = l[f] /\ file'[f] = file[f]
      BY <2>4, <2>6, FieldsAre DEF Radio
    <3> HIDE DEF l, n
    <3>3. Frequency(n) = Frequency(l) /\ ReceivePlan(n) = ReceivePlan(l)
      BY <3>2, SameRadio
    <3>4. NodeId(n) = NodeId(l)
      BY <3>2, SameNodeId
    <3> QED  BY <2>1, <3>1, <3>2, <3>3, <3>4 DEF RunsAs, l, n, Radio
  <2> QED  BY <2>7, <2>8, <2>9, <2>10, <2>11 DEF ConfigInv
<1> QED  BY <1>8, <1>9

-----------------------------------------------------------------------------
\* What the wizard can write: never a preset, a frequency, a slot or a key.
AnswerFields == {"region", "sources", "upstream", "token", "mqtt_enabled", "broker",
                 "auth_mode", "username", "api_key", "tak_enabled", "host",
                 "device_name", "relay", "device_id", "node_id", "long_name"}
Answering(u) == /\ DOMAIN u \subseteq AnswerFields
                /\ "region" \in DOMAIN u => u["region"] \in AllRegions

\* The steps of the wizard add up to such answers.
LEMMA AnsweringBoth ==
    ASSUME NEW g, NEW u, Answering(g), Answering(u), NEW h, h = Updated(g, u)
    PROVE  Answering(h)
<1>1. DOMAIN h = DOMAIN g \cup DOMAIN u
  BY DEF Updated
<1>2. "region" \in DOMAIN h =>
         h["region"] = IF "region" \in DOMAIN u THEN u["region"] ELSE g["region"]
  BY DEF Updated
<1> QED  BY <1>1, <1>2 DEF Answering

\* The wizard keeps the device id it read, or makes one of its own.
LEMMA DeviceIdTypes ==
    ASSUME TypesInv, wizard = "open"
    PROVE  /\ DeviceId \in Devices
           /\ copy["device_id"] # "absent" => DeviceId = copy["device_id"]
<1>1. wizards \in 1..2
  <2>1. wizards \in 1..MaxWizards /\ MaxWizards \in 0..Len(FreshId)
    BY ConfigurationAssumption DEF TypesInv
  <2>2. Len(FreshId) = 2
    BY DEF FreshId
  <2> QED  BY <2>1, <2>2
<1>2. FreshId[wizards] \in Devices
  BY <1>1 DEF FreshId, Devices
<1>3. copy["device_id"] \in Devices \cup {"absent"}
  BY DEF TypesInv, StoredTypes
<1> QED  BY <1>2, <1>3 DEF DeviceId, Or, Devices

\* Every answer of the wizard can be stored.
LEMMA AnswersAre ==
    ASSUME TypesInv, wizard = "open",
           NEW region \in Regions, NEW mode, NEW auth,
           NEW a, a = Answers(region, mode, auth)
    PROVE  /\ DOMAIN a \subseteq AnswerFields
           /\ Allowed(a)
           /\ "node_id" \in DOMAIN a /\ "device_id" \in DOMAIN a
           /\ a["device_id"] = DeviceId
           /\ a["node_id"] = IF copy["node_id"] \notin ReservedIds THEN copy["node_id"]
                             ELSE DerivedId[DeviceId]
<1> DEFINE radio == [region |-> region, sources |-> "concentrator"]
           connectivity == Updated(radio, Connectivity(mode, auth))
           tak == Updated(connectivity, Tak(mode = 2))
           device == Updated(tak, Device)
           relay == Updated(device, Relay(mode = 2))
<1>1. a = Updated(relay, Identity)
  BY DEF Answers
<1>2. Answering(radio)
  <2>1. region \in AllRegions
    BY ConfigurationAssumption
  <2> QED  BY <2>1 DEF Answering, AnswerFields
<1>3. Answering(Connectivity(mode, auth))
  BY DEF Answering, AnswerFields, Connectivity
<1>4. Answering(Tak(mode = 2)) /\ Answering(Device)
  BY DEF Answering, AnswerFields, Tak, Device
<1>5. Answering(Relay(mode = 2))
  <2>1. Answering([relay |-> "on"])
    BY DEF Answering, AnswerFields
  <2>2. Answering(<<>>)
    <3>1. DOMAIN <<>> = {}
      OBVIOUS
    <3> QED  BY <3>1 DEF Answering
  <2> QED  BY <2>1, <2>2 DEF Relay
<1>6. /\ DOMAIN Identity = {"device_id", "node_id", "long_name"}
      /\ Identity["device_id"] = DeviceId
      /\ Identity["node_id"] = IF copy["node_id"] \notin ReservedIds THEN copy["node_id"]
                               ELSE DerivedId[DeviceId]
  BY DEF Identity
<1>7. Answering(Identity)
  BY <1>6 DEF Answering, AnswerFields
<1> HIDE DEF radio
<1>8. Answering(connectivity)
  BY <1>2, <1>3, AnsweringBoth
<1> HIDE DEF connectivity
<1>9. Answering(tak)
  BY <1>4, <1>8, AnsweringBoth
<1> HIDE DEF tak
<1>10. Answering(device)
  BY <1>4, <1>9, AnsweringBoth
<1> HIDE DEF device
<1>11. Answering(relay)
  BY <1>5, <1>10, AnsweringBoth
<1> HIDE DEF relay
<1>12. Answering(a)
  BY <1>1, <1>7, <1>11, AnsweringBoth
<1>13. /\ {"node_id", "device_id"} \subseteq DOMAIN a
       /\ a["device_id"] = Identity["device_id"]
       /\ a["node_id"] = Identity["node_id"]
  BY <1>1, <1>6 DEF Updated
<1>14. AnswerFields \subseteq Fields \ {"slot", "preset", "frequency", "keys",
                                       "interval", "delay"}
  BY FieldsAre DEF AnswerFields
<1>15. DeviceId \in Devices
  BY DeviceIdTypes
<1>16. Allowed(a)
  BY <1>6, <1>12, <1>13, <1>14, <1>15 DEF Answering, Allowed
<1> QED  BY <1>6, <1>12, <1>13, <1>16 DEF Answering

\* The wizard writes while the service may be running: the file moves away
\* from memory, in the settings apart records, and a restart is due.
LEMMA WizardWritesKeeps ==
    ASSUME ConfigInv, NEW region \in Regions, NEW mode, NEW auth,
           NEW o \in {"saved", "lost"},
           WizardWrites(Answers(region, mode, auth), o)
    PROVE  ConfigInv'
<1> DEFINE a == Answers(region, mode, auth)
           lost == {f \in Fields \ DOMAIN a : copy[f] # file[f]}
<1>1. /\ wizard = "open" /\ wizard' = "closed" /\ copy' = EmptyFile
      /\ file' = IF o = "saved" THEN Updated(copy, a) ELSE EmptyFile
      /\ saved' = IF o = "saved" THEN Updated(saved, a) ELSE saved
      /\ astray' = IF o = "saved" THEN (astray \ DOMAIN a) \cup lost ELSE Fields
      /\ apart' = IF o = "saved" THEN apart \cup DOMAIN a \cup lost ELSE Fields
      /\ restartDue' = (svc = "up")
      /\ onAir' = IF o = "saved" /\ NodeId(copy) = NodeId(file) THEN onAir ELSE "none"
      /\ svc' = svc /\ mem' = mem /\ rt' = rt
      /\ requests' = requests /\ wizards' = wizards /\ boots' = boots
  BY DEF WizardWrites, Merged, counters
<1>2. TypesInv
  BY DEF ConfigInv
<1>3. /\ DOMAIN a \subseteq AnswerFields /\ Allowed(a)
      /\ "node_id" \in DOMAIN a /\ "device_id" \in DOMAIN a
      /\ a["device_id"] = DeviceId
      /\ a["node_id"] = IF copy["node_id"] \notin ReservedIds THEN copy["node_id"]
                        ELSE DerivedId[DeviceId]
  BY <1>1, <1>2, AnswersAre
<1>4. lost \subseteq Fields /\ \A f \in Fields \ (DOMAIN a \cup lost) : copy[f] = file[f]
  OBVIOUS
<1> HIDE DEF a, lost
<1>5. /\ StoredTypes(copy) /\ DOMAIN copy = Fields
      /\ DOMAIN saved = Fields /\ DOMAIN a \subseteq Fields
  BY <1>2, <1>3 DEF TypesInv, StoredTypes, Allowed
<1>6. o = "saved" => /\ \A f \in DOMAIN a : file'[f] = a[f]
                     /\ \A f \in Fields \ DOMAIN a : file'[f] = copy[f]
                     /\ DOMAIN saved' = Fields
  BY <1>1, <1>5, UpdatedAs
<1>7. StoredTypes(file') /\ StoredTypes(copy')
  BY <1>1, <1>3, <1>5, UpdatedTypes, EmptyTypes
<1>8. TypesInv'
  <2>1. /\ astray' \subseteq Fields /\ apart' \subseteq Fields
        /\ restartDue' \in BOOLEAN /\ DOMAIN saved' = Fields
    BY <1>1, <1>2, <1>4, <1>5, <1>6 DEF TypesInv
  <2> QED  BY <1>1, <1>2, <1>7, <2>1 DEF TypesInv
<1>9. RadioInv'
  BY <1>1 DEF ConfigInv, RadioInv
<1>10. IdInv'
  <2> SUFFICES ASSUME onAir' \notin {"none", "random"} PROVE NodeId(file') = onAir'
    BY DEF IdInv
  <2>1. o = "saved" /\ onAir' = onAir /\ NodeId(copy) = NodeId(file)
    BY <1>1
  <2>2. NodeId(copy) = onAir
    BY <2>1 DEF ConfigInv, IdInv
  <2>3. /\ file'["node_id"] = a["node_id"] /\ file'["device_id"] = DeviceId
        /\ copy["device_id"] \in Devices \cup {"absent"}
        /\ file'["device_id"] \in Devices \cup {"absent"}
    BY <1>3, <1>5, <1>6, <1>7, <2>1 DEF StoredTypes
  <2>4. /\ DeviceId \in Devices
        /\ copy["device_id"] # "absent" => DeviceId = copy["device_id"]
    BY <1>1, <1>2, DeviceIdTypes
  <2>5. CASE copy["node_id"] \notin ReservedIds
    BY <1>3, <2>1, <2>2, <2>3, <2>5, NodeIdIs
  <2>6. CASE copy["node_id"] \in ReservedIds
    <3>1. copy["device_id"] # "absent"
      BY <2>1, <2>2, <2>3, <2>6, NodeIdIs
    <3>2. NodeId(copy) = DerivedId[DeviceId] /\ NodeId(copy) \notin ReservedIds
      BY <2>3, <2>4, <2>6, <3>1, NodeIdIs
    <3>3. file'["node_id"] = NodeId(copy)
      BY <1>3, <2>3, <2>6, <3>2
    <3> QED  BY <2>1, <2>2, <2>3, <3>2, <3>3, NodeIdIs
  <2> QED  BY <2>5, <2>6
<1>11. MemoryIsSaved'
  <2> SUFFICES ASSUME svc = "up",
                      NEW f \in Fields \ (apart' \cup {"region", "preset", "frequency"})
               PROVE  mem[f] = Load(file')[f]
    BY <1>1 DEF MemoryIsSaved
  <2>1. o = "saved" /\ f \notin apart \cup DOMAIN a \cup lost
    BY <1>1
  <2>2. file'[f] = file[f]
    BY <1>4, <1>6, <2>1
  <2>3. mem[f] = Load(file)[f]
    BY <2>1 DEF ConfigInv, MemoryIsSaved
  <2>4. /\ Load(file)[f] = IF file[f] = "absent" THEN Default[f] ELSE file[f]
        /\ Load(file')[f] = IF file'[f] = "absent" THEN Default[f] ELSE file'[f]
    BY <1>2, <1>7, LoadTypes DEF TypesInv
  <2> QED  BY <2>2, <2>3, <2>4
<1>12. RunningIsSaved'
  BY <1>1 DEF RunningIsSaved
<1> QED  BY <1>8, <1>9, <1>10, <1>11, <1>12 DEF ConfigInv

-----------------------------------------------------------------------------
\* The service starts with what the file says, and stores a derived id.
LEMMA BootKeeps ==
    ASSUME ConfigInv, NEW o \in Outcomes, Boot(o)
    PROVE  /\ ConfigInv'
           /\ rt'.node_id # "none" /\ onAir \notin {"none", "random"} =>
                 rt'.node_id = onAir
<1> DEFINE cfg == Load(file)
           derived == /\ cfg["tx_enabled"] = "on"
                      /\ cfg["node_id"] \in ReservedIds
                      /\ cfg["device_id"] # "absent"
           id == [node_id |-> NodeId(cfg)]
           stores == derived /\ o = "saved"
<1>1. /\ svc # "up" /\ boots < MaxBoots /\ boots' = boots + 1
      /\ o # "saved" => derived
      /\ file' = IF derived THEN Written(id, file, o) ELSE file
      /\ svc' = "up" /\ rt' = Started(cfg)
      /\ mem' = IF stores THEN Updated(cfg, id) ELSE cfg
      /\ saved' = IF stores THEN Updated(saved, id) ELSE saved
      /\ astray' = IF o = "lost" THEN Fields
                   ELSE IF stores THEN astray \ {"node_id"} ELSE astray
      /\ apart' = IF o = "lost" THEN Fields ELSE {}
      /\ restartDue' = (o = "lost")
      /\ onAir' = CASE o = "lost" -> "none"
                    [] o # "lost" /\ cfg["tx_enabled"] = "on" -> NodeId(cfg)
                    [] OTHER -> onAir
      /\ wizard' = wizard
      /\ copy' = copy
      /\ requests' = requests
      /\ wizards' = wizards
  BY DEF Boot
<1>2. DOMAIN id = {"node_id"} /\ id["node_id"] = NodeId(cfg)
  OBVIOUS
<1>3. TypesInv
  BY DEF ConfigInv
<1>4. /\ LoadedTypes(cfg)
      /\ \A f \in Fields :
             cfg[f] = IF file[f] = "absent" THEN Default[f] ELSE file[f]
      /\ cfg["node_id"] = file["node_id"]
      /\ cfg["device_id"] = file["device_id"]
  BY <1>3, LoadTypes DEF TypesInv
<1>5. NodeId(cfg) = NodeId(file)
  BY <1>4, SameNodeId
<1>6. derived => NodeId(cfg) \notin ReservedIds
  BY <1>4, NodeIdIs DEF LoadedTypes
<1>7. /\ rt'.plan = ReceivePlan(cfg)
      /\ rt'.tx_hz = Frequency(cfg)
      /\ rt'.tx = cfg["tx_enabled"]
      /\ rt'.node_id = (IF cfg["tx_enabled"] = "on" THEN NodeId(cfg) ELSE "none")
      /\ rt'.crypto = KeysIn[cfg["keys"]] /\ rt'.interval = cfg["interval"]
      /\ DOMAIN rt' = DOMAIN Off
  BY <1>1 DEF Started, Off
<1>8. derived => cfg["tx_enabled"] = "on"
  OBVIOUS
<1> HIDE DEF cfg, derived, id
<1>9. Allowed(id) /\ DOMAIN file = Fields /\ DOMAIN saved = Fields /\ DOMAIN cfg = Fields
      /\ DOMAIN id \subseteq Fields
  BY <1>2, <1>3, <1>4, FieldsAre DEF Allowed, TypesInv, StoredTypes,
                                     LoadedTypes
<1>10. /\ stores => /\ file' = Updated(file, id) /\ mem' = Updated(cfg, id)
                    /\ saved' = Updated(saved, id)
       /\ o = "lost" => file' = EmptyFile /\ mem' = cfg /\ saved' = saved
       /\ ~stores /\ o # "lost" => file' = file /\ mem' = cfg /\ saved' = saved
  BY <1>1 DEF Written, Merged, Outcomes
<1>11. /\ stores => /\ file'["node_id"] = NodeId(cfg) /\ mem'["node_id"] = NodeId(cfg)
                    /\ \A f \in Fields \ {"node_id"} :
                          file'[f] = file[f] /\ mem'[f] = cfg[f]
                    /\ DOMAIN saved' = Fields
       /\ ~stores => mem' = cfg
  <2>1. stores => /\ \A f \in DOMAIN id : file'[f] = id[f]
                  /\ \A f \in Fields \ DOMAIN id : file'[f] = file[f]
    BY <1>9, <1>10, UpdatedAs
  <2>2. stores => /\ \A f \in DOMAIN id : mem'[f] = id[f]
                  /\ \A f \in Fields \ DOMAIN id : mem'[f] = cfg[f]
    BY <1>9, <1>10, UpdatedAs
  <2>3. stores => DOMAIN saved' = Fields
    BY <1>9, <1>10, UpdatedAs
  <2> QED  BY <1>2, <1>10, <2>1, <2>2, <2>3
<1>12. StoredTypes(file') /\ LoadedTypes(mem')
  BY <1>3, <1>4, <1>9, <1>10, UpdatedTypes, UpdatedLoaded, EmptyTypes
     DEF TypesInv
<1>13. TypesInv'
  <2>1. boots' \in 0..MaxBoots
    <3>1. MaxBoots \in Nat
      BY ConfigurationAssumption
    <3> QED  BY <1>1, <1>3, <3>1 DEF TypesInv
  <2>2. DOMAIN saved' = Fields
    BY <1>9, <1>10, <1>11
  <2>3. rt'.crypto \subseteq {"club", "family"}
    BY <1>4, <1>7, KeysInTypes DEF LoadedTypes
  <2>4. astray' \subseteq Fields /\ apart' \subseteq Fields /\ restartDue' \in BOOLEAN
    BY <1>1, <1>3 DEF TypesInv
  <2> QED  BY <1>1, <1>3, <1>7, <1>12, <2>1, <2>2, <2>3, <2>4 DEF TypesInv
\* A start that stores nothing, or stores the id, loads what is in the file.
<1>14. o # "lost" => /\ \A f \in Fields : Load(file')[f] = mem'[f]
                     /\ \A f \in Fields \ {"node_id"} :
                           file'[f] = file[f] /\ mem'[f] = cfg[f]
  <2>1. \A f \in Fields :
            Load(file')[f] = IF file'[f] = "absent" THEN Default[f] ELSE file'[f]
    BY <1>12, LoadTypes
  <2>2. CASE stores
    <3>1. NodeId(cfg) # "absent"
      BY <1>6, <2>2 DEF ReservedIds
    <3> QED  BY <1>4, <1>11, <2>1, <2>2, <3>1
  <2>3. CASE ~stores
    BY <1>4, <1>10, <1>11, <2>1, <2>3
  <2> QED  BY <2>2, <2>3
<1>15. NodeId(mem') = NodeId(cfg)
  <2>1. CASE stores
    <3>1. mem'["node_id"] \notin ReservedIds
      BY <1>6, <1>11, <2>1
    <3> QED  BY <1>11, <1>12, <2>1, <3>1, NodeIdIs DEF LoadedTypes
  <2>2. CASE ~stores
    BY <1>11, <2>2
  <2> QED  BY <2>1, <2>2
<1>16. \A f \in Radio : mem'[f] = cfg[f]
  BY <1>11, FieldsAre DEF Radio
<1>17. ReceivePlan(mem') = ReceivePlan(cfg) /\ Frequency(mem') = Frequency(cfg)
  BY <1>16, SameRadio
<1>18. RadioInv'
  <2>1. Lasting \subseteq Fields
    BY FieldsAre DEF Lasting
  <2> QED  BY <1>1, <1>7, <1>14, <1>17, <2>1 DEF RadioInv, Outcomes
<1>19. IdInv'
  <2> SUFFICES ASSUME onAir' \notin {"none", "random"} PROVE NodeId(file') = onAir'
    BY DEF IdInv
  <2>1. o # "lost"
    BY <1>1
  <2>2. NodeId(file') = NodeId(cfg)
    <3>1. /\ Load(file')["node_id"] = mem'["node_id"]
          /\ Load(file')["device_id"] = mem'["device_id"]
      BY <1>14, <2>1, FieldsAre
    <3>2. /\ Load(file')["node_id"] = file'["node_id"]
          /\ Load(file')["device_id"] = file'["device_id"]
      BY <1>12, LoadTypes
    <3>3. NodeId(file') = NodeId(mem')
      BY <3>1, <3>2, SameNodeId
    <3> QED  BY <1>15, <3>3
  <2>3. CASE cfg["tx_enabled"] = "on"
    BY <1>1, <2>1, <2>2, <2>3
  <2>4. CASE cfg["tx_enabled"] # "on"
    BY <1>1, <1>5, <2>1, <2>2, <2>4 DEF ConfigInv, IdInv
  <2> QED  BY <2>3, <2>4
<1>20. MemoryIsSaved'
  BY <1>1, <1>14 DEF MemoryIsSaved
<1>21. RunningIsSaved'
  <2> SUFFICES ASSUME ~restartDue' PROVE RunsAs(file)'
    BY RunsAsSaved
  <2>1. o # "lost"
    BY <1>1, <1>13 DEF TypesInv
  <2> DEFINE n == Load(file')
  <2>2. \A f \in Radio \cup {"node_id", "device_id"} : n[f] = mem'[f]
    BY <1>14, <2>1, FieldsAre DEF Radio
  <2>3. \A f \in {"tx_enabled", "keys", "interval"} : n[f] = cfg[f]
    BY <1>14, <2>1, FieldsAre
  <2> HIDE DEF n
  <2>4. /\ NodeId(n) = NodeId(mem')
        /\ ReceivePlan(n) = ReceivePlan(mem') /\ Frequency(n) = Frequency(mem')
    BY <2>2, SameNodeId, SameRadio
  <2> QED  BY <1>7, <1>15, <1>17, <2>3, <2>4 DEF RunsAs, n
<1>22. rt'.node_id # "none" /\ onAir \notin {"none", "random"} => rt'.node_id = onAir
  BY <1>5, <1>7 DEF ConfigInv, IdInv
<1> QED  BY <1>13, <1>18, <1>19, <1>20, <1>21, <1>22 DEF ConfigInv

-----------------------------------------------------------------------------
\* The initial states, the actions and the theorems.
LEMMA ConfigInit == Init => ConfigInv
<1> SUFFICES ASSUME Init PROVE ConfigInv
  OBVIOUS
<1>1. /\ file \in InitialFiles /\ svc = "down" /\ mem = Default /\ rt = Off
      /\ wizard = "closed" /\ copy = EmptyFile /\ saved = file
      /\ requests = 0 /\ wizards = 0 /\ boots = 0
      /\ astray = {} /\ apart = {} /\ restartDue = FALSE /\ onAir = "none"
  BY DEF Init
<1>2. StoredTypes(file) /\ StoredTypes(copy) /\ LoadedTypes(mem) /\ DOMAIN saved = Fields
  BY <1>1, ProvisionedTypes, EmptyTypes, DefaultTypes DEF StoredTypes
<1>3. /\ MaxRequests \in Nat /\ MaxBoots \in Nat /\ MaxWizards \in Nat
  <2>1. Len(FreshId) = 2
    BY DEF FreshId
  <2> QED  BY <2>1, ConfigurationAssumption
<1>4. rt.crypto = {}
  BY <1>1 DEF Off
<1>5. requests \in 0..MaxRequests /\ boots \in 0..MaxBoots /\ wizards \in 0..MaxWizards
  BY <1>1, <1>3
<1>6. /\ astray \subseteq Fields
      /\ apart \subseteq Fields
      /\ restartDue \in BOOLEAN
      /\ svc \in {"down", "up", "failed"}
      /\ wizard \in {"closed", "open"}
      /\ wizard # "open"
  BY <1>1
<1>7. rt = Off /\ DOMAIN rt = DOMAIN Off /\ rt.crypto \subseteq {"club", "family"}
  BY <1>1, <1>4
<1>8. TypesInv
  BY <1>2, <1>5, <1>6, <1>7 DEF TypesInv
<1> QED  BY <1>1, <1>8 DEF ConfigInv, RadioInv, IdInv, MemoryIsSaved,
                           RunningIsSaved

\* Steps that leave file, memory and the running service alone.
LEMMA ApartKeeps ==
    ASSUME ConfigInv, UNCHANGED <<file, mem, saved, astray,
                                  apart, restartDue, onAir, requests>>,
           \/ svc' = svc /\ rt' = rt
           \/ svc # "up" /\ svc' = "failed" /\ rt' = rt,
           StoredTypes(copy'), wizard' \in {"closed", "open"},
           wizards' \in 0..MaxWizards, boots' \in 0..MaxBoots,
           wizard' = "open" => wizards' \in 1..MaxWizards
    PROVE  ConfigInv'
<1>1. TypesInv'
  BY DEF ConfigInv, TypesInv
<1>2. RadioInv' /\ IdInv' /\ MemoryIsSaved' /\ RunningIsSaved'
  BY DEF ConfigInv, RadioInv, IdInv, MemoryIsSaved, RunningIsSaved
<1> QED  BY <1>1, <1>2 DEF ConfigInv

\* The id a start brings on the air.
KeepsId == (svc # "up" /\ svc' = "up" /\ rt'.node_id # "none"
            /\ onAir \notin {"none", "random"}) => rt'.node_id = onAir

\* Every action keeps the invariant, and a start keeps the id on the air.
LEMMA ConfigNext ==
    ConfigInv /\ [Next]_vars => ConfigInv' /\ (KeepsId \/ UNCHANGED vars)
<1> SUFFICES ASSUME ConfigInv, [Next]_vars
             PROVE  ConfigInv' /\ (KeepsId \/ UNCHANGED vars)
  OBVIOUS
<1>0. TypesInv /\ StoredTypes(file) /\ StoredTypes(copy)
  BY DEF ConfigInv, TypesInv
<1>1. CASE UpdateTransmit \/ UpdateIdentity \/ UpdateNodeinfo \/ UpdateMqtt \/ UpdateTak
  <2>1. PICK sec \in Sections : \E r \in Requests(sec) : Put(sec, r)
    BY <1>1 DEF UpdateTransmit, UpdateIdentity, UpdateNodeinfo, UpdateMqtt,
                UpdateTak, Sections
  <2>2. PICK r \in Requests(sec) : Put(sec, r)
    BY <2>1
  <2>3. svc = "up"
    BY <2>2 DEF Put, PutRefused, PutSection, Asked
  <2> QED  BY <2>2, <2>3, PutKeeps DEF KeepsId
<1>2. ASSUME NEW r \in RadioRequests, NEW o \in Outcomes, PutRadio(r, o)
      PROVE  ConfigInv' /\ KeepsId
  <2>1. svc = "up"
    BY <1>2 DEF PutRadio, Asked
  <2> QED  BY <1>2, <2>1, PutRadioKeeps DEF KeepsId
<1>3. ASSUME NEW p \in {"Club"}, NEW k \in {"two", "bad"},
             NEW o \in Outcomes \cup {"second"}, PutChannels(p, k, o)
      PROVE  ConfigInv' /\ KeepsId
  <2>1. svc = "up"
    BY <1>3 DEF PutChannels, Asked
  <2> QED  BY <1>3, <2>1, PutChannelsKeeps DEF KeepsId
<1>4. CASE Wizard
  <2>1. svc' = svc
    BY <1>4 DEF Wizard, WizardOpens, WizardAborts, WizardWrites
  <2>2. CASE WizardOpens
    <3>1. /\ UNCHANGED <<file, svc, mem, rt, requests,
                         boots, saved, astray, apart, restartDue, onAir>>
          /\ wizard' = "open"
          /\ copy' = file
          /\ wizards' = wizards + 1
          /\ wizards < MaxWizards
      BY <2>2 DEF WizardOpens, history
    <3>2. wizards' \in 1..MaxWizards /\ boots' \in 0..MaxBoots
      <4>1. MaxWizards \in Nat
        <5>1. Len(FreshId) = 2
          BY DEF FreshId
        <5> QED  BY <5>1, ConfigurationAssumption
      <4> QED  BY <1>0, <3>1, <4>1 DEF TypesInv
    <3>3. StoredTypes(copy')
      BY <1>0, <3>1
    <3>4. wizards' \in 0..MaxWizards
      BY <3>2
    <3>5. ConfigInv'
      BY <3>1, <3>2, <3>3, <3>4, ApartKeeps
    <3> QED  BY <2>1, <3>5 DEF KeepsId
  <2>3. CASE WizardAborts
    <3>1. /\ UNCHANGED <<file, svc, mem, rt, requests, wizards,
                         boots, saved, astray, apart, restartDue, onAir>>
          /\ wizard' = "closed" /\ copy' = EmptyFile
      BY <2>3 DEF WizardAborts, history, counters
    <3>2. wizards' \in 0..MaxWizards /\ boots' \in 0..MaxBoots
      BY <1>0, <3>1 DEF TypesInv
    <3>3. StoredTypes(copy')
      BY <3>1, EmptyTypes
    <3>4. ConfigInv'
      BY <3>1, <3>2, <3>3, ApartKeeps
    <3> QED  BY <2>1, <3>4 DEF KeepsId
  <2>4. ASSUME NEW region \in Regions, NEW connect, NEW o \in {"saved", "lost"},
               WizardWrites(Answers(region, connect[1], connect[2]), o)
        PROVE  ConfigInv'
    BY <2>4, WizardWritesKeeps
  <2> QED  BY <1>4, <2>1, <2>2, <2>3, <2>4 DEF Wizard, KeepsId
<1>5. CASE BootFails
  <2>1. /\ UNCHANGED <<file, mem, rt, wizard, copy, requests,
                       wizards, saved, astray, apart, restartDue, onAir>>
        /\ svc # "up"
        /\ svc' = "failed"
        /\ boots < MaxBoots
        /\ boots' = boots + 1
    BY <1>5 DEF BootFails, history
  <2>2. boots' \in 0..MaxBoots
    <3>1. MaxBoots \in Nat
      BY ConfigurationAssumption
    <3> QED  BY <1>0, <2>1, <3>1 DEF TypesInv
  <2>3. StoredTypes(copy') /\ wizard' \in {"closed", "open"} /\ wizards' \in 0..MaxWizards
        /\ (wizard' = "open" => wizards' \in 1..MaxWizards)
    BY <1>0, <2>1 DEF TypesInv
  <2>4. ConfigInv'
    BY <2>1, <2>2, <2>3, ApartKeeps
  <2> QED  BY <2>1, <2>4 DEF KeepsId
<1>6. ASSUME NEW o \in Outcomes, Boot(o) PROVE ConfigInv' /\ KeepsId
  BY <1>6, BootKeeps DEF KeepsId
<1>7. CASE Stop
  <2>1. /\ UNCHANGED <<file, wizard, copy, requests, wizards,
                       boots, saved, astray, apart, restartDue, onAir>>
        /\ svc' = "down" /\ mem' = Default /\ rt' = Off
    BY <1>7 DEF Stop, history, counters
  <2>2. rt'.crypto = {} /\ LoadedTypes(mem')
    BY <2>1, DefaultTypes DEF Off
  <2>3. TypesInv'
    BY <1>0, <2>1, <2>2 DEF TypesInv
  <2>4. RadioInv' /\ IdInv' /\ MemoryIsSaved' /\ RunningIsSaved'
    BY <2>1 DEF ConfigInv, RadioInv, IdInv, MemoryIsSaved, RunningIsSaved
  <2> QED  BY <2>1, <2>3, <2>4 DEF ConfigInv, KeepsId
<1>8. CASE UNCHANGED vars
  <2>1. UNCHANGED <<file, svc, mem, rt, wizard, copy, requests, wizards, boots, saved,
                    astray, apart, restartDue, onAir>>
    BY <1>8 DEF vars, history, counters
  <2> QED  BY <1>8, <2>1 DEF ConfigInv, TypesInv, RadioInv, IdInv,
                             MemoryIsSaved, RunningIsSaved
<1> QED  BY <1>1, <1>2, <1>3, <1>4, <1>5, <1>6, <1>7, <1>8 DEF Next, Routes

\* The inductive invariant holds always.
LEMMA ConfigAlways == Spec => []ConfigInv
  BY ConfigInit, ConfigNext, PTL DEF Spec

\* While the service runs, memory and local.yaml agree on every setting but
\* the radio's three, which wait for the restart, and those a refused request,
\* a failed write or the wizard has moved apart: a route stores what it
\* assigned, converted values and all (config_routes.py, update_mqtt and its
\* siblings; config.py, save_section_to_yaml).
THEOREM MemoryIsTheFile == Spec => []MemoryIsSaved
<1>1. ConfigInv => MemoryIsSaved
  BY DEF ConfigInv
<1> QED  BY <1>1, ConfigAlways, PTL

\* Unless an answer has asked for a restart, the running service is what
\* starting it from local.yaml would build, but for the radio while the stored
\* frequency is the default of its region, where a request naming only the
\* current region puts it: every other setting that RunningIsSaved compares
\* takes effect at once or the answer says that it does not
\* (config_routes.py, update_radio; nodeinfo_routes.py, update_nodeinfo;
\* server.py, _build_tx_service).
THEOREM RestartChangesNothing == Spec => []RunningIsSaved
<1>1. ConfigInv => RunningIsSaved
  BY DEF ConfigInv
<1> QED  BY <1>1, ConfigAlways, PTL

\* The values file, memory and service can hold: the type invariant, for any
\* regions and bounds.
THEOREM ConfigTypes == Spec => []ConfigTypeOK
<1>1. ConfigInv => ConfigTypeOK
  BY DEF ConfigInv, TypesInv, ConfigTypeOK, StoredTypes, LoadedTypes
<1> QED  BY <1>1, ConfigAlways, PTL

\* A start comes up with the node id peers know, set by the user or derived
\* from the device id, unless the user has set another or the file was lost; an
\* id drawn for want of both is no identity (tx_service.py, _resolve_node_id,
\* _derive_node_id; setup_wizard.py, _step_device_id).
THEOREM IdentitySurvives == Spec => IdentityStable
<1>1. ConfigInv /\ [Next]_vars => [KeepsId]_vars
  BY ConfigNext
<1>2. [KeepsId]_vars => [(svc # "up" /\ svc' = "up" /\ rt'.node_id # "none"
        /\ onAir \notin {"none", "random"}) => rt'.node_id = onAir]_vars
  BY DEF KeepsId
<1> QED  BY <1>1, <1>2, ConfigAlways, PTL DEF Spec, IdentityStable

\* Whatever radio settings requests, the wizard or the file combine, every
\* enabled channel of a running concentrator lies within the bandwidth of its
\* radio chain (concentrator_config.py, for_region and from_radio_config;
\* sx1302_wrapper.py, _configure_if_channels).
THEOREM EveryChannelReached == Spec => []ReachesEveryChannel
<1>1. ConfigInv => ReachesEveryChannel
  <2> SUFFICES ASSUME ConfigInv, rt.plan # NoPlan PROVE Reached(rt.plan)
    BY DEF ReachesEveryChannel, Reached
  <2>1. svc = "up"
    BY DEF ConfigInv, TypesInv, Off
  <2>2. rt.plan = ReceivePlan(mem) /\ LoadedTypes(mem)
    BY <2>1 DEF ConfigInv, RadioInv, TypesInv
  <2>3. rt.plan = FromRadioConfig(mem["region"], mem["preset"], Frequency(mem))
    BY <2>2 DEF ReceivePlan
  <2>4. mem["region"] \in AllRegions /\ Frequency(mem) \in Int
    BY <2>2, FrequencyTypes DEF LoadedTypes
  <2> QED  BY <2>3, <2>4, FromRadioConfigReached
<1> QED  BY <1>1, ConfigAlways, PTL
=============================================================================
