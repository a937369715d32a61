------------------------- MODULE AgentSettingsProofs -------------------------
(***************************************************************************)
(* Theorems about AgentSettings, for any packaged defaults and any files.  *)
(***************************************************************************)
EXTENDS AgentSettings, SequenceTheorems, FiniteSetTheorems, TLAPS

USE FilesAssumption

Keys == {"default_agent", "default_provider", "providers", "agents", "roles"}

IsSequence(map) == map \in Seq({map[i] : i \in DOMAIN map})

\* An entry of this name records lessons.
IsRecorder(entry, recorder) ==
    DOMAIN entry = {"name", "workflow", "providers"} /\ entry.name = recorder /\ entry.workflow = "learning"
Records(map, recorder) == \E i \in DOMAIN map : IsRecorder(map[i], recorder)

\* The packaged recorder of lessons is among the roles, unless a file merged so far has
\* emptied them or given it another workflow.
RecordersStay ==
    \A recorder \in NamesFor(Defaults.roles, "learning") :
        /\ step # "merge" => KeepsRecorder(local, recorder)
        /\ step \notin {"merge", "override"} => KeepsRecorder(explicit, recorder)
        => Records(settings.roles, recorder)

\* What is known of the settings at each step: that agents and roles are lists, where
\* the recorder of lessons is, what an explicit file with agents and empty roles has
\* made of them, and what the validation has found.
SettingsInv ==
    /\ explicit \in ExplicitFiles /\ local \in LocalFiles
    /\ DOMAIN settings = Keys
    /\ IsSequence(settings.agents) /\ IsSequence(settings.roles)
    /\ RecordersStay
    /\ explicit.agents # Absent /\ explicit.roles = << >> =>
           /\ step = "populate" => settings.agents = explicit.agents /\ settings.roles = << >>
           /\ step \in {"validate", "accepted"} =>
                  /\ settings.agents = Filled(explicit.agents)
                  /\ settings.roles = Filled(explicit.agents)
    /\ step = "accepted" => DefaultsExist /\ ProvidersAreKnown /\ OneAgentEach /\ StagesAreConfigured

-----------------------------------------------------------------------------
(* Lemmas about mappings.                                                  *)

\* A function on 1..n is a sequence of its own values.
LEMMA ListsAreSequences ==
    ASSUME NEW n \in Nat, NEW f, f = [i \in 1..n |-> f[i]]
    PROVE  IsSequence(f)
<1>1. DOMAIN f = 1..n
  OBVIOUS
<1>2. f \in [1..n -> {f[i] : i \in DOMAIN f}]
  BY <1>1
<1> QED BY <1>2 DEF IsSequence

\* So is a sequence of anything.
LEMMA SequencesAreLists ==
    ASSUME NEW S, NEW s \in Seq(S)
    PROVE  /\ IsSequence(s) /\ Len(s) \in Nat /\ DOMAIN s = 1..Len(s)
           /\ s = [i \in 1..Len(s) |-> s[i]]
<1>1. Len(s) \in Nat /\ s \in [1..Len(s) -> S] /\ DOMAIN s = 1..Len(s)
  BY LenProperties
<1>2. s = [i \in 1..Len(s) |-> s[i]]
  BY <1>1
<1> QED BY <1>1, <1>2, ListsAreSequences

\* _deep_merge() of two lists of entries is one, and the known names keep their place.
LEMMA MergedIsSequence ==
    ASSUME NEW base, NEW over, IsSequence(base), IsSequence(over)
    PROVE  /\ IsSequence(MergedMap(base, over))
           /\ \A i \in DOMAIN base :
                  i \in DOMAIN MergedMap(base, over) /\ MergedMap(base, over)[i] = MergedEntry(base[i], over)
<1> DEFINE fresh == {i \in DOMAIN over : over[i].name \notin Names(base)}
           kept == [i \in DOMAIN base |-> MergedEntry(base[i], over)]
           added == At(over, fresh)
<1>1. Len(base) \in Nat /\ DOMAIN base = 1..Len(base) /\ Len(over) \in Nat /\ DOMAIN over = 1..Len(over)
  BY SequencesAreLists DEF IsSequence
<1>2. Cardinality(fresh) \in Nat
  <2>1. IsFiniteSet(1..Len(over))
    BY <1>1, FS_Interval
  <2>2. IsFiniteSet(fresh)
    BY <1>1, <2>1, FS_Subset
  <2> QED BY <2>2, FS_CardinalityType
<1>3. IsSequence(kept)
  <2>1. kept = [i \in 1..Len(base) |-> kept[i]]
    BY <1>1
  <2> HIDE DEF kept
  <2> QED BY <1>1, <2>1, ListsAreSequences
<1>4. IsSequence(added)
  <2>1. added = [k \in 1..Cardinality(fresh) |-> added[k]]
    BY DEF At
  <2> HIDE DEF added, fresh
  <2> QED BY <1>2, <2>1, ListsAreSequences
<1>5. MergedMap(base, over) = kept \o added
  BY DEF MergedMap
<1>a. \A i \in DOMAIN base : kept[i] = MergedEntry(base[i], over)
  OBVIOUS
<1>b. DOMAIN kept = DOMAIN base
  OBVIOUS
<1> HIDE DEF kept, added, fresh
<1> DEFINE S == {kept[i] : i \in DOMAIN kept} \cup {added[i] : i \in DOMAIN added}
<1>6. kept \in Seq(S) /\ added \in Seq(S)
  <2>1. ASSUME NEW s, IsSequence(s), {s[i] : i \in DOMAIN s} \subseteq S PROVE s \in Seq(S)
    <3> DEFINE R == {s[i] : i \in DOMAIN s}
    <3>1. s \in Seq(R)
      BY <2>1 DEF IsSequence
    <3> HIDE DEF R, S
    <3>2. Len(s) \in Nat /\ s \in [1..Len(s) -> R]
      BY <3>1, LenProperties
    <3>3. R \subseteq S
      BY <2>1 DEF R
    <3>4. s \in [1..Len(s) -> S]
      BY <3>2, <3>3
    <3> QED BY <3>2, <3>4
  <2> QED BY <1>3, <1>4, <2>1
<1> HIDE DEF S
<1>7. /\ kept \o added \in Seq(S) /\ Len(kept \o added) = Len(kept) + Len(added)
      /\ \A i \in 1..Len(kept) + Len(added) : i <= Len(kept) => (kept \o added)[i] = kept[i]
  BY <1>6, ConcatProperties
<1>8. DOMAIN kept = 1..Len(kept) /\ Len(kept) \in Nat /\ Len(added) \in Nat
  BY <1>6, SequencesAreLists
<1>9. DOMAIN (kept \o added) = 1..Len(kept) + Len(added)
  BY <1>7, SequencesAreLists
<1>10. \A i \in DOMAIN base :
           i \in DOMAIN (kept \o added) /\ (kept \o added)[i] = MergedEntry(base[i], over)
  BY <1>a, <1>b, <1>7, <1>8, <1>9
<1> QED BY <1>5, <1>7, <1>10, SequencesAreLists

\* The same for a key of the mapping, given or left out.
LEMMA MergedKeyIsSequence ==
    ASSUME NEW base, NEW over, IsSequence(base), over = Absent \/ IsMapping(over)
    PROVE  IsSequence(MergedKey(base, over))
<1>1. over # Absent => IsSequence(over)
  BY DEF IsMapping, IsSequence
<1> QED BY <1>1, MergedIsSequence DEF MergedKey

\* An entry that a mapping has under a name is found there.
LEMMA GetsOne ==
    ASSUME NEW map, NEW name \in Names(map)
    PROVE  \E i \in DOMAIN map : Get(map, name) = map[i] /\ map[i].name = name
<1>1. \E i \in DOMAIN map : map[i].name = name
  BY DEF Names
<1> QED BY <1>1 DEF Get

\* The entries of a mapping have three fields.
LEMMA EntriesHaveFields ==
    ASSUME NEW map, IsMapping(map), NEW i \in DOMAIN map
    PROVE  DOMAIN map[i] = {"name", "workflow", "providers"}
<1>1. map[i] = [name |-> map[i].name, workflow |-> map[i].workflow, providers |-> map[i].providers]
  BY DEF IsMapping
<1> QED BY <1>1

\* A file that leaves a recorder in its place leaves it in the merged roles.
LEMMA MergedRolesKeepRecorder ==
    ASSUME NEW base, NEW file, NEW recorder, IsSequence(base),
           file.roles = Absent \/ IsMapping(file.roles),
           KeepsRecorder(file, recorder), Records(base, recorder)
    PROVE  Records(MergedKey(base, file.roles), recorder)
<1> DEFINE over == file.roles
<1>1. PICK i \in DOMAIN base : IsRecorder(base[i], recorder)
  BY DEF Records
<1>2. CASE over = Absent
  BY <1>2 DEF MergedKey
<1>3. CASE over # Absent
  <2>1. IsMapping(over) /\ over # << >> /\ IsSequence(over)
    BY <1>3 DEF IsMapping, IsSequence, KeepsRecorder
  <2>2. MergedKey(base, over) = MergedMap(base, over)
    BY <1>3, <2>1 DEF MergedKey
  <2>3. i \in DOMAIN MergedMap(base, over) /\ MergedMap(base, over)[i] = MergedEntry(base[i], over)
    BY <2>1, MergedIsSequence
  <2>4. IsRecorder(MergedEntry(base[i], over), recorder)
    <3>1. CASE recorder \in Names(over)
      <4>1. PICK k \in DOMAIN over : Get(over, recorder) = over[k] /\ over[k].name = recorder
        BY <3>1, GetsOne
      <4> DEFINE entry == over[k]
                 w == Given(entry.workflow, "learning")
                 p == Given(entry.providers, base[i].providers)
      <4>2. DOMAIN entry = {"name", "workflow", "providers"}
        BY <2>1, EntriesHaveFields
      <4>3. w = "learning"
        BY <1>3, <4>1 DEF KeepsRecorder, Given
      <4>4. MergedEntry(base[i], over) = [entry EXCEPT !.workflow = w, !.providers = p]
        BY <1>1, <3>1, <4>1 DEF MergedEntry, IsRecorder
      <4>5. entry.name = recorder
        BY <4>1
      <4> HIDE DEF entry, w, p
      <4> QED BY <4>2, <4>3, <4>4, <4>5 DEF IsRecorder
    <3>2. CASE recorder \notin Names(over)
      <4>1. MergedEntry(base[i], over) = base[i]
        BY <1>1, <3>2 DEF MergedEntry, IsRecorder
      <4> QED BY <1>1, <4>1
    <3> QED BY <3>1, <3>2
  <2> QED BY <2>2, <2>3, <2>4 DEF Records
<1> QED BY <1>2, <1>3

\* Default values keep the positions, names and workflows of the entries.
LEMMA FilledKeeps ==
    ASSUME NEW map, IsSequence(map)
    PROVE  /\ IsSequence(Filled(map)) /\ DOMAIN Filled(map) = DOMAIN map
           /\ IsMapping(map) => \A i \in DOMAIN map :
                  /\ Filled(map)[i].name = map[i].name
                  /\ Filled(map)[i].workflow = map[i].workflow
                  /\ Filled(map)[i].providers = Given(map[i].providers, {})
<1>1. Len(map) \in Nat /\ DOMAIN map = 1..Len(map)
  BY SequencesAreLists DEF IsSequence
<1>2. DOMAIN Filled(map) = DOMAIN map
  BY DEF Filled
<1>3. IsSequence(Filled(map))
  <2>1. Filled(map) = [i \in 1..Len(map) |-> Filled(map)[i]]
    BY <1>1 DEF Filled
  <2> QED BY <1>1, <2>1, ListsAreSequences
<1>4. ASSUME IsMapping(map), NEW i \in DOMAIN map
      PROVE  /\ Filled(map)[i].name = map[i].name
             /\ Filled(map)[i].workflow = map[i].workflow
             /\ Filled(map)[i].providers = Given(map[i].providers, {})
  <2>1. Filled(map)[i] = [map[i] EXCEPT !.providers = Given(map[i].providers, {})]
    BY <1>4 DEF Filled
  <2>2. DOMAIN map[i] = {"name", "workflow", "providers"}
    BY <1>4, EntriesHaveFields
  <2> QED BY <2>1, <2>2
<1> QED BY <1>2, <1>3, <1>4

\* They leave a recorder of lessons where it is, too.
LEMMA FilledKeepsRecorder ==
    ASSUME NEW map, NEW recorder, Records(map, recorder)
    PROVE  Records(Filled(map), recorder) /\ map # << >>
<1>1. PICK i \in DOMAIN map : IsRecorder(map[i], recorder)
  BY DEF Records
<1>2. /\ i \in DOMAIN Filled(map)
      /\ Filled(map)[i] = [map[i] EXCEPT !.providers = Given(map[i].providers, {})]
  BY DEF Filled
<1>3. IsRecorder(Filled(map)[i], recorder)
  BY <1>1, <1>2 DEF IsRecorder
<1> QED BY <1>2, <1>3 DEF Records

\* Of a list there is a first entry for a workflow, if there is one at all.
LEMMA FirstIsNamed ==
    ASSUME NEW map, IsSequence(map), NEW w, NamesFor(map, w) # {}
    PROVE  First(map, w).name \in NamesFor(map, w)
<1>1. Positions(map, w) \subseteq Nat /\ Positions(map, w) # {}
  BY SequencesAreLists DEF IsSequence, Positions, NamesFor
<1>2. \E i \in Positions(map, w) : \A j \in Positions(map, w) : i <= j
  <2> DEFINE R == OpToRel(<, Nat)
             P == Positions(map, w)
  <2>1. IsWellFoundedOn(R, Nat)
    BY NatLessThanWellFounded
  <2>2. \A x, y \in Nat : <<x, y>> \in R <=> x < y
    BY DEF OpToRel
  <2>3. P \subseteq Nat /\ P # {}
    BY <1>1
  <2> HIDE DEF R, P
  <2>4. PICK i \in P : \A j \in P : ~(<<j, i>> \in R)
    BY <2>1, <2>3, WFMin
  <2>5. \A j \in P : ~(j < i)
    BY <2>2, <2>3, <2>4
  <2>6. \A j \in P : i <= j
    BY <2>3, <2>4, <2>5
  <2> QED BY <2>4, <2>6 DEF P
<1>3. First(map, w) \in {map[i] : i \in Positions(map, w)}
  BY <1>2 DEF First
<1> QED BY <1>3 DEF NamesFor

\* As many workflows as agents: no two agents have the same one.
LEMMA WorkflowsAreDistinct ==
    ASSUME IsSequence(settings.agents), OneAgentEach,
           NEW i \in DOMAIN settings.agents, NEW j \in DOMAIN settings.agents,
           settings.agents[i].workflow = settings.agents[j].workflow
    PROVE  i = j
<1> DEFINE f == [k \in 1..Len(settings.agents) |-> settings.agents[k].workflow]
<1>1. Len(settings.agents) \in Nat /\ DOMAIN settings.agents = 1..Len(settings.agents)
  BY SequencesAreLists DEF IsSequence
<1>2. IsFiniteSet(1..Len(settings.agents)) /\ Cardinality(1..Len(settings.agents)) = Len(settings.agents)
  <2>1. ASSUME NEW n \in Nat PROVE IsFiniteSet(1..n) /\ Cardinality(1..n) = n
    <3>1. Cardinality(1..n) = IF 1 > n THEN 0 ELSE n - 1 + 1
      BY FS_Interval
    <3> QED BY <3>1, FS_Interval
  <2> QED BY <1>1, <2>1
<1>3. f \in Surjection(1..Len(settings.agents), Available)
  BY <1>1 DEF Surjection, Available
<1>4. f \in Injection(1..Len(settings.agents), Available)
  BY <1>2, <1>3, FS_SurjSameCardinalityImpliesInj DEF OneAgentEach
<1>5. f[i] = f[j] /\ i \in 1..Len(settings.agents) /\ j \in 1..Len(settings.agents)
  BY <1>1
<1> HIDE DEF f
<1> QED BY <1>4, <1>5 DEF Injection, IsInjective

-----------------------------------------------------------------------------
(* The invariant.                                                          *)

\* Every step preserves it.
LEMMA SettingsInvStep == SettingsInv /\ [Next]_vars => SettingsInv'
<1> SUFFICES ASSUME SettingsInv, [Next]_vars PROVE SettingsInv'
  OBVIOUS
<1>0. /\ explicit \in ExplicitFiles /\ local \in LocalFiles /\ DOMAIN settings = Keys
      /\ IsSequence(settings.agents) /\ IsSequence(settings.roles)
  BY DEF SettingsInv
<1>1. CASE MergeLocal
  <2>1. /\ DOMAIN settings' = Keys /\ step' = "override" /\ explicit' = explicit /\ local' = local
        /\ settings'.agents = MergedKey(settings.agents, local.agents)
        /\ settings'.roles = MergedKey(settings.roles, local.roles)
    BY <1>0, <1>1 DEF MergeLocal, Keys
  <2>2. IsSequence(settings'.agents) /\ IsSequence(settings'.roles)
    BY <1>0, <2>1, MergedKeyIsSequence
  <2>3. RecordersStay'
    BY <1>0, <1>1, <2>1, MergedRolesKeepRecorder DEF SettingsInv, RecordersStay, MergeLocal
  <2> QED BY <1>0, <2>1, <2>2, <2>3 DEF SettingsInv, IsSequence
<1>2. CASE MergeExplicit
  <2>1. /\ DOMAIN settings' = Keys /\ step' = "populate" /\ explicit' = explicit /\ local' = local
        /\ settings'.agents = Given(explicit.agents, settings.agents)
        /\ settings'.roles = MergedKey(settings.roles, explicit.roles)
    BY <1>0, <1>2 DEF MergeExplicit, ReplacedKey, Keys
  <2>2. IsSequence(settings'.roles)
    BY <1>0, <2>1, MergedKeyIsSequence
  <2>3. IsSequence(settings'.agents)
    <3>1. explicit.agents # Absent => IsMapping(explicit.agents)
      BY <1>0
    <3>2. explicit.agents # Absent => IsSequence(explicit.agents)
      BY <3>1 DEF IsMapping, IsSequence
    <3>3. \/ settings'.agents = explicit.agents /\ explicit.agents # Absent
          \/ settings'.agents = settings.agents
      BY <2>1 DEF Given
    <3> QED BY <1>0, <3>2, <3>3
  <2>4. explicit.agents # Absent /\ explicit.roles = << >> =>
            settings'.agents = explicit.agents /\ settings'.roles = << >>
    BY <2>1 DEF Given, MergedKey
  <2>5. RecordersStay'
    BY <1>0, <1>2, <2>1, MergedRolesKeepRecorder DEF SettingsInv, RecordersStay, MergeExplicit
  <2> QED BY <1>0, <2>1, <2>2, <2>3, <2>4, <2>5 DEF SettingsInv, IsSequence
<1>3. CASE PopulateRoles
  <2>1. /\ DOMAIN settings' = Keys /\ step = "populate" /\ step' = "validate"
        /\ explicit' = explicit /\ local' = local
        /\ settings'.agents = Filled(settings.agents)
        /\ settings'.roles = Filled(IF settings.roles = << >> THEN settings.agents ELSE settings.roles)
    BY <1>0, <1>3 DEF PopulateRoles, Keys
  <2>2. IsSequence(settings'.agents) /\ IsSequence(settings'.roles)
    BY <1>0, <2>1, FilledKeeps
  <2>3. explicit.agents # Absent /\ explicit.roles = << >> =>
            settings'.agents = Filled(explicit.agents) /\ settings'.roles = Filled(explicit.agents)
    BY <2>1 DEF SettingsInv
  <2>4. RecordersStay'
    BY <2>1, FilledKeepsRecorder DEF SettingsInv, RecordersStay
  <2> QED BY <1>0, <2>1, <2>2, <2>3, <2>4 DEF SettingsInv, IsSequence
<1>4. CASE Validate
  <2>1. /\ settings' = settings /\ explicit' = explicit /\ local' = local /\ step = "validate"
        /\ step' \in {"accepted", "rejected"}
        /\ step' = "accepted" => DefaultsExist /\ ProvidersAreKnown /\ OneAgentEach /\ StagesAreConfigured
    BY <1>4 DEF Validate
  <2>2. step' = "accepted" => (DefaultsExist /\ ProvidersAreKnown /\ OneAgentEach /\ StagesAreConfigured)'
    BY <2>1 DEF DefaultsExist, ProvidersAreKnown, OneAgentEach, StagesAreConfigured, Available
  <2>3. RecordersStay'
    BY <2>1 DEF SettingsInv, RecordersStay
  <2> QED BY <1>0, <2>1, <2>2, <2>3 DEF SettingsInv, IsSequence
<1>5. CASE UNCHANGED vars
  BY <1>5 DEF vars, SettingsInv, RecordersStay, IsSequence, DefaultsExist, ProvidersAreKnown, OneAgentEach,
              StagesAreConfigured, Available
<1> QED BY <1>1, <1>2, <1>3, <1>4, <1>5 DEF Next

\* The inductive invariant of load_runtime_settings() and the validation.
THEOREM SettingsInvariant == Spec => []SettingsInv
<1>1. Init => SettingsInv
  <2>1. Init => RecordersStay
    BY DEF Init, RecordersStay, Records, IsRecorder, IsMapping, NamesFor, Positions
  <2> QED BY <2>1 DEF Init, SettingsInv, Keys, IsMapping, IsSequence
<1> QED BY <1>1, SettingsInvStep, PTL DEF Spec

-----------------------------------------------------------------------------
(* The theorems.                                                           *)

\* Somebody of a workflow that an agent or a role has is found for it.
LEMMA ResolvedIsStaffed ==
    ASSUME NEW w, NEW preferred, IsSequence(settings.agents), IsSequence(settings.roles),
           w \in Available \/ NamesFor(settings.roles, w) # {}
    PROVE  Staffed(w, preferred)
<1>1. NamesFor(settings.roles, w) # {} \/ NamesFor(settings.agents, w) # {}
  BY DEF Available, NamesFor, Positions
<1> QED BY <1>1, FirstIsNamed DEF Staffed, ResolveAgent

\* The lesson, which the validation forgets, has somebody if it is provided for.
LEMMA LessonsHaveARecorder ==
    ASSUME SettingsInv, step = "accepted", LessonsAreProvidedFor
    PROVE  "learning" \in Available \/ NamesFor(settings.roles, "learning") # {}
<1>1. ASSUME NEW recorder \in NamesFor(Defaults.roles, "learning"),
             KeepsRecorder(local, recorder), KeepsRecorder(explicit, recorder)
      PROVE  NamesFor(settings.roles, "learning") # {}
  <2>1. Records(settings.roles, recorder)
    BY <1>1 DEF SettingsInv, RecordersStay
  <2> QED BY <2>1 DEF Records, IsRecorder, NamesFor, Positions
<1> QED BY <1>1 DEF LessonsAreProvidedFor

\* Accepted settings have somebody for every stage of every run, the lesson included if
\* the files provide for it, and no stage asks an unknown provider that no role names.
THEOREM AcceptedSettingsStaffRuns == Spec => []AcceptedRunsAreStaffed
<1>1. SettingsInv => AcceptedRunsAreStaffed
  <2> SUFFICES ASSUME SettingsInv, step = "accepted", NEW i \in DOMAIN settings.agents
               PROVE  LET agent == settings.agents[i]
                      IN  /\ \A w \in Stages(agent.workflow) :
                                 w # "learning" \/ LessonsAreProvidedFor => Staffed(w, agent.name)
                          /\ \/ \E r \in DOMAIN settings.roles :
                                    ~ settings.roles[r].providers \subseteq settings.providers
                             \/ \A name \in Called(agent) :
                                    ResolveProviders(name) \subseteq settings.providers
    BY DEF AcceptedRunsAreStaffed
  <2> DEFINE agent == settings.agents[i]
  <2>0. /\ IsSequence(settings.agents) /\ IsSequence(settings.roles)
        /\ DefaultsExist /\ ProvidersAreKnown /\ StagesAreConfigured
    BY DEF SettingsInv
  <2>1. ASSUME NEW w \in Stages(agent.workflow), w # "learning" \/ LessonsAreProvidedFor
        PROVE  Staffed(w, agent.name)
    <3>1. CASE w = "learning"
      BY <2>0, <2>1, <3>1, LessonsHaveARecorder, ResolvedIsStaffed
    <3>2. CASE w # "learning"
      <4>1. agent.workflow \in Available
        BY DEF Available
      <4>2. w \in Available
        BY <2>0, <2>1, <3>2, <4>1 DEF Stages, MultiStage, StagesAreConfigured
      <4> QED BY <2>0, <4>2, ResolvedIsStaffed
    <3> QED BY <3>1, <3>2
  <2>2. ASSUME \A r \in DOMAIN settings.roles : settings.roles[r].providers \subseteq settings.providers,
               NEW name
        PROVE  ResolveProviders(name) \subseteq settings.providers
    <3>1. Listed(settings.roles, name) \subseteq settings.providers
      BY <2>2, GetsOne DEF Listed
    <3>2. Listed(settings.agents, name) \subseteq settings.providers
      BY <2>0, GetsOne DEF Listed, ProvidersAreKnown
    <3>3. settings.default_provider \in settings.providers
      BY <2>0 DEF DefaultsExist
    <3> QED BY <3>1, <3>2, <3>3 DEF ResolveProviders
  <2> QED BY <2>1, <2>2
<1> QED BY <1>1, SettingsInvariant, PTL

\* Agents of an explicit file that empties the roles do the work of their workflow,
\* with their own providers or the default one.
THEOREM AgentsOfExplicitFilesServe == Spec => []ExplicitAgentsServe
<1>1. SettingsInv => ExplicitAgentsServe
  <2> SUFFICES ASSUME SettingsInv, step = "accepted", explicit.agents # Absent, explicit.roles = << >>,
                      NEW i \in DOMAIN explicit.agents
               PROVE  LET own == explicit.agents[i]
                          listed == Given(own.providers, {})
                      IN  /\ ResolveAgent(own.workflow, Nobody) = own.name
                          /\ ResolveProviders(own.name) =
                                 IF listed = {} THEN {settings.default_provider} ELSE listed
    BY DEF ExplicitAgentsServe
  <2> DEFINE own == explicit.agents[i]
             map == Filled(explicit.agents)
  <2>0. /\ settings.agents = map /\ settings.roles = map /\ IsSequence(settings.agents) /\ OneAgentEach
        /\ IsMapping(explicit.agents)
    BY DEF SettingsInv
  <2>1. /\ DOMAIN map = DOMAIN explicit.agents
        /\ \A k \in DOMAIN explicit.agents :
               /\ map[k].name = explicit.agents[k].name /\ map[k].workflow = explicit.agents[k].workflow
               /\ map[k].providers = Given(explicit.agents[k].providers, {})
    <3>1. IsSequence(explicit.agents)
      BY <2>0 DEF IsMapping, IsSequence
    <3> QED BY <2>0, <3>1, FilledKeeps
  <2> HIDE DEF map
  <2>2. Positions(map, own.workflow) = {i}
    BY <2>0, <2>1, WorkflowsAreDistinct DEF Positions
  <2>3. i \in Nat
    BY <2>0, <2>1, SequencesAreLists DEF IsSequence
  <2>4. First(map, own.workflow) = map[i] /\ NamesFor(map, own.workflow) = {own.name}
    BY <2>1, <2>2, <2>3 DEF First, NamesFor
  <2>5. ResolveAgent(own.workflow, Nobody) = own.name
    BY <2>0, <2>1, <2>4 DEF ResolveAgent
  <2>6. own.name \in Names(map)
    BY <2>1 DEF Names
  <2>7. Get(map, own.name) = map[i]
    <3>1. PICK k \in DOMAIN map : Get(map, own.name) = map[k] /\ map[k].name = own.name
      BY <2>6, GetsOne
    <3>2. k = i
      BY <2>0, <2>1, <3>1 DEF IsMapping
    <3> QED BY <3>1, <3>2
  <2>8. Listed(map, own.name) = Given(own.providers, {})
    BY <2>1, <2>6, <2>7 DEF Listed
  <2>9. ResolveProviders(own.name) =
            IF Given(own.providers, {}) = {} THEN {settings.default_provider} ELSE Given(own.providers, {})
    BY <2>0, <2>8 DEF ResolveProviders
  <2> QED BY <2>5, <2>9
<1> QED BY <1>1, SettingsInvariant, PTL
=============================================================================
