--------------------------- MODULE AgentSettings ---------------------------
(***************************************************************************)
(* From configuration files to the agent and the providers that serve a    *)
(* stage: load_runtime_settings() merges the packaged defaults, the local  *)
(* file and an explicit file; AppConfig fills in the roles and validates;  *)
(* resolve_agent_name_for_workflow() and resolve_agent_provider_names()    *)
(* answer the pipeline.                                                    *)
(*                                                                         *)
(* A YAML mapping is a sequence of entries with distinct names: the order  *)
(* matters to "the first role with this workflow".  An entry may leave out *)
(* its workflow or its provider list, which is a set, as only membership   *)
(* is asked for.  Settings that do not concern agents, roles and providers *)
(* are left out, and so are workflows that plugins add.                    *)
(*                                                                         *)
(* Definitions directly above another one with the same parameters are     *)
(* faulty variants of it.                                                  *)
(***************************************************************************)
EXTENDS Naturals, Sequences, FiniteSets

CONSTANTS
    LocalFiles, ExplicitFiles,   \* what such a file may say
    Defaults,   \* what the packaged defaults.yaml says, with its providers
    Absent,     \* the key is left out
    Nobody      \* no preferred agent; no agent found

Given(value, otherwise) == IF value = Absent THEN otherwise ELSE value

\* What yaml.safe_load() makes of a mapping.
IsMapping(map) ==
    /\ map \in Seq({map[i] : i \in DOMAIN map})
    /\ \A i \in DOMAIN map :
           map[i] = [name |-> map[i].name, workflow |-> map[i].workflow, providers |-> map[i].providers]
    /\ \A i, j \in DOMAIN map : map[i].name = map[j].name => i = j

ASSUME FilesAssumption ==
    /\ Absent # << >>
    /\ DOMAIN Defaults = {"default_agent", "default_provider", "providers", "agents", "roles"}
    /\ IsMapping(Defaults.agents) /\ IsMapping(Defaults.roles)
    /\ \A file \in LocalFiles \cup ExplicitFiles :
           /\ file.agents = Absent \/ IsMapping(file.agents)
           /\ file.roles = Absent \/ IsMapping(file.roles)

VARIABLES
    local, explicit,   \* the two files
    step,              \* merge, override, populate, validate, accepted, rejected
    settings           \* the mapping so far

vars == <<local, explicit, step, settings>>

-----------------------------------------------------------------------------

Names(map) == {map[i].name : i \in DOMAIN map}
Get(map, name) == map[CHOOSE i \in DOMAIN map : map[i].name = name]

\* The entries at some positions, in their order.
At(map, positions) ==
    [k \in 1..Cardinality(positions) |->
        map[CHOOSE i \in positions : Cardinality({j \in positions : j <= i}) = k]]

\* Where a mapping speaks of a workflow, and what it says first.
Positions(map, workflow) == {i \in DOMAIN map : map[i].workflow = workflow}
First(map, workflow) ==
    map[CHOOSE i \in Positions(map, workflow) : \A j \in Positions(map, workflow) : i <= j]
NamesFor(map, workflow) == {map[i].name : i \in Positions(map, workflow)}

\* An entry of an overriding mapping keeps what it does not give of the entry below.
MergedEntry(entry, over) ==
    IF entry.name \in Names(over)
    THEN [Get(over, entry.name) EXCEPT !.workflow = Given(@, entry.workflow),
                                       !.providers = Given(@, entry.providers)]
    ELSE entry

\* _deep_merge() of two mappings of entries: known names keep their place.
MergedMapReplaced(base, over) == over
MergedMap(base, over) ==
    [i \in DOMAIN base |-> MergedEntry(base[i], over)]
        \o At(over, {i \in DOMAIN over : over[i].name \notin Names(base)})

\* One key of the mapping; `roles: null`, the empty sequence here, replaces.
MergedKey(base, over) ==
    IF over = Absent THEN base ELSE IF over = << >> THEN << >> ELSE MergedMap(base, over)

\* REPLACE_ON_EXPLICIT_OVERRIDE_KEYS
ReplacedKeyMerged(base, over) == MergedKey(base, over)
ReplacedKey(base, over) == Given(over, base)

Init ==
    /\ local \in LocalFiles /\ explicit \in ExplicitFiles
    /\ step = "merge" /\ settings = Defaults

\* The local file over the packaged defaults.
MergeLocal ==
    /\ step = "merge" /\ step' = "override"
    /\ settings' = [settings EXCEPT
           !.default_agent = Given(local.default_agent, @),
           !.default_provider = Given(local.default_provider, @),
           !.agents = MergedKey(@, local.agents),
           !.roles = MergedKey(@, local.roles)]
    /\ UNCHANGED <<local, explicit>>

\* The explicit file over both: its agents replace all others.
MergeExplicit ==
    /\ step = "override" /\ step' = "populate"
    /\ settings' = [settings EXCEPT
           !.default_agent = Given(explicit.default_agent, @),
           !.default_provider = Given(explicit.default_provider, @),
           !.agents = ReplacedKey(@, explicit.agents),
           !.roles = MergedKey(@, explicit.roles)]
    /\ UNCHANGED <<local, explicit>>

\* AppConfig: provider_names that are not given are empty.
Filled(map) == [i \in DOMAIN map |-> [map[i] EXCEPT !.providers = Given(@, {})]]

\* _populate_roles_from_agents(): only when there is no role at all.
PopulateRoles ==
    /\ step = "populate" /\ step' = "validate"
    /\ settings' = [settings EXCEPT
           !.agents = Filled(@),
           !.roles = Filled(IF @ = << >> THEN settings.agents ELSE @)]
    /\ UNCHANGED <<local, explicit>>

\* An entry that was never given a workflow: AgentConfig and RoleConfig require one.
WorkflowsAreGiven ==
    \A map \in {settings.agents, settings.roles} : \A i \in DOMAIN map : map[i].workflow # Absent

UserFacing == {"generate_code", "debug_code", "explain_code"}
Available == {settings.agents[i].workflow : i \in DOMAIN settings.agents}

\* validate_provider_references(), in its order; every failure raises.
DefaultsExist ==
    /\ settings.default_agent \in Names(settings.agents)
    /\ Get(settings.agents, settings.default_agent).workflow \in UserFacing
    /\ settings.default_provider \in settings.providers

ProvidersAreKnownOfDefault ==
    Get(settings.agents, settings.default_agent).providers \subseteq settings.providers
ProvidersAreKnown ==
    \A i \in DOMAIN settings.agents : settings.agents[i].providers \subseteq settings.providers

OneAgentEach == Cardinality(Available) = Len(settings.agents)

StagesAreConfiguredButDesign ==
    /\ "planning" \in Available
    /\ "generate_code" \in Available => {"testing", "review"} \subseteq Available
StagesAreConfigured ==
    /\ "planning" \in Available
    /\ "generate_code" \in Available => {"design", "testing", "review"} \subseteq Available

Validate ==
    /\ step = "validate"
    /\ step' = IF /\ WorkflowsAreGiven /\ DefaultsExist /\ ProvidersAreKnown
                  /\ OneAgentEach /\ StagesAreConfigured
               THEN "accepted" ELSE "rejected"
    /\ UNCHANGED <<local, explicit, settings>>

Next == MergeLocal \/ MergeExplicit \/ PopulateRoles \/ Validate

Spec == Init /\ [][Next]_vars

-----------------------------------------------------------------------------

\* resolve_agent_name_for_workflow(): roles first, and of those the first,
\* preferred or not.
ResolveAgent(workflow, preferred) ==
    IF NamesFor(settings.roles, workflow) # {} THEN First(settings.roles, workflow).name
    ELSE IF preferred \in NamesFor(settings.agents, workflow) THEN preferred
    ELSE IF NamesFor(settings.agents, workflow) # {} THEN First(settings.agents, workflow).name
    ELSE Nobody

\* A mapping's entry for a name; nothing listed when there is none.
Listed(map, name) == IF name \in Names(map) THEN Get(map, name).providers ELSE {}

\* resolve_agent_provider_names()
ResolveProviders(name) ==
    IF Listed(settings.roles, name) # {} THEN Listed(settings.roles, name)
    ELSE IF Listed(settings.agents, name) # {} THEN Listed(settings.agents, name)
    ELSE {settings.default_provider}

\* The agents that a run asks for, by workflow: planning before every run, then the
\* core stages of a multi-stage workflow.  Other runs are left to their own agent.
MultiStage == {"generate_code", "learning"}
Stages(workflow) ==
    {"planning"}
        \cup IF workflow = "generate_code"
             THEN {"design", "generate_code", "testing", "review", "learning"}
             ELSE {workflow} \cap MultiStage

\* Whose providers are called in a run of this agent.
Called(agent) ==
    {ResolveAgent(w, agent.name) : w \in Stages(agent.workflow)}
        \cup IF agent.workflow \in MultiStage THEN {} ELSE {agent.name}

-----------------------------------------------------------------------------

\* Somebody of that workflow is found, instead of ConfigWorkflowNotFoundError.
Staffed(workflow, preferred) ==
    ResolveAgent(workflow, preferred)
        \in NamesFor(settings.roles, workflow) \cup NamesFor(settings.agents, workflow)

\* A file leaves the role of this name, which records lessons, in its place.
KeepsRecorder(file, name) ==
    /\ file.roles # << >>
    /\ file.roles # Absent =>
           \A i \in DOMAIN file.roles :
               file.roles[i].name = name => file.roles[i].workflow \in {Absent, "learning"}

\* Nothing in the validation asks for somebody who records lessons.  There is one if an
\* agent has that workflow, or if no file empties the roles or gives the packaged
\* recorder another workflow.
LessonsAreProvidedFor ==
    \/ "learning" \in Available
    \/ \E recorder \in NamesFor(Defaults.roles, "learning") :
           KeepsRecorder(local, recorder) /\ KeepsRecorder(explicit, recorder)

\* Whatever the files, accepted settings have somebody for every stage of every run,
\* with one exception: the lesson at the end, unless it is provided for.  No stage calls
\* an unknown provider, as long as the roles, whose lists are never validated, name none.
AcceptedRunsAreStaffed ==
    step = "accepted" =>
        \A i \in DOMAIN settings.agents :
            LET agent == settings.agents[i]
            IN  /\ \A w \in Stages(agent.workflow) :
                       w # "learning" \/ LessonsAreProvidedFor => Staffed(w, agent.name)
                /\ \/ \E r \in DOMAIN settings.roles :
                          ~ settings.roles[r].providers \subseteq settings.providers
                   \/ \A name \in Called(agent) : ResolveProviders(name) \subseteq settings.providers

\* Where no role stands before them, the agents of an explicit file do the work
\* with the providers given there, or the default one: nothing that the
\* defaults say of an agent of the same name is left.
ExplicitAgentsServe ==
    step = "accepted" /\ explicit.agents # Absent /\ explicit.roles = << >> =>
        \A i \in DOMAIN explicit.agents :
            LET own == explicit.agents[i]
                listed == Given(own.providers, {})
            IN  /\ ResolveAgent(own.workflow, Nobody) = own.name
                /\ ResolveProviders(own.name) =
                       IF listed = {} THEN {settings.default_provider} ELSE listed
=============================================================================
