--------------------------- MODULE MCAgentSettings ---------------------------
(* Model-checking instance of AgentSettings: the packaged defaults, a few   *)
(* local files, and explicit files that keep, rename or leave out the       *)
(* agents of the pipeline.                                                  *)
EXTENDS AgentSettings

Entry(n, w, p) == [name |-> n, workflow |-> w, providers |-> p]

PackagedAgents ==
    << Entry("planner", "planning", Absent), Entry("architect", "design", Absent),
       Entry("coder", "generate_code", {"secondary"}), Entry("tester", "testing", Absent),
       Entry("reviewer", "review", Absent), Entry("explainer", "explain_code", Absent) >>

PackagedRoles ==
    << Entry("planner", "planning", Absent), Entry("architect", "design", Absent),
       Entry("coder", "generate_code", Absent), Entry("tester", "testing", Absent),
       Entry("reviewer", "review", Absent), Entry("chronicler", "learning", Absent),
       Entry("explainer", "explain_code", Absent) >>

Packaged ==
    [default_agent |-> "coder", default_provider |-> "primary",
     providers |-> {"primary", "secondary"}, agents |-> PackagedAgents, roles |-> PackagedRoles]

\* At most one agent for a workflow: under the packaged name, its own, or none.
Maybe(names, workflow, providers) ==
    {<< Entry(n, workflow, providers) >> : n \in names} \cup {<< >>}

ProviderLists == {Absent, {"primary"}, {"primary", "unknown"}}

AgentLists ==
    {planner \o architect \o coder \o tester \o reviewer \o recorder :
        planner \in Maybe({"planner"}, "planning", Absent),
        architect \in Maybe({"architect", "mine"}, "design", {"secondary"}),
        coder \in UNION {Maybe({"coder", "my coder"}, w, p) :
                             w \in {"generate_code", "debug_code", Absent}, p \in ProviderLists},
        tester \in {<< Entry("tester", "testing", Absent) >>},
        reviewer \in Maybe({"reviewer"}, "review", Absent)
                         \cup {<< Entry("reviewer", w, {"unknown"}) >> : w \in {"review", "design"}},
        recorder \in Maybe({"recorder"}, "learning", Absent)}

RoleLists ==
    {Absent, << >>, << Entry("coder", Absent, {"unknown"}) >>,
     << Entry("chronicler", "explain_code", {"secondary"}) >>,
     << Entry("second coder", "generate_code", {"secondary"}), Entry("debugger", "debug_code", Absent) >>}

Files(agentLists, roleLists, defaultAgents, defaultProviders) ==
    [default_agent : defaultAgents, default_provider : defaultProviders,
     agents : agentLists, roles : roleLists]

SomeLocalFiles ==
    Files({Absent, << Entry("coder", Absent, {"primary"}) >>,
           << Entry("my coder", "generate_code", Absent) >>},
          {Absent, << >>}, {Absent}, {Absent, "secondary", "unknown"})

SomeExplicitFiles ==
    Files(AgentLists \cup {Absent}, RoleLists, {Absent, "my coder"}, {Absent})
=============================================================================
