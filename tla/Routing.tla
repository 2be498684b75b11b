------------------------------- MODULE Routing -------------------------------
(***************************************************************************)
(* The model ids of the gateway (openai/server.go): the inventory of          *)
(* "agent/model" ids it is configured with or has discovered, the public ids *)
(* it lists for them, and the way back from a public id to an agent.        *)
(* An id is its text split at the slashes; mark says that it ends in a       *)
(* bracket, as in opus[1m].  White space and letter case are left out.      *)
(***************************************************************************)
EXTENDS Naturals, Sequences, SequencesExt

Id(path, mark) == [path |-> path, mark |-> mark]
Slashed(m) == Len(m.path) > 1

\* splitInternalModelID: up to the first slash the agent, beyond it the model.
Internal(m) == Slashed(m) /\ m.path[1] # "" /\ Tail(m.path) # <<"">>
ModelPart(m) == IF Internal(m) THEN [m EXCEPT !.path = Tail(@)] ELSE m

\* cleanInternalModelName
Clean(m) == [m EXCEPT !.mark = FALSE]

\* claudePublicModelID: the short names stand for a version each.
Family == [opus |-> "claude-opus-4-8", sonnet |-> "claude-sonnet-4-6",
           haiku |-> "claude-haiku-4-5-20251001"]
Versions == {Family[f] : f \in DOMAIN Family} \cup {"claude-haiku-4-5", "claude-next"}
ClaudePublic(name) ==
    LET of == {f \in DOMAIN Family : name.path = <<f>>}
        stands == IF name.path = <<"claude-haiku-4-5">> THEN {"haiku"} ELSE of
    IN  IF stands # {} THEN {Id(<<Family[f]>>, FALSE) : f \in stands}
        ELSE IF name.path[1] \in Versions THEN {name} ELSE {}

\* publicModelID: the id shown for an internal one, if any.
Public(m) ==
    LET name == Clean(ModelPart(m)) IN
    IF name.path \in {<<"">>, <<"default">>} THEN {}
    ELSE IF Internal(m) /\ m.path[1] = "claude" THEN ClaudePublic(name) ELSE {name}

\* uniqueStrings keeps the first of equal ids.
Keep(r, m) == IF m \in ToSet(r) THEN r ELSE Append(r, m)
Unique(s) ==
    LET kept[n \in 0..Len(s)] == IF n = 0 THEN <<>> ELSE Keep(kept[n - 1], s[n])
    IN  kept[Len(s)]

\* modelIDsFromMetadata: the choices of a model option count for an agent that
\* lists no models.
Offered(agent) == IF agent.models # <<>> THEN Unique(agent.models) ELSE Unique(agent.choices)

Qualify(agent, m) == [m EXCEPT !.path = <<agent>> \o @]
OffersOf(agent) == [i \in DOMAIN Offered(agent) |-> Qualify(agent.id, Offered(agent)[i])]

\* discoverModelIDs asks the agents in their order.
Ask(r, agent) == r \o OffersOf(agent)
Discovered(server) ==
    LET found[a \in 0..Len(server.agents)] ==
          IF a = 0 THEN <<>> ELSE Ask(found[a - 1], server.agents[a])
    IN  IF server.discovers THEN Unique(found[Len(server.agents)]) ELSE <<>>

\* NewServer: without discovery the default agent stands in for a model.
Default(server) == server.agents[1].id
Configured(server) ==
    IF server.models = <<>> /\ ~server.discovers THEN <<Id(<<Default(server)>>, FALSE)>>
    ELSE Unique(server.models)

\* modelsForList; an answer from the cache has no stand-in for an empty list.
ModelsForList(server, cached) ==
    LET all == Unique(Configured(server) \o Discovered(server)) IN
    IF all = <<>> /\ ~cached THEN <<Id(<<Default(server)>>, FALSE)>> ELSE all

\* handleModels, publicModelIDs
Listed(server, cached) == UNION {Public(m) : m \in ToSet(ModelsForList(server, cached))}

\* publicModelMatches
Matches(public, m) ==
    \/ public = m
    \/ public = Id(<<Family["haiku"]>>, FALSE) /\ m = Id(<<"claude-haiku-4-5">>, FALSE)

\* inferAgentForBareModel: by the name, if that agent is one of the server's
\* (or, modelRouteExists, is known to have the model).
Prefers(m) == IF m.path[1] \in Versions \cup {"claude"} THEN "claude"
              ELSE IF m.path[1] = "gpt" THEN "codex" ELSE ""
HasAgent(server, agent) == \E i \in DOMAIN server.agents : server.agents[i].id = agent
RouteExists(server, agent, m) ==
    Qualify(agent, m) \in ToSet(Configured(server)) \cup ToSet(Discovered(server))
Inferred(server, m) ==
    {a \in {Prefers(m)} \ {""} : RouteExists(server, a, m) \/ HasAgent(server, a)}

\* resolvePublicModel: the internal ids that are shown as m; the first is taken.
ShownAs(server, m) ==
    LET all == ModelsForList(server, TRUE) IN
    {i \in DOMAIN all : Internal(all[i]) /\ \E p \in Public(all[i]) : Matches(p, m)}

\* resolveModelRoute: <<agent, model>>
Resolve(server, m) ==
    LET shown == ShownAs(server, m)
        first == ModelsForList(server, TRUE)[Min(shown)]
    IN
    CASE Slashed(m) -> <<m.path[1], [m EXCEPT !.path = Tail(@)]>>
      [] ~Slashed(m) /\ shown # {} -> <<first.path[1], Clean(ModelPart(first))>>
      [] OTHER ->
            IF m \notin ToSet(Configured(server)) /\ Inferred(server, m) # {}
            THEN <<CHOOSE a \in Inferred(server, m) : TRUE, m>> ELSE <<Default(server), m>>

\* internalModelAvailable: brackets do not tell models apart.
\* Mutation: they do.
ToTheLetter(available, m) == m \in ToSet(available)
Available(available, m) ==
    IF ~Internal(m) THEN m \in ToSet(available)
    ELSE \E i \in DOMAIN available : Internal(available[i]) /\ Clean(available[i]) = Clean(m)

\* validateModelRoute: the route of a request is one the inventory has, if there
\* is an inventory.
Accepted(server, m) ==
    LET available == ModelsForList(server, TRUE)
        route == Resolve(server, m)
        canonical == IF Slashed(m) THEN m ELSE Qualify(route[1], route[2])
    IN  \/ ~\E i \in DOMAIN available : Slashed(available[i])
        \/ m \in ToSet(available) \/ Available(available, canonical)
=============================================================================
