-------------------------------- MODULE Inputs --------------------------------
(***************************************************************************)
(* The pure algorithms against their references, on every input of a bounded  *)
(* length built one unit at a time: a line of tokens, of characters or of     *)
(* digits, a method name, the blocks of a prompt, the events of a CLI, the    *)
(* settings of a host, the steps of a launch, the answers of an agent, the    *)
(* models of a gateway.                                                      *)
(***************************************************************************)
EXTENDS Codec, Translation, SpawnOptions, InitialConfig, Routing

CONSTANT Longest   \* kind of input -> the longest one enumerated

VARIABLES kind, line

\* What a host writes into the metadata of a session, ...
HostMeta == [replace |-> When(TRUE, "systemPrompt", Val(<<"p">>)),
             append |-> When(TRUE, "appendSystemPrompt", Val(<<"q">>)),
             blank |-> When(TRUE, "systemPrompt", Val(<<>>)),
             number |-> When(TRUE, "appendSystemPrompt", [num |-> 1]),
             model |-> When(TRUE, "model", Val("host")),
             tools |-> When(TRUE, "claudeCode", Obj(When(TRUE, "options",
                              Obj(When(TRUE, "disallowedTools", Val(<<"host">>)))))),
             flat |-> When(TRUE, "claudeCode", [num |-> 1])]
\* ... into AgentConfig, ...
HostConfig == [plain |-> [set |-> TRUE],
               cfgmodel |-> [set |-> TRUE, model |-> "cfg"],
               sandbox |-> [set |-> TRUE, sandbox |-> "read"],
               cfgtools |-> [set |-> TRUE, disallowed |-> <<"cfg">>],
               deny |-> [set |-> TRUE, deny |-> <<"/x">>],
               extra |-> [set |-> TRUE, extra |-> When(TRUE, "provider", Val(<<"zai">>))],
               leak |-> [set |-> TRUE, extra |-> When(TRUE, "systemPrompt", Val(<<"x">>))]]
\* ... and into the agent it launches.
HostAgent == [flags |-> [args |-> <<"run", "--system-prompt", "old">>],
              joined |-> [args |-> <<"--system-prompt=text", "run", "--append-system-prompt">>],
              json |-> [codex |-> Obj([instructions |-> Val(<<"i">>), developer_instructions |-> Val(<<"d">>),
                                       model |-> Val("env"), provider |-> Val("env")])],
              corrupt |-> [codex |-> [corrupt |-> 1]]]

Blocks == {Block("text", {"text"}), Block("text", {}), Block("resource_link", {"uri"}), Block("audio", {"data"})}
          \cup {Block("image", has) : has \in SUBSET {"data", "mime", "uri"}}
          \cup {Block("resource", has) : has \in {{}, {"json"}} \cup {{"json"} \cup h : h \in SUBSET {"text", "uri"}}}

CodexEvents == {<<"begin">>, <<"end">>, <<"reasoning">>, <<"usage">>}
               \cup ({"delta", "message", "started", "completed"} \X {"a", "b"})
ClaudeEvents == {<<"init">>, <<"text">>, <<"thinking">>, <<"tool_use", "">>, <<"tool_result", "">>}
                \cup ({"tool_use", "TodoWrite", "TodoWrite undecodable", "tool_result"} \X {"t", "u"})

Makings == {<<"new">>, <<"new", "meta">>, <<"load">>, <<"fork">>}
SpawnSteps == {<<"set", "model", "m1">>, <<"set", "model", "m2">>, <<"set", "mode", "plan">>,
               <<"set", "mode", "bypassPermissions">>, <<"set", "effort", "high">>,
               <<"build">>, <<"spawned">>, <<"fails">>}

\* The models of a gateway: configured ones, and what its agents offer.
Bare == [path : {<<"gpt">>, <<"opus">>}, mark : BOOLEAN]
Names == [path : {<<"default">>, <<"claude-next">>, <<"haiku">>, <<"org", "gpt">>}, mark : {FALSE}] \cup Bare
Configurable == Bare \cup [path : {<<"codex", "gpt">>, <<"codex", "">>}, mark : {FALSE}]
ModelUnits ==
    ({"configured"} \X Configurable)
    \cup ({"models"} \X {"claude", "codex", "other"} \X Names)
    \cup ({"choices"} \X {"claude", "codex"} \X Bare)

Alphabet == [json   |-> {"{", "}", "[", "]", ":", ",", "s", "m", "e", "u", "n", "sp"},
             string |-> {"q", "b", "u", "h", "e", "/", "c", "p"},
             number |-> {"-", "0", "d", ".", "e", "+"},
             id     |-> DOMAIN Digit \cup {"q", "x"},
             method |-> {"p", "q", "e", "v", "c", "w"},
             blocks |-> Blocks,
             codex  |-> CodexEvents,
             claude |-> ClaudeEvents,
             start  |-> DOMAIN HostMeta \cup DOMAIN HostConfig \cup DOMAIN HostAgent,
             spawn  |-> Makings \cup SpawnSteps,
             config |-> Answers,
             models |-> ModelUnits]

\* A launch begins with the making of its session; every setting is made once.
Follows(u) ==
    CASE kind = "spawn" -> u \in Makings <=> line = <<>>
      [] kind = "start" -> u \notin ToSet(line)
      [] OTHER -> TRUE

Init == kind \in DOMAIN Alphabet /\ line = <<>>

Extend == /\ Len(line) < Longest[kind]
          /\ \E u \in Alphabet[kind] : Follows(u) /\ line' = Append(line, u)
          /\ UNCHANGED kind

Spec == Init /\ [][Extend]_<<kind, line>>

-----------------------------------------------------------------------------
(* The scanner that skips a value without decoding it ends where RFC 8259     *)
(* says the value ends, for every bracketing up to the nesting limit: it      *)
(* neither takes more of the line nor refuses one that is well formed.       *)
ScansExactlyJSON ==
    kind = "json" =>
        LET v == ScanValue(line, 1) IN
        (v # 0 /\ Skip(line, v) = Len(line) + 1) <=> IsJSON(line)

(* parseRPCMessage takes exactly the lines that are one JSON object, alone on *)
(* the line, whose method is a string and whose error decodes, with no escape  *)
(* in a key or in the method that strconv refuses: what a full decode takes   *)
(* but for the escapes it knows and strconv does not (741-746, 852-861).     *)
ParsesExactlyMessages ==
    kind = "json" => (ParseMessage(line) <=> IsMessage(line) /\ MembersDecode(line))

(* scanJSONString and isValidJSONNumber take exactly the strings and numbers  *)
(* of RFC 8259, an escape or an exponent cut off by the end included.        *)
LeavesExact ==
    /\ kind = "string" => (ScanString(line) = Len(line) + 1 <=> IsString(line))
    /\ kind = "number" => (ScanNumber(line) <=> IsNumber(line))

(* An id is its value, up to the largest int64 and not one beyond: a wrapped   *)
(* id would answer the call of another.                                      *)
IDsExact == kind = "id" => ParseID(line) = IDValue(line)

\* What a peer sends: a call, a notification, a result or an error.
Messages(m) ==
    IF m = <<>>
    THEN [id : {<<"i">>}, method : {m}, params : {<<>>}, result : {<<"r">>}, error : {<<>>}]
         \cup [id : {<<>>, <<"i">>}, method : {m}, params : {<<>>}, result : {<<>>}, error : {<<"e">>}]
    ELSE [id : {<<>>, <<"i">>}, method : {m}, params : {<<>>, <<"p">>}, result : {<<>>}, error : {<<>>}]

(* Whatever shape appendRPCMessage picks, the reader finds the message that    *)
(* was sent, unless its method has a character AppendQuote writes as \x or   *)
(* \U: then, and only then, the other side cannot read the line.            *)
RoundTrip ==
    kind = "method" =>
        /\ \A msg \in Messages(line) : Read(AppendMessage(msg)) = msg
        /\ Readable(line) <=> \A i \in DOMAIN line : line[i] \notin {"c", "w"}

(* The hand-written codec takes what a full decode would take, no more and no  *)
(* less, and reads back what it writes.                                      *)
CodecExact == ScansExactlyJSON /\ ParsesExactlyMessages /\ LeavesExact /\ IDsExact /\ RoundTrip

-----------------------------------------------------------------------------
Modality(item) == IF item.as = "text" THEN "text" ELSE "image"
Richest(b) ==
    CASE b.type \in {"text", "resource"} /\ "text" \in b.has -> "text"
      [] b.type = "image" -> IF "data" \in b.has THEN "data" ELSE "uri"
      [] OTHER -> "link"
Carried(b) ==
    CASE b.type = "text" -> "text" \in b.has
      [] b.type = "image" -> b.has \cap {"data", "uri"} # {}
      [] b.type = "resource" -> b.has \cap {"text", "uri"} # {}
      [] OTHER -> b.type = "resource_link"

\* The blocks of the prompt that are.
Carry(kept, b) == IF Carried(b) THEN Append(kept, b) ELSE kept
CarriedBlocks ==
    LET kept[n \in 0..Len(line)] == IF n = 0 THEN <<>> ELSE Carry(kept[n - 1], line[n])
    IN  kept[Len(line)]

(* Both engines are given the same prompt: every block that has a content, but *)
(* for audio, once, in order, by its richest field.                          *)
PromptsAgree ==
    kind = "blocks" =>
        LET codex == CodexInput(line)
            claude == ClaudeContent(line)
            kept == CarriedBlocks
        IN  /\ Len(codex) = Len(kept) /\ Len(claude) = Len(kept)
            /\ \A i \in DOMAIN kept :
                /\ Modality(codex[i]) = Modality(claude[i]) /\ codex[i].mime = claude[i].mime
                /\ codex[i].of = Richest(kept[i]) /\ claude[i].of = Richest(kept[i])

Events(e) == {i \in DOMAIN line : line[i] = e}
Count(out, u) == Cardinality({i \in DOMAIN out : out[i] = u})
Latest(s) == IF s = {} THEN 0 ELSE CHOOSE i \in s : \A j \in s : j <= i
\* The prompt that was live at an event, 0 if none was: of those that overlap the
\* first, for the others are refused.
LiveAt(i) == {j \in Events(<<"begin">>) : j < i /\ ~\E k \in Events(<<"end">>) : j < k /\ k < i}
PromptAt(i) == IF LiveAt(i) = {} THEN 0 ELSE Min(LiveAt(i))
\* The last prompt that was not refused, live or not.
PromptOf(i) == Latest({j \in Events(<<"begin">>) : j < i /\ PromptAt(j) = 0})

\* The text of an item whose events all come after one prompt and before the next,
\* the late ones too, is streamed once, in deltas or else whole, never both.
StreamedOnce(id, out) ==
    LET deltas == Events(<<"delta", id>>)
        whole == Events(<<"message", id>>)
    IN  (\E p \in Events(<<"begin">>) : \A i \in deltas \cup whole : PromptOf(i) = p)
        /\ (\A d \in deltas, w \in whole : d < w)
        => Count(out, Update("agent_message_chunk", id))
             = IF deltas # {} THEN Cardinality(deltas) ELSE Cardinality(whole)

\* What the prompts that have ended by then were to return.
UsageOf(e) == Latest({u \in Events(<<"usage">>) : u < e /\ PromptAt(u) = PromptAt(e)})
Return(r, e) == IF line[e] = <<"end">> /\ PromptAt(e) # 0 THEN Append(r, UsageOf(e)) ELSE r
Due ==
    LET due[n \in 0..Len(line)] == IF n = 0 THEN <<>> ELSE Return(due[n - 1], n)
    IN  due[Len(line)]

(* A codex item is streamed once, and a prompt returns the last usage reported *)
(* while it was live, not that of another.                                   *)
CodexTextOnce ==
    kind = "codex" =>
        /\ \A id \in {"a", "b"} : StreamedOnce(id, CodexStream(line).out)
        /\ CodexStream(line).returned = Due

\* claude answers a tool it has used, under an id of its own.
ResultsFollow ==
    \A id \in {"t", "u"} :
        LET uses == {i \in DOMAIN line : line[i][1] \in {"tool_use", "TodoWrite", "TodoWrite undecodable"}
                                         /\ line[i][2] = id}
        IN  Cardinality(uses) <= 1 /\ \A r \in Events(<<"tool_result", id>>) : \E i \in uses : i < r

(* claude's tool results update tool calls the host has been told of: the      *)
(* result of a plan is not one, unless its TodoWrite did not decode, for then *)
(* its id is forgotten.                                                      *)
NoPhantomTool ==
    kind = "claude" /\ ResultsFollow =>
        LET out == ClaudeStream(line).out IN
        \A id \in {"t", "u"} :
            /\ Events(<<"TodoWrite undecodable", id>>) = {} =>
                 \A i \in DOMAIN out : out[i] = Update("tool_call_update", id) =>
                    \E j \in 1..(i - 1) : out[j] = Update("tool_call", id)
            /\ Events(<<"tool_use", id>>) # {} =>
                 Count(out, Update("tool_call_update", id)) = Cardinality(Events(<<"tool_result", id>>))

(* What goes through a native engine is neither lost nor doubled on the way.   *)
TranslationFaithful == PromptsAgree /\ CodexTextOnce /\ NoPhantomTool
-----------------------------------------------------------------------------
\* The metadata of session/new; forks have none, and loads are launched at once.
Made(u) ==
    LET meta == When(u = <<"new", "meta">>, "model", Val("meta")) IN
    IF u[1] = "load" THEN Spawned(Build(Proc("load", meta, <<>>))) ELSE Proc(u[1], meta, <<>>)
Step(p, u) ==
    CASE u[1] = "set" -> SetSpawnOption(p, u[2], u[3])
      [] u[1] = "build" -> Build(p)
      [] u[1] = "spawned" -> Spawned(p)
      [] u[1] = "fails" -> SpawnFails(p)
After(n) ==
    LET after[i \in 1..Len(line)] == IF i = 1 THEN Made(line[1]) ELSE Step(after[i - 1], line[i])
    IN  after[n]

\* An option of the key was set, and the host was told so.
Sets(i, key) == line[i][1] = "set" /\ line[i][2] = key /\ Acknowledged(After(i - 1), key)
\* The last such, 0 if there was none.
LastSet(key) == Latest({i \in 2..Len(line) : Sets(i, key)})

(* An option the host was told is set is in the flags of the process that      *)
(* runs, and is what the session reports, unless it was set while that        *)
(* process was being launched; afterwards none is taken.  The process runs   *)
(* its own conversation, the previous one or a branch of it, as was asked.  *)
SpawnCarriesOptions ==
    kind = "spawn" /\ line # <<>> =>
        LET p == After(Len(line))
            flag == [model |-> "--model", mode |-> "--permission-mode"]
        IN  p.phase = "up" =>
            /\ \A key \in {"model", "mode"} :
                LET i == LastSet(key) IN
                i # 0 =>
                    /\ After(i - 1).phase # "up"
                    /\ After(i - 1).phase = "idle" =>
                        <<flag[key], line[i][3]>> \in p.argv /\ SessionState(p, "env")[key] = line[i][3]
            /\ line[1] = <<"new", "meta">> /\ LastSet("model") = 0 => <<"--model", "meta">> \in p.argv
            /\ Cardinality({f \in p.argv : f[1] = "--model"}) <= 1
            /\ (\E f \in p.argv : f[1] = "--resume") <=> line[1][1] \in {"load", "fork"}
            /\ (\E f \in p.argv : f[1] = "--session-id") <=> line[1][1] \in {"new", "fork"}
            /\ (\E f \in p.argv : f[1] = "--allow-dangerously-skip-permissions")
                 <=> <<"--permission-mode", "bypassPermissions">> \in p.argv
-----------------------------------------------------------------------------
InitialConfigs ==
    [mode : {"", "yolo"}, model : {"", "m2"}, effort : {"", "high"},
     raw : {<<"sandbox", "">>, <<"reasoning_effort", "low">>}]
Sessions ==
    {Opened([model |-> "m1", reasoning_effort |-> e], m, c, line) :
        e \in {"high", "low"}, m \in {"default", "yolo"}, c \in BOOLEAN}

(* Whatever the agent answers, an item applyInitialConfig reports as applied   *)
(* was accepted by the agent or is what the agent already held at that time:  *)
(* a value is not skipped because of a read model that an error, an older    *)
(* agent's empty answer or an overtaken snapshot has left behind.          *)
ReportIsTrue ==
    kind = "config" =>
        \A config \in InitialConfigs, s \in Sessions :
            LET r == Apply(s, config) IN
            \A i \in DOMAIN r.applied :
                LET item == r.applied[i] IN
                item.id # "" => item.accepted \/ item.held
-----------------------------------------------------------------------------
\* The models of the units that begin with what.
Take(what, r, u) == IF \A i \in DOMAIN what : u[i] = what[i] THEN Append(r, u[Len(what) + 1]) ELSE r
Offer(what) ==
    LET taken[n \in 0..Len(line)] == IF n = 0 THEN <<>> ELSE Take(what, taken[n - 1], line[n])
    IN  taken[Len(line)]
AgentsOf == [a \in 1..3 |-> LET id == <<"claude", "codex", "other">>[a] IN
                [id |-> id, models |-> Offer(<<"models", id>>), choices |-> Offer(<<"choices", id>>)]]
Gateways == {[models |-> Offer(<<"configured">>), agents |-> AgentsOf, discovers |-> d] : d \in BOOLEAN}

\* A listed id of one part leads to the first agent that has such a model.
Leads(g, m) ==
    LET all == ModelsForList(g, TRUE)
        having == {i \in DOMAIN all : Internal(all[i]) /\ m \in Public(all[i])}
        bare == \E i \in DOMAIN all : ~Slashed(all[i]) /\ Clean(all[i]) = m /\ all[i] # m
    IN  ~Slashed(m) /\ (having # {} \/ ~bare) =>
        /\ Accepted(g, m)
        /\ having # {} =>
            /\ Resolve(g, m)[1] = all[Min(having)].path[1]
            /\ \E i \in having : Resolve(g, m)[2] = Clean(ModelPart(all[i]))
\* An id of the inventory names the agent and the model.
LeadsByName(g, id) ==
    Internal(id) => Accepted(g, id) /\ Resolve(g, id) = <<id.path[1], ModelPart(id)>>

(* "GET /v1/models returns routable OpenAI model IDs" (README.md:98): a listed  *)
(* id of one part leads to the first agent that has such a model, to a model *)
(* of its inventory, and is accepted; so is every id of the inventory, and    *)
(* the agent it names gets the model it names.  Not claimed: a public id that *)
(* has a slash itself, and one configured without agent but with a bracket.  *)
ListedIsRoutable ==
    kind = "models" =>
        \A g \in Gateways, cached \in BOOLEAN :
            /\ \A m \in Listed(g, cached) : Leads(g, m)
            /\ \A id \in ToSet(ModelsForList(g, TRUE)) : LeadsByName(g, id)
=============================================================================
