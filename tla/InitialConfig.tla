----------------------------- MODULE InitialConfig -----------------------------
(***************************************************************************)
(* applyInitialConfig (session_service.go) against an agent: mode, model,      *)
(* effort and a raw option are set one call at a time on a session just       *)
(* opened, aliases are tried in order, and a value the read model already     *)
(* shows is not sent.  A script is the agent's answers to those calls.        *)
(***************************************************************************)
EXTENDS Naturals, Sequences, SequencesExt, FiniteSets

\* Option ids of the agent with their categories, in the order it lists them.
Catalogue == <<[id |-> "model", category |-> "model"],
               [id |-> "reasoning_effort", category |-> "thought_level"]>>
OptionIds == {Catalogue[i].id : i \in DOMAIN Catalogue}

\* An answer: a snapshot of the options, the empty answer of older agents, a
\* snapshot overtaken by a notification, or an error.  Setting an option may
\* reset or remove the others, be ignored, or fail after part of the change.
Snapshots == {"ok", "ok, resets", "ok, removes", "ok, ignored"}
Failures == {"error", "error, resets"}
Answers == Snapshots \cup Failures \cup {"empty", "empty, resets", "overtaken"}
Resets == {"ok, resets", "empty, resets", "error, resets", "overtaken"}

(* The session: what the agent holds, what the driver's read model shows of    *)
(* it ("" for an option that is not there) and whether it is current, the     *)
(* answers to come, and what the agent has accepted.                        *)
Opened(values, mode, current, script) ==
    [agent |-> values, agentMode |-> mode, shown |-> values, mode |-> mode, current |-> current,
     script |-> script, accepted |-> {}]

\* The connection ends with the script.
Answer(s) == IF s.script = <<>> THEN "error" ELSE Head(s.script)
Rest(s) == IF s.script = <<>> THEN <<>> ELSE Tail(s.script)
Fails(s) == Answer(s) \in Failures
Accept(s, id, v) == IF Fails(s) THEN s.accepted ELSE s.accepted \cup {<<id, v>>}

Reset(values, kept) == [o \in OptionIds |-> IF o = kept \/ values[o] = "" THEN values[o] ELSE "default"]

AgentSets(s, id, v) ==
    LET a == Answer(s)
        set == IF id \in OptionIds /\ a \notin Failures \cup {"ok, ignored"}
               THEN [s.agent EXCEPT ![id] = v] ELSE s.agent
    IN  IF a \in Resets THEN Reset(set, id)
        ELSE IF a = "ok, removes" THEN [o \in OptionIds |-> IF o = id THEN set[o] ELSE ""] ELSE set

\* SetAgentConfigOption, with no other change in flight: only a snapshot nothing
\* overtook is current.

SetOption(s, id, v) ==
    [s EXCEPT !.script = Rest(s), !.agent = AgentSets(s, id, v), !.accepted = Accept(s, id, v),
              !.current = Answer(s) \in Snapshots,
              !.shown = CASE Answer(s) \in Snapshots -> AgentSets(s, id, v)
                          [] Fails(s) -> @
                          [] OTHER -> IF id \in OptionIds /\ @[id] # "" THEN [@ EXCEPT ![id] = v] ELSE @]

\* SetAgentMode
SetMode(s, m) ==
    [s EXCEPT !.script = Rest(s), !.accepted = Accept(s, "mode", m), !.current = FALSE,
              !.agentMode = IF Answer(s) = "error" THEN @ ELSE m,
              !.agent = IF Answer(s) \in Resets THEN Reset(@, "none") ELSE @,
              !.mode = IF Fails(s) THEN @ ELSE m]

-----------------------------------------------------------------------------
\* selectInitialConfigOption, with the default profile's selector.
Selector(key) == IF key = "effort" THEN {"effort", "reasoning_effort", "thought_level"} ELSE {key}
SelectOption(s, key) ==
    LET listed == SelectSeq(Catalogue, LAMBDA o : s.shown[o.id] # "")
        at == SelectInSeq(listed, LAMBDA o : {o.id, o.category} \cap Selector(key) # {})
    IN  IF at = 0 THEN "" ELSE listed[at].id

\* initialConfigOptionEqual
\* Mutation: the option's last known value is enough.
ShownEqual(s, id, v) == id \in OptionIds /\ s.shown[id] = v
OptionEqual(s, id, v) == s.current /\ id \in OptionIds /\ s.shown[id] = v

\* A failed alias may have partially changed the provider's mode.
\* Mutation: after a failed alias the mode the driver shows is still trusted.
ModeShown(s, m, failed) == s.mode = m
ModeEqual(s, m, failed) == ~failed /\ s.mode = m

\* initialConfigAliases of the claude profiles.
Aliases(key, v) == IF key = "mode" /\ v = "yolo" THEN <<"bypassPermissions", v>> ELSE <<v>>

\* The first alias that is already there or that the agent accepts.
Try(key, id, r, v) ==
    CASE r.ok -> r
      [] ~r.ok /\ (IF key = "mode" THEN ModeEqual(r.s, v, r.failed) ELSE OptionEqual(r.s, id, v)) ->
            [r EXCEPT !.ok = TRUE, !.value = v]
      [] OTHER -> [ok |-> ~Fails(r.s), failed |-> Fails(r.s), value |-> v,
                   s |-> IF key = "mode" THEN SetMode(r.s, v) ELSE SetOption(r.s, id, v)]
Untried(s) == [ok |-> FALSE, failed |-> FALSE, value |-> "", s |-> s]
TryAliases(key, id, s, v) ==
    LET aliases == Aliases(key, v)
        tried[n \in 0..Len(aliases)] ==
          IF n = 0 THEN Untried(s) ELSE Try(key, id, tried[n - 1], aliases[n])
    IN  tried[Len(aliases)]

\* An item of the report, and what was so when it was reported.
Entry(key, id, v, s) ==
    [key |-> key, id |-> id, value |-> v, accepted |-> <<id, v>> \in s.accepted,
     held |-> IF key = "mode" THEN s.agentMode = v ELSE id \in OptionIds /\ s.agent[id] = v]

\* The id a key stands for: "" when the agent lists no option for it.
OptionId(s, key) == IF key \in {"model", "effort"} THEN SelectOption(s, key) ELSE key

\* The report after the try t of the option id: an error ends it.
Settled(r, key, id, v, t) ==
    IF id = "" THEN [r EXCEPT !.applied = Append(@, Entry(key, "", v, r.s))]
    ELSE IF ~t.ok THEN [r EXCEPT !.error = key, !.s = t.s]
    ELSE [r EXCEPT !.applied = Append(@, Entry(key, id, t.value, t.s)), !.s = t.s]

\* One key of the config, unless it is not set or an earlier one failed.
ApplyKey(r, key, v) ==
    LET id == OptionId(r.s, key)
    IN  IF r.error # "none" \/ v = "" THEN r
        ELSE Settled(r, key, id, v, TryAliases(key, id, r.s, v))

\* applyInitialConfig: raw is a pair of an option id and a value.
Apply(s, config) ==
    LET r0 == [error |-> "none", applied |-> <<>>, s |-> s]
        r1 == ApplyKey(r0, "mode", config.mode)
        r2 == ApplyKey(r1, "model", config.model)
        r3 == ApplyKey(r2, "effort", config.effort)
    IN  ApplyKey(r3, config.raw[1], config.raw[2])
=============================================================================
