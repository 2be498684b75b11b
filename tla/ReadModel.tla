------------------------------ MODULE ReadModel ------------------------------
(***************************************************************************)
(* What acpSessionDriver keeps of its session between and beside turns        *)
(* (session_driver.go): config options and whether they are current, the      *)
(* generations of updates that arrive with no turn in flight, and the capped  *)
(* map of tool calls.  The read loop folds lines into it; config setters,     *)
(* StartTurn and Close change it from their own goroutines.                 *)
(*                                                                         *)
(* The agent is external: it answers setters, changes options by itself and   *)
(* then says so, and streams updates.                                       *)
(***************************************************************************)
EXTENDS Naturals, Sequences, FiniteSets

CONSTANTS
    Setters,    \* SetAgentConfigOption and SetAgentMode calls
    Snapshots,  \* full snapshots of the agent's config options
    MsgIds,     \* message ids of updates
    Tools,      \* tool call ids
    MaxTools,   \* the resolved MaxToolCallEntries
    Slots,      \* orphanUpdatesBuffer
    MaxLines,   \* bound: lines the agent writes
    MaxTurns,   \* bound: turns the host starts
    None

ASSUME ReadModelAssumption ==
    /\ MaxTools \in Nat \ {0} /\ Slots \in Nat \ {0}
    /\ MaxLines \in Nat /\ MaxTurns \in Nat
    /\ None \notin Snapshots \cup MsgIds \cup Setters

VARIABLES
    agent,      \* the agent's own options
    wire,       \* lines not read yet
    lines,      \* how many it wrote
    handled,    \* setters it has answered
    mover,      \* history: the setter that last set them, or None for the agent itself
    \* configuration
    spc,        \* setters: idle, call, answered, done
    answer,     \* the snapshot in the answer of each, or None
    lapsed,     \* those whose context ended first
    begun,      \* version and exclusive of beginConfigChange
    options,    \* metadata.AgentConfigOptions
    current,    \* configOptionsCurrent
    version,    \* configChangeVersion
    pending,    \* configChangesPending
    \* updates outside turns
    active,     \* currentTurn # nil
    turns,      \* turns started
    isClosed,   \* status is closed
    orphan,     \* orphanID: the generation's number, or 0
    orphanMsg,  \* orphanMessage
    gen,        \* orphanGen
    ids,        \* history: the message id each generation was opened with, or None
    bound,      \* line the loop took with no turn in flight
    sending,    \* notifications the loop has yet to send
    owed,       \* terminals StartTurn and Close have yet to send
    queue,      \* Session.Updates
    log,        \* history: everything sent on it
    dropped,    \* history: everything dropped because it was full
    \* tool calls
    calls       \* toolCalls: id to running, finished or absent

agentVars == <<agent, wire, lines, handled, mover>>
config == <<spc, answer, lapsed, begun, options, current, version, pending>>
orphans == <<orphan, orphanMsg, gen, ids, bound, sending, owed, queue, log, dropped>>
host == <<active, turns, isClosed>>
rvars == <<agentVars, config, host, orphans, calls>>

InitR ==
    /\ agent \in Snapshots /\ wire = <<>> /\ lines = 0 /\ handled = {} /\ mover = None
    /\ spc = [k \in Setters |-> "idle"] /\ answer = [k \in Setters |-> None] /\ lapsed = {}
    /\ begun = [k \in Setters |-> <<0, FALSE>>]
    /\ options = agent /\ current = TRUE /\ version = 0 /\ pending = 0
    /\ active = FALSE /\ turns = 0 /\ isClosed = FALSE
    /\ orphan = 0 /\ orphanMsg = None /\ gen = 0 /\ ids = <<>> /\ bound = None /\ sending = <<>>
    /\ owed = <<>> /\ queue = <<>> /\ log = <<>> /\ dropped = {}
    /\ calls = [t \in Tools |-> "absent"]

-----------------------------------------------------------------------------
(* The agent.                                                                *)

Write(l) == lines < MaxLines /\ lines' = lines + 1 /\ wire' = Append(wire, l)

\* It answers a setter with a full snapshot, or without: the empty answer of older
\* agents and of session/set_mode, an error that may have changed something.  It
\* may apply one whose caller has gone, for $/cancel_request may be ignored.
AgentAnswers(k) ==
    /\ spc[k] # "idle" /\ k \notin handled /\ handled' = handled \cup {k}
    /\ agent' \in Snapshots /\ mover' = k
    /\ \E a \in {agent', None} : Write([type |-> "answer", of |-> k, snap |-> a])
    /\ UNCHANGED <<config, host, orphans, calls>>

\* config_option_update: of a change of its own, or to repeat what is.
AgentNotifies ==
    /\ agent' \in Snapshots /\ mover' = None
    /\ Write([type |-> "options", snap |-> agent'])
    /\ UNCHANGED <<handled, config, host, orphans, calls>>

AgentStreams ==
    /\ \/ \E m \in MsgIds \cup {None} : Write([type |-> "body", msg |-> m])
       \/ Write([type |-> "idle"]) \/ Write([type |-> "mode"])
       \/ \E t \in Tools, s \in {"running", "finished"} :
            Write([type |-> "tool", msg |-> None, id |-> t, status |-> s])
    /\ UNCHANGED <<agent, handled, mover, config, host, orphans, calls>>

-----------------------------------------------------------------------------
(* Setters.                                                                  *)

BeginConfigChange(k) ==
    /\ spc[k] = "idle" /\ ~isClosed
    /\ spc' = [spc EXCEPT ![k] = "call"]
    /\ version' = version + 1 /\ pending' = pending + 1
    /\ begun' = [begun EXCEPT ![k] = <<version + 1, pending = 0>>]
    /\ current' = FALSE
    /\ UNCHANGED <<agentVars, answer, lapsed, options, host, orphans, calls>>

\* Local response order cannot prove freshness: nothing else began or arrived.
Fresh(k) == begun[k][2] /\ pending = 1 /\ begun[k][1] = version

\* The variables of the call are not used again.
Applied(k) ==
    /\ spc' = [spc EXCEPT ![k] = "applied"]
    /\ answer' = [answer EXCEPT ![k] = None] /\ begun' = [begun EXCEPT ![k] = <<0, FALSE>>]

ApplyAnswer(k) ==
    /\ spc[k] = "answered" /\ Applied(k)
    /\ IF answer[k] \in Snapshots
       THEN options' = answer[k] /\ current' = Fresh(k)
       ELSE UNCHANGED <<options, current>>
    /\ UNCHANGED <<agentVars, lapsed, version, pending, host, orphans, calls>>

\* Its context ends before the answer: nothing is applied.
SetterGivesUp(k) ==
    /\ spc[k] \in {"call", "answered"} /\ Applied(k)
    /\ lapsed' = lapsed \cup {k}
    /\ UNCHANGED <<agentVars, options, current, version, pending, host, orphans, calls>>

EndConfigChange(k) ==
    /\ spc[k] = "applied" /\ spc' = [spc EXCEPT ![k] = "done"]
    /\ pending' = pending - 1
    /\ UNCHANGED <<agentVars, answer, lapsed, begun, options, current, version, host, orphans, calls>>

-----------------------------------------------------------------------------
(* The read loop: handleSessionUpdate.                                       *)

\* Mutation: a notification during a setter is taken as current.
Always == TRUE
Settled == pending = 0

\* The answer of a call that is no longer pending is dropped.
FoldConfig(l) ==
    \/ /\ l.type = "answer" /\ spc[l.of] = "call"
       /\ spc' = [spc EXCEPT ![l.of] = "answered"]
       /\ answer' = [answer EXCEPT ![l.of] = l.snap]
       /\ UNCHANGED <<lapsed, begun, options, current, version, pending>>
    \/ /\ l.type = "options"
       /\ version' = version + 1 /\ options' = l.snap /\ current' = Settled
       /\ UNCHANGED <<spc, answer, lapsed, begun, pending>>
    \/ /\ l.type = "mode"
       /\ version' = version + 1 /\ current' = FALSE
       /\ UNCHANGED <<spc, answer, lapsed, begun, options, pending>>
    \/ l.type = "answer" /\ spc[l.of] # "call" /\ UNCHANGED config
    \/ l.type \in {"body", "idle", "tool"} /\ UNCHANGED config

\* pruneToolCallsLocked: finished calls go first, in any order, then any.
Present(m) == {t \in Tools : m[t] # "absent"}
Drop(m, gone) == [t \in Tools |-> IF t \in gone THEN "absent" ELSE m[t]]
Over(m) == IF Cardinality(Present(m)) > MaxTools THEN Cardinality(Present(m)) - MaxTools ELSE 0
FinishedIn(m) == {t \in Tools : m[t] = "finished"}

\* Mutation: calls are dropped in map order whatever their status.
AnyVictims(m) == {gone \in SUBSET Present(m) : Cardinality(gone) = Over(m)}
Victims(m) ==
    {gone \in SUBSET Present(m) :
        /\ Cardinality(gone) = Over(m)
        /\ gone \subseteq FinishedIn(m) \/ FinishedIn(m) \subseteq gone}

FoldTool(l) ==
    IF l.type = "tool"
    THEN LET m == [calls EXCEPT ![l.id] = l.status] IN
         \E gone \in Victims(m) : calls' = Drop(m, gone)
    ELSE UNCHANGED calls

\* Under mu; a line taken with no turn in flight is bound and sent afterwards.
Orphan(l) ==
    IF l.type \in {"body", "tool"} THEN [kind |-> "body", msg |-> l.msg]
    ELSE [kind |-> IF l.type = "idle" THEN "idle" ELSE "other", msg |-> None]

ReadUpdate ==
    /\ bound = None /\ sending = <<>> /\ wire # <<>>
    /\ wire' = Tail(wire)
    /\ LET l == Head(wire) IN
       /\ FoldConfig(l) /\ FoldTool(l)
       /\ bound' = IF ~active /\ l.type # "answer" THEN Orphan(l) ELSE None
    /\ UNCHANGED <<agent, lines, handled, mover, host, orphan, orphanMsg, gen, ids, sending, owed, queue, log, dropped>>

Note(g, terminal) == [gen |-> g, terminal |-> terminal]

\* bindOrphanUpdate
\* A body of another message first ends the generation that is open.
\* Mutation: it does not.
NoEnding(switches) == <<>>
Ending(switches) == IF switches THEN <<Note(orphan, TRUE)>> ELSE <<>>

Bind ==
    /\ bound # None /\ bound' = None
    /\ \/ /\ bound.kind = "idle"
          /\ sending' = <<Note(orphan, orphan # 0)>>
          /\ orphan' = 0 /\ orphanMsg' = None /\ UNCHANGED <<gen, ids>>
       \/ /\ bound.kind = "other"
          /\ sending' = <<Note(orphan, FALSE)>> /\ UNCHANGED <<orphan, orphanMsg, gen, ids>>
       \/ /\ bound.kind = "body"
          /\ LET switches == orphan # 0 /\ bound.msg # None /\ orphanMsg \notin {None, bound.msg}
                 opens == orphan = 0 \/ switches
             IN /\ gen' = IF opens THEN gen + 1 ELSE gen
                /\ ids' = IF opens THEN Append(ids, bound.msg) ELSE ids
                /\ orphan' = IF opens THEN gen + 1 ELSE orphan
                /\ orphanMsg' = IF opens \/ orphanMsg = None THEN bound.msg ELSE orphanMsg
                /\ sending' = Ending(switches) \o <<Note(orphan', FALSE)>>
    /\ UNCHANGED <<agentVars, config, host, owed, queue, log, dropped, calls>>

\* sendOrphanUpdate: a send that drops when Session.Updates is full.
Enqueue(n) ==
    IF Len(queue) < Slots
    THEN queue' = Append(queue, n) /\ log' = Append(log, n) /\ UNCHANGED dropped
    ELSE dropped' = dropped \cup {n} /\ UNCHANGED <<queue, log>>

LoopSends ==
    /\ sending # <<>> /\ Enqueue(Head(sending)) /\ sending' = Tail(sending)
    /\ UNCHANGED <<agentVars, config, host, orphan, orphanMsg, gen, ids, bound, owed, calls>>

-----------------------------------------------------------------------------
(* StartTurn and Close take the open generation's terminal under mu and send  *)
(* it after.                                                                 *)

\* takeOrphanTerminalLocked
TakeTerminal ==
    /\ orphan' = 0 /\ orphanMsg' = None
    /\ owed' = IF orphan = 0 THEN owed ELSE Append(owed, Note(orphan, TRUE))
    /\ UNCHANGED <<gen, ids, bound, sending, queue, log, dropped>>

StartTurn ==
    /\ ~isClosed /\ ~active /\ turns < MaxTurns
    /\ active' = TRUE /\ turns' = turns + 1
    /\ TakeTerminal
    /\ UNCHANGED <<agentVars, config, isClosed, calls>>

\* finishTurn
EndTurn ==
    /\ active /\ active' = FALSE
    /\ UNCHANGED <<agentVars, config, turns, isClosed, orphans, calls>>

BeginClose ==
    /\ ~isClosed /\ isClosed' = TRUE
    /\ TakeTerminal
    /\ UNCHANGED <<agentVars, config, active, turns, calls>>

HostSends ==
    /\ \E i \in DOMAIN owed :
        /\ Enqueue(owed[i])
        /\ owed' = SubSeq(owed, 1, i - 1) \o SubSeq(owed, i + 1, Len(owed))
    /\ UNCHANGED <<agentVars, config, host, orphan, orphanMsg, gen, ids, bound, sending, calls>>

HostReceives ==
    /\ queue # <<>> /\ queue' = Tail(queue)
    /\ UNCHANGED <<agentVars, config, host, orphan, orphanMsg, gen, ids, bound, sending, owed, log, dropped, calls>>

-----------------------------------------------------------------------------
SetterStep(k) == BeginConfigChange(k) \/ ApplyAnswer(k) \/ SetterGivesUp(k) \/ EndConfigChange(k)
LoopStep == ReadUpdate \/ Bind \/ LoopSends
HostStep == StartTurn \/ EndTurn \/ BeginClose \/ HostSends \/ HostReceives

NextR ==
    \/ \E k \in Setters : SetterStep(k) \/ AgentAnswers(k)
    \/ AgentNotifies \/ AgentStreams \/ LoopStep \/ HostStep

SpecR == InitR /\ [][NextR]_rvars

-----------------------------------------------------------------------------
Notes == [gen : 0..MaxLines, terminal : BOOLEAN]

TypeOKR ==
    /\ agent \in Snapshots /\ lines \in 0..MaxLines /\ handled \subseteq Setters
    /\ mover \in Setters \cup {None}
    /\ spc \in [Setters -> {"idle", "call", "answered", "applied", "done"}]
    /\ answer \in [Setters -> Snapshots \cup {None}] /\ lapsed \subseteq Setters
    /\ options \in Snapshots /\ current \in BOOLEAN
    /\ version \in 0..(MaxLines + Cardinality(Setters))
    /\ pending = Cardinality({k \in Setters : spc[k] \notin {"idle", "done"}})
    /\ active \in BOOLEAN /\ turns \in 0..MaxTurns /\ isClosed \in BOOLEAN
    /\ orphan \in 0..gen /\ gen \in 0..MaxLines /\ ids \in Seq(MsgIds \cup {None}) /\ Len(ids) = gen
    /\ orphanMsg \in MsgIds \cup {None}
    /\ sending \in Seq(Notes) /\ owed \in Seq(Notes) /\ queue \in Seq(Notes) /\ log \in Seq(Notes)
    /\ Len(queue) <= Slots /\ dropped \subseteq Notes
    /\ calls \in [Tools -> {"running", "finished", "absent"}]
    /\ Cardinality(Present(calls)) <= MaxTools

\* "Only authoritative snapshots outside overlapping config changes may suppress
\* initial-config RPCs" (session_driver.go:62-63): when the options count as
\* current they are the agent's, but for a change whose notification is unread,
\* or made for a setter that had given up: its context ended (413-416), the agent
\* applied the setting all the same, and nobody folds that answer.
Strayed == mover \in lapsed

CurrentIsExact ==
    current /\ pending = 0 /\ ~Strayed /\ (\A i \in DOMAIN wire : wire[i].type # "options")
        => options = agent

\* Session.Updates closes a generation once: after its terminal comes at most the
\* one update the read loop had bound when StartTurn or Close took the terminal.
AtMostOneStraggler ==
    \A i \in DOMAIN log : log[i].terminal =>
        LET later == {j \in DOMAIN log : j > i /\ log[j].gen = log[i].gen}
        IN Cardinality(later) <= 1 /\ \A j \in later : ~log[j].terminal

\* At most one generation is open: an older one has its terminal sent, owed or
\* dropped, however updates, turns and Close interleave.
Closing(g) ==
    \/ \E i \in DOMAIN sending : sending[i] = Note(g, TRUE)
    \/ \E i \in DOMAIN owed : owed[i] = Note(g, TRUE)
    \/ \E i \in DOMAIN log : log[i] = Note(g, TRUE)
    \/ Note(g, TRUE) \in dropped

OlderAreClosed ==
    \A g \in 1..gen : g # orphan => Closing(g)

\* A host knows a generation by its UpdateID: the message id it was opened with,
\* or one the driver makes up.  A message id that opens another generation later
\* opens and ends its UpdateID again (845-851); every other UpdateID ends once.
UpdateID(g) == IF g # 0 /\ ids[g] # None THEN ids[g] ELSE g
Recurs(g) == \E h \in 1..gen : h # g /\ UpdateID(h) = UpdateID(g)

StreamsEndOnce ==
    \A i, j \in DOMAIN log :
        /\ i < j /\ log[i].terminal /\ ~Recurs(log[i].gen)
        /\ log[j].gen # 0 /\ UpdateID(log[j].gen) = UpdateID(log[i].gen)
        => ~log[j].terminal

\* A host that consumes Session.Updates sees generations that begin, end once and
\* do not overlap, but for the one straggler.
GenerationsEndOnce == AtMostOneStraggler /\ OlderAreClosed /\ StreamsEndOnce

\* A running tool call is forgotten only when no finished one is left to forget.
RunningKeptLongest ==
    [][(\E t \in Tools : calls[t] = "running" /\ calls'[t] = "absent")
        => FinishedIn(calls') = {}]_rvars
=============================================================================
