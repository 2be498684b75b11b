------------------------- MODULE NativeBridgeProofs -------------------------
(***************************************************************************)
(* The native transport for any number of sessions and prompts.  Three     *)
(* arguments over one type invariant: a process that is up is pooled or    *)
(* being started under the engine's mutex; a session's turn is that of a   *)
(* prompt that has registered it; and claude's message of a turn is in one *)
(* place at a time on its way through the CLI.                             *)
(***************************************************************************)
EXTENDS NativeBridge, FiniteSetTheorems, TLAPS

\* What the CLI writes, and what it keeps.
Line ==
    [type : {"started", "refused", "error", "ask"}, s : Sessions, p : Prompts]
        \cup [type : {"end"}, s : Sessions, p : Prompts, how : {"ok", "failed"}]

WireTyped ==
    /\ out \in [Sessions -> Seq(Line)]
    /\ inq \in [Sessions -> Seq(Prompts)]
    /\ running \in [Sessions -> Prompts \cup {None}]
    /\ told \in [Prompts -> {"none", "ok", "failed"}]

Typed == TypeOKN /\ WireTyped

LEMMA HostIsSession == Typed => \A s \in Sessions : Host(s) \in Sessions
  BY NativeAssumption DEF Host

LEMMA EmitTyped ==
    ASSUME WireTyped, NEW k \in Sessions, NEW e \in Line, Emit(k, e)
    PROVE  out' \in [Sessions -> Seq(Line)]
<1>1. Append(out[k], e) \in Seq(Line)
  BY DEF WireTyped
<1> QED BY <1>1 DEF Emit, WireTyped

LEMMA ReadTyped ==
    ASSUME WireTyped, NEW k \in Sessions, out[k] # <<>>, out' = [out EXCEPT ![k] = Tail(@)]
    PROVE  out' \in [Sessions -> Seq(Line)] /\ Head(out[k]) \in Line
<1>1. Tail(out[k]) \in Seq(Line) /\ Head(out[k]) \in Line
  BY DEF WireTyped
<1> QED BY <1>1 DEF WireTyped

\* A prompt is written to the CLI, or leaves the queue.
Queued(s, p) == inq' = [inq EXCEPT ![s] = Append(@, p)]
Dequeued(s) == inq[s] # <<>> /\ inq' = [inq EXCEPT ![s] = Tail(@)]

LEMMA QueueTyped ==
    ASSUME WireTyped, NEW s \in Sessions, NEW p \in Prompts, Queued(s, p) \/ Dequeued(s)
    PROVE  inq' \in [Sessions -> Seq(Prompts)]
<1>1. Append(inq[s], p) \in Seq(Prompts)
  BY DEF WireTyped
<1>2. inq[s] # <<>> => Tail(inq[s]) \in Seq(Prompts)
  BY DEF WireTyped
<1> QED BY <1>1, <1>2 DEF WireTyped, Queued, Dequeued

LEMMA InitTyped == Init => Typed
<1> SUFFICES ASSUME Init PROVE Typed
  OBVIOUS
<1> USE NativeAssumption DEF Init
<1>1. TypeOKN
  <2>1. fails \in 0..MaxFails
    OBVIOUS
  <2>2. mu \in Sessions \cup Prompts \cup {None} /\ pooled \subseteq Sessions /\ ctxDone \subseteq Prompts
    OBVIOUS
  <2>3. /\ sess \in [Sessions -> {"none"}] /\ pc \in [Prompts -> {"idle"}]
        /\ res \in [Prompts -> {"none"}] /\ turn \in [Sessions -> {None}]
        /\ fin \in [Prompts -> {"no"}] /\ waitOn \in [Prompts -> {None}]
    OBVIOUS
  <2>4. /\ proc \in [Sessions -> {"none"}] /\ loop \in [Sessions -> {"off"}]
        /\ asked \in [Sessions -> {"no"}] /\ verdict \in [Sessions -> {"none"}]
    OBVIOUS
  <2> QED BY <2>1, <2>2, <2>3, <2>4 DEF TypeOKN
<1>2. out \in [Sessions -> Seq(Line)] /\ inq \in [Sessions -> Seq(Prompts)]
  OBVIOUS
<1> QED BY <1>1, <1>2 DEF Typed, WireTyped

LEMMA NextTyped == Typed /\ [Next]_nvars => Typed'
<1> SUFFICES ASSUME Typed, [Next]_nvars PROVE Typed'
  OBVIOUS
<1> USE NativeAssumption DEF Typed
<1>1. ASSUME UNCHANGED <<out, cli>>, TypeOKN' PROVE Typed'
  BY <1>1 DEF WireTyped, cli
<1>2. ASSUME NEW s \in Sessions, CodexSessionStep(s) \/ ClaudeSessionStep(s) PROVE Typed'
  <2> USE DEF TypeOKN, bridge, teardown, Launched, Spawned, Spawn
  <2>1. ASSUME OpenThread(s) PROVE TypeOKN' /\ UNCHANGED <<out, cli>>
    BY <2>1 DEF OpenThread
  <2>2. ASSUME NEW ok \in BOOLEAN, Handshake(s, ok) PROVE TypeOKN' /\ UNCHANGED <<out, cli>>
    BY <2>2 DEF Handshake
  <2>3. ASSUME NEW ok \in BOOLEAN, ThreadOpened(s, ok) PROVE TypeOKN' /\ UNCHANGED <<out, cli>>
    BY <2>3 DEF ThreadOpened
  <2>4. ASSUME NewSession(s) PROVE TypeOKN' /\ UNCHANGED <<out, cli>>
    BY <2>4 DEF NewSession
  <2>5. ASSUME LoadSession(s) PROVE TypeOKN' /\ UNCHANGED <<out, cli>>
    BY <2>5 DEF LoadSession
  <2>6. ASSUME LoadSpawned(s) PROVE TypeOKN' /\ UNCHANGED <<out, cli>>
    BY <2>6 DEF LoadSpawned
  <2> QED BY <1>1, <1>2, <2>1, <2>2, <2>3, <2>4, <2>5, <2>6 DEF CodexSessionStep, ClaudeSessionStep
<1>3. ASSUME NEW p \in Prompts, CodexPrompt(p) \/ CodexPromptStep(p) PROVE Typed'
  <2> USE DEF TypeOKN, teardown, Return, TurnResult
  <2>1. ASSUME CodexPrompt(p) PROVE Typed'
    <3>1. TypeOKN' /\ UNCHANGED <<out, running, told, erred>>
      BY <2>1 DEF CodexPrompt
    <3>2. inq' = inq \/ Queued(Of[p], p)
      BY <2>1 DEF CodexPrompt, Queued
    <3>3. inq' \in [Sessions -> Seq(Prompts)]
      BY <3>2, QueueTyped DEF WireTyped
    <3> QED BY <3>1, <3>3 DEF WireTyped
  <2>2. ASSUME TurnStarted(p) PROVE TypeOKN' /\ UNCHANGED <<out, cli>>
    BY <2>2 DEF TurnStarted
  <2>3. ASSUME StartFails(p) PROVE TypeOKN' /\ UNCHANGED <<out, cli>>
    BY <2>3 DEF StartFails, TurnDropped
  <2>4. ASSUME CodexPromptReturns(p) PROVE TypeOKN' /\ UNCHANGED <<out, cli>>
    BY <2>4 DEF CodexPromptReturns, CodexTurnDone, CodexPeerDone
  <2> QED BY <1>1, <1>3, <2>1, <2>2, <2>3, <2>4 DEF CodexPromptStep
<1>4. ASSUME NEW p \in Prompts, ClaudePrompt(p) \/ ClaudePromptStep(p) PROVE Typed'
  <2> USE DEF TypeOKN, teardown, Return, TurnResult, Launched, Spawned, Spawn
  <2>1. ASSUME ClaudePrompt(p) PROVE TypeOKN' /\ UNCHANGED <<out, cli>>
    BY <2>1 DEF ClaudePrompt
  <2>2. ASSUME PromptSpawned(p) PROVE TypeOKN' /\ UNCHANGED <<out, cli>>
    BY <2>2 DEF PromptSpawned
  <2>3. ASSUME ClaudeTurn(p) PROVE TypeOKN' /\ UNCHANGED <<out, cli>>
    BY <2>3 DEF ClaudeTurn
  <2>4. ASSUME WriteMessage(p) PROVE Typed'
    <3>1. TypeOKN' /\ UNCHANGED <<out, running, told, erred>>
      BY <2>4 DEF WriteMessage
    <3>2. inq' = inq \/ Queued(Of[p], p)
      BY <2>4 DEF WriteMessage, Queued
    <3>3. inq' \in [Sessions -> Seq(Prompts)]
      BY <3>2, QueueTyped DEF WireTyped
    <3> QED BY <3>1, <3>3 DEF WireTyped
  <2>5. ASSUME ClaudePromptReturns(p) PROVE TypeOKN' /\ UNCHANGED <<out, cli>>
    BY <2>5 DEF ClaudePromptReturns
  <2> QED BY <1>1, <1>4, <2>1, <2>2, <2>3, <2>4, <2>5 DEF ClaudePromptStep
<1>5. ASSUME NEW p \in Prompts, CancelPrompt(p) PROVE Typed'
  BY <1>1, <1>5 DEF CancelPrompt, TypeOKN, teardown
<1>6. ASSUME NEW k \in Sessions, CodexLine(k) PROVE Typed'
  <2>1. out' \in [Sessions -> Seq(Line)]
    BY <1>6, ReadTyped DEF CodexLine
  <2>2. fin' \in [Prompts -> {"no", "ok", "err"}]
    <3> DEFINE Ends == [Prompts -> {"no", "ok", "err"}]
    <3>1. \A f \in Ends, t \in Sessions, how \in {"ok", "err"} : Settle(f, t, how) \in Ends
      BY DEF Settle, TypeOKN
    <3>2. Head(out[k]).s \in Sessions /\ fin \in Ends
      BY <1>6, ReadTyped DEF CodexLine, Line, TypeOKN
    <3> HIDE DEF Ends
    <3>3. Completed(Head(out[k]).s, Head(out[k]).how) \in Ends
      BY <3>1, <3>2 DEF Completed
    <3>4. fin' \in Ends
      BY <1>6, <3>1, <3>2, <3>3 DEF CodexLine
    <3> QED BY <3>4 DEF Ends
  <2>3. TypeOKN' /\ UNCHANGED cli
    BY <1>6, <2>2 DEF CodexLine, TypeOKN, teardown
  <2> QED BY <2>1, <2>3 DEF WireTyped, cli
<1>7. ASSUME NEW k \in Sessions, ClaudeLine(k) PROVE Typed'
  <2>1. out' \in [Sessions -> Seq(Line)]
    BY <1>7, ReadTyped DEF ClaudeLine
  <2>2. TypeOKN' /\ UNCHANGED cli
    BY <1>7 DEF ClaudeLine, TypeOKN, teardown, bridge, HowEnded
  <2> QED BY <2>1, <2>2 DEF WireTyped, cli
<1>8. ASSUME NEW k \in Sessions, LoopEnds(k) PROVE Typed'
  BY <1>1, <1>8 DEF LoopEnds, TypeOKN, teardown, bridge
<1>9. ASSUME NEW k \in Sessions, NEW d \in {"allow", "deny", "error"}, Decide(k, d) PROVE Typed'
  BY <1>1, <1>9 DEF Decide, TypeOKN, teardown, bridge
<1>10. ASSUME NEW s \in Sessions, CLITakes(s) \/ CLIRefuses(s) PROVE Typed'
  <2>1. Dequeued(s) /\ Head(inq[s]) \in Prompts
    BY <1>10 DEF CLITakes, CLIRefuses, Dequeued, WireTyped
  <2>2. Host(s) \in Sessions
    BY HostIsSession
  <2>3. /\ [type |-> "started", s |-> s, p |-> Head(inq[s])] \in Line
        /\ [type |-> "refused", s |-> s, p |-> Head(inq[s])] \in Line
    BY <2>1 DEF Line
  <2>4. out' \in [Sessions -> Seq(Line)]
    BY <1>10, <2>2, <2>3, EmitTyped DEF CLITakes, CLIRefuses, WireTyped
  <2>5. inq' \in [Sessions -> Seq(Prompts)]
    BY <2>1, QueueTyped
  <2>6. running' \in [Sessions -> Prompts \cup {None}]
    <3>1. CASE CLITakes(s)
      <4>1. PICK h \in Prompts : running' = [running EXCEPT ![s] = h]
        BY <2>1, <3>1 DEF CLITakes
      <4> QED BY <4>1 DEF WireTyped
    <3>2. CASE CLIRefuses(s)
      BY <3>2 DEF CLIRefuses, WireTyped
    <3> QED BY <1>10, <3>1, <3>2
  <2>7. TypeOKN' /\ UNCHANGED told
    BY <1>10 DEF CLITakes, CLIRefuses, TypeOKN, teardown, bridge
  <2> QED BY <2>4, <2>5, <2>6, <2>7 DEF WireTyped
<1>11. ASSUME NEW s \in Sessions, NEW how \in {"ok", "failed"}, CLIEnds(s, how) PROVE Typed'
  <2>1. running[s] \in Prompts /\ Host(s) \in Sessions
    BY <1>11, HostIsSession DEF CLIEnds, WireTyped
  <2>2. [type |-> "end", s |-> s, p |-> running[s], how |-> how] \in Line
    BY <2>1 DEF Line
  <2>3. out' \in [Sessions -> Seq(Line)]
    BY <1>11, <2>1, <2>2, EmitTyped DEF CLIEnds
  <2>4. TypeOKN' /\ UNCHANGED inq
    BY <1>11 DEF CLIEnds, TypeOKN, teardown, bridge
  <2>5. running' \in [Sessions -> Prompts \cup {None}] /\ told' \in [Prompts -> {"none", "ok", "failed"}]
    BY <1>11 DEF CLIEnds, WireTyped
  <2> QED BY <2>3, <2>4, <2>5 DEF WireTyped
<1>12. ASSUME NEW s \in Sessions, CLIErrs(s) \/ CLIAsks(s) PROVE Typed'
  <2>1. running[s] \in Prompts /\ Host(s) \in Sessions
    BY <1>12, HostIsSession DEF CLIErrs, CLIAsks
  <2>2. /\ [type |-> "error", s |-> s, p |-> running[s]] \in Line
        /\ [type |-> "ask", s |-> s, p |-> running[s]] \in Line
    BY <2>1 DEF Line
  <2>3. out' \in [Sessions -> Seq(Line)]
    BY <1>12, <2>1, <2>2, EmitTyped DEF CLIErrs, CLIAsks
  <2>4. TypeOKN' /\ UNCHANGED <<inq, running, told>>
    BY <1>12, <2>1 DEF CLIErrs, CLIAsks, TypeOKN, teardown, bridge, cli
  <2> QED BY <2>3, <2>4 DEF WireTyped
<1>13. ASSUME NEW k \in Sessions, CLIExits(k) PROVE Typed'
  BY <1>1, <1>13 DEF CLIExits, TypeOKN, teardown, bridge
<1>14. CASE DisposeBegin \/ DisposeRetries
  BY <1>1, <1>14 DEF DisposeBegin, DisposeRetries, TypeOKN, bridge
<1>15. CASE DisposeStep
  <2>1. ASSUME NEW k \in Sessions, NEW c \in BOOLEAN, Kill(k, c) PROVE Typed'
    BY <1>1, <2>1 DEF Kill, TypeOKN
  <2>2. CASE EngineClose \/ DisposeReturns
    BY <1>1, <2>2 DEF EngineClose, DisposeReturns, TypeOKN, bridge
  <2> QED BY <1>15, <2>1, <2>2 DEF DisposeStep
<1>16. CASE UNCHANGED nvars
  BY <1>1, <1>16 DEF nvars, TypeOKN, cli
<1> QED BY <1>2, <1>3, <1>4, <1>5, <1>6, <1>7, <1>8, <1>9, <1>10, <1>11, <1>12, <1>13, <1>14, <1>15, <1>16
        DEF Next, RequestStep, LoopStep, CLIStep

LEMMA TypedHolds == Spec => []Typed
  BY InitTyped, NextTyped, PTL DEF Spec

\* The state of the bridge and its engine is well typed in every run.
THEOREM NativeTyped == Spec => []TypeOKN
  BY TypedHolds, PTL DEF Typed

-----------------------------------------------------------------------------
(* Processes.  Starting one takes the engine's mutex, which a closed       *)
(* engine no longer gives away.                                            *)

SpawnsUnderMu ==
    /\ \A s \in Sessions : sess[s] = "spawning" => mu = s
    /\ \A p \in Prompts : pc[p] = "spawned" => mu = p
    /\ closed => mu = None
    /\ \A k \in Sessions : proc[k] = "up" =>
          \/ k \in pooled
          \/ \E s \in Sessions : sess[s] = "spawning" /\ Host(s) = k
          \/ \E p \in Prompts : Claude /\ pc[p] = "spawned" /\ Of[p] = k
    /\ dpc \in {"kill", "retry", "done"} => closed
    /\ dpc = "done" => pooled = {}

LEMMA InitSpawns == Init => SpawnsUnderMu
  BY DEF Init, SpawnsUnderMu

\* Steps that neither start a process nor finish starting one.
LEMMA SpawnsFrame ==
    ASSUME SpawnsUnderMu, UNCHANGED <<engine, mu, closed, pooled>>,
           dpc' = dpc \/ dpc' \in {"idle", "peers"},
           \A s \in Sessions : sess'[s] = "spawning" <=> sess[s] = "spawning",
           \A p \in Prompts : pc'[p] = "spawned" <=> pc[p] = "spawned",
           \A k \in Sessions : proc'[k] = "up" => proc[k] = "up"
    PROVE  SpawnsUnderMu'
  BY DEF SpawnsUnderMu, Host, Claude

LEMMA NextSpawns == Typed /\ SpawnsUnderMu /\ [Next]_nvars => SpawnsUnderMu'
<1> SUFFICES ASSUME Typed, SpawnsUnderMu, [Next]_nvars PROVE SpawnsUnderMu'
  OBVIOUS
<1> USE NativeAssumption
<1>0. /\ sess \in [Sessions -> {"none", "spawning", "calling", "open", "failed", "dropped"}]
      /\ proc \in [Sessions -> {"none", "up", "exited"}]
      /\ pc \in [Prompts -> {"idle", "call", "started", "startfailed", "spawned", "turn",
                             "write", "wait", "done"}]
      /\ pooled \subseteq Sessions
  BY DEF Typed, TypeOKN
<1>1. ASSUME NEW s \in Sessions, OpenThread(s) PROVE SpawnsUnderMu'
  <2>1. CASE UNCHANGED <<mu, proc, loop>>
    <3>1. sess'[s] # "spawning" /\ sess[s] # "spawning" /\ \A d \in Sessions \ {s} : sess'[d] = sess[d]
      BY <1>0, <1>1, <2>1 DEF OpenThread, SpawnsUnderMu
    <3> QED BY <1>1, <2>1, <3>1, SpawnsFrame DEF OpenThread, teardown
  <2>2. CASE ~closed /\ mu' = s /\ Launched(Key[s]) /\ sess' = [sess EXCEPT ![s] = "spawning"]
    <3>1. mu = None /\ engine = "codex" /\ UNCHANGED <<engine, closed, pc, pooled, dpc>>
      BY <1>1 DEF OpenThread, Codex, teardown
    <3>2. /\ sess'[s] = "spawning" /\ \A d \in Sessions \ {s} : sess'[d] = sess[d]
          /\ \A k \in Sessions : proc'[k] = "up" => proc[k] = "up" \/ k = Key[s]
      BY <1>0, <2>2 DEF Launched
    <3>3. \A d \in Sessions : sess[d] # "spawning"
      BY <3>1 DEF SpawnsUnderMu
    <3>4. \A p \in Prompts : pc[p] # "spawned"
      BY <3>1 DEF SpawnsUnderMu
    <3>5. \A d \in Sessions : Host(d)' = Host(d) /\ Host(s) = Key[s]
      BY <3>1 DEF Host
    <3> QED BY <2>2, <3>1, <3>2, <3>3, <3>4, <3>5 DEF SpawnsUnderMu
  <2> QED BY <1>1, <2>1, <2>2 DEF OpenThread, MayAdmit
<1>2. ASSUME NEW s \in Sessions, NEW ok \in BOOLEAN, Handshake(s, ok) PROVE SpawnsUnderMu'
  <2>1. /\ mu = s /\ mu' = None /\ ~closed /\ engine = "codex" /\ UNCHANGED <<engine, closed, pc, dpc>>
    BY <1>2 DEF Handshake, Codex, SpawnsUnderMu, teardown
  <2>2. \A d \in Sessions : sess'[d] # "spawning"
    BY <1>0, <1>2, <2>1 DEF Handshake, SpawnsUnderMu
  <2>3. \A p \in Prompts : pc[p] # "spawned"
    BY <2>1 DEF SpawnsUnderMu
  <2>4. \A k \in Sessions : proc'[k] = "up" => k \in pooled'
    <3> SUFFICES ASSUME NEW k \in Sessions, proc'[k] = "up" PROVE k \in pooled'
      OBVIOUS
    <3>1. proc[k] = "up" /\ (k = Key[s] => ok)
      BY <1>0, <1>2 DEF Handshake
    <3>2. k \in pooled \/ \E d \in Sessions : sess[d] = "spawning" /\ Host(d) = k
      BY <2>3, <3>1 DEF SpawnsUnderMu
    <3>3. k \in pooled \/ k = Key[s]
      BY <2>1, <3>2 DEF SpawnsUnderMu, Host
    <3> QED BY <1>2, <3>1, <3>3 DEF Handshake
  <2>5. dpc \notin {"kill", "retry", "done"}
    BY <2>1 DEF SpawnsUnderMu
  <2> QED BY <2>1, <2>2, <2>3, <2>4, <2>5 DEF SpawnsUnderMu
<1>3. ASSUME NEW s \in Sessions, NEW ok \in BOOLEAN, ThreadOpened(s, ok) \/ NewSession(s)
      PROVE  SpawnsUnderMu'
  BY <1>0, <1>3, SpawnsFrame DEF ThreadOpened, NewSession, teardown
\* claude: a process is started for a session, by load or by a prompt
<1>4. ASSUME NEW s \in Sessions, NEW h \in Sessions \cup Prompts, Claude, mu = None, Spawn(s, h),
             UNCHANGED <<engine, closed, pooled, dpc>>,
             \/ h = s /\ sess' = [sess EXCEPT ![s] = "spawning"] /\ pc' = pc
             \/ h \in Prompts /\ Of[h] = s /\ pc' = [pc EXCEPT ![h] = "spawned"] /\ sess' = sess
      PROVE  SpawnsUnderMu'
  <2>1. ~closed /\ mu' = h /\ \A k \in Sessions : proc'[k] = "up" => proc[k] = "up" \/ k = s
    BY <1>0, <1>4 DEF Spawn, Launched, Admits
  <2>2. /\ \A d \in Sessions : sess[d] # "spawning"
        /\ \A p \in Prompts : pc[p] # "spawned"
    BY <1>4 DEF SpawnsUnderMu
  <2>3. /\ \A d \in Sessions : sess'[d] = "spawning" => d = h
        /\ \A p \in Prompts : pc'[p] = "spawned" => p = h
        /\ \/ sess'[s] = "spawning"
           \/ h \in Prompts /\ pc'[h] = "spawned" /\ Of[h] = s
    BY <1>0, <1>4, <2>2
  <2>4. Host(s)' = s /\ Claude'
    BY <1>4 DEF Claude, Host
  <2>5. \A k \in Sessions : proc[k] = "up" => k \in pooled
    BY <2>2 DEF SpawnsUnderMu
  <2>6. \A k \in Sessions : proc'[k] = "up" =>
          \/ k \in pooled'
          \/ \E d \in Sessions : sess'[d] = "spawning" /\ Host(d)' = k
          \/ \E p \in Prompts : Claude' /\ pc'[p] = "spawned" /\ Of[p] = k
    BY <1>4, <2>1, <2>3, <2>4, <2>5
  <2> QED BY <1>4, <2>1, <2>3, <2>6 DEF SpawnsUnderMu
\* ... and is up
<1>5. ASSUME NEW s \in Sessions, NEW h \in Sessions \cup Prompts, Claude, mu = h, Spawned(s),
             UNCHANGED <<engine, closed, proc, dpc>>,
             \/ h = s /\ sess' = [sess EXCEPT ![s] = "open"] /\ pc' = pc
             \/ h \in Prompts /\ Of[h] = s /\ pc' = [pc EXCEPT ![h] = "turn"] /\ sess' = sess
      PROVE  SpawnsUnderMu'
  <2>1. /\ \A d \in Sessions : sess[d] = "spawning" => d = h
        /\ \A p \in Prompts : pc[p] = "spawned" => p = h
        /\ ~closed
    BY <1>5 DEF SpawnsUnderMu
  <2>2. /\ \A d \in Sessions : sess'[d] # "spawning"
        /\ \A p \in Prompts : pc'[p] # "spawned"
    BY <1>0, <1>5, <2>1
  <2>3. \A d \in Sessions : Host(d) = d
    BY <1>5 DEF Claude, Host
  <2>4. \A k \in Sessions : proc[k] = "up" => k \in pooled \/ k = s
    BY <1>5, <2>1, <2>3 DEF SpawnsUnderMu
  <2>5. mu' = None /\ pooled' = pooled \cup {s}
    BY <1>5 DEF Spawned
  <2>6. dpc \notin {"kill", "retry", "done"}
    BY <2>1 DEF SpawnsUnderMu
  <2> QED BY <1>5, <2>1, <2>2, <2>4, <2>5, <2>6 DEF SpawnsUnderMu
<1>6. ASSUME NEW s \in Sessions, LoadSession(s) PROVE SpawnsUnderMu'
  <2>1. CASE Spawn(s, s) /\ sess' = [sess EXCEPT ![s] = "spawning"]
    BY <1>4, <1>6, <2>1 DEF LoadSession, teardown
  <2>2. CASE sess' = [sess EXCEPT ![s] = "failed"] /\ UNCHANGED <<mu, proc, loop>>
    BY <1>0, <1>6, <2>2, SpawnsFrame DEF LoadSession, teardown
  <2> QED BY <1>6, <2>1, <2>2 DEF LoadSession
<1>7. ASSUME NEW s \in Sessions, LoadSpawned(s) PROVE SpawnsUnderMu'
  BY <1>5, <1>7 DEF LoadSpawned, teardown
<1>8. ASSUME NEW p \in Prompts, ClaudePrompt(p) PROVE SpawnsUnderMu'
  <2>1. CASE Spawn(Of[p], p) /\ pc' = [pc EXCEPT ![p] = "spawned"]
    BY <1>4, <1>8, <2>1 DEF ClaudePrompt, teardown
  <2>2. CASE UNCHANGED <<mu, proc, loop>> /\ \E to \in {"turn", "done"} : pc' = [pc EXCEPT ![p] = to]
    BY <1>0, <1>8, <2>2, SpawnsFrame DEF ClaudePrompt, HostPrompts, teardown
  <2> QED BY <1>8, <2>1, <2>2 DEF ClaudePrompt, Return
<1>9. ASSUME NEW p \in Prompts, PromptSpawned(p) PROVE SpawnsUnderMu'
  BY <1>5, <1>9 DEF PromptSpawned, teardown
\* prompts past their spawn
<1>10. ASSUME NEW p \in Prompts,
              CodexPrompt(p) \/ CodexPromptStep(p) \/ ClaudeTurn(p) \/ WriteMessage(p)
              \/ ClaudePromptReturns(p) \/ CancelPrompt(p)
       PROVE  SpawnsUnderMu'
  <2>1. /\ UNCHANGED <<engine, mu, closed, pooled, dpc, sess, proc>>
        /\ \/ pc' = pc
           \/ pc[p] # "spawned" /\ \E to \in {"call", "write", "wait", "done"} : pc' = [pc EXCEPT ![p] = to]
    BY <1>10 DEF CodexPrompt, HostPrompts, CodexPromptStep, TurnStarted, StartFails, CodexPromptReturns,
       CodexTurnDone, CodexPeerDone, ClaudeTurn, WriteMessage, ClaudePromptReturns, CancelPrompt, Return,
       teardown
  <2> QED BY <1>0, <2>1, SpawnsFrame
<1>11. ASSUME NEW k \in Sessions, CodexLine(k) PROVE SpawnsUnderMu'
  <2>1. /\ UNCHANGED <<engine, mu, closed, pooled, dpc, sess, proc>>
        /\ \/ pc' = pc
           \/ \E p : pc[p] = "call" /\ \E to \in {"started", "startfailed"} : pc' = [pc EXCEPT ![p] = to]
    BY <1>11 DEF CodexLine, teardown
  <2> QED BY <1>0, <2>1, SpawnsFrame
<1>12. ASSUME NEW k \in Sessions,
              ClaudeLine(k) \/ LoopEnds(k) \/ \E d \in {"allow", "deny", "error"} : Decide(k, d)
       PROVE  SpawnsUnderMu'
  BY <1>12, SpawnsFrame DEF ClaudeLine, LoopEnds, Decide, bridge, teardown
<1>13. CASE CLIStep
  <2>1. /\ UNCHANGED <<engine, mu, closed, pooled, dpc, sess, pc>>
        /\ proc' = proc \/ \E k \in Sessions : proc' = [proc EXCEPT ![k] = "exited"]
    BY <1>13 DEF CLIStep, CLITakes, CLIRefuses, CLIErrs, CLIAsks, CLIExits, CLIEnds, bridge, teardown
  <2> QED BY <1>0, <2>1, SpawnsFrame
<1>14. CASE DisposeBegin \/ DisposeRetries
  BY <1>14, SpawnsFrame DEF DisposeBegin, DisposeRetries, bridge
<1>15. CASE EngineClose
  BY <1>15 DEF EngineClose, SpawnsUnderMu, Host, Claude, bridge
<1>16. CASE DisposeReturns
  BY <1>16 DEF DisposeReturns, SpawnsUnderMu, Host, Claude, bridge
<1>17. ASSUME NEW k \in Sessions, NEW c \in BOOLEAN, Kill(k, c) PROVE SpawnsUnderMu'
  <2>1. /\ UNCHANGED <<engine, mu, closed, dpc, pc>> /\ pooled' \subseteq pooled
        /\ \A d \in Sessions : sess'[d] = "spawning" <=> sess[d] = "spawning"
    BY <1>0, <1>17 DEF Kill
  <2>2. \A d \in Sessions : proc'[d] = "up" => proc[d] = "up" /\ (d \in pooled => d \in pooled')
    BY <1>0, <1>17 DEF Kill
  <2> QED BY <2>1, <2>2 DEF SpawnsUnderMu, Host, Claude
<1>18. CASE UNCHANGED nvars
  BY <1>18, SpawnsFrame DEF nvars
<1> QED BY <1>1, <1>2, <1>3, <1>6, <1>7, <1>8, <1>9, <1>10, <1>11, <1>12, <1>13, <1>14, <1>15, <1>16, <1>17, <1>18
        DEF Next, RequestStep, LoopStep, CodexSessionStep, ClaudeSessionStep, ClaudePromptStep, DisposeStep

\* Close leaves no process: whoever is starting one holds the mutex that Close
\* needs, and finds the engine closed afterwards (ensureDaemon, ensureSpawned).
THEOREM NoProcessIsLeft == Spec => []ClosedLeavesNoProcess
<1>1. Typed /\ SpawnsUnderMu => ClosedLeavesNoProcess
  BY NativeAssumption DEF SpawnsUnderMu, ClosedLeavesNoProcess
<1> QED BY <1>1, InitSpawns, NextSpawns, TypedHolds, PTL DEF Spec

LEMMA SpawnsHold == Spec => []SpawnsUnderMu
  BY InitSpawns, NextSpawns, TypedHolds, PTL DEF Spec

-----------------------------------------------------------------------------
(* Daemons.  A thread, and with it a turn, is on a pooled daemon until the *)
(* engine closes: a daemon that takes another's place serves no turn yet.  *)

OnDaemon(s) == sess[s] \in {"calling", "open"} \/ turn[s] # None
ThreadsPooled == Codex /\ ~closed => \A s \in Sessions : OnDaemon(s) => Key[s] \in pooled

LEMMA PooledFrame ==
    ASSUME ThreadsPooled, engine' = engine, closed => closed', pooled \subseteq pooled' \/ closed',
           \A s \in Sessions : OnDaemon(s)' => OnDaemon(s) \/ Key[s] \in pooled'
    PROVE  ThreadsPooled'
  BY DEF ThreadsPooled, Codex

LEMMA NextPooled == Typed /\ SpawnsUnderMu /\ ThreadsPooled /\ [Next]_nvars => ThreadsPooled'
<1> SUFFICES ASSUME Typed, SpawnsUnderMu, ThreadsPooled, [Next]_nvars PROVE ThreadsPooled'
  OBVIOUS
<1> USE NativeAssumption
<1>0. /\ sess \in [Sessions -> {"none", "spawning", "calling", "open", "failed", "dropped"}]
      /\ turn \in [Sessions -> Prompts \cup {None}] /\ pooled \subseteq Sessions
  BY DEF Typed, TypeOKN
<1>1. ASSUME NEW s \in Sessions, OpenThread(s) PROVE ThreadsPooled'
  <2>1. UNCHANGED <<engine, closed, pooled, turn>>
    BY <1>1 DEF OpenThread, teardown
  <2>2. \A d \in Sessions : sess'[d] = sess[d] \/ (d = s /\ (sess'[d] = "calling" => Key[d] \in pooled) /\ sess'[d] # "open")
    BY <1>0, <1>1 DEF OpenThread
  <2> QED BY <2>1, <2>2, PooledFrame DEF OnDaemon
<1>2. ASSUME NEW s \in Sessions, NEW ok \in BOOLEAN, Handshake(s, ok) PROVE ThreadsPooled'
  <2>1. UNCHANGED <<engine, closed, turn>> /\ pooled \subseteq pooled'
    BY <1>2 DEF Handshake, teardown
  <2>2. \A d \in Sessions : sess'[d] = sess[d] \/ (d = s /\ (sess'[d] = "calling" => Key[d] \in pooled') /\ sess'[d] # "open")
    BY <1>0, <1>2 DEF Handshake
  <2> QED BY <2>1, <2>2, PooledFrame DEF OnDaemon
<1>3. ASSUME NEW s \in Sessions, NEW ok \in BOOLEAN, ThreadOpened(s, ok) PROVE ThreadsPooled'
  <2>1. UNCHANGED <<engine, closed, turn, pooled>> /\ sess[s] = "calling"
    BY <1>3 DEF ThreadOpened, teardown
  <2>2. \A d \in Sessions : sess'[d] = sess[d] \/ d = s
    BY <1>0, <1>3 DEF ThreadOpened
  <2> QED BY <2>1, <2>2, PooledFrame DEF OnDaemon
<1>4. ASSUME NEW p \in Prompts, CodexPrompt(p) PROVE ThreadsPooled'
  <2>1. UNCHANGED <<engine, closed, sess, pooled>> /\ sess[Of[p]] = "open"
    BY <1>4 DEF CodexPrompt, teardown
  <2>2. \A d \in Sessions : turn'[d] = turn[d] \/ d = Of[p]
    BY <1>0, <1>4 DEF CodexPrompt
  <2> QED BY <2>1, <2>2, PooledFrame DEF OnDaemon
<1>5. ASSUME NEW p \in Prompts, CodexPromptStep(p) PROVE ThreadsPooled'
  <2>1. UNCHANGED <<engine, closed, sess, pooled>>
    BY <1>5 DEF CodexPromptStep, TurnStarted, StartFails, CodexPromptReturns, teardown
  <2>2. turn' = turn \/ turn' = [turn EXCEPT ![Of[p]] = None]
    BY <1>5 DEF CodexPromptStep, TurnStarted, StartFails, TurnDropped, CodexPromptReturns
  <2>3. \A d \in Sessions : turn'[d] = turn[d] \/ turn'[d] = None
    BY <1>0, <2>2
  <2> QED BY <2>1, <2>3, PooledFrame DEF OnDaemon
<1>6. ASSUME Claude, engine' = engine PROVE ThreadsPooled'
  BY <1>6 DEF ThreadsPooled, Claude, Codex
<1>7. ASSUME \/ \E s \in Sessions : ClaudeSessionStep(s) \/ ClaudeLine(s)
             \/ \E p \in Prompts : ClaudePrompt(p) \/ ClaudePromptStep(p)
      PROVE  ThreadsPooled'
  BY <1>6, <1>7 DEF ClaudeSessionStep, NewSession, LoadSession, LoadSpawned, ClaudePrompt, ClaudePromptStep,
     PromptSpawned, ClaudeTurn, WriteMessage, ClaudePromptReturns, ClaudeLine, bridge
<1>8. ASSUME UNCHANGED <<engine, closed, sess, pooled, turn>> PROVE ThreadsPooled'
  BY <1>8, PooledFrame DEF OnDaemon
<1>9. ASSUME \/ \E k \in Sessions : CodexLine(k) \/ LoopEnds(k) \/ \E d \in {"allow", "deny", "error"} : Decide(k, d)
             \/ \E p \in Prompts : CancelPrompt(p)
      PROVE  ThreadsPooled'
  BY <1>8, <1>9 DEF CodexLine, LoopEnds, CancelPrompt, Decide, bridge, teardown
<1>10. CASE CLIStep
  BY <1>8, <1>10 DEF CLIStep, CLITakes, CLIRefuses, CLIErrs, CLIAsks, CLIExits, CLIEnds, bridge, teardown
<1>11. CASE DisposeBegin \/ DisposeRetries \/ DisposeReturns
  BY <1>8, <1>11 DEF DisposeBegin, DisposeRetries, DisposeReturns, bridge, teardown
<1>12. CASE EngineClose
  BY <1>12 DEF EngineClose, ThreadsPooled
<1>13. ASSUME NEW k \in Sessions, NEW c \in BOOLEAN, Kill(k, c) PROVE ThreadsPooled'
  BY <1>13 DEF Kill, SpawnsUnderMu, ThreadsPooled
<1>14. CASE UNCHANGED nvars
  BY <1>8, <1>14 DEF nvars
<1> QED BY <1>1, <1>2, <1>3, <1>4, <1>5, <1>7, <1>9, <1>10, <1>11, <1>12, <1>13, <1>14
        DEF Next, RequestStep, LoopStep, CodexSessionStep, DisposeStep

LEMMA PooledHold == Spec => []ThreadsPooled
<1>1. Init => ThreadsPooled
  BY NativeAssumption DEF Init, ThreadsPooled, OnDaemon
<1> QED BY <1>1, NextPooled, SpawnsHold, TypedHolds, PTL DEF Spec

-----------------------------------------------------------------------------
(* Turns.  The turn of a session is that of a prompt for it that has       *)
(* registered it and waits for it.                                         *)

TurnsOwned ==
    /\ \A s \in Sessions : turn[s] # None =>
          Of[turn[s]] = s /\ pc[turn[s]] \notin {"idle", "spawned", "turn"}
    /\ \A p \in Prompts : Codex /\ pc[p] = "wait" /\ turn[Of[p]] = p => waitOn[p] = p

TurnInv == TurnsOwned /\ BusyOnlyAfterCancel

LEMMA InitTurns == Init => TurnInv
  BY DEF Init, TurnInv, TurnsOwned, BusyOnlyAfterCancel, Unfinished

\* No prompt moves; turns may finish and processes may go.
LEMMA TurnsFrame ==
    ASSUME Typed, TurnInv, UNCHANGED <<engine, turn, waitOn, pc, res>>,
           \A s \in Sessions : turn[s] # None /\ Host(s) \in gone => Host(s) \in gone',
           \A p \in Prompts : fin'[p] = "no" => fin[p] = "no"
    PROVE  TurnInv'
<1>1. \A s \in Sessions : turn[s] \in Prompts \cup {None}
  BY DEF Typed, TypeOKN
<1>2. TurnsOwned'
  BY DEF TurnInv, TurnsOwned, Codex
<1>3. BusyOnlyAfterCancel'
  BY <1>1 DEF TurnInv, BusyOnlyAfterCancel, Unfinished, Host
<1> QED BY <1>2, <1>3 DEF TurnInv

\* A prompt moves, or is refused, before it has a turn.
LEMMA BeforeTurn ==
    ASSUME Typed, TurnInv, UNCHANGED <<engine, turn, waitOn, fin, gone>>,
           NEW p \in Prompts, pc[p] \in {"idle", "spawned", "turn"},
           NEW to \in {"spawned", "turn", "done"}, pc' = [pc EXCEPT ![p] = to],
           \A q \in Prompts \ {p} : res'[q] = res[q]
    PROVE  TurnInv'
<1>1. /\ \A s \in Sessions : turn[s] \in Prompts \cup {None} /\ turn[s] # p
      /\ \A q \in Prompts \ {p} : pc'[q] = pc[q]
      /\ pc'[p] # "wait" /\ None \notin Prompts
  BY NativeAssumption DEF Typed, TypeOKN, TurnInv, TurnsOwned
<1>2. TurnsOwned'
  BY <1>1 DEF TurnInv, TurnsOwned, Codex
<1>3. BusyOnlyAfterCancel'
  BY <1>1 DEF TurnInv, BusyOnlyAfterCancel, Unfinished, Host
<1> QED BY <1>2, <1>3 DEF TurnInv

\* A prompt registers its turn.
LEMMA TurnRegistered ==
    ASSUME Typed, TurnInv, UNCHANGED <<engine, fin, gone, res>>,
           NEW p \in Prompts, turn' = [turn EXCEPT ![Of[p]] = p],
           NEW to \in {"call", "write"}, pc' = [pc EXCEPT ![p] = to],
           \A q \in Prompts \ {p} : waitOn'[q] = waitOn[q]
    PROVE  TurnInv'
<1>1. /\ \A s \in Sessions : turn[s] \in Prompts \cup {None}
      /\ \A s \in Sessions : turn'[s] = IF s = Of[p] THEN p ELSE turn[s]
      /\ \A q \in Prompts : pc'[q] = IF q = p THEN to ELSE pc[q]
      /\ Of[p] \in Sessions
  BY NativeAssumption DEF Typed, TypeOKN
<1>2. TurnsOwned'
  <2>1. ASSUME NEW s \in Sessions, turn'[s] # None
        PROVE  Of[turn'[s]] = s /\ pc'[turn'[s]] \notin {"idle", "spawned", "turn"}
    BY <1>1, <2>1 DEF TurnInv, TurnsOwned
  <2>2. ASSUME NEW q \in Prompts, Codex, pc'[q] = "wait", turn'[Of[q]] = q
        PROVE  waitOn'[q] = q
    <3>1. q # p /\ Of[q] \in Sessions
      BY <1>1, <2>2, NativeAssumption
    <3>2. pc[q] = "wait" /\ turn[Of[q]] = q
      BY <1>1, <2>2, <3>1
    <3> QED BY <2>2, <3>1, <3>2 DEF TurnInv, TurnsOwned
  <2> QED BY <2>1, <2>2 DEF TurnsOwned, Codex
<1>3. BusyOnlyAfterCancel'
  BY <1>1 DEF TurnInv, BusyOnlyAfterCancel, Unfinished, Host
<1> QED BY <1>2, <1>3 DEF TurnInv

\* A prompt with a turn moves on, without returning.
LEMMA TurnGoesOn ==
    ASSUME Typed, TurnInv, UNCHANGED <<engine, turn, gone, res>>,
           NEW p \in Prompts, NEW to \in {"started", "startfailed", "wait"}, pc' = [pc EXCEPT ![p] = to],
           \A q \in Prompts \ {p} : waitOn'[q] = waitOn[q],
           to = "wait" => Claude \/ waitOn'[p] = turn[Of[p]],
           \A q \in Prompts : fin'[q] = "no" => fin[q] = "no"
    PROVE  TurnInv'
<1>1. /\ \A s \in Sessions : turn[s] \in Prompts \cup {None}
      /\ \A q \in Prompts : pc'[q] = IF q = p THEN to ELSE pc[q]
  BY DEF Typed, TypeOKN
<1>2. TurnsOwned'
  BY <1>1 DEF TurnInv, TurnsOwned, Codex, Claude
<1>3. BusyOnlyAfterCancel'
  BY <1>1 DEF TurnInv, BusyOnlyAfterCancel, Unfinished, Host
<1> QED BY <1>2, <1>3 DEF TurnInv

\* A prompt with a turn returns: the turn is over or dropped, the prompt was
\* cancelled, or the process has gone.
LEMMA TurnReturns ==
    ASSUME Typed, TurnInv, UNCHANGED <<engine, fin, gone, waitOn>>, NEW p \in Prompts, NEW r, Return(p, r),
           \/ UNCHANGED turn
           \/ turn' = [turn EXCEPT ![Of[p]] = None],
           turn'[Of[p]] = p => fin[p] # "no" \/ r = "ctx" \/ Host(Of[p]) \in gone
    PROVE  TurnInv'
<1>1. /\ \A s \in Sessions : turn[s] \in Prompts \cup {None}
      /\ \A s \in Sessions : turn'[s] = turn[s] \/ turn'[s] = None
      /\ \A q \in Prompts : pc'[q] = IF q = p THEN "done" ELSE pc[q]
      /\ \A q \in Prompts : res'[q] = IF q = p THEN r ELSE res[q]
  BY DEF Typed, TypeOKN, Return
<1>2. TurnsOwned'
  BY <1>1, NativeAssumption DEF TurnInv, TurnsOwned, Codex
<1>3. ASSUME NEW s \in Sessions, turn'[s] # None, fin[turn'[s]] = "no", pc'[turn'[s]] = "done"
      PROVE  res'[turn'[s]] = "ctx" \/ Host(s) \in gone
  <2>1. turn'[s] = turn[s] /\ turn[s] \in Prompts
    BY <1>1, <1>3
  <2>2. CASE turn[s] = p
    <3>1. Of[p] = s
      BY <1>3, <2>1, <2>2 DEF TurnInv, TurnsOwned
    <3> QED BY <1>1, <1>3, <2>1, <2>2, <3>1
  <2>3. CASE turn[s] # p
    BY <1>1, <1>3, <2>1, <2>3 DEF TurnInv, BusyOnlyAfterCancel, Unfinished
  <2> QED BY <2>2, <2>3
<1>4. BusyOnlyAfterCancel'
  BY <1>3 DEF BusyOnlyAfterCancel, Unfinished, Host
<1> QED BY <1>2, <1>4 DEF TurnInv

LEMMA NextTurns == Typed /\ ThreadsPooled /\ TurnInv /\ [Next]_nvars => TurnInv'
<1> SUFFICES ASSUME Typed, ThreadsPooled, TurnInv, [Next]_nvars PROVE TurnInv'
  OBVIOUS
<1>1. ASSUME NEW p \in Prompts, CodexPrompt(p) \/ ClaudeTurn(p) PROVE TurnInv'
  <2>1. pc[p] \in {"idle", "turn"} /\ UNCHANGED <<engine, fin, gone>>
    BY <1>1 DEF CodexPrompt, HostPrompts, ClaudeTurn
  <2>2. ASSUME Return(p, "refused"), UNCHANGED <<turn, waitOn>> PROVE TurnInv'
    <3>1. pc' = [pc EXCEPT ![p] = "done"] /\ \A q \in Prompts \ {p} : res'[q] = res[q]
      BY <2>2 DEF Return, Typed, TypeOKN
    <3> QED BY <2>1, <2>2, <3>1, BeforeTurn
  <2>3. ASSUME turn' = [turn EXCEPT ![Of[p]] = p], UNCHANGED res,
               NEW to \in {"call", "write"}, pc' = [pc EXCEPT ![p] = to],
               waitOn' = waitOn \/ waitOn' = [waitOn EXCEPT ![p] = p]
        PROVE  TurnInv'
    <3>1. \A q \in Prompts \ {p} : waitOn'[q] = waitOn[q]
      BY <2>3 DEF Typed, TypeOKN
    <3> QED BY <2>1, <2>3, <3>1, TurnRegistered
  <2>4. CASE CodexPrompt(p)
    BY <2>2, <2>3, <2>4 DEF CodexPrompt
  <2>5. CASE ClaudeTurn(p)
    BY <2>2, <2>3, <2>5 DEF ClaudeTurn
  <2> QED BY <1>1, <2>4, <2>5
<1>2. ASSUME NEW p \in Prompts, ClaudePrompt(p) \/ PromptSpawned(p) PROVE TurnInv'
  <2>1. /\ pc[p] \in {"idle", "spawned"} /\ UNCHANGED <<engine, turn, waitOn, fin, gone>>
        /\ \E to \in {"spawned", "turn", "done"} : pc' = [pc EXCEPT ![p] = to]
        /\ res' = res \/ res' = [res EXCEPT ![p] = "nospawn"]
    BY <1>2 DEF ClaudePrompt, HostPrompts, PromptSpawned, Return
  <2>2. \A q \in Prompts \ {p} : res'[q] = res[q]
    BY <2>1 DEF Typed, TypeOKN
  <2> QED BY <2>1, <2>2, BeforeTurn
<1>3. ASSUME NEW p \in Prompts, TurnStarted(p) \/ WriteMessage(p) PROVE TurnInv'
  <2>1. /\ UNCHANGED <<engine, turn, gone, res, fin>> /\ pc' = [pc EXCEPT ![p] = "wait"]
        /\ waitOn' = [waitOn EXCEPT ![p] = turn[Of[p]]] \/ (Claude /\ waitOn' = waitOn)
    BY <1>3 DEF TurnStarted, WriteMessage
  <2>2. /\ \A q \in Prompts \ {p} : waitOn'[q] = waitOn[q]
        /\ Claude \/ waitOn'[p] = turn[Of[p]]
    BY <2>1 DEF Typed, TypeOKN
  <2> QED BY <2>1, <2>2, TurnGoesOn
<1>4. ASSUME NEW p \in Prompts, StartFails(p) PROVE TurnInv'
  <2>1. /\ turn' = [turn EXCEPT ![Of[p]] = None] /\ Return(p, "startfailed")
        /\ UNCHANGED <<engine, fin, gone, waitOn>>
    BY <1>4 DEF StartFails, TurnDropped
  <2>2. turn'[Of[p]] # p
    BY <2>1, NativeAssumption DEF Typed, TypeOKN
  <2> QED BY <2>1, <2>2, TurnReturns
<1>5. ASSUME NEW p \in Prompts, CodexPromptReturns(p) PROVE TurnInv'
  <2>1. Codex /\ pc[p] = "wait" /\ UNCHANGED <<engine, turn, fin, gone, waitOn>> /\ Host(Of[p]) = Key[Of[p]]
    BY <1>5 DEF CodexPromptReturns, Codex, Host
  <2>2. turn[Of[p]] = p => waitOn[p] = p
    BY <2>1 DEF TurnInv, TurnsOwned
  <2>3. CASE CodexTurnDone(p)
    BY <2>1, <2>2, <2>3, TurnReturns DEF CodexTurnDone
  <2>4. CASE CodexPeerDone(p)
    BY <2>1, <2>4, TurnReturns DEF CodexPeerDone
  <2>5. CASE Return(p, "ctx")
    BY <2>1, <2>5, TurnReturns
  <2> QED BY <1>5, <2>3, <2>4, <2>5 DEF CodexPromptReturns
<1>6. ASSUME NEW p \in Prompts, ClaudePromptReturns(p) PROVE TurnInv'
  <2>1. UNCHANGED <<engine, turn, fin, gone, waitOn>> /\ Host(Of[p]) = Of[p]
    BY <1>6 DEF ClaudePromptReturns, Claude, Host
  <2> QED BY <1>6, <2>1, TurnReturns DEF ClaudePromptReturns
<1>7. ASSUME NEW k \in Sessions, CodexLine(k) PROVE TurnInv'
  <2>1. \A q \in Prompts : fin'[q] = "no" => fin[q] = "no"
    <3>1. /\ fin' \in {fin, Completed(Head(out[k]).s, Head(out[k]).how), Settle(fin, Head(out[k]).s, "err")}
          /\ Head(out[k]).s \in Sessions
      BY <1>7, ReadTyped DEF CodexLine, Typed, Line
    <3>2. \A f \in [Prompts -> {"no", "ok", "err"}], t \in Sessions, how \in {"ok", "err"}, q \in Prompts :
              /\ Settle(f, t, how) \in [Prompts -> {"no", "ok", "err"}]
              /\ Settle(f, t, how)[q] = "no" => f[q] = "no"
      BY DEF Settle, Typed, TypeOKN
    <3>3. fin \in [Prompts -> {"no", "ok", "err"}]
      BY DEF Typed, TypeOKN
    <3> QED BY <3>1, <3>2, <3>3 DEF Completed
  <2>2. UNCHANGED <<engine, turn, waitOn, res, gone>>
    BY <1>7 DEF CodexLine
  <2>3. \/ pc' = pc
        \/ \E to \in {"started", "startfailed"} : pc' = [pc EXCEPT ![Head(out[k]).p] = to]
    BY <1>7 DEF CodexLine
  <2>4. Head(out[k]).p \in Prompts
    BY <1>7, ReadTyped DEF CodexLine, Typed, Line
  <2> QED BY <2>1, <2>2, <2>3, <2>4, TurnsFrame, TurnGoesOn
<1>8. ASSUME NEW k \in Sessions, ClaudeLine(k) PROVE TurnInv'
  <2>1. \A q \in Prompts : fin'[q] = "no" => fin[q] = "no"
    BY <1>8 DEF ClaudeLine, HowEnded, Typed, TypeOKN
  <2> QED BY <1>8, <2>1, TurnsFrame DEF ClaudeLine, bridge
<1>9. ASSUME UNCHANGED <<engine, turn, waitOn, pc, res, fin>>, gone \subseteq gone' PROVE TurnInv'
  BY <1>9, TurnsFrame
<1>10. ASSUME NEW s \in Sessions, CodexSessionStep(s) \/ ClaudeSessionStep(s) PROVE TurnInv'
  <2>1. CASE OpenThread(s)
    <3>1. UNCHANGED <<engine, turn, waitOn, pc, res, fin>> /\ Codex
      BY <2>1 DEF OpenThread
    <3>2. gone' = gone \/ (~closed /\ Key[s] \notin pooled /\ gone' = gone \ {Key[s]})
      BY <2>1 DEF OpenThread, MayAdmit
    <3>3. \A d \in Sessions : turn[d] # None /\ Host(d) \in gone => Host(d) \in gone'
      BY <3>1, <3>2 DEF ThreadsPooled, OnDaemon, Host, Codex
    <3> QED BY <3>1, <3>3, TurnsFrame
  <2> QED BY <1>9, <1>10, <2>1 DEF CodexSessionStep, Handshake, ThreadOpened, ClaudeSessionStep, NewSession,
          LoadSession, LoadSpawned
<1>11. ASSUME NEW p \in Prompts, CancelPrompt(p) PROVE TurnInv'
  BY <1>9, <1>11 DEF CancelPrompt
<1>12. ASSUME NEW k \in Sessions, LoopEnds(k) \/ \E d \in {"allow", "deny", "error"} : Decide(k, d)
       PROVE  TurnInv'
  BY <1>9, <1>12 DEF LoopEnds, Decide, bridge
<1>13. CASE CLIStep
  BY <1>9, <1>13 DEF CLIStep, CLITakes, CLIRefuses, CLIErrs, CLIAsks, CLIExits, CLIEnds, bridge
<1>14. CASE DisposeBegin \/ DisposeRetries \/ DisposeStep
  BY <1>9, <1>14 DEF DisposeBegin, DisposeRetries, DisposeStep, EngineClose, DisposeReturns, Kill, bridge
<1>15. CASE UNCHANGED nvars
  BY <1>9, <1>15 DEF nvars
<1> QED BY <1>1, <1>2, <1>3, <1>4, <1>5, <1>6, <1>7, <1>8, <1>10, <1>11, <1>12, <1>13, <1>14, <1>15
        DEF Next, RequestStep, LoopStep, CodexPromptStep, ClaudePromptStep

LEMMA TurnsHold == Spec => []TurnInv
  BY InitTurns, NextTurns, PooledHold, TypedHolds, PTL DEF Spec

\* A prompt that returned leaves its turn unfinished only if it was cancelled or
\* the process stream closed (prompt of both engines).
THEOREM BusyOnlyAfterCancelHolds == Spec => []BusyOnlyAfterCancel
  BY TurnsHold, PTL DEF TurnInv

-----------------------------------------------------------------------------
(* claude's stream.  A session's message is in one place at a time: to be  *)
(* written, in the CLI's queue, being run, or answered by a result that is *)
(* not read yet; and its turn stays unfinished until that result is read.  *)

Vacant(s) == inq[s] = <<>> /\ running[s] = None /\ Unread(s) = {}
Underway(s) == turn[s] # None /\ fin[turn[s]] = "no" /\ pc[turn[s]] \in {"wait", "done"}

Waiting(s) == inq[s] = <<turn[s]>> /\ running[s] = None /\ Unread(s) = {} /\ told[turn[s]] = "none"
Running(s) == inq[s] = <<>> /\ running[s] = turn[s] /\ Unread(s) = {} /\ told[turn[s]] = "none"
Answered(s) ==
    /\ inq[s] = <<>> /\ running[s] = None
    /\ \E i \in DOMAIN out[s] : Unread(s) = {i} /\ out[s][i].how = told[turn[s]]

Stage(s) == Vacant(s) \/ (Underway(s) /\ (Waiting(s) \/ Running(s) \/ Answered(s)))

\* Nobody is told of a prompt before it is written, and all agree afterwards.
Placed(p) ==
    /\ pc[p] \in {"idle", "spawned", "turn", "write"} => fin[p] = "no" /\ told[p] = "none"
    /\ pc[p] = "write" => turn[Of[p]] = p /\ Vacant(Of[p])
    /\ fin[p] = "ok" => told[p] = "ok"
    /\ fin[p] = "err" => told[p] = "failed"
    /\ res[p] = "ok" => told[p] = "ok"
    /\ res[p] = "failed" => told[p] = "failed"

Staged == Claude => (\A s \in Sessions : Stage(s)) /\ (\A p \in Prompts : Placed(p))

LEMMA TailShifts ==
    ASSUME NEW S, NEW q \in Seq(S), q # <<>>
    PROVE  /\ Len(q) \in Nat \ {0} /\ DOMAIN q = 1..Len(q) /\ Head(q) = q[1]
           /\ DOMAIN Tail(q) = 1..(Len(q) - 1)
           /\ \A i \in 1..(Len(q) - 1) : Tail(q)[i] = q[i + 1]
<1>1. Len(q) \in Nat /\ DOMAIN q = 1..Len(q) /\ Head(q) = q[1]
  OBVIOUS
<1>2. Len(q) # 0
  OBVIOUS
<1>3. Tail(q) \in Seq(S) /\ Len(Tail(q)) = Len(q) - 1
  BY <1>2
<1> QED BY <1>1, <1>2, <1>3

LEMMA UnreadTail ==
    ASSUME WireTyped, NEW s \in Sessions, out[s] # <<>>, out' = [out EXCEPT ![s] = Tail(@)]
    PROVE  /\ \A i \in Nat : i \in Unread(s)' <=> i # 0 /\ i + 1 \in Unread(s)
           /\ \A i \in Unread(s)' : i \in Nat /\ out'[s][i] = out[s][i + 1]
           /\ 1 \in Unread(s) <=> Head(out[s]).type = "end"
           /\ Head(out[s]) = out[s][1]
           /\ Unread(s) \subseteq Nat \ {0}
<1>1. out[s] \in Seq(Line) /\ out'[s] = Tail(out[s])
  BY DEF WireTyped
<1>2. /\ Len(out[s]) \in Nat \ {0} /\ DOMAIN out[s] = 1..Len(out[s])
      /\ DOMAIN out'[s] = 1..(Len(out[s]) - 1)
      /\ \A i \in 1..(Len(out[s]) - 1) : out'[s][i] = out[s][i + 1]
      /\ Head(out[s]) = out[s][1]
  BY <1>1, TailShifts
<1>3. Unread(s)' = {i \in DOMAIN out'[s] : out'[s][i].type = "end"}
  BY DEF Unread
<1>4. Unread(s) = {i \in DOMAIN out[s] : out[s][i].type = "end"}
  BY DEF Unread
<1> QED BY <1>2, <1>3, <1>4

LEMMA UnreadAppend ==
    ASSUME WireTyped, NEW s \in Sessions, NEW e \in Line, Emit(s, e)
    PROVE  /\ \A i : i \in Unread(s)' <=> i \in Unread(s) \/ (i = Len(out[s]) + 1 /\ e.type = "end")
           /\ \A i \in Unread(s) : out'[s][i] = out[s][i]
           /\ Len(out[s]) + 1 \in DOMAIN out'[s] /\ out'[s][Len(out[s]) + 1] = e
           /\ DOMAIN out[s] \subseteq DOMAIN out'[s]
<1>1. out[s] \in Seq(Line) /\ out'[s] = Append(out[s], e)
  BY DEF WireTyped, Emit
<1>2. /\ Len(out[s]) \in Nat /\ DOMAIN out[s] = 1..Len(out[s])
      /\ DOMAIN out'[s] = 1..(Len(out[s]) + 1)
      /\ \A i \in 1..Len(out[s]) : out'[s][i] = out[s][i]
      /\ out'[s][Len(out[s]) + 1] = e
  BY <1>1
<1>3. Unread(s)' = {i \in DOMAIN out'[s] : out'[s][i].type = "end"}
  BY DEF Unread
<1>4. Unread(s) = {i \in DOMAIN out[s] : out[s][i].type = "end"}
  BY DEF Unread
<1> QED BY <1>2, <1>3, <1>4

LEMMA InitStaged == Init => Staged
<1> SUFFICES ASSUME Init PROVE Staged
  OBVIOUS
<1>1. \A s \in Sessions : Vacant(s)
  BY DEF Init, Vacant, Unread
<1>2. \A p \in Prompts : Placed(p)
  BY DEF Init, Placed
<1> QED BY <1>1, <1>2 DEF Staged, Stage

\* Nothing of a session's turn moves.
LEMMA SessionFrame ==
    ASSUME NEW s \in Sessions, turn'[s] = turn[s], inq'[s] = inq[s], running'[s] = running[s],
           out'[s] = out[s],
           turn[s] # None => told'[turn[s]] = told[turn[s]],
           Underway(s) => Underway(s)'
    PROVE  (Stage(s) => Stage(s)') /\ (Vacant(s) => Vacant(s)')
<1>1. Unread(s)' = Unread(s)
  BY DEF Unread
<1>2. Vacant(s) => Vacant(s)'
  BY <1>1 DEF Vacant
<1>3. Underway(s) /\ Waiting(s) => Waiting(s)'
  BY <1>1 DEF Waiting, Underway
<1>4. Underway(s) /\ Running(s) => Running(s)'
  BY <1>1 DEF Running, Underway
<1>5. Underway(s) /\ Answered(s) => Answered(s)'
  BY <1>1 DEF Answered, Underway
<1> QED BY <1>2, <1>3, <1>4, <1>5 DEF Stage

\* A step about one session and its prompts.
LEMMA OneSession ==
    ASSUME Typed, TurnInv, Staged, Claude, engine' = engine, NEW s \in Sessions,
           \A t \in Sessions \ {s} : /\ turn'[t] = turn[t] /\ inq'[t] = inq[t]
                                     /\ running'[t] = running[t] /\ out'[t] = out[t],
           \A q \in Prompts : Of[q] # s => /\ pc'[q] = pc[q] /\ fin'[q] = fin[q]
                                           /\ told'[q] = told[q] /\ res'[q] = res[q],
           Stage(s)', \A q \in Prompts : Of[q] = s => Placed(q)'
    PROVE  Staged'
<1>1. ASSUME NEW t \in Sessions \ {s} PROVE Stage(t)' /\ (Vacant(t) => Vacant(t)')
  <2>1. turn[t] # None => turn[t] \in Prompts /\ Of[turn[t]] = t
    BY DEF Typed, TypeOKN, TurnInv, TurnsOwned
  <2>2. turn[t] # None => told'[turn[t]] = told[turn[t]]
    BY <2>1
  <2>3. Underway(t) => Underway(t)'
    BY <2>1 DEF Underway
  <2>4. Stage(t)
    BY DEF Staged
  <2> QED BY <2>2, <2>3, <2>4, SessionFrame
<1>2. ASSUME NEW q \in Prompts, Of[q] # s PROVE Placed(q)'
  <2>1. Of[q] \in Sessions \ {s}
    BY <1>2, NativeAssumption
  <2>2. Placed(q)
    BY DEF Staged
  <2>3. pc'[q] = pc[q] /\ fin'[q] = fin[q] /\ told'[q] = told[q] /\ res'[q] = res[q]
    BY <1>2
  <2>4. turn'[Of[q]] = turn[Of[q]] /\ (Vacant(Of[q]) => Vacant(Of[q])')
    BY <1>1, <2>1
  <2> QED BY <2>2, <2>3, <2>4 DEF Placed
<1> QED BY <1>1, <1>2 DEF Staged
\* A prompt moves on before its turn, or returns, and its session's turn does
\* not: what it reports is what the CLI told of it, if it reports that at all.
LEMMA PromptMoves ==
    ASSUME Typed, TurnInv, Staged, Claude, NEW p \in Prompts,
           UNCHANGED <<engine, turn, fin, out, inq, running, told>>,
           NEW to \in {"spawned", "turn", "done"}, pc' = [pc EXCEPT ![p] = to],
           pc[p] \in {"idle", "spawned", "turn"} \/ (pc[p] = "wait" /\ to = "done"),
           \/ res' = res
           \/ \E r : /\ res' = [res EXCEPT ![p] = r]
                     /\ r = "ok" => fin[p] = "ok"
                     /\ r = "failed" => fin[p] = "err"
    PROVE  Staged'
<1>1. /\ \A q \in Prompts : pc'[q] = IF q = p THEN to ELSE pc[q]
      /\ \A q \in Prompts \ {p} : res'[q] = res[q]
      /\ res'[p] = "ok" => res[p] = "ok" \/ fin[p] = "ok"
      /\ res'[p] = "failed" => res[p] = "failed" \/ fin[p] = "err"
  BY DEF Typed, TypeOKN
<1>2. \A s \in Sessions : Stage(s)' /\ (Vacant(s) => Vacant(s)')
  <2> SUFFICES ASSUME NEW s \in Sessions PROVE Stage(s)' /\ (Vacant(s) => Vacant(s)')
    OBVIOUS
  <2>1. turn[s] # None => turn[s] \in Prompts /\ pc[turn[s]] \notin {"idle", "spawned", "turn"}
    BY DEF Typed, TypeOKN, TurnInv, TurnsOwned
  <2>2. Underway(s) => Underway(s)'
    BY <1>1, <2>1 DEF Underway
  <2>3. Stage(s)
    BY DEF Staged
  <2> QED BY <2>2, <2>3, SessionFrame
<1>3. ASSUME NEW q \in Prompts PROVE Placed(q)'
  <2>1. Placed(q) /\ Of[q] \in Sessions
    BY NativeAssumption DEF Staged
  <2>2. pc'[q] \in {"idle", "spawned", "turn", "write"} => pc[q] \in {"idle", "spawned", "turn", "write"}
    BY <1>1
  <2>3. pc'[q] = "write" => pc[q] = "write"
    BY <1>1
  <2>4. /\ res'[q] = "ok" => told[q] = "ok"
        /\ res'[q] = "failed" => told[q] = "failed"
    BY <1>1, <2>1 DEF Placed
  <2> QED BY <1>2, <2>1, <2>2, <2>3, <2>4 DEF Placed
<1> QED BY <1>2, <1>3 DEF Staged

LEMMA TurnPlaced ==
    ASSUME Typed, TurnInv, Staged, Claude, NEW p \in Prompts, ClaudeTurn(p), ~InFlight(Of[p])
    PROVE  Staged'
<1> DEFINE s == Of[p]
<1>1. s \in Sessions
  BY NativeAssumption
<1>2. /\ \A t \in Sessions : turn'[t] = IF t = s THEN p ELSE turn[t]
      /\ \A q \in Prompts : pc'[q] = IF q = p THEN "write" ELSE pc[q]
      /\ pc[p] = "turn"
      /\ UNCHANGED <<engine, fin, out, inq, running, told, res>>
  BY <1>1 DEF ClaudeTurn, Typed, TypeOKN, cli
<1>3. Vacant(s) /\ Vacant(s)'
  <2>1. ~Underway(s) /\ Stage(s)
    BY <1>1 DEF InFlight, Unfinished, Underway, Staged
  <2> QED BY <1>2, <2>1 DEF Stage, Vacant, Unread
<1>4. ASSUME NEW q \in Prompts, Of[q] = s PROVE Placed(q)'
  <2>1. Placed(q)
    BY DEF Staged
  <2>2. CASE q = p
    BY <1>1, <1>2, <1>3, <2>1, <2>2 DEF Placed
  <2>3. CASE q # p
    <3>1. pc[q] # "write"
      BY <1>4, <2>1, NativeAssumption DEF Placed, InFlight, Unfinished
    <3> QED BY <1>2, <2>1, <2>3, <3>1 DEF Placed
  <2> QED BY <2>2, <2>3
<1>5. Stage(s)'
  BY <1>3 DEF Stage
<1> QED BY <1>1, <1>2, <1>4, <1>5, OneSession

LEMMA MessagePlaced ==
    ASSUME Typed, TurnInv, Staged, Claude, NEW p \in Prompts, WriteMessage(p)
    PROVE  Staged'
<1> DEFINE s == Of[p]
<1>1. s \in Sessions /\ p # None
  BY NativeAssumption
<1>2. /\ \A q \in Prompts : pc'[q] = IF q = p THEN "wait" ELSE pc[q]
      /\ pc[p] = "write"
      /\ UNCHANGED <<engine, turn, fin, out, running, told, res>>
  BY DEF WriteMessage, Typed, TypeOKN
<1>3. /\ \A t \in Sessions \ {s} : inq'[t] = inq[t]
      /\ inq'[s] = inq[s] \/ inq'[s] = Append(inq[s], p)
  BY <1>1 DEF WriteMessage, Typed, WireTyped
<1>4. Vacant(s) /\ turn[s] = p /\ fin[p] = "no" /\ told[p] = "none"
  BY <1>2 DEF Staged, Placed
<1>5. inq'[s] = <<>> \/ inq'[s] = <<p>>
  BY <1>3, <1>4 DEF Vacant
<1>6. Underway(s)' /\ Unread(s)' = {} /\ running'[s] = None
  BY <1>1, <1>2, <1>4 DEF Underway, Vacant, Unread
<1>7. Stage(s)'
  BY <1>2, <1>4, <1>5, <1>6 DEF Stage, Vacant, Waiting
<1>8. ASSUME NEW q \in Prompts, Of[q] = s PROVE Placed(q)'
  <2>1. Placed(q)
    BY DEF Staged
  <2>2. pc'[q] # "write"
    BY <1>2, <1>4, <1>8, <2>1 DEF Placed
  <2> QED BY <1>2, <2>1, <2>2 DEF Placed
<1> QED BY <1>1, <1>2, <1>3, <1>7, <1>8, OneSession

\* The CLI takes the message it was sent...
LEMMA TakenPlaced ==
    ASSUME Typed, TurnInv, Staged, Claude, NEW s \in Sessions, CLITakes(s)
    PROVE  Staged'
<1>1. /\ UNCHANGED <<engine, pc, turn, fin, out, told, res>>
      /\ inq[s] # <<>>
      /\ running' = [running EXCEPT ![s] = Head(inq[s])]
      /\ inq' = [inq EXCEPT ![s] = Tail(@)]
  BY DEF CLITakes, Claude, bridge
<1>2. Underway(s) /\ Waiting(s)
  BY <1>1 DEF Staged, Stage, Vacant, Running, Answered
<1>3. Head(inq[s]) = turn[s] /\ Tail(inq[s]) = <<>>
  BY <1>2 DEF Waiting
<1>4. /\ running'[s] = turn[s] /\ inq'[s] = <<>>
      /\ \A t \in Sessions \ {s} : running'[t] = running[t] /\ inq'[t] = inq[t]
  BY <1>1, <1>3 DEF Typed, WireTyped
<1>5. Stage(s)'
  BY <1>1, <1>2, <1>4 DEF Stage, Underway, Waiting, Running, Unread
<1>6. ASSUME NEW q \in Prompts, Of[q] = s PROVE Placed(q)'
  <2>1. Placed(q) /\ ~Vacant(s)
    BY <1>1 DEF Staged, Vacant
  <2> QED BY <1>1, <1>6, <2>1 DEF Placed
<1> QED BY <1>1, <1>4, <1>5, <1>6, OneSession

\* ... asks for a permission while it runs the turn ...
LEMMA AskedPlaced ==
    ASSUME Typed, TurnInv, Staged, Claude, NEW s \in Sessions, CLIAsks(s)
    PROVE  Staged'
<1>1. /\ UNCHANGED <<engine, pc, turn, fin, inq, running, told, res>>
      /\ Host(s) = s /\ running[s] \in Prompts
  BY NativeAssumption DEF CLIAsks, Claude, bridge, cli, Host
<1>2. PICK e \in Line : e.type = "ask" /\ Emit(s, e)
  BY <1>1 DEF CLIAsks, Line
<1>3. Underway(s) /\ Running(s)
  BY <1>1, NativeAssumption DEF Staged, Stage, Vacant, Waiting, Answered
<1>4. Unread(s)' = {}
  <2>1. Unread(s) = {}
    BY <1>3 DEF Running
  <2> QED BY <1>2, <2>1, UnreadAppend DEF Typed
<1>5. Stage(s)'
  BY <1>1, <1>3, <1>4 DEF Stage, Underway, Running
<1>6. ASSUME NEW q \in Prompts, Of[q] = s PROVE Placed(q)'
  <2>1. Placed(q) /\ ~Vacant(s)
    BY <1>1, NativeAssumption DEF Staged, Vacant
  <2> QED BY <1>1, <1>6, <2>1 DEF Placed
<1>7. \A t \in Sessions \ {s} : out'[t] = out[t]
  BY <1>2 DEF Emit, Typed, WireTyped
<1> QED BY <1>1, <1>5, <1>6, <1>7, OneSession

\* ... and ends it.
LEMMA EndedPlaced ==
    ASSUME Typed, TurnInv, Staged, Claude, NEW s \in Sessions, NEW how \in {"ok", "failed"}, CLIEnds(s, how)
    PROVE  Staged'
<1> DEFINE p == turn[s]
           e == [type |-> "end", s |-> s, p |-> p, how |-> how]
           n == Len(out[s]) + 1
<1>1. /\ UNCHANGED <<engine, pc, turn, fin, inq, res>>
      /\ Host(s) = s /\ running[s] # None
  BY DEF CLIEnds, Claude, bridge, Host
<1>2. Underway(s) /\ Running(s)
  BY <1>1 DEF Staged, Stage, Vacant, Waiting, Answered
<1>3. p = running[s] /\ p \in Prompts /\ Of[p] = s /\ fin[p] = "no" /\ pc[p] \in {"wait", "done"}
  BY <1>2 DEF Running, Underway, Typed, TypeOKN, TurnInv, TurnsOwned
<1>4. Emit(s, e) /\ e \in Line
  BY <1>1, <1>3 DEF CLIEnds, Line
<1>5. /\ told' = [told EXCEPT ![p] = how] /\ running'[s] = None
      /\ \A t \in Sessions \ {s} : running'[t] = running[t] /\ out'[t] = out[t]
      /\ \A q \in Prompts : told'[q] = IF q = p THEN how ELSE told[q]
  BY <1>3, <1>4 DEF CLIEnds, Emit, Typed, WireTyped
<1>6. Unread(s)' = {n} /\ out'[s][n].how = how /\ n \in DOMAIN out'[s]
  <2>1. Unread(s) = {}
    BY <1>2 DEF Running
  <2>2. e.type = "end" /\ e.how = how
    OBVIOUS
  <2> HIDE DEF e
  <2> QED BY <1>4, <2>1, <2>2, UnreadAppend DEF Typed
<1>7. Answered(s)'
  BY <1>1, <1>2, <1>3, <1>5, <1>6 DEF Running, Answered
<1>8. Stage(s)'
  BY <1>1, <1>2, <1>7 DEF Stage, Underway
<1>9. ASSUME NEW q \in Prompts, Of[q] = s PROVE Placed(q)'
  <2>1. Placed(q) /\ ~Vacant(s)
    BY <1>1 DEF Staged, Vacant
  <2>2. CASE q = p
    <3>1. told[q] = "none"
      BY <1>2, <2>2 DEF Running
    <3> QED BY <1>1, <1>3, <1>9, <2>1, <2>2, <3>1 DEF Placed
  <2>3. CASE q # p
    BY <1>1, <1>5, <1>9, <2>1, <2>3 DEF Placed
  <2> QED BY <2>2, <2>3
<1>10. ASSUME NEW q \in Prompts, Of[q] # s PROVE told'[q] = told[q]
  BY <1>3, <1>5, <1>10
<1> HIDE DEF e, n, p
<1> QED BY <1>1, <1>5, <1>8, <1>9, <1>10, OneSession

\* The read loop takes a line: only the result of the session's turn ends it.
LEMMA ReadPlaced ==
    ASSUME Typed, TurnInv, Staged, Claude, NEW s \in Sessions, ClaudeLine(s)
    PROVE  Staged'
<1> DEFINE e == Head(out[s])
<1>1. /\ UNCHANGED <<engine, pc, turn, inq, running, told, res>>
      /\ out[s] # <<>> /\ out' = [out EXCEPT ![s] = Tail(@)]
  BY DEF ClaudeLine, bridge, cli
<1>2. \A t \in Sessions \ {s} : out'[t] = out[t]
  BY <1>1 DEF Typed, WireTyped
<1>3. Stage(s) /\ \A q \in Prompts : Placed(q)
  BY DEF Staged
<1>4. /\ \A i \in Nat : i \in Unread(s)' <=> i # 0 /\ i + 1 \in Unread(s)
      /\ \A i \in Unread(s)' : i \in Nat /\ out'[s][i] = out[s][i + 1]
      /\ 1 \in Unread(s) <=> e.type = "end"
      /\ e = out[s][1]
      /\ Unread(s) \subseteq Nat \ {0}
  BY <1>1, UnreadTail DEF Typed
<1>5. CASE e.type = "end"
  <2>1. Underway(s) /\ Answered(s)
    BY <1>3, <1>4, <1>5 DEF Stage, Vacant, Waiting, Running
  <2>2. Unread(s) = {1} /\ e.how = told[turn[s]]
    BY <1>4, <1>5, <2>1 DEF Answered
  <2>3. Unread(s)' = {}
    <3>1. \A i \in Unread(s)' : i \in Nat /\ i # 0 /\ i + 1 = 1
      BY <1>4, <2>2
    <3> QED BY <3>1
  <2>4. Vacant(s)'
    BY <1>1, <2>1, <2>3 DEF Answered, Vacant
  <2>5. /\ turn[s] \in Prompts /\ Of[turn[s]] = s
        /\ pc[turn[s]] \in {"wait", "done"}
        /\ fin' = [fin EXCEPT ![turn[s]] = HowEnded(e.how)]
    BY <1>5, <2>1 DEF ClaudeLine, Underway, Unfinished, Typed, TypeOKN, TurnInv, TurnsOwned
  <2>6. /\ \A q \in Prompts : fin'[q] = IF q = turn[s] THEN HowEnded(told[turn[s]]) ELSE fin[q]
        /\ told[turn[s]] \in {"ok", "failed"}
    <3>1. e \in Line
      BY <1>1, ReadTyped DEF Typed
    <3>2. told[turn[s]] \in {"ok", "failed"}
      BY <1>5, <2>2, <3>1 DEF Line
    <3> QED BY <2>2, <2>5, <3>2 DEF Typed, TypeOKN
  <2>7. ASSUME NEW q \in Prompts, Of[q] = s PROVE Placed(q)'
    <3>1. CASE q = turn[s]
      BY <1>1, <1>3, <2>4, <2>5, <2>6, <2>7, <3>1 DEF Placed, HowEnded
    <3>2. CASE q # turn[s]
      BY <1>1, <1>3, <2>4, <2>5, <2>6, <2>7, <3>2 DEF Placed
    <3> QED BY <3>1, <3>2
  <2>8. Stage(s)' /\ \A q \in Prompts : Of[q] # s => fin'[q] = fin[q]
    BY <2>4, <2>5, <2>6 DEF Stage
  <2> HIDE DEF e
  <2> QED BY <1>1, <1>2, <2>7, <2>8, OneSession
<1>6. CASE e.type # "end"
  <2>1. fin' = fin
    BY <1>6 DEF ClaudeLine
  <2>2. Underway(s) => Underway(s)'
    BY <1>1, <2>1 DEF Underway
  <2>3. Unread(s) = {} => Unread(s)' = {}
    BY <1>4
  <2>4. Answered(s) => Answered(s)'
    <3> SUFFICES ASSUME Answered(s) PROVE Answered(s)'
      OBVIOUS
    <3>1. PICK i \in DOMAIN out[s] : Unread(s) = {i} /\ out[s][i].how = told[turn[s]]
      BY DEF Answered
    <3>2. i \in Nat /\ i # 0 /\ i # 1
      BY <1>4, <1>6, <3>1
    <3>3. i - 1 \in Nat /\ i - 1 # 0 /\ (i - 1) + 1 = i
      BY <3>2
    <3>4. i - 1 \in Unread(s)'
      BY <1>4, <3>1, <3>3
    <3>5. \A j \in Unread(s)' : j = i - 1
      <4>1. \A j \in Unread(s)' : j \in Nat /\ j + 1 \in Unread(s)
        BY <1>4
      <4> QED BY <3>1, <3>2, <4>1
    <3>6. out'[s][i - 1] = out[s][i]
      BY <1>4, <3>3, <3>4
    <3>7. i - 1 \in DOMAIN out'[s]
      BY <3>4 DEF Unread
    <3> QED BY <1>1, <3>1, <3>4, <3>5, <3>6, <3>7 DEF Answered
  <2>5. Vacant(s) => Vacant(s)'
    BY <1>1, <2>3 DEF Vacant
  <2>6. (Waiting(s) => Waiting(s)') /\ (Running(s) => Running(s)')
    BY <1>1, <2>3 DEF Waiting, Running
  <2>7. Stage(s)'
    BY <1>3, <2>2, <2>4, <2>5, <2>6 DEF Stage
  <2>8. ASSUME NEW q \in Prompts, Of[q] = s PROVE Placed(q)'
    BY <1>1, <1>3, <2>1, <2>5, <2>8 DEF Placed
  <2> HIDE DEF e
  <2> QED BY <1>1, <1>2, <2>1, <2>7, <2>8, OneSession
<1> QED BY <1>5, <1>6

LEMMA NextStaged == Typed /\ TurnInv /\ Staged /\ [Next]_nvars => Staged'
<1> SUFFICES ASSUME Typed, TurnInv, Staged, [Next]_nvars, Claude' PROVE Staged'
  BY DEF Staged
<1>0. Claude /\ ~Codex
  BY DEF Claude, Codex, Next, RequestStep, LoopStep, CLIStep, CodexSessionStep, OpenThread, Handshake,
     ThreadOpened, ClaudeSessionStep, NewSession, LoadSession, LoadSpawned, CodexPrompt, CodexPromptStep,
     TurnStarted, StartFails, CodexPromptReturns, ClaudePrompt, ClaudePromptStep, PromptSpawned, ClaudeTurn,
     WriteMessage, ClaudePromptReturns, CancelPrompt, CodexLine, ClaudeLine, LoopEnds, Decide, CLITakes,
     CLIRefuses, CLIErrs, CLIAsks, CLIExits, CLIEnds, DisposeBegin, DisposeRetries, DisposeStep, EngineClose,
     DisposeReturns, Kill, bridge, nvars
<1>1. ASSUME UNCHANGED <<engine, turn, fin, out, inq, running, told, pc, res>> PROVE Staged'
  BY <1>1 DEF Staged, Stage, Placed, Vacant, Underway, Waiting, Running, Answered, Unread, Claude
<1>2. ASSUME NEW s \in Sessions, ClaudeSessionStep(s) PROVE Staged'
  BY <1>1, <1>2 DEF ClaudeSessionStep, NewSession, LoadSession, LoadSpawned, cli
<1>3. ASSUME NEW p \in Prompts, ClaudePrompt(p) \/ PromptSpawned(p) PROVE Staged'
  <2>1. /\ UNCHANGED <<engine, turn, fin, out, inq, running, told>>
        /\ pc[p] \in {"idle", "spawned"}
        /\ \E to \in {"spawned", "turn", "done"} : pc' = [pc EXCEPT ![p] = to]
        /\ res' = res \/ res' = [res EXCEPT ![p] = "nospawn"]
    BY <1>3 DEF ClaudePrompt, HostPrompts, PromptSpawned, Return, cli
  <2>2. \/ res' = res
        \/ \E r : /\ res' = [res EXCEPT ![p] = r]
                  /\ r = "ok" => fin[p] = "ok"
                  /\ r = "failed" => fin[p] = "err"
    BY <2>1
  <2>3. PICK to \in {"spawned", "turn", "done"} : pc' = [pc EXCEPT ![p] = to]
    BY <2>1
  <2> QED BY <1>0, <2>1, <2>2, <2>3, PromptMoves
<1>4. ASSUME NEW p \in Prompts, ClaudeTurn(p) PROVE Staged'
  <2>1. CASE InFlight(Of[p])
    <3>1. /\ UNCHANGED <<engine, turn, fin, out, inq, running, told>>
          /\ pc[p] = "turn" /\ pc' = [pc EXCEPT ![p] = "done"] /\ res' = [res EXCEPT ![p] = "refused"]
      BY <1>4, <2>1 DEF ClaudeTurn, Return, cli
    <3>2. \E r : /\ res' = [res EXCEPT ![p] = r]
                 /\ r = "ok" => fin[p] = "ok"
                 /\ r = "failed" => fin[p] = "err"
      <4> WITNESS "refused"
      <4> QED BY <3>1
    <3> QED BY <1>0, <3>1, <3>2, PromptMoves
  <2>2. CASE ~InFlight(Of[p])
    BY <1>0, <1>4, <2>2, TurnPlaced
  <2> QED BY <2>1, <2>2
<1>5. ASSUME NEW p \in Prompts, WriteMessage(p) PROVE Staged'
  BY <1>0, <1>5, MessagePlaced
<1>6. ASSUME NEW p \in Prompts, ClaudePromptReturns(p) PROVE Staged'
  <2>1. /\ UNCHANGED <<engine, turn, fin, out, inq, running, told>>
        /\ pc[p] = "wait" /\ pc' = [pc EXCEPT ![p] = "done"]
        /\ fin[p] \in {"no", "ok", "err"}
    BY <1>6 DEF ClaudePromptReturns, Return, cli, Typed, TypeOKN
  <2>2. PICK r : /\ res' = [res EXCEPT ![p] = r]
                 /\ r \in {"closed", "ctx"} \/ (fin[p] # "no" /\ r = TurnResult(p))
    BY <1>6 DEF ClaudePromptReturns, Return
  <2>3. (r = "ok" => fin[p] = "ok") /\ (r = "failed" => fin[p] = "err")
    BY <2>1, <2>2 DEF TurnResult
  <2> QED BY <1>0, <2>1, <2>2, <2>3, PromptMoves
<1>7. ASSUME NEW k \in Sessions, ClaudeLine(k) PROVE Staged'
  BY <1>0, <1>7, ReadPlaced
<1>8. ASSUME NEW p \in Prompts, CancelPrompt(p) PROVE Staged'
  BY <1>1, <1>8 DEF CancelPrompt, cli
<1>9. ASSUME NEW k \in Sessions, LoopEnds(k) \/ \E d \in {"allow", "deny", "error"} : Decide(k, d)
      PROVE  Staged'
  BY <1>1, <1>9 DEF LoopEnds, Decide, bridge, cli
<1>10. ASSUME NEW s \in Sessions, CLITakes(s) PROVE Staged'
  BY <1>0, <1>10, TakenPlaced
<1>11. ASSUME NEW s \in Sessions, CLIAsks(s) PROVE Staged'
  BY <1>0, <1>11, AskedPlaced
<1>12. ASSUME NEW s \in Sessions, NEW how \in {"ok", "failed"}, CLIEnds(s, how) PROVE Staged'
  BY <1>0, <1>12, EndedPlaced
<1>13. ASSUME NEW s \in Sessions, CLIExits(s) PROVE Staged'
  BY <1>1, <1>13 DEF CLIExits, bridge, cli
<1>14. \A s \in Sessions : ~CLIRefuses(s) /\ ~CLIErrs(s)
  BY <1>0 DEF CLIRefuses, CLIErrs, Codex
<1>15. CASE DisposeBegin \/ DisposeRetries \/ DisposeStep
  BY <1>1, <1>15 DEF DisposeBegin, DisposeRetries, DisposeStep, EngineClose, DisposeReturns, Kill, bridge, cli
<1>16. CASE UNCHANGED nvars
  BY <1>1, <1>16 DEF nvars, cli
<1>17. /\ \A s \in Sessions : ~CodexSessionStep(s)
       /\ \A p \in Prompts : ~CodexPrompt(p) /\ ~CodexPromptStep(p)
       /\ \A k \in Sessions : ~CodexLine(k)
  BY <1>0 DEF CodexSessionStep, OpenThread, Handshake, ThreadOpened, CodexPrompt, CodexPromptStep,
     TurnStarted, StartFails, CodexPromptReturns, CodexLine
<1> QED BY <1>2, <1>3, <1>4, <1>5, <1>6, <1>7, <1>8, <1>9, <1>10, <1>11, <1>12, <1>13, <1>14, <1>15, <1>16, <1>17
        DEF Next, RequestStep, LoopStep, CLIStep, ClaudePromptStep

LEMMA StageCounts ==
    ASSUME Typed, NEW s \in Sessions, Stage(s)
    PROVE  Cardinality(InCLI(s)) + Cardinality(Unread(s)) <= 1
<1>0. Cardinality({}) = 0 /\ \A x : Cardinality({x}) = 1
  BY FS_EmptySet, FS_Singleton
<1>1. None \notin Prompts
  BY NativeAssumption
<1>2. CASE Vacant(s)
  <2>1. InCLI(s) = {} /\ Unread(s) = {}
    BY <1>1, <1>2 DEF Vacant, InCLI
  <2> QED BY <1>0, <2>1
<1>3. CASE Waiting(s)
  <2>1. InCLI(s) \subseteq {turn[s]} /\ Unread(s) = {}
    BY <1>1, <1>3 DEF Waiting, InCLI
  <2>2. CASE InCLI(s) = {}
    BY <1>0, <2>1, <2>2
  <2>3. CASE InCLI(s) = {turn[s]}
    <3>1. Cardinality(InCLI(s)) = 1
      BY <1>0, <2>3, Zenon
    <3>2. Cardinality(Unread(s)) = 0
      BY <1>0, <2>1
    <3> QED BY <3>1, <3>2
  <2> QED BY <2>1, <2>2, <2>3
<1>4. CASE Running(s)
  <2>1. InCLI(s) \subseteq {turn[s]} /\ Unread(s) = {}
    BY <1>1, <1>4 DEF Running, InCLI
  <2>2. CASE InCLI(s) = {}
    BY <1>0, <2>1, <2>2
  <2>3. CASE InCLI(s) = {turn[s]}
    <3>1. Cardinality(InCLI(s)) = 1
      BY <1>0, <2>3, Zenon
    <3>2. Cardinality(Unread(s)) = 0
      BY <1>0, <2>1
    <3> QED BY <3>1, <3>2
  <2> QED BY <2>1, <2>2, <2>3
<1>5. CASE Answered(s)
  <2>1. InCLI(s) = {} /\ \E i : Unread(s) = {i}
    BY <1>1, <1>5 DEF Answered, InCLI
  <2> QED BY <1>0, <2>1
<1> QED BY <1>2, <1>3, <1>4, <1>5 DEF Stage

\* claude is given a message only once it has answered the one before and that
\* answer was read, and a prompt reports how the CLI ended its own turn, though
\* the stream names no turn (prompt, handleLine).
THEOREM PromptsStayInStep == Spec => []PromptsInStep
<1>1. Typed /\ Staged => PromptsInStep
  BY StageCounts DEF Staged, Placed, PromptsInStep, OneTurnInCLI, OwnResult
<1> QED BY <1>1, InitStaged, NextStaged, TypedHolds, TurnsHold, PTL DEF Spec
=============================================================================
