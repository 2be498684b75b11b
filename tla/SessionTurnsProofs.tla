------------------------- MODULE SessionTurnsProofs -------------------------
(***************************************************************************)
(* The turn lifecycle for any number of turns, closers and updates.        *)
(* Composing the driver with its peer adds no step to the peer, so what is *)
(* proved of Peer holds here.  Single flight follows from an invariant of  *)
(* the driver alone.  That a completed turn was answered, and that its     *)
(* text holds all that came before the answer, needs both: the refinement  *)
(* of TurnContract and OutputInPlace are proved last, from the order of    *)
(* the lines on the wire and the bookkeeping of the peer's calls.          *)
(***************************************************************************)
EXTENDS SessionTurns, PeerProofs

\* Every step of the composition is a step of the peer or leaves it alone.
LEMMA PeerStep == [NextT]_varsT => [Next]_vars
<1> SUFFICES ASSUME [NextT]_varsT PROVE [Next]_vars
  OBVIOUS
<1>1. ASSUME NEW t \in Calls, TurnStep(t) PROVE [Next]_vars
  BY <1>1 DEF TurnStep, EmitStarted, PromptCall, PromptFails, SettleRead, SettleFinish,
     SettleReturnsOnCaller, Next, CallStep
<1>2. ASSUME NEW t \in Calls, CompleteTurn(t) \/ TimerStep(t) PROVE [Next]_vars
  BY <1>2 DEF CompleteTurn, TimerStep, TimerFires, TimerFinishes
<1>3. ASSUME LoopStepT PROVE [Next]_vars
  BY <1>3 DEF LoopStepT, SettleRead, SettleFinish, SettleReturnsOnLoop, FoldUpdate,
     EmitUpdate, Next, LoopStep
<1>4. ASSUME CloseStepT PROVE [Next]_vars
  BY <1>4 DEF CloseStepT, Next
<1>5. ASSUME NEW k \in Closers, CloserStep(k) \/ Dispose(k) PROVE [Next]_vars
  BY <1>5 DEF CloserStep, BeginClose, FinishInFlightTurn, Dispose, Next
<1>6. ASSUME HostStep PROVE [Next]_vars
  BY <1>6 DEF HostStep, StartTurn, RefuseTurn, CancelTurn, SessionClosed, Next
<1>7. ASSUME NEW m \in Notes, AgentChunk(m) PROVE [Next]_vars
  BY <1>7 DEF AgentChunk, Next, AgentStep
<1>8. ASSUME AgentAnswer \/ AgentExit PROVE [Next]_vars
  BY <1>8 DEF AgentAnswer, Next, AgentStep
<1>9. CASE UNCHANGED varsT
  BY <1>9 DEF varsT
<1> QED BY <1>1, <1>2, <1>3, <1>4, <1>5, <1>6, <1>7, <1>8, <1>9 DEF NextT

\* The driver uses its peer as the peer allows: every behaviour of the
\* composition is, seen from the peer, one of Peer.
THEOREM TurnsUsePeer == SpecT => Spec
<1>1. InitT => Init
  BY DEF InitT
<1> QED BY <1>1, PeerStep, PTL DEF SpecT, Spec

\* So a turn that completes does so on the agent's answer to its own prompt.
THEOREM TurnsKeepAnswers == SpecT => []OwnAnswer
  BY TurnsUsePeer, OwnAnswerHolds, PTL

-----------------------------------------------------------------------------
(* Single flight.  The driver's variables are typed; whoever can enter     *)
(* finishTurn holds a turn that was accepted.                              *)

TurnTypes ==
    /\ tpc \in [Calls -> {"idle", "refused", "started", "prompt", "snapped", "ended"}]
    /\ fin \in [Calls -> {"no", "cleared", "closed"}]
    /\ current \in Calls \cup {None}
    /\ status \in {"ready", "running", "closed"}
    /\ timer \in [Calls -> {"nil", "armed", "fired"}]
    /\ captive \in [Closers -> Calls \cup {None}]

HoldersAccepted ==
    /\ \A t \in Calls : ~Accepted(t) => fin[t] = "no"
    /\ \A k \in Closers : captive[k] # None => Accepted(captive[k])

SingleFlight ==
    /\ TurnTypes
    /\ HoldersAccepted
    /\ CurrentIsUnfinished
    /\ StatusFollowsTurn
    /\ TimerOfCurrentTurn

LEMMA InitSingleFlight == InitT => SingleFlight
  BY NoneAssumption DEF InitT, SingleFlight, TurnTypes, HoldersAccepted, CurrentIsUnfinished,
     StatusFollowsTurn, TimerOfCurrentTurn, Accepted

\* It reads these variables only, and of tpc only whether turns are accepted.
LEMMA SingleFlightFrame ==
    ASSUME SingleFlight, TurnTypes',
           UNCHANGED <<fin, current, status, timer, captive>>,
           \A t \in Calls : Accepted(t)' <=> Accepted(t)
    PROVE  SingleFlight'
  BY DEF SingleFlight, TurnTypes, HoldersAccepted, CurrentIsUnfinished,
     StatusFollowsTurn, TimerOfCurrentTurn

\* Finishing an accepted turn, whether or not it is finished already.
LEMMA FinishKeeps ==
    ASSUME SingleFlight, NEW t \in Calls, Accepted(t), NEW o, FinishTurn(t, o),
           UNCHANGED captive, tpc' = tpc \/ tpc' = [tpc EXCEPT ![t] = "ended"]
    PROVE  SingleFlight'
<1> USE DEF SingleFlight
<1>1. \A d \in Calls : Accepted(d)' <=> Accepted(d)
  BY DEF Accepted, TurnTypes
<1>2. CASE ~First(t)
  <2>1. UNCHANGED <<fin, current, status, timer, captive>>
    BY <1>2 DEF FinishTurn
  <2>2. TurnTypes'
    BY <2>1 DEF TurnTypes
  <2> QED BY <1>1, <2>1, <2>2, SingleFlightFrame
<1>3. CASE First(t)
  <2>1. /\ current = t
        /\ fin' = [fin EXCEPT ![t] = "cleared"]
        /\ timer' = [timer EXCEPT ![t] = "nil"]
        /\ current' = None
        /\ status' = IF status # "closed" THEN "ready" ELSE status
    BY <1>3 DEF FinishTurn, First, StoppedTimer, StatusAfter, CurrentIsUnfinished
  <2>2. TurnTypes'
    BY <2>1 DEF TurnTypes
  <2>3. HoldersAccepted'
    BY <1>1, <2>1 DEF HoldersAccepted, TurnTypes
  <2>4. CurrentIsUnfinished'
    BY <1>1, <2>1, NoneAssumption DEF CurrentIsUnfinished, TurnTypes
  <2>5. StatusFollowsTurn'
    BY <2>1 DEF StatusFollowsTurn
  <2>6. TimerOfCurrentTurn'
    BY <2>1 DEF TimerOfCurrentTurn, TurnTypes
  <2> QED BY <2>2, <2>3, <2>4, <2>5, <2>6
<1> QED BY <1>2, <1>3

\* Every step of the driver, the read loop, a closer or the host keeps it.
LEMMA NextSingleFlight == SingleFlight /\ [NextT]_varsT => SingleFlight'
<1> SUFFICES ASSUME SingleFlight, [NextT]_varsT PROVE SingleFlight'
  OBVIOUS
<1>1. ASSUME UNCHANGED <<turnVars, driverVars, captive>> PROVE SingleFlight'
  <2>1. TurnTypes'
    BY <1>1 DEF SingleFlight, TurnTypes, turnVars, driverVars
  <2>2. \A t \in Calls : Accepted(t)' <=> Accepted(t)
    BY <1>1 DEF Accepted, turnVars
  <2> QED BY <1>1, <2>1, <2>2, SingleFlightFrame DEF turnVars, driverVars
\* tpc alone moves, between accepted places
<1>2. ASSUME NEW t \in Calls, Accepted(t), NEW p \in {"prompt", "snapped", "ended"},
             tpc' = [tpc EXCEPT ![t] = p],
             UNCHANGED <<fin, current, status, timer, captive>>
      PROVE  SingleFlight'
  <2>1. TurnTypes'
    BY <1>2 DEF SingleFlight, TurnTypes
  <2>2. \A d \in Calls : Accepted(d)' <=> Accepted(d)
    BY <1>2 DEF Accepted, SingleFlight, TurnTypes
  <2> QED BY <1>2, <2>1, <2>2, SingleFlightFrame
<1>3. ASSUME NEW t \in Calls, SettleRead(t) \/ SettleFinish(t) PROVE SingleFlight'
  <2>1. CASE SettleRead(t)
    BY <1>2, <2>1 DEF SettleRead, Accepted, driverVars, closeVars
  <2>2. CASE SettleFinish(t)
    BY <2>2, FinishKeeps DEF SettleFinish, Accepted, closeVars
  <2> QED BY <1>3, <2>1, <2>2
<1>4. ASSUME NEW t \in Calls, TurnStep(t) PROVE SingleFlight'
  <2>1. CASE EmitStarted(t)
    BY <1>2, <2>1 DEF EmitStarted, Accepted, driverVars, closeVars
  <2>2. CASE PromptCall(t) \/ SettleReturnsOnCaller(t)
    BY <1>1, <2>2 DEF PromptCall, SettleReturnsOnCaller, ownVars, closeVars
  <2>3. CASE PromptFails(t)
    BY <2>3, FinishKeeps DEF PromptFails, Accepted, closeVars
  <2> QED BY <1>3, <1>4, <2>1, <2>2, <2>3 DEF TurnStep
<1>5. ASSUME NEW t \in Calls, CompleteTurn(t) PROVE SingleFlight'
  <2>1. /\ fin[t] = "cleared" /\ fin' = [fin EXCEPT ![t] = "closed"]
        /\ UNCHANGED <<tpc, current, status, timer, captive>>
    BY <1>5 DEF CompleteTurn, driverVars, closeVars
  <2> QED BY <2>1 DEF SingleFlight, TurnTypes, HoldersAccepted, CurrentIsUnfinished,
             StatusFollowsTurn, TimerOfCurrentTurn, Accepted
<1>6. ASSUME NEW t \in Calls, TimerStep(t) PROVE SingleFlight'
  <2>1. CASE TimerFires(t)
    <3>1. /\ timer[t] = "armed" /\ timer' = [timer EXCEPT ![t] = "fired"]
          /\ UNCHANGED <<tpc, fin, current, status, captive>>
      BY <2>1 DEF TimerFires, turnVars, closeVars
    <3> QED BY <3>1 DEF SingleFlight, TurnTypes, HoldersAccepted, CurrentIsUnfinished,
               StatusFollowsTurn, TimerOfCurrentTurn, Accepted
  <2>2. CASE TimerFinishes(t)
    <3>1. Accepted(t)
      BY <2>2 DEF TimerFinishes, SingleFlight, TimerOfCurrentTurn, CurrentIsUnfinished
    <3> QED BY <2>2, <3>1, FinishKeeps DEF TimerFinishes, closeVars
  <2> QED BY <1>6, <2>1, <2>2 DEF TimerStep
<1>7. ASSUME LoopStepT PROVE SingleFlight'
  <2>1. CASE FoldUpdate
    <3>1. UNCHANGED <<tpc, fin, current, status, timer, captive>>
      BY <2>1 DEF FoldUpdate, turnVars, closeVars
    <3> QED BY <3>1 DEF SingleFlight, TurnTypes, HoldersAccepted, CurrentIsUnfinished,
               StatusFollowsTurn, TimerOfCurrentTurn, Accepted
  <2>2. CASE \E t \in Calls : loop = "fns" /\ (SettleRead(t) \/ SettleFinish(t))
    BY <1>3, <2>2
  <2> QED BY <1>1, <1>7, <2>1, <2>2
          DEF LoopStepT, SettleReturnsOnLoop, EmitUpdate, ownVars, closeVars
<1>8. ASSUME NEW k \in Closers, CloserStep(k) \/ Dispose(k) PROVE SingleFlight'
  <2>1. CASE BeginClose(k)
    <3>1. /\ status' = "closed"
          /\ captive' = [captive EXCEPT ![k] = Captured]
          /\ UNCHANGED <<tpc, fin, current, timer>>
      BY <2>1 DEF BeginClose, turnVars
    <3>2. Captured \in Calls \cup {None} /\ (Captured # None => Accepted(Captured))
      BY DEF Captured, SingleFlight, TurnTypes, CurrentIsUnfinished
    <3> QED BY <3>1, <3>2 DEF SingleFlight, TurnTypes, HoldersAccepted, CurrentIsUnfinished,
               StatusFollowsTurn, TimerOfCurrentTurn, Accepted
  <2>2. CASE FinishInFlightTurn(k)
    <3>1. CASE captive[k] = None
      BY <2>2, <3>1 DEF FinishInFlightTurn, SingleFlight, TurnTypes, HoldersAccepted,
         CurrentIsUnfinished, StatusFollowsTurn, TimerOfCurrentTurn, Accepted
    <3>2. CASE captive[k] # None
      <4>1. captive[k] \in Calls /\ Accepted(captive[k])
        BY <3>2 DEF SingleFlight, TurnTypes, HoldersAccepted
      <4> QED BY <2>2, <3>2, <4>1, FinishKeeps DEF FinishInFlightTurn
    <3> QED BY <3>1, <3>2
  <2>3. CASE Dispose(k)
    BY <1>1, <2>3 DEF Dispose
  <2> QED BY <1>8, <2>1, <2>2, <2>3 DEF CloserStep
<1>9. ASSUME HostStep PROVE SingleFlight'
  <2>1. ASSUME NEW t \in Calls, StartTurn(t) PROVE SingleFlight'
    <3>1. /\ tpc[t] = "idle" /\ status # "closed" /\ current = None
          /\ tpc' = [tpc EXCEPT ![t] = "started"]
          /\ current' = t /\ status' = "running"
          /\ UNCHANGED <<fin, timer, captive>>
      BY <2>1 DEF StartTurn, Busy, closeVars
    <3>2. fin[t] = "no"
      BY <3>1 DEF SingleFlight, HoldersAccepted, Accepted
    <3>3. TurnTypes' /\ HoldersAccepted'
      BY <3>1 DEF SingleFlight, TurnTypes, HoldersAccepted, Accepted
    <3>4. CurrentIsUnfinished'
      BY <3>1, <3>2, NoneAssumption DEF SingleFlight, TurnTypes, CurrentIsUnfinished, Accepted
    <3>5. StatusFollowsTurn' /\ TimerOfCurrentTurn'
      BY <3>1, NoneAssumption DEF SingleFlight, StatusFollowsTurn, TimerOfCurrentTurn
    <3> QED BY <3>3, <3>4, <3>5 DEF SingleFlight
  <2>2. ASSUME NEW t \in Calls, RefuseTurn(t) PROVE SingleFlight'
    <3>1. /\ tpc[t] = "idle" /\ tpc' = [tpc EXCEPT ![t] = "refused"]
          /\ UNCHANGED <<fin, current, status, timer, captive>>
      BY <2>2 DEF RefuseTurn, driverVars, closeVars
    <3>2. TurnTypes' /\ \A d \in Calls : Accepted(d)' <=> Accepted(d)
      BY <3>1 DEF SingleFlight, TurnTypes, Accepted
    <3> QED BY <3>1, <3>2, SingleFlightFrame
  <2>3. ASSUME NEW t \in Calls, CancelTurn(t) PROVE SingleFlight'
    <3>1. /\ current = t /\ timer' = [timer EXCEPT ![t] = "armed"]
          /\ UNCHANGED <<tpc, fin, current, status, captive>>
      BY <2>3 DEF CancelTurn, turnVars, closeVars
    <3> QED BY <3>1 DEF SingleFlight, TurnTypes, HoldersAccepted, CurrentIsUnfinished,
               StatusFollowsTurn, TimerOfCurrentTurn, Accepted
  <2>4. ASSUME NEW t \in Calls, CancelCtx(t), UNCHANGED ownVars PROVE SingleFlight'
    BY <1>1, <2>4 DEF ownVars, closeVars
  <2>5. ASSUME NEW k \in Closers, SessionClosed(k) PROVE SingleFlight'
    BY <1>1, <2>5 DEF SessionClosed
  <2> QED BY <1>9, <2>1, <2>2, <2>3, <2>4, <2>5 DEF HostStep
<1>10. ASSUME CloseStepT \/ AgentAnswer \/ (AgentExit /\ UNCHANGED ownVars)
              \/ UNCHANGED varsT \/ \E m \in Notes : AgentChunk(m)
       PROVE  SingleFlight'
  BY <1>1, <1>10 DEF CloseStepT, AgentAnswer, AgentChunk, varsT, ownVars, closeVars
<1> QED BY <1>4, <1>5, <1>6, <1>7, <1>8, <1>9, <1>10 DEF NextT

LEMMA SingleFlightHolds == SpecT => []SingleFlight
  BY InitSingleFlight, NextSingleFlight, PTL DEF SpecT

\* The current turn is exactly the accepted turn nobody has finished.
THEOREM OneTurnAtATime == SpecT => []CurrentIsUnfinished
  BY SingleFlightHolds, PTL DEF SingleFlight

\* The driver says "running" exactly while it has a current turn.
THEOREM StatusIsRight == SpecT => []StatusFollowsTurn
  BY SingleFlightHolds, PTL DEF SingleFlight

\* A cancel timer never outlives its turn.
THEOREM TimersAreOfTheCurrentTurn == SpecT => []TimerOfCurrentTurn
  BY SingleFlightHolds, PTL DEF SingleFlight

-----------------------------------------------------------------------------
(* What a settle function rests on in the peer: its call returned the      *)
(* agent's answer, which the read loop had delivered.                      *)

Returned == {"returned", "runfn", "queued", "done"}
SettlesAnswered ==
    /\ \A c \in Calls :
          /\ result[c] = "ok" => got[c] # None /\ pc[c] \in Returned
          /\ pc[c] \in {"runfn", "queued", "done"} => result[c] = "ok"
    /\ \A i \in DOMAIN running : pc[running[i]] = "queued"
    /\ \A i \in DOMAIN idleFns : pc[idleFns[i]] = "queued"

LEMMA InitSettlesAnswered == Init => SettlesAnswered
  BY DEF Init, SettlesAnswered

\* A step in which calls move only forward.
LEMMA AnsweredFrame ==
    ASSUME SettlesAnswered, TypeOK, UNCHANGED <<running, idleFns>>,
           \A c \in Calls : got[c] # None => got'[c] # None,
           \A c \in Calls :
              \/ pc'[c] = pc[c] /\ result'[c] = result[c]
              \/ /\ pc[c] \notin {"runfn", "queued", "done"} /\ result[c] # "ok"
                 /\ pc'[c] \notin {"runfn", "queued", "done"} /\ result'[c] # "ok"
              \/ /\ pc[c] \notin Returned
                 /\ pc'[c] = "returned" /\ (result'[c] = "ok" => got[c] # None)
    PROVE  SettlesAnswered'
<1>1. \A i \in DOMAIN running : running[i] \in Calls
  BY DEF TypeOK
<1>2. \A i \in DOMAIN idleFns : idleFns[i] \in Calls
  BY DEF TypeOK
<1> QED BY <1>1, <1>2 DEF SettlesAnswered, Returned

LEMMA NextSettlesAnswered == TypeOK /\ SettlesAnswered /\ [Next]_vars => SettlesAnswered'
<1> SUFFICES ASSUME TypeOK, SettlesAnswered, [Next]_vars PROVE SettlesAnswered'
  OBVIOUS
<1> USE DEF Returned
<1>1. ASSUME UNCHANGED <<pc, result, got, running, idleFns>> PROVE SettlesAnswered'
  BY <1>1 DEF SettlesAnswered
<1>2. ASSUME NEW c \in Calls, Register(c) \/ WriteRequest(c) PROVE SettlesAnswered'
  <2>1. /\ UNCHANGED <<result, got, running, idleFns>>
        /\ pc[c] \in {"idle", "write"} /\ \E p \in {"write", "wait"} : pc' = [pc EXCEPT ![c] = p]
    BY <1>2 DEF Register, WriteRequest, chanVars, idleVars
  <2>2. result[c] # "ok"
    BY <2>1 DEF SettlesAnswered
  <2> QED BY <2>1, <2>2, AnsweredFrame DEF TypeOK
<1>3. ASSUME NEW c \in Calls, NEW r, Return(c, r), pc[c] \in {"write", "wait", "notify"},
             r = "ok" => got[c] # None, UNCHANGED <<got, running, idleFns>>
      PROVE  SettlesAnswered'
  BY <1>3, AnsweredFrame DEF Return, TypeOK
<1>4. ASSUME NEW c \in Calls, CallStep(c) PROVE SettlesAnswered'
  <2>1. CASE WriteRequest(c)
    BY <1>2, <2>1
  <2>2. CASE WriteFails(c) \/ TakeClosed(c) \/ TakeChanClosed(c)
    BY <1>3, <2>2 DEF WriteFails, TakeClosed, TakeChanClosed, chanVars, idleVars
  <2>3. CASE NotifyCancel(c)
    BY <1>3, <2>3 DEF NotifyCancel, chanVars, idleVars
  <2>4. CASE TakeResponse(c)
    BY <1>3, <2>4 DEF TakeResponse, chanVars, idleVars
  <2>5. CASE TakeCtx(c)
    <3>1. CASE StillPending(c)
      <4>1. /\ UNCHANGED <<result, got, running, idleFns>>
            /\ pc[c] = "wait" /\ pc' = [pc EXCEPT ![c] = "notify"]
        BY <2>5, <3>1 DEF TakeCtx, idleVars
      <4>2. result[c] # "ok"
        BY <4>1 DEF SettlesAnswered
      <4> QED BY <4>1, <4>2, AnsweredFrame DEF TypeOK
    <3>2. CASE ~StillPending(c)
      BY <1>3, <2>5, <3>2 DEF TakeCtx, idleVars
    <3> QED BY <3>1, <3>2
  <2>6. CASE RunOnCaller(c)
    <3>1. /\ UNCHANGED <<result, got, running, idleFns>>
          /\ pc[c] = "runfn" /\ pc' = [pc EXCEPT ![c] = "done"]
      BY <2>6 DEF RunOnCaller, chanVars
    <3>2. /\ \A i \in DOMAIN running : running[i] \in Calls /\ running[i] # c
          /\ \A i \in DOMAIN idleFns : idleFns[i] \in Calls /\ idleFns[i] # c
      BY <3>1 DEF TypeOK, SettlesAnswered
    <3> QED BY <3>1, <3>2 DEF SettlesAnswered, TypeOK
  <2> QED BY <1>4, <2>1, <2>2, <2>3, <2>4, <2>5, <2>6 DEF CallStep
<1>5. ASSUME NEW c \in Calls, AfterIdle(c) PROVE SettlesAnswered'
  <2>1. /\ pc[c] = "returned" /\ result[c] = "ok" /\ UNCHANGED <<result, got, running>>
        /\ \/ pc' = [pc EXCEPT ![c] = "runfn"] /\ idleFns' = idleFns
           \/ pc' = [pc EXCEPT ![c] = "queued"] /\ idleFns' = Append(idleFns, c)
    BY <1>5 DEF AfterIdle, chanVars
  <2>2. /\ \A i \in DOMAIN running : running[i] \in Calls /\ running[i] # c
        /\ \A i \in DOMAIN idleFns : idleFns[i] \in Calls /\ idleFns[i] # c
    BY <2>1 DEF TypeOK, SettlesAnswered
  <2>3. \A i \in DOMAIN idleFns' :
            \/ i \in DOMAIN idleFns /\ idleFns'[i] = idleFns[i]
            \/ idleFns'[i] = c /\ pc'[c] = "queued"
    <3>1. CASE idleFns' = idleFns
      BY <3>1
    <3>2. CASE pc' = [pc EXCEPT ![c] = "queued"] /\ idleFns' = Append(idleFns, c)
      BY <3>2 DEF TypeOK
    <3> QED BY <2>1, <3>1, <3>2
  <2>4. \A d \in Calls : d # c => pc'[d] = pc[d]
    BY <2>1 DEF TypeOK
  <2>5. pc'[c] \in {"runfn", "queued"}
    BY <2>1 DEF TypeOK
  <2>6. \A i \in DOMAIN idleFns' : pc'[idleFns'[i]] = "queued"
    BY <2>2, <2>3, <2>4 DEF SettlesAnswered
  <2>7. \A i \in DOMAIN running : pc'[running[i]] = "queued"
    BY <2>2, <2>4 DEF SettlesAnswered
  <2> QED BY <2>1, <2>4, <2>5, <2>6, <2>7 DEF SettlesAnswered
<1>6. ASSUME LoopStep PROVE SettlesAnswered'
  <2>1. CASE LoopTop
    <3>1. /\ UNCHANGED <<pc, result, got>>
          /\ \/ running' = running /\ idleFns' = idleFns
             \/ running' = idleFns /\ idleFns' = <<>>
      BY <2>1 DEF LoopTop, TakenFns, callVars, chanVars, idleVars
    <3> QED BY <3>1 DEF SettlesAnswered
  <2>2. CASE RunIdleFn
    <3>1. /\ UNCHANGED <<pc, result, got, idleFns>>
          /\ running # <<>> /\ running' = Tail(running)
      BY <2>2 DEF RunIdleFn, callVars, chanVars
    <3>2. \A i \in DOMAIN running' : i + 1 \in DOMAIN running /\ running'[i] = running[i + 1]
      BY <3>1 DEF TypeOK
    <3> QED BY <3>1, <3>2 DEF SettlesAnswered
  <2>3. CASE Deliver
    <3>1. /\ UNCHANGED <<pc, result, running, idleFns>>
          /\ got' = [got EXCEPT ![target] = line] /\ line # None
      BY <2>3 DEF Deliver, callVars, idleVars, TypeOK
    <3>2. \A c \in Calls : got[c] # None => got'[c] # None
      BY <3>1 DEF TypeOK
    <3> QED BY <3>1, <3>2, AnsweredFrame
  <2> QED BY <1>1, <1>6, <2>1, <2>2, <2>3 DEF LoopStep, ReadLine, ReadEnds, MarkBusy, ResolvePending,
          HandleNote, LoopClose, CloseChannel, LoopExit, callVars, chanVars, loopVars, idleVars
<1>7. ASSUME HostClose \/ CloseStep PROVE SettlesAnswered'
  BY <1>1, <1>7 DEF HostClose, CloseChannel, CloseStep, SweepPending, SweepInbound,
     callVars, chanVars, idleVars
<1>8. ASSUME AgentStep PROVE SettlesAnswered'
  BY <1>1, <1>8 DEF AgentStep, AgentReply, AgentNote, AgentExit, callVars, chanVars, idleVars
<1>9. ASSUME NEW c \in Calls, CancelCtx(c) PROVE SettlesAnswered'
  BY <1>1, <1>9 DEF CancelCtx, chanVars, idleVars
<1>10. CASE UNCHANGED vars
  BY <1>1, <1>10 DEF vars, callVars, chanVars, idleVars
<1> QED BY <1>2, <1>4, <1>5, <1>6, <1>7, <1>8, <1>9, <1>10 DEF Next

\* An answer that was returned stays returned.
LEMMA OkStays ==
    ASSUME TypeOK, SettlesAnswered, [Next]_vars, NEW c \in Calls, result[c] = "ok"
    PROVE  result'[c] = "ok"
<1>1. pc[c] \in Returned
  BY DEF SettlesAnswered
<1>2. ASSUME NEW d \in Calls, CallStep(d) PROVE result'[c] = result[c]
  <2>1. CASE d = c
    BY <1>1, <1>2, <2>1 DEF CallStep, WriteRequest, WriteFails, TakeCtx, NotifyCancel, TakeClosed,
       TakeResponse, TakeChanClosed, RunOnCaller, Returned
  <2>2. CASE d # c
    BY <1>2, <2>2 DEF CallStep, WriteRequest, WriteFails, TakeCtx, NotifyCancel, TakeClosed,
       TakeResponse, TakeChanClosed, RunOnCaller, Return, TypeOK
  <2> QED BY <2>1, <2>2
<1>3. ASSUME NEW d \in Calls, Register(d) \/ CancelCtx(d) \/ AfterIdle(d) PROVE result' = result
  BY <1>3 DEF Register, CancelCtx, AfterIdle
<1>4. ASSUME LoopStep \/ HostClose \/ CloseStep PROVE result' = result
  BY <1>4 DEF LoopStep, LoopTop, RunIdleFn, ReadLine, ReadEnds, MarkBusy, ResolvePending, Deliver,
     HandleNote, LoopClose, LoopExit, HostClose, CloseChannel, CloseStep, SweepPending, SweepInbound,
     callVars
<1>5. ASSUME AgentStep \/ UNCHANGED vars PROVE result' = result
  BY <1>5 DEF AgentStep, AgentReply, AgentNote, AgentExit, vars, callVars
<1> QED BY <1>2, <1>3, <1>4, <1>5 DEF Next

-----------------------------------------------------------------------------
(* Steps of the composition as the driver's fields see them.               *)

\* Somebody enters finishTurn of an accepted turn: only settle with an answer,
\* only a closer of a closed driver.
Finishes(t, o) ==
    /\ FinishTurn(t, o)
    /\ Accepted(t)
    /\ tpc' = tpc \/ tpc' = [tpc EXCEPT ![t] = "ended"]
    /\ o = "completed" =>
          Settling(t) /\ tpc[t] = "snapped" /\ tpc' = [tpc EXCEPT ![t] = "ended"]
    /\ o = "closed" => status = "closed"
    /\ UNCHANGED <<vars, final, output, sclosed, captive, updVars>>

\* The turns themselves are left alone, and a closed driver stays closed.
Quiet ==
    /\ UNCHANGED <<turnVars, current, thread>>
    /\ status = "closed" => status' = "closed"
    /\ sclosed => sclosed'
    /\ status' # status => status' = "closed"

ClosersSeeClosed ==
    /\ closer \in [Closers -> {"idle", "begin", "begun", "finishing", "disposed"}]
    /\ \A k \in Closers : closer[k] \notin {"idle", "begin"} => status = "closed"

LEMMA Classified ==
    ASSUME SingleFlight, ClosersSeeClosed, [NextT]_varsT
    PROVE  \/ Quiet
           \/ \E t \in Calls :
                 \/ StartTurn(t) \/ RefuseTurn(t) \/ EmitStarted(t)
                 \/ SettleRead(t) \/ CompleteTurn(t)
           \/ \E t \in Calls, o \in Outcomes \ {"none"} : Finishes(t, o)
<1> DEFINE Goal ==
           \/ Quiet
           \/ \E t \in Calls :
                 \/ StartTurn(t) \/ RefuseTurn(t) \/ EmitStarted(t)
                 \/ SettleRead(t) \/ CompleteTurn(t)
           \/ \E t \in Calls, o \in Outcomes \ {"none"} : Finishes(t, o)
<1>1. ASSUME UNCHANGED <<turnVars, current, thread, status, sclosed>> PROVE Goal
  BY <1>1 DEF Quiet
<1>2. ASSUME NEW t \in Calls, SettleFinish(t) PROVE Goal
  <2>1. Finishes(t, "completed")
    BY <1>2 DEF SettleFinish, Finishes, Accepted, closeVars
  <2> QED BY <2>1 DEF Outcomes
<1>3. ASSUME NEW t \in Calls, TurnStep(t) PROVE Goal
  <2>1. CASE PromptFails(t)
    <3>1. Finishes(t, "failed")
      BY <2>1 DEF PromptFails, Finishes, Accepted, closeVars
    <3> QED BY <3>1 DEF Outcomes
  <2>2. CASE PromptCall(t) \/ SettleReturnsOnCaller(t)
    BY <1>1, <2>2 DEF PromptCall, SettleReturnsOnCaller, ownVars, driverVars, closeVars
  <2> QED BY <1>2, <1>3, <2>1, <2>2 DEF TurnStep
<1>4. ASSUME NEW t \in Calls, TimerStep(t) PROVE Goal
  <2>1. CASE TimerFires(t)
    BY <1>1, <2>1 DEF TimerFires, closeVars
  <2>2. CASE TimerFinishes(t)
    <3>1. Accepted(t)
      BY <2>2 DEF TimerFinishes, SingleFlight, TimerOfCurrentTurn, CurrentIsUnfinished
    <3>2. Finishes(t, "cancelled")
      BY <2>2, <3>1 DEF TimerFinishes, Finishes, closeVars
    <3> QED BY <3>2 DEF Outcomes
  <2> QED BY <1>4, <2>1, <2>2 DEF TimerStep
<1>5. ASSUME LoopStepT PROVE Goal
  <2>1. CASE \E t \in Calls : loop = "fns" /\ (SettleRead(t) \/ SettleFinish(t))
    BY <1>2, <2>1
  <2>2. CASE FoldUpdate \/ EmitUpdate \/ SettleReturnsOnLoop
    BY <1>1, <2>2 DEF FoldUpdate, EmitUpdate, SettleReturnsOnLoop, ownVars, driverVars, closeVars
  <2> QED BY <1>1, <1>5, <2>1, <2>2 DEF LoopStepT, ownVars, driverVars, closeVars
<1>6. ASSUME NEW k \in Closers, CloserStep(k) \/ Dispose(k) PROVE Goal
  <2>1. CASE BeginClose(k)
    BY <2>1 DEF BeginClose, Quiet
  <2>2. CASE FinishInFlightTurn(k)
    <3>1. CASE captive[k] = None
      BY <1>1, <2>2, <3>1 DEF FinishInFlightTurn, turnVars
    <3>2. CASE captive[k] # None
      <4>1. captive[k] \in Calls /\ Accepted(captive[k]) /\ status = "closed"
        BY <2>2, <3>2 DEF FinishInFlightTurn, SingleFlight, TurnTypes, HoldersAccepted,
           ClosersSeeClosed
      <4>2. Finishes(captive[k], "closed")
        BY <2>2, <3>2, <4>1 DEF FinishInFlightTurn, Finishes
      <4> QED BY <4>1, <4>2 DEF Outcomes
    <3> QED BY <3>1, <3>2
  <2>3. CASE Dispose(k)
    BY <1>1, <2>3 DEF Dispose, driverVars
  <2> QED BY <1>6, <2>1, <2>2, <2>3 DEF CloserStep
<1>7. ASSUME HostStep PROVE Goal
  <2>1. ASSUME NEW t \in Calls, CancelTurn(t) \/ (CancelCtx(t) /\ UNCHANGED ownVars) PROVE Goal
    BY <1>1, <2>1 DEF CancelTurn, ownVars, driverVars, closeVars
  <2>2. ASSUME NEW k \in Closers, SessionClosed(k) PROVE Goal
    BY <2>2 DEF SessionClosed, Quiet, driverVars
  <2> QED BY <1>7, <2>1, <2>2 DEF HostStep
<1>8. ASSUME CloseStepT \/ AgentAnswer \/ (AgentExit /\ UNCHANGED ownVars)
             \/ UNCHANGED varsT \/ \E m \in Notes : AgentChunk(m)
      PROVE  Goal
  BY <1>1, <1>8 DEF CloseStepT, AgentAnswer, AgentChunk, varsT, ownVars, driverVars, closeVars
<1> HIDE DEF Goal
<1>9. Goal
  <2>1. ASSUME NEW t \in Calls, CompleteTurn(t) PROVE Goal
    BY <2>1 DEF Goal
  <2> QED BY <1>3, <1>4, <1>5, <1>6, <1>7, <1>8, <2>1 DEF NextT
<1> QED BY <1>9 DEF Goal

\* What closes the driver comes before what a closer does.
LEMMA InitClosers == InitT => ClosersSeeClosed
  BY DEF InitT, ClosersSeeClosed

LEMMA NextClosers == SingleFlight /\ ClosersSeeClosed /\ [NextT]_varsT => ClosersSeeClosed'
<1> SUFFICES ASSUME SingleFlight, ClosersSeeClosed, [NextT]_varsT PROVE ClosersSeeClosed'
  OBVIOUS
<1>1. status = "closed" => status' = "closed"
  <2>1. ASSUME NEW t \in Calls, NEW o, Finishes(t, o) PROVE status = "closed" => status' = "closed"
    BY <2>1 DEF Finishes, FinishTurn, StatusAfter
  <2> QED BY <2>1, Classified DEF Quiet, StartTurn, RefuseTurn, EmitStarted, SettleRead, CompleteTurn,
          driverVars
<1>2. ASSUME NEW k \in Closers, CloserStep(k) \/ Dispose(k) \/ SessionClosed(k) PROVE ClosersSeeClosed'
  <2>1. CASE BeginClose(k)
    BY <2>1 DEF BeginClose, ClosersSeeClosed
  <2>2. CASE FinishInFlightTurn(k) \/ Dispose(k) \/ SessionClosed(k)
    <3>1. \E c \in {"begin", "finishing", "disposed"} : closer' = [closer EXCEPT ![k] = c]
      BY <2>2 DEF FinishInFlightTurn, Dispose, SessionClosed
    <3>2. closer'[k] \notin {"idle", "begin"} => closer[k] \notin {"idle", "begin"}
      BY <2>2 DEF FinishInFlightTurn, Dispose, SessionClosed, ClosersSeeClosed
    <3>3. \A j \in Closers : closer'[j] \notin {"idle", "begin"} => closer[j] \notin {"idle", "begin"}
      BY <3>1, <3>2 DEF ClosersSeeClosed
    <3>4. closer' \in [Closers -> {"idle", "begin", "begun", "finishing", "disposed"}]
      BY <3>1 DEF ClosersSeeClosed
    <3> QED BY <1>1, <3>3, <3>4 DEF ClosersSeeClosed
  <2> QED BY <1>2, <2>1, <2>2 DEF CloserStep
<1>3. CASE UNCHANGED closer
  BY <1>1, <1>3 DEF ClosersSeeClosed
<1>4. UNCHANGED closer \/ \E k \in Closers : CloserStep(k) \/ Dispose(k) \/ SessionClosed(k)
  BY DEF NextT, TurnStep, EmitStarted, PromptCall, PromptFails, SettleRead, SettleFinish,
     SettleReturnsOnCaller, CompleteTurn, TimerStep, TimerFires, TimerFinishes, LoopStepT,
     SettleReturnsOnLoop, FoldUpdate, EmitUpdate, CloseStepT, HostStep, StartTurn, RefuseTurn,
     CancelTurn, AgentChunk, AgentAnswer, varsT, ownVars, closeVars
<1> QED BY <1>2, <1>3, <1>4

-----------------------------------------------------------------------------
(* Settling.  Whoever settles a turn holds the agent's answer to it.       *)

Settles ==
    /\ fin \in [Calls -> {"no", "cleared", "closed"}] /\ outcome \in [Calls -> Outcomes]
    /\ tpc \in [Calls -> {"idle", "refused", "started", "prompt", "snapped", "ended"}]
    /\ \A t \in Calls :
          /\ pc[t] # "idle" => Accepted(t)
          /\ tpc[t] = "snapped" => result[t] = "ok"
          /\ fin[t] = "no" <=> outcome[t] = "none"
          /\ outcome[t] = "completed" => tpc[t] = "ended" /\ result[t] = "ok"

LEMMA InitSettles == InitT => Settles
  BY DEF InitT, Init, Settles, Outcomes

LEMMA SettlingHasAnswer ==
    ASSUME TypeOK, SettlesAnswered, NEW t \in Calls, Settling(t)
    PROVE  result[t] = "ok" /\ got[t] # None
<1>1. CASE pc[t] = "runfn"
  BY <1>1 DEF SettlesAnswered
<1>2. CASE loop = "fns" /\ running # <<>> /\ Head(running) = t
  <2>1. 1 \in DOMAIN running /\ running[1] = t
    BY <1>2 DEF TypeOK
  <2> QED BY <2>1 DEF SettlesAnswered
<1> QED BY <1>1, <1>2 DEF Settling

\* The peer's part of a call begins in runPrompt.
LEMMA CallsOfPrompts ==
    ASSUME TypeOK, Settles, [NextT]_varsT, NEW t \in Calls, pc[t] = "idle", pc'[t] # "idle"
    PROVE  tpc[t] = "prompt" /\ UNCHANGED ownVars
<1>1. ASSUME NEW d \in Calls, PromptCall(d) PROVE tpc[t] = "prompt" /\ UNCHANGED ownVars
  <2>1. d = t
    BY <1>1 DEF PromptCall, Register, WriteRequest, WriteFails, TakeCtx, NotifyCancel, TakeClosed,
       TakeResponse, TakeChanClosed, AfterIdle, Return, TypeOK
  <2> QED BY <1>1, <2>1 DEF PromptCall
<1>2. ASSUME NEW d \in Calls, SettleReturnsOnCaller(d) PROVE FALSE
  BY <1>2 DEF SettleReturnsOnCaller, RunOnCaller, TypeOK
<1>3. ASSUME UNCHANGED callVars PROVE FALSE
  BY <1>3 DEF callVars
<1>4. ASSUME NEW d \in Calls, CancelCtx(d) PROVE FALSE
  BY <1>4 DEF CancelCtx
<1>5. ASSUME NEW d \in Calls, TurnStep(d) PROVE tpc[t] = "prompt" /\ UNCHANGED ownVars
  BY <1>1, <1>2, <1>3, <1>5 DEF TurnStep, EmitStarted, PromptFails, SettleRead, SettleFinish, vars
<1>6. ASSUME LoopStepT PROVE FALSE
  BY <1>3, <1>6 DEF LoopStepT, LoopTop, ReadLine, ReadEnds, MarkBusy, ResolvePending, Deliver,
     LoopClose, CloseChannel, LoopExit, SettleRead, SettleFinish, SettleReturnsOnLoop, RunIdleFn,
     FoldUpdate, EmitUpdate, HandleNote, vars
<1>7. ASSUME NEW k \in Closers, CloserStep(k) \/ Dispose(k) PROVE FALSE
  BY <1>3, <1>7 DEF CloserStep, BeginClose, FinishInFlightTurn, Dispose, HostClose, CloseChannel, vars
<1>8. ASSUME HostStep PROVE FALSE
  BY <1>3, <1>4, <1>8 DEF HostStep, StartTurn, RefuseTurn, CancelTurn, SessionClosed, vars
<1>9. ASSUME NEW d \in Calls, CompleteTurn(d) \/ TimerStep(d) PROVE FALSE
  BY <1>3, <1>9 DEF CompleteTurn, TimerStep, TimerFires, TimerFinishes, vars
<1>10. ASSUME CloseStepT \/ AgentAnswer \/ AgentExit \/ UNCHANGED varsT
              \/ \E m \in Notes : AgentChunk(m)
       PROVE  FALSE
  BY <1>3, <1>10 DEF CloseStepT, CloseStep, SweepPending, SweepInbound, AgentAnswer, AgentReply,
     AgentExit, AgentChunk, AgentNote, varsT, vars
<1> QED BY <1>5, <1>6, <1>7, <1>8, <1>9, <1>10 DEF NextT

LEMMA NextSettles ==
    TypeOK /\ SettlesAnswered /\ SingleFlight /\ ClosersSeeClosed /\ Settles /\ [NextT]_varsT => Settles'
<1> SUFFICES ASSUME TypeOK, SettlesAnswered, SingleFlight, ClosersSeeClosed, Settles, [NextT]_varsT
             PROVE  Settles'
  OBVIOUS
<1>1. \A t \in Calls : result[t] = "ok" => result'[t] = "ok"
  BY PeerStep, OkStays
<1>2. \A t \in Calls : pc[t] = "idle" /\ pc'[t] # "idle" => Accepted(t) /\ UNCHANGED ownVars
  BY CallsOfPrompts DEF Accepted
<1>3. CASE UNCHANGED turnVars
  BY <1>1, <1>2, <1>3 DEF Settles, turnVars, Accepted
<1>4. \A t \in Calls : Accepted(t) /\ UNCHANGED ownVars => Accepted(t)'
  BY DEF Accepted, ownVars, turnVars
<1>5. ASSUME \A t \in Calls : Accepted(t) => Accepted(t)' PROVE \A t \in Calls : pc'[t] # "idle" => Accepted(t)'
  BY <1>2, <1>5 DEF Settles
<1>6. ASSUME NEW t \in Calls, NEW p \in {"started", "refused", "prompt", "snapped"}, ~(Accepted(t) /\ p = "refused"),
             tpc' = [tpc EXCEPT ![t] = p], UNCHANGED <<fin, outcome>>, tpc[t] # "ended",
             p = "snapped" => result[t] = "ok"
      PROVE  Settles'
  <2>1. \A d \in Calls : Accepted(d) => Accepted(d)'
    BY <1>6 DEF Accepted, Settles
  <2> QED BY <1>1, <1>5, <1>6, <2>1 DEF Settles
<1>7. ASSUME NEW t \in Calls, StartTurn(t) \/ RefuseTurn(t) \/ EmitStarted(t) \/ SettleRead(t)
      PROVE  Settles'
  <2>1. CASE StartTurn(t)
    BY <1>6, <2>1 DEF StartTurn
  <2>2. CASE RefuseTurn(t)
    BY <1>6, <2>2 DEF RefuseTurn, Accepted
  <2>3. CASE EmitStarted(t)
    BY <1>6, <2>3 DEF EmitStarted
  <2>4. CASE SettleRead(t)
    BY <1>6, <2>4, SettlingHasAnswer DEF SettleRead
  <2> QED BY <1>7, <2>1, <2>2, <2>3, <2>4
<1>8. ASSUME NEW t \in Calls, CompleteTurn(t) PROVE Settles'
  <2>1. /\ UNCHANGED <<tpc, outcome>>
        /\ fin[t] = "cleared" /\ fin' = [fin EXCEPT ![t] = "closed"]
    BY <1>8 DEF CompleteTurn
  <2>2. \A d \in Calls : Accepted(d) => Accepted(d)'
    BY <2>1 DEF Accepted
  <2> QED BY <1>1, <1>5, <2>1, <2>2 DEF Settles
<1>9. ASSUME NEW t \in Calls, NEW o \in Outcomes \ {"none"}, Finishes(t, o) PROVE Settles'
  <2>1. \A d \in Calls : Accepted(d) => Accepted(d)'
    BY <1>9 DEF Finishes, Accepted, Settles
  <2>2. CASE ~First(t)
    <3>1. UNCHANGED <<fin, outcome>>
      BY <1>9, <2>2 DEF Finishes, FinishTurn
    <3> QED BY <1>1, <1>5, <1>9, <2>1, <3>1 DEF Finishes, Settles
  <2>3. CASE First(t)
    <3>1. /\ fin' = [fin EXCEPT ![t] = "cleared"]
          /\ outcome' = [outcome EXCEPT ![t] = o]
      BY <1>9, <2>3 DEF Finishes, FinishTurn
    <3>2. o = "completed" => result[t] = "ok" /\ tpc'[t] = "ended"
      BY <1>9 DEF Finishes, Settles
    <3> QED BY <1>1, <1>5, <1>9, <2>1, <3>1, <3>2 DEF Finishes, Settles
  <2> QED BY <2>2, <2>3
<1> QED BY <1>3, <1>7, <1>8, <1>9, Classified DEF Quiet

-----------------------------------------------------------------------------
(* SessionTurns implements TurnContract. *)

Founded == TypeOK /\ Bookkeeping /\ OwnAnswer /\ SettlesAnswered
DriverInv == SingleFlight /\ ClosersSeeClosed /\ Settles

LEMMA FoundedHolds == SpecT => []Founded
<1>1. Spec => []SettlesAnswered
  BY InitSettlesAnswered, NextSettlesAnswered, InitTypeOK, NextTypeOK, PTL DEF Spec
<1> QED BY <1>1, TurnsUsePeer, TypeCorrect, BookkeepingCorrect, OwnAnswerHolds, PTL DEF Founded

LEMMA DriverHolds == SpecT => []DriverInv
<1>1. InitT => DriverInv
  BY InitSingleFlight, InitClosers, InitSettles DEF DriverInv
<1>2. Founded /\ DriverInv /\ [NextT]_varsT => DriverInv'
  BY NextSingleFlight, NextClosers, NextSettles DEF Founded, DriverInv
<1> QED BY <1>1, <1>2, FoundedHolds, PTL DEF SpecT

\* A running turn is the current one.
LEMMA RunningIsCurrent ==
    ASSUME SingleFlight, NEW t \in Calls
    PROVE  turnState(t) = "running" <=> current = t
  BY DEF SingleFlight, CurrentIsUnfinished, turnState, Accepted

LEMMA InitTurnsMapped == InitT => TurnPromise!Init
  BY DEF InitT, Init, TurnPromise!Init, turnState, Accepted

\* Only the agent's answers add to what it has answered.
LEMMA RepliesOfAgent == [NextT]_varsT => AgentAnswer \/ replied' = replied
  BY DEF NextT, TurnStep, EmitStarted, PromptCall, Register, WriteRequest, WriteFails, TakeCtx, NotifyCancel,
     TakeClosed, TakeResponse, TakeChanClosed, AfterIdle, PromptFails, SettleRead, SettleFinish,
     SettleReturnsOnCaller, RunOnCaller, CompleteTurn, TimerStep, TimerFires, TimerFinishes, LoopStepT,
     LoopTop, ReadLine, ReadEnds, MarkBusy, ResolvePending, Deliver, LoopClose, LoopExit,
     SettleReturnsOnLoop, RunIdleFn, FoldUpdate, EmitUpdate, HandleNote, CloseStepT, CloseStep,
     SweepPending, SweepInbound, CloserStep, BeginClose, FinishInFlightTurn, Dispose, HostClose,
     CloseChannel, HostStep, StartTurn, RefuseTurn, CancelTurn, CancelCtx, SessionClosed, AgentChunk, AgentNote,
     AgentExit, varsT, vars, wireVars

\* A turn is settled by whoever enters finishTurn first, and by nobody after.
LEMMA FinishMaps ==
    ASSUME Founded, DriverInv, NEW t \in Calls, NEW o \in Outcomes \ {"none"}, Finishes(t, o)
    PROVE  TurnPromise!Settle(t, o) \/ UNCHANGED TurnPromise!vars
<1> USE DEF DriverInv
<1>1. /\ UNCHANGED <<sclosed, replied>>
      /\ status' = "closed" <=> status = "closed"
  BY DEF Finishes, FinishTurn, StatusAfter, vars, wireVars
<1>2. \A d \in Calls : Accepted(d)' <=> Accepted(d)
  BY DEF Finishes, Accepted, Settles
<1>3. \A d \in Calls : ~Accepted(d) => tpc'[d] = tpc[d]
  BY DEF Finishes, Accepted, Settles
<1>4. CASE ~First(t)
  <2>1. UNCHANGED <<fin, outcome>>
    BY <1>4 DEF Finishes, FinishTurn
  <2>2. \A d \in Calls : turnState(d)' = turnState(d)
    BY <1>2, <1>3, <2>1 DEF turnState, Accepted
  <2> QED BY <1>1, <2>1, <2>2 DEF TurnPromise!vars
<1>5. CASE First(t)
  <2>1. fin' = [fin EXCEPT ![t] = "cleared"] /\ outcome' = [outcome EXCEPT ![t] = o]
    BY <1>5 DEF Finishes, FinishTurn
  <2>2. fin'[t] = "cleared" /\ \A d \in Calls \ {t} : fin'[d] = fin[d]
    BY <2>1 DEF Settles
  <2>3. turnState(t) = "running" /\ turnState(t)' = "settled"
    BY <1>2, <1>5, <2>2 DEF Finishes, First, turnState, Accepted
  <2>4. \A d \in Calls \ {t} : turnState(d)' = turnState(d)
    BY <1>2, <1>3, <2>2 DEF turnState, Accepted
  <2>5. [d \in Calls |-> turnState(d)]' = [[d \in Calls |-> turnState(d)] EXCEPT ![t] = "settled"]
    BY <2>3, <2>4
  <2>6. o = "completed" => <<t, TRUE>> \in replied
    BY DEF Finishes, Settles, Founded, OwnAnswer
  <2>7. o = "closed" => status = "closed"
    BY DEF Finishes
  <2> QED BY <1>1, <2>1, <2>3, <2>5, <2>6, <2>7 DEF TurnPromise!Settle
<1> QED BY <1>4, <1>5

LEMMA TurnsMapped == Founded /\ DriverInv /\ [NextT]_varsT => [TurnPromise!Next]_TurnPromise!vars
<1> SUFFICES ASSUME Founded, DriverInv, [NextT]_varsT PROVE [TurnPromise!Next]_TurnPromise!vars
  OBVIOUS
<1> USE DEF DriverInv
<1>1. CASE AgentAnswer
  <2>1. PICK r \in sent, ok \in BOOLEAN : AgentReply(r, ok)
    BY <1>1 DEF AgentAnswer
  <2>2. /\ r[2] \in Calls /\ replied' = replied \cup {<<r[2], ok>>}
        /\ UNCHANGED <<tpc, fin, outcome, sclosed, status>>
    BY <1>1, <2>1 DEF AgentAnswer, AgentReply, Founded, TypeOK, ownVars, turnVars, driverVars, closeVars
  <2>3. Accepted(r[2])
    BY <2>2 DEF Founded, Bookkeeping, IdsDistinct, Settles
  <2>4. turnState(r[2]) \in {"running", "settled"}
    BY <2>3 DEF turnState, Accepted
  <2>5. UNCHANGED [t \in Calls |-> turnState(t)]
    BY <2>2 DEF turnState, Accepted
  <2>6. CASE ok
    <3>1. TurnPromise!Answer(r[2])
      BY <2>2, <2>4, <2>5, <2>6 DEF TurnPromise!Answer
    <3> QED BY <2>2, <3>1 DEF TurnPromise!Next
  <2>7. CASE ~ok
    BY <2>2, <2>5, <2>7 DEF TurnPromise!vars
  <2> QED BY <2>6, <2>7
<1>2. CASE replied' = replied
  <2>1. CASE Quiet
    <3>1. UNCHANGED <<[t \in Calls |-> turnState(t)], outcome>>
      BY <2>1 DEF Quiet, turnVars, turnState, Accepted
    <3>2. (sclosed \/ status = "closed")' = (sclosed \/ status = "closed") \/ (sclosed \/ status = "closed")' = TRUE
      BY <2>1 DEF Quiet
    <3> QED BY <1>2, <3>1, <3>2 DEF TurnPromise!Next, TurnPromise!Close, TurnPromise!vars
  <2>2. ASSUME NEW t \in Calls, StartTurn(t) PROVE TurnPromise!Start(t)
    <3>1. /\ tpc[t] = "idle" /\ tpc' = [tpc EXCEPT ![t] = "started"]
          /\ ~sclosed /\ status # "closed" /\ current = None
          /\ UNCHANGED <<fin, outcome, sclosed>> /\ status' = "running"
      BY <2>2 DEF StartTurn, Busy, closeVars
    <3>2. fin[t] = "no"
      BY <3>1 DEF SingleFlight, HoldersAccepted, Accepted
    <3>3. TurnPromise!Free
      BY <3>1, RunningIsCurrent, NoneAssumption DEF TurnPromise!Free
    <3>4. turnState(t) = "idle" /\ turnState(t)' = "running"
      BY <3>1, <3>2 DEF turnState, Accepted, Settles
    <3>5. \A d \in Calls \ {t} : turnState(d)' = turnState(d)
      BY <3>1 DEF turnState, Accepted, Settles
    <3>6. [d \in Calls |-> turnState(d)]' = [[d \in Calls |-> turnState(d)] EXCEPT ![t] = "running"]
      BY <3>4, <3>5
    <3> QED BY <1>2, <3>1, <3>3, <3>4, <3>6 DEF TurnPromise!Start
  <2>3. ASSUME NEW t \in Calls, RefuseTurn(t) PROVE TurnPromise!Refuse(t)
    <3>1. /\ tpc[t] = "idle" /\ tpc' = [tpc EXCEPT ![t] = "refused"]
          /\ sclosed \/ status = "closed" \/ current # None
          /\ UNCHANGED <<fin, outcome, sclosed, status>>
      BY <2>3 DEF RefuseTurn, Busy, driverVars, closeVars
    <3>2. turnState(t) = "idle" /\ turnState(t)' = "refused"
      BY <3>1 DEF turnState, Accepted, Settles
    <3>3. \A d \in Calls \ {t} : turnState(d)' = turnState(d)
      BY <3>1 DEF turnState, Accepted, Settles
    <3>4. [d \in Calls |-> turnState(d)]' = [[d \in Calls |-> turnState(d)] EXCEPT ![t] = "refused"]
      BY <3>2, <3>3
    <3>5. current # None => ~TurnPromise!Free
      BY RunningIsCurrent DEF SingleFlight, TurnTypes, TurnPromise!Free
    <3> QED BY <1>2, <3>1, <3>2, <3>4, <3>5 DEF TurnPromise!Refuse
  <2>4. ASSUME NEW t \in Calls, EmitStarted(t) \/ SettleRead(t) \/ CompleteTurn(t)
        PROVE  UNCHANGED TurnPromise!vars
    <3>1. /\ UNCHANGED <<outcome, sclosed, status>>
          /\ \/ \E p \in {"prompt", "snapped"} : tpc' = [tpc EXCEPT ![t] = p] /\ UNCHANGED fin
             \/ tpc' = tpc /\ fin[t] = "cleared" /\ fin' = [fin EXCEPT ![t] = "closed"]
          /\ tpc[t] \in {"started", "prompt"} \/ fin[t] = "cleared"
      BY <2>4 DEF EmitStarted, SettleRead, CompleteTurn, driverVars, closeVars
    <3>2. \A d \in Calls : turnState(d)' = turnState(d)
      BY <2>4, <3>1 DEF turnState, Accepted, Settles, EmitStarted, SettleRead, CompleteTurn
    <3> QED BY <1>2, <3>1, <3>2 DEF TurnPromise!vars
  <2>5. ASSUME NEW t \in Calls, NEW o \in Outcomes \ {"none"}, Finishes(t, o)
        PROVE  [TurnPromise!Next]_TurnPromise!vars
    BY <2>5, FinishMaps DEF TurnPromise!Next, Outcomes
  <2>6. \/ Quiet
        \/ \E t \in Calls :
              \/ StartTurn(t) \/ RefuseTurn(t) \/ EmitStarted(t) \/ SettleRead(t) \/ CompleteTurn(t)
        \/ \E t \in Calls, o \in Outcomes \ {"none"} : Finishes(t, o)
    BY Classified
  <2> QED BY <2>1, <2>2, <2>3, <2>4, <2>5, <2>6 DEF TurnPromise!Next
<1> QED BY <1>1, <1>2, RepliesOfAgent

\* Every behaviour of the driver over its peer, with its timers and closers, is
\* one the turn contract allows (StartTurn, finishTurn, beginClose).
THEOREM TurnsImplementContract == SpecT => ImplementsTurns
  BY InitTurnsMapped, TurnsMapped, FoundedHolds, DriverHolds, PTL
  DEF SpecT, ImplementsTurns, TurnPromise!Spec

-----------------------------------------------------------------------------
(* The thread.  The message of the current turn is its last entry.         *)

ThreadEntry == {"user", "assistant"} \X Calls

ThreadInv ==
    /\ thread \in Seq(ThreadEntry) /\ Len(thread) <= MaxThread
    /\ ThreadInOrder
    /\ current # None => thread # <<>> /\ thread[Len(thread)] = <<"user", current>>

\* All of a thread but its last entry is an end of the old one.
Prolongs(r) ==
    /\ Len(r) >= 2 => thread # <<>> /\ r[Len(r) - 1] = thread[Len(thread)]
    /\ \A i \in 2..(Len(r) - 1) : \E j \in 2..Len(thread) :
          r[i] = thread[j] /\ r[i - 1] = thread[j - 1]

\* An entry goes to the end; the cap takes at most the first one away.
LEMMA EntryAdded ==
    ASSUME ThreadInv, NEW kind \in {"user", "assistant"}, NEW t \in Calls,
           NEW r, r = AddEntry(kind, t)
    PROVE  /\ r \in Seq(ThreadEntry) /\ Len(r) \in Nat /\ Len(r) <= MaxThread
           /\ Len(r) >= 1 /\ r[Len(r)] = <<kind, t>> /\ Prolongs(r)
<1> DEFINE full == Append(thread, <<kind, t>>)
<1>1. /\ full \in Seq(ThreadEntry) /\ Len(full) = Len(thread) + 1 /\ Len(thread) \in Nat
      /\ \A i \in 1..Len(thread) : full[i] = thread[i]
      /\ full[Len(thread) + 1] = <<kind, t>>
  BY DEF ThreadInv, ThreadEntry
<1>2. MaxThread \in Nat /\ MaxThread >= 1 /\ Len(thread) <= MaxThread
  BY ThreadAssumption DEF ThreadInv
<1> HIDE DEF full
<1>3. CASE Len(full) > MaxThread
  <2>1. r = Tail(full)
    BY <1>3 DEF AddEntry, full
  <2>2. /\ r \in Seq(ThreadEntry) /\ Len(r) = Len(thread) /\ Len(thread) = MaxThread
        /\ \A i \in 1..Len(thread) : r[i] = full[i + 1]
    BY <1>1, <1>2, <1>3, <2>1
  <2>3. r[Len(r)] = <<kind, t>>
    BY <1>1, <1>2, <2>2
  <2>4. Len(r) >= 2 => thread # <<>> /\ r[Len(r) - 1] = thread[Len(thread)]
    BY <1>1, <2>2
  <2>5. \A i \in 2..(Len(r) - 1) : i + 1 \in 2..Len(thread) /\ r[i] = thread[i + 1] /\ r[i - 1] = thread[i + 1 - 1]
    BY <1>1, <2>2
  <2>6. Prolongs(r)
    BY <2>4, <2>5 DEF Prolongs
  <2> QED BY <1>1, <1>2, <2>2, <2>3, <2>6
<1>4. CASE ~(Len(full) > MaxThread)
  <2>1. r = full
    BY <1>4 DEF AddEntry, full
  <2>2. \A i \in 2..(Len(r) - 1) : i \in 2..Len(thread) /\ r[i] = thread[i] /\ r[i - 1] = thread[i - 1]
    BY <1>1, <2>1
  <2>3. Len(r) >= 2 => thread # <<>> /\ r[Len(r) - 1] = thread[Len(thread)]
    BY <1>1, <2>1
  <2>4. Prolongs(r)
    BY <2>2, <2>3 DEF Prolongs
  <2> QED BY <1>1, <1>2, <1>4, <2>1, <2>4
<1> QED BY <1>3, <1>4

LEMMA InitThread == InitT => ThreadInv
  BY ThreadAssumption DEF InitT, ThreadInv, ThreadInOrder

\* A user message opens a turn, an assistant's answers the last entry.
LEMMA ThreadGrows ==
    ASSUME ThreadInv, NEW t \in Calls, NEW kind \in {"user", "assistant"},
           thread' = AddEntry(kind, t),
           kind = "user" => current' = t,
           kind = "assistant" => current = t /\ current' = None
    PROVE  ThreadInv'
<1>0. t # None
  BY NoneAssumption
<1>1. /\ thread' \in Seq(ThreadEntry) /\ Len(thread') \in Nat /\ Len(thread') <= MaxThread
      /\ Len(thread') >= 1 /\ thread'[Len(thread')] = <<kind, t>> /\ Prolongs(thread')
  BY EntryAdded
<1>2. ThreadInOrder'
  <2> SUFFICES ASSUME NEW i \in 2..Len(thread'), thread'[i][1] = "assistant"
               PROVE  thread'[i - 1] = <<"user", thread'[i][2]>>
    BY DEF ThreadInOrder
  <2>1. CASE i = Len(thread')
    <3>1. kind = "assistant" /\ thread'[i] = <<kind, t>>
      BY <1>1, <2>1
    <3>2. thread # <<>> /\ thread'[i - 1] = thread[Len(thread)]
      BY <1>1, <2>1 DEF Prolongs
    <3>3. thread[Len(thread)] = <<"user", t>>
      BY <1>0, <3>1 DEF ThreadInv
    <3> QED BY <3>1, <3>2, <3>3
  <2>2. CASE i \in 2..(Len(thread') - 1)
    <3>1. PICK j \in 2..Len(thread) : thread'[i] = thread[j] /\ thread'[i - 1] = thread[j - 1]
      BY <1>1, <2>2 DEF Prolongs
    <3> QED BY <3>1 DEF ThreadInv, ThreadInOrder
  <2> QED BY <1>1, <2>1, <2>2
<1>3. current' # None => thread' # <<>> /\ thread'[Len(thread')] = <<"user", current'>>
  <2>1. thread' # <<>>
    BY <1>1
  <2> QED BY <1>1, <2>1
<1> QED BY <1>1, <1>2, <1>3 DEF ThreadInv

LEMMA NextThread == DriverInv /\ ThreadInv /\ [NextT]_varsT => ThreadInv'
<1> SUFFICES ASSUME DriverInv, ThreadInv, [NextT]_varsT PROVE ThreadInv'
  OBVIOUS
<1>1. ASSUME thread' = thread, current' \in {current, None} PROVE ThreadInv'
  BY <1>1 DEF ThreadInv, ThreadInOrder
<1>2. ASSUME NEW t \in Calls, StartTurn(t) PROVE ThreadInv'
  <2>1. thread' = AddEntry("user", t) /\ current' = t
    BY <1>2 DEF StartTurn
  <2> QED BY <2>1, ThreadGrows
<1>3. ASSUME NEW t \in Calls, NEW o, Finishes(t, o) PROVE ThreadInv'
  <2>1. CASE First(t) /\ o = "completed"
    <3>1. thread' = AddEntry("assistant", t) /\ current' = IF current = t THEN None ELSE current
      BY <1>3, <2>1 DEF Finishes, FinishTurn
    <3>2. current = t
      BY <1>3, <2>1 DEF Finishes, First, DriverInv, SingleFlight, CurrentIsUnfinished
    <3> QED BY <3>1, <3>2, ThreadGrows
  <2>2. CASE ~(First(t) /\ o = "completed")
    <3>1. thread' = thread /\ current' \in {current, None}
      BY <1>3, <2>2 DEF Finishes, FinishTurn
    <3> QED BY <1>1, <3>1
  <2> QED BY <2>1, <2>2
<1>4. ASSUME NEW t \in Calls, RefuseTurn(t) \/ EmitStarted(t) \/ SettleRead(t) \/ CompleteTurn(t)
      PROVE  ThreadInv'
  BY <1>1, <1>4 DEF RefuseTurn, EmitStarted, SettleRead, CompleteTurn, driverVars
<1> QED BY <1>1, <1>2, <1>3, <1>4, Classified DEF DriverInv, Quiet

LEMMA ThreadHolds == SpecT => []ThreadInv
  BY InitThread, NextThread, DriverHolds, PTL DEF SpecT

-----------------------------------------------------------------------------
(* Output.  The updates the agent wrote before its answer to a turn are    *)
(* ahead of that answer on the wire, so they are folded when it arrives.   *)

Answers(q, t) == q \in Response /\ q.call = t
AnswerRead(t) == got[t] # None \/ (line # None /\ Answers(line, t))

Known ==
    /\ early \subseteq written /\ written \subseteq Notes
    /\ \A m \in written : pc[m.of] # "idle"
    /\ \A i \in DOMAIN inbox : inbox[i] \in Notes => inbox[i] \in written
    /\ line # None /\ line \in Notes => line \in written

Ahead ==
    \A m \in early :
        /\ \A i, j \in DOMAIN inbox : inbox[i] = m /\ Answers(inbox[j], m.of) => i < j
        /\ AnswerRead(m.of) => line # m /\ \A i \in DOMAIN inbox : inbox[i] # m

FoldedInHand == folded => loop = "dispatch" /\ line # None /\ line \in Notes

WireInv == Known /\ Ahead /\ FoldedInHand

LEMMA InitWire == InitT => WireInv
  BY DEF InitT, Init, WireInv, Known, Ahead, FoldedInHand

LEMMA NotesAreChunks == \A m \in Notes : m.of \in Calls /\ m.kind = "chunk" /\ m # None /\ m \notin Response
  BY NotesAssumption, NoneAssumption, ChunksAssumption DEF Response, Message

\* What happens to the wire, and what the loop reads from it.
LEMMA WireSteps ==
    ASSUME [NextT]_varsT
    PROVE  \/ \E m \in Notes : AgentChunk(m)
           \/ AgentAnswer
           \/ (ReadLine \/ ReadEnds \/ Deliver) /\ UNCHANGED ownVars
           \/ UNCHANGED <<inbox, line, got, early, written>>
  BY DEF NextT, TurnStep, EmitStarted, PromptCall, Register, WriteRequest, WriteFails, TakeCtx, NotifyCancel,
     TakeClosed, TakeResponse, TakeChanClosed, AfterIdle, PromptFails, SettleRead, SettleFinish,
     SettleReturnsOnCaller, RunOnCaller, CompleteTurn, TimerStep, TimerFires, TimerFinishes, LoopStepT,
     LoopTop, MarkBusy, ResolvePending, LoopClose, LoopExit, SettleReturnsOnLoop, RunIdleFn, FoldUpdate,
     EmitUpdate, HandleNote, CloseStepT, CloseStep, SweepPending, SweepInbound, CloserStep, BeginClose,
     FinishInFlightTurn, Dispose, HostClose, CloseChannel, HostStep, StartTurn, RefuseTurn, CancelTurn,
     CancelCtx, SessionClosed, AgentExit, varsT, vars, callVars, chanVars, loopVars, wireVars, ownVars, updVars

LEMMA CallsStay ==
    ASSUME TypeOK, [Next]_vars, NEW c \in Calls, pc[c] # "idle" PROVE pc'[c] # "idle"
<1>1. ASSUME NEW d \in Calls, Register(d) \/ CancelCtx(d) \/ AfterIdle(d) \/ CallStep(d) PROVE pc'[c] # "idle"
  <2>1. CASE Register(d)
    BY <2>1 DEF Register, TypeOK
  <2>2. CASE CancelCtx(d)
    BY <2>2 DEF CancelCtx
  <2>3. CASE AfterIdle(d)
    BY <2>3 DEF AfterIdle, TypeOK
  <2>4. CASE CallStep(d)
    BY <2>4 DEF CallStep, WriteRequest, WriteFails, TakeCtx, NotifyCancel, TakeClosed,
       TakeResponse, TakeChanClosed, RunOnCaller, Return, TypeOK
  <2> QED BY <1>1, <2>1, <2>2, <2>3, <2>4
<1>2. ASSUME LoopStep \/ HostClose \/ CloseStep \/ AgentStep \/ UNCHANGED vars PROVE pc' = pc
  BY <1>2 DEF LoopStep, LoopTop, RunIdleFn, ReadLine, ReadEnds, MarkBusy, ResolvePending, Deliver,
     HandleNote, LoopClose, LoopExit, HostClose, CloseChannel, CloseStep, SweepPending, SweepInbound,
     AgentStep, AgentReply, AgentNote, AgentExit, vars, callVars
<1> QED BY <1>1, <1>2 DEF Next

\* Every answer the loop has or will read is one the agent wrote.
LEMMA AnswersWritten ==
    ASSUME Founded
    PROVE  /\ \A t \in Calls : AnswerRead(t) => \E ok \in BOOLEAN : <<t, ok>> \in replied
           /\ \A i \in DOMAIN inbox, t \in Calls : Answers(inbox[i], t) => \E ok \in BOOLEAN : <<t, ok>> \in replied
<1>1. \A q \in Response : Genuine(q) => \E ok \in BOOLEAN : <<q.call, ok>> \in replied
  BY DEF Genuine, Response
<1>2. \A t \in Calls : got[t] # None => got[t] \in Response
  BY DEF Founded, TypeOK
<1> QED BY <1>1, <1>2 DEF Founded, Bookkeeping, AnswersGenuine, AnswerRead, Answers

LEMMA NextWire == Founded /\ WireInv /\ [NextT]_varsT => WireInv'
<1> SUFFICES ASSUME Founded, WireInv, [NextT]_varsT PROVE WireInv'
  OBVIOUS
<1> USE DEF WireInv
<1>0. /\ inbox \in Seq(Message) /\ TypeOK
      /\ \A c \in Calls : pc[c] # "idle" => pc'[c] # "idle"
  BY PeerStep, CallsStay DEF Founded, TypeOK
<1>1. FoldedInHand'
  <2>1. CASE FoldUpdate
    <3>1. line \in Message /\ line # None /\ line \in Notes
      BY <1>0, <2>1, NoneAssumption DEF FoldUpdate, TypeOK, Message, Response
    <3> QED BY <2>1, <3>1 DEF FoldUpdate, FoldedInHand, vars, loopVars
  <2>2. CASE UNCHANGED <<loop, line, folded>>
    BY <2>2 DEF FoldedInHand
  <2>3. CASE folded' = FALSE
    BY <2>3 DEF FoldedInHand
  <2>4. CASE UNCHANGED folded /\ loop # "dispatch"
    BY <2>4 DEF FoldedInHand
  <2>5. CASE UNCHANGED folded /\ ResolvePending
    BY <2>5, NotesAreChunks DEF FoldedInHand, ResolvePending
  <2> QED BY <2>1, <2>2, <2>3, <2>4, <2>5
     DEF NextT, TurnStep, EmitStarted, PromptCall, Register, WriteRequest, WriteFails, TakeCtx, NotifyCancel,
     TakeClosed, TakeResponse, TakeChanClosed, AfterIdle, PromptFails, SettleRead, SettleFinish,
     SettleReturnsOnCaller, RunOnCaller, CompleteTurn, TimerStep, TimerFires, TimerFinishes, LoopStepT,
     LoopTop, ReadLine, ReadEnds, Deliver, MarkBusy, LoopClose, LoopExit, SettleReturnsOnLoop, RunIdleFn,
     EmitUpdate, CloseStepT, CloseStep, SweepPending, SweepInbound, CloserStep, BeginClose,
     FinishInFlightTurn, Dispose, HostClose, CloseChannel, HostStep, StartTurn, RefuseTurn, CancelTurn,
     CancelCtx, SessionClosed, AgentExit, AgentChunk, AgentNote, AgentAnswer, AgentReply, varsT, vars, loopVars,
     ownVars, updVars
<1>2. CASE UNCHANGED <<inbox, line, got, early, written>>
  <2>1. Known'
    BY <1>0, <1>2, NotesAreChunks DEF Known
  <2>2. Ahead'
    BY <1>2 DEF Ahead, AnswerRead
  <2> QED BY <1>1, <2>1, <2>2
<1>3. ASSUME NEW n \in Notes, AgentChunk(n) PROVE WireInv'
  <2>1. /\ inbox' = Append(inbox, n) /\ UNCHANGED <<line, got, pc>>
        /\ n \notin written /\ written' = written \cup {n}
        /\ <<id[n.of], n.of>> \in sent
        /\ IF \E ok \in BOOLEAN : <<n.of, ok>> \in replied
             THEN early' = early ELSE early' = early \cup {n}
    BY <1>3 DEF AgentChunk, AgentNote, Write, callVars, chanVars, loopVars
  <2>2. n.of \in Calls /\ n \notin Response /\ n \notin early /\ pc[n.of] # "idle"
    BY <1>0, <2>1, NotesAreChunks DEF Known, Founded, Bookkeeping, IdsDistinct
  <2>3. /\ Len(inbox') = Len(inbox) + 1 /\ inbox'[Len(inbox) + 1] = n
        /\ \A i \in DOMAIN inbox' : (i \in DOMAIN inbox /\ inbox'[i] = inbox[i]) \/ i = Len(inbox) + 1
    <3>1. n \in Message
      BY DEF Message
    <3> QED BY <1>0, <2>1, <3>1
  <2>4. Known'
    BY <2>1, <2>2, <2>3 DEF Known
  <2>5. Ahead'
    <3> SUFFICES ASSUME NEW m \in early'
                 PROVE  /\ \A i, j \in DOMAIN inbox' :
                              inbox'[i] = m /\ Answers(inbox'[j], m.of) => i < j
                        /\ AnswerRead(m.of)' => line' # m /\ \A i \in DOMAIN inbox' : inbox'[i] # m
      BY DEF Ahead, Answers
    <3>1. CASE m = n
      <4>1. \A ok \in BOOLEAN : <<n.of, ok>> \notin replied
        BY <2>1, <2>2, <3>1
      <4>2. ~AnswerRead(n.of) /\ \A i \in DOMAIN inbox : ~Answers(inbox[i], n.of)
        BY <2>2, <4>1, AnswersWritten
      <4>3. \A j \in DOMAIN inbox' : ~Answers(inbox'[j], n.of)
        BY <2>2, <2>3, <4>2 DEF Answers
      <4>4. ~AnswerRead(n.of)'
        BY <2>1, <4>2 DEF AnswerRead
      <4> QED BY <3>1, <4>3, <4>4
    <3>2. CASE m # n
      <4>1. m \in early
        BY <2>1, <3>2
      <4>2. \A i \in DOMAIN inbox' : inbox'[i] = m => i \in DOMAIN inbox /\ inbox[i] = m
        BY <2>3, <3>2
      <4>3. \A j \in DOMAIN inbox' : Answers(inbox'[j], m.of) =>
                j \in DOMAIN inbox /\ Answers(inbox[j], m.of)
        BY <2>2, <2>3 DEF Answers
      <4>4. AnswerRead(m.of)' => AnswerRead(m.of)
        BY <2>1 DEF AnswerRead
      <4> QED BY <2>1, <4>1, <4>2, <4>3, <4>4 DEF Ahead
    <3> QED BY <3>1, <3>2
  <2> QED BY <1>1, <2>4, <2>5
<1>4. ASSUME AgentAnswer PROVE WireInv'
  <2>1. PICK r \in sent, ok \in BOOLEAN : AgentReply(r, ok)
    BY <1>4 DEF AgentAnswer
  <2> DEFINE ans == [kind |-> "response", id |-> r[1], call |-> r[2], ok |-> ok]
  <2>2. /\ inbox' = Append(inbox, ans) /\ UNCHANGED <<line, got, pc, early, written>>
    BY <1>4, <2>1 DEF AgentAnswer, AgentReply, Write, callVars, chanVars, loopVars, ownVars, updVars
  <2>3. ans \in Response
    BY <1>0 DEF TypeOK, Response
  <2>4. ans \in Message /\ ans \notin Notes
    BY <2>3, NotesAssumption DEF Message, Response
  <2> HIDE DEF ans
  <2>5. /\ Len(inbox') = Len(inbox) + 1 /\ inbox'[Len(inbox) + 1] = ans
        /\ \A i \in DOMAIN inbox' : (i \in DOMAIN inbox /\ inbox'[i] = inbox[i]) \/ i = Len(inbox) + 1
        /\ \A i \in DOMAIN inbox : i < Len(inbox) + 1
    BY <1>0, <2>2, <2>4
  <2>6. Known'
    BY <2>2, <2>4, <2>5 DEF Known
  <2>7. Ahead'
    <3> SUFFICES ASSUME NEW m \in early
                 PROVE  /\ \A i, j \in DOMAIN inbox' :
                              inbox'[i] = m /\ Answers(inbox'[j], m.of) => i < j
                        /\ AnswerRead(m.of)' => line' # m /\ \A i \in DOMAIN inbox' : inbox'[i] # m
      BY <2>2 DEF Ahead, Answers
    <3>1. m \in Notes
      BY DEF Known
    <3>2. \A i \in DOMAIN inbox' : inbox'[i] = m => i \in DOMAIN inbox /\ inbox[i] = m
      BY <2>4, <2>5, <3>1
    <3>3. AnswerRead(m.of)' => AnswerRead(m.of)
      BY <2>2 DEF AnswerRead
    <3> QED BY <2>2, <2>5, <3>2, <3>3 DEF Ahead
  <2> QED BY <1>1, <2>6, <2>7
<1>5. ASSUME ReadLine, UNCHANGED ownVars PROVE WireInv'
  <2>1. /\ inbox # <<>> /\ line' = Head(inbox) /\ inbox' = Tail(inbox)
        /\ UNCHANGED <<got, pc, early, written>>
    BY <1>5 DEF ReadLine, callVars, chanVars, ownVars, updVars
  <2>2. /\ 1 \in DOMAIN inbox /\ line' = inbox[1]
        /\ \A i \in DOMAIN inbox' : i + 1 \in DOMAIN inbox /\ inbox'[i] = inbox[i + 1] /\ i \in Nat \ {0}
    BY <1>0, <2>1
  <2>3. Known'
    BY <2>1, <2>2 DEF Known
  <2>4. Ahead'
    <3> SUFFICES ASSUME NEW m \in early
                 PROVE  /\ \A i, j \in DOMAIN inbox' :
                              inbox'[i] = m /\ Answers(inbox'[j], m.of) => i < j
                        /\ AnswerRead(m.of)' => line' # m /\ \A i \in DOMAIN inbox' : inbox'[i] # m
      BY <2>1 DEF Ahead, Answers
    <3>1. \A i, j \in DOMAIN inbox' : inbox'[i] = m /\ Answers(inbox'[j], m.of) => i < j
      <4> SUFFICES ASSUME NEW i \in DOMAIN inbox', NEW j \in DOMAIN inbox',
                          inbox'[i] = m, Answers(inbox'[j], m.of)
                   PROVE  i < j
        OBVIOUS
      <4>1. i + 1 < j + 1
        BY <2>2 DEF Ahead
      <4> QED BY <2>2, <4>1
    <3>2. ASSUME AnswerRead(m.of)' PROVE line' # m /\ \A i \in DOMAIN inbox' : inbox'[i] # m
      <4>1. CASE got[m.of] # None
        <5>1. \A i \in DOMAIN inbox : inbox[i] # m
          BY <4>1 DEF Ahead, AnswerRead
        <5> QED BY <2>2, <5>1
      <4>2. CASE line' # None /\ Answers(line', m.of)
        <5>1. line' # m
          BY <4>2, NotesAreChunks DEF Known, Answers
        <5>2. Answers(inbox[1], m.of)
          BY <2>2, <4>2
        <5>3. ASSUME NEW i \in DOMAIN inbox', inbox'[i] = m PROVE FALSE
          <6>1. i + 1 < 1
            BY <2>2, <5>2, <5>3 DEF Ahead
          <6> QED BY <2>2, <6>1
        <5> QED BY <5>1, <5>3
      <4> QED BY <2>1, <3>2, <4>1, <4>2 DEF AnswerRead, Answers
    <3> QED BY <3>1, <3>2
  <2> QED BY <1>1, <2>3, <2>4
<1>6. ASSUME ReadEnds, UNCHANGED ownVars PROVE WireInv'
  <2>1. line' = None /\ UNCHANGED <<inbox, got, pc, early, written>>
    BY <1>6 DEF ReadEnds, callVars, chanVars, wireVars, ownVars, updVars
  <2>2. Known'
    BY <2>1 DEF Known
  <2>3. \A m \in early : m # None
    BY NotesAreChunks DEF Known
  <2>4. Ahead'
    BY <2>1, <2>3 DEF Ahead, AnswerRead, Answers
  <2> QED BY <1>1, <2>2, <2>4
<1>7. ASSUME Deliver, UNCHANGED ownVars PROVE WireInv'
  <2>1. /\ loop = "deliver" /\ got' = [got EXCEPT ![target] = line]
        /\ UNCHANGED <<inbox, line, pc, early, written>>
    BY <1>7 DEF Deliver, callVars, wireVars, ownVars, updVars
  <2>2. target \in Calls /\ line \in Response /\ line.id = id[target] /\ line # None
    BY <1>0, <2>1, NoneAssumption DEF Founded, Bookkeeping, ChannelsOwned, Message
  <2>3. line.id # 0 /\ line.id = id[line.call] /\ line.call \in Calls
    BY <2>2 DEF Founded, Bookkeeping, AnswersGenuine, Genuine, Response
  <2>4. line.call = target
    BY <2>2, <2>3 DEF Founded, Bookkeeping, IdsDistinct
  <2>5. \A t \in Calls : AnswerRead(t)' => AnswerRead(t)
    <3> SUFFICES ASSUME NEW t \in Calls, AnswerRead(t)' PROVE AnswerRead(t)
      OBVIOUS
    <3>1. CASE t = target
      BY <2>2, <2>4, <3>1 DEF AnswerRead, Answers
    <3>2. CASE t # target
      BY <1>0, <2>1, <3>2 DEF AnswerRead, TypeOK, Answers
    <3> QED BY <3>1, <3>2
  <2>6. Known'
    BY <2>1 DEF Known
  <2>7. \A m \in early : m.of \in Calls
    BY NotesAreChunks DEF Known
  <2>8. Ahead'
    BY <2>1, <2>5, <2>7 DEF Ahead, Answers
  <2> QED BY <1>1, <2>6, <2>8
<1> QED BY <1>2, <1>3, <1>4, <1>5, <1>6, <1>7, WireSteps

LEMMA WireHolds == SpecT => []WireInv
  BY InitWire, NextWire, FoundedHolds, PTL DEF SpecT

\* Until it is folded, an update is on the wire or in the loop's hands.
Unread(m) ==
    \/ \E i \in DOMAIN inbox : inbox[i] = m
    \/ line = m /\ loop \in {"line", "dispatch"} /\ ~folded

EarlyKept ==
    /\ output \in [Calls -> SUBSET Notes] /\ final \in [Calls -> SUBSET Notes]
    /\ \A m \in early :
          /\ fin[m.of] = "no" => Unread(m) \/ m \in output[m.of]
          /\ tpc[m.of] = "snapped" /\ fin[m.of] = "no" => m \in final[m.of]
          /\ outcome[m.of] = "completed" => m \in final[m.of]

LEMMA InitEarly == InitT => EarlyKept
  BY DEF InitT, EarlyKept

\* What the loop does with the line it holds, and who writes to output.
LEMMA LineSteps ==
    ASSUME [NextT]_varsT
    PROVE  /\ \/ UNCHANGED <<loop, line, folded>>
              \/ loop \notin {"line", "dispatch"}
              \/ MarkBusy /\ UNCHANGED ownVars
              \/ ResolvePending
              \/ FoldUpdate
              \/ EmitUpdate
           /\ UNCHANGED output \/ FoldUpdate
<1> DEFINE Goal ==
              \/ UNCHANGED <<loop, line, folded>>
              \/ loop \notin {"line", "dispatch"}
              \/ MarkBusy /\ UNCHANGED ownVars
              \/ ResolvePending
              \/ FoldUpdate
              \/ EmitUpdate
<1>1. Goal
  <2>1. ASSUME UNCHANGED <<loopVars, updVars>> PROVE Goal
    BY <2>1 DEF loopVars, updVars
  <2>2. ASSUME NEW t \in Calls, TurnStep(t) \/ CompleteTurn(t) \/ TimerStep(t) PROVE Goal
    BY <2>1, <2>2 DEF TurnStep, EmitStarted, PromptCall, Register, WriteRequest, WriteFails, TakeCtx,
       NotifyCancel, TakeClosed, TakeResponse, TakeChanClosed, AfterIdle, PromptFails, SettleRead,
       SettleFinish, SettleReturnsOnCaller, RunOnCaller, CompleteTurn, TimerStep, TimerFires,
       TimerFinishes, vars, ownVars
  <2>3. ASSUME LoopStepT PROVE Goal
    BY <2>3 DEF LoopStepT, LoopTop, ReadLine, ReadEnds, Deliver, LoopClose, LoopExit,
       SettleReturnsOnLoop, RunIdleFn
  <2>4. ASSUME NEW k \in Closers, CloserStep(k) \/ Dispose(k) PROVE Goal
    BY <2>1, <2>4 DEF CloserStep, BeginClose, FinishInFlightTurn, Dispose, HostClose, CloseChannel, vars
  <2>5. ASSUME HostStep PROVE Goal
    BY <2>1, <2>5 DEF HostStep, StartTurn, RefuseTurn, CancelTurn, CancelCtx, SessionClosed, vars, ownVars
  <2>6. ASSUME \/ CloseStepT \/ AgentAnswer
               \/ AgentExit /\ UNCHANGED ownVars
               \/ UNCHANGED varsT
        PROVE  Goal
    BY <2>1, <2>6 DEF CloseStepT, CloseStep, SweepPending, SweepInbound, AgentAnswer, AgentReply, AgentExit,
       varsT, vars, ownVars
  <2>7. ASSUME NEW m \in Notes, AgentChunk(m) PROVE Goal
    BY <2>7 DEF AgentChunk, AgentNote, loopVars
  <2> QED BY <2>2, <2>3, <2>4, <2>5, <2>6, <2>7 DEF NextT
<1>2. UNCHANGED output \/ FoldUpdate
  BY DEF NextT, TurnStep, EmitStarted, PromptCall, PromptFails, SettleRead, SettleFinish,
     SettleReturnsOnCaller, CompleteTurn, TimerStep, TimerFires, TimerFinishes, LoopStepT,
     SettleReturnsOnLoop, EmitUpdate, CloseStepT, CloserStep, BeginClose, FinishInFlightTurn, Dispose,
     HostStep, StartTurn, RefuseTurn, CancelTurn, SessionClosed, AgentChunk, AgentAnswer, varsT,
     ownVars, driverVars
<1> QED BY <1>1, <1>2

\* An unread update stays unread until the loop folds it.
LEMMA UnreadStays ==
    ASSUME Founded, WireInv, [NextT]_varsT, NEW m \in Notes, Unread(m)
    PROVE  Unread(m)' \/ (FoldUpdate /\ line = m)
<1>0. inbox \in Seq(Message) /\ m \in Message /\ m # None /\ m \notin Response /\ m.kind = "chunk"
  BY NotesAreChunks DEF Founded, TypeOK, Message
<1>1. CASE \E i \in DOMAIN inbox : inbox[i] = m
  <2>1. PICK i \in DOMAIN inbox : inbox[i] = m
    BY <1>1
  <2>2. CASE \E n \in Message : inbox' = Append(inbox, n)
    <3>1. i \in DOMAIN inbox' /\ inbox'[i] = m
      BY <1>0, <2>1, <2>2
    <3> QED BY <3>1 DEF Unread
  <2>3. CASE UNCHANGED inbox
    BY <2>1, <2>3 DEF Unread
  <2>4. CASE ReadLine /\ UNCHANGED ownVars
    <3>1. /\ line' = Head(inbox) /\ inbox' = Tail(inbox) /\ loop' = "line" /\ ~folded'
      BY <2>4 DEF ReadLine, ownVars, updVars, WireInv, FoldedInHand
    <3>2. CASE i = 1
      BY <1>0, <2>1, <3>1, <3>2 DEF Unread
    <3>3. CASE i # 1
      <4>1. i - 1 \in DOMAIN inbox' /\ inbox'[i - 1] = m
        BY <1>0, <2>1, <3>1, <3>3
      <4> QED BY <4>1 DEF Unread
    <3> QED BY <3>2, <3>3
  <2>5. ASSUME NEW n \in Notes, AgentChunk(n) PROVE \E q \in Message : inbox' = Append(inbox, q)
    BY <2>5 DEF AgentChunk, AgentNote, Write, Message
  <2>6. ASSUME AgentAnswer PROVE \E q \in Message : inbox' = Append(inbox, q)
    <3>1. PICK r \in sent, ok \in BOOLEAN : AgentReply(r, ok)
      BY <2>6 DEF AgentAnswer
    <3> QED BY <3>1 DEF AgentReply, Write, Founded, TypeOK, Message, Response
  <2> QED BY <2>2, <2>3, <2>4, <2>5, <2>6, WireSteps DEF ReadEnds, Deliver, wireVars
<1>2. CASE line = m /\ loop \in {"line", "dispatch"} /\ ~folded
  <2>1. CASE MarkBusy /\ UNCHANGED ownVars
    BY <1>0, <1>2, <2>1 DEF MarkBusy, ownVars, updVars, Unread
  <2>2. ~ResolvePending
    BY <1>0, <1>2 DEF ResolvePending
  <2>3. ~EmitUpdate
    BY <1>2 DEF EmitUpdate
  <2> QED BY <1>2, <2>1, <2>2, <2>3, LineSteps DEF Unread
<1> QED BY <1>1, <1>2 DEF Unread

\* What the loop folds goes into the turn the update is of.
LEMMA FoldedIntoItsTurn ==
    ASSUME Founded, DriverInv, WireInv, EarlyKept, [NextT]_varsT
    PROVE  /\ output' \in [Calls -> SUBSET Notes]
           /\ \A t \in Calls : output[t] \subseteq output'[t]
           /\ \A m \in early : FoldUpdate /\ line = m /\ fin[m.of] = "no" => m \in output'[m.of]
<1>1. CASE UNCHANGED output /\ ~FoldUpdate
  BY <1>1 DEF EarlyKept
<1>2. CASE FoldUpdate
  <2>1. line \in Notes
    BY <1>2, NoneAssumption DEF FoldUpdate, Founded, TypeOK, Message, Response
  <2>2. output' = IF current = None THEN output ELSE [output EXCEPT ![current] = output[current] \cup {line}]
    BY <1>2 DEF FoldUpdate, Appended
  <2>3. current \in Calls \cup {None}
    BY DEF DriverInv, SingleFlight, TurnTypes
  <2>4. ASSUME NEW m \in early, fin[m.of] = "no" PROVE current = m.of /\ m.of \in Calls
    <3>1. m.of \in Calls /\ pc[m.of] # "idle"
      BY NotesAreChunks DEF WireInv, Known
    <3>2. Accepted(m.of)
      BY <3>1 DEF DriverInv, Settles
    <3> QED BY <2>4, <3>1, <3>2 DEF DriverInv, SingleFlight, CurrentIsUnfinished
  <2>5. None \notin Calls
    BY NoneAssumption
  <2>6. output' \in [Calls -> SUBSET Notes] /\ \A t \in Calls : output[t] \subseteq output'[t]
    BY <2>1, <2>2, <2>3 DEF EarlyKept
  <2>7. \A m \in early : line = m /\ fin[m.of] = "no" => m \in output'[m.of]
    BY <2>2, <2>4, <2>5 DEF EarlyKept
  <2> QED BY <2>6, <2>7
<1> QED BY <1>1, <1>2, LineSteps

\* When settle reads a turn's output, every early update of it is there.
LEMMA ReadWhenFolded ==
    ASSUME Founded, WireInv, EarlyKept, NEW m \in early, Settling(m.of), fin[m.of] = "no"
    PROVE  m \in output[m.of]
<1>1. m.of \in Calls
  BY NotesAreChunks DEF WireInv, Known
<1>2. AnswerRead(m.of)
  BY <1>1, SettlingHasAnswer DEF Founded, AnswerRead
<1>3. ~Unread(m)
  BY <1>2 DEF WireInv, Ahead, Unread
<1> QED BY <1>3 DEF EarlyKept

\* A newly early update is of a turn without an answer, so not of a settled one.
LEMMA NewlyEarly ==
    ASSUME Founded, DriverInv, [NextT]_varsT, NEW m \in early', m \notin early
    PROVE  /\ m \in Notes /\ UNCHANGED <<turnVars, output>> /\ Unread(m)'
           /\ tpc[m.of] # "snapped" /\ outcome[m.of] # "completed"
<1>1. PICK n \in Notes : AgentChunk(n)
  BY WireSteps DEF AgentAnswer, ownVars, updVars
<1>2. m = n /\ \A ok \in BOOLEAN : <<n.of, ok>> \notin replied
  BY <1>1 DEF AgentChunk
<1>3. m.of \in Calls /\ result[m.of] # "ok"
  BY <1>1, <1>2, NotesAreChunks DEF Founded, OwnAnswer
<1>4. Unread(m)'
  <2>1. inbox' = Append(inbox, m) /\ inbox \in Seq(Message) /\ m \in Message
    BY <1>1, <1>2 DEF AgentChunk, AgentNote, Write, Founded, TypeOK, Message
  <2>2. Len(inbox) + 1 \in DOMAIN inbox' /\ inbox'[Len(inbox) + 1] = m
    BY <2>1
  <2> QED BY <2>2 DEF Unread
<1> QED BY <1>1, <1>2, <1>3, <1>4 DEF AgentChunk, driverVars, DriverInv, Settles

LEMMA NextEarly == Founded /\ DriverInv /\ WireInv /\ EarlyKept /\ [NextT]_varsT => EarlyKept'
<1> SUFFICES ASSUME Founded, DriverInv, WireInv, EarlyKept, [NextT]_varsT PROVE EarlyKept'
  OBVIOUS
<1>1. /\ output' \in [Calls -> SUBSET Notes]
      /\ \A t \in Calls : output[t] \subseteq output'[t]
  BY FoldedIntoItsTurn
<1>2. final' \in [Calls -> SUBSET Notes]
  BY Classified DEF DriverInv, EarlyKept, Quiet, turnVars, StartTurn, RefuseTurn, EmitStarted, SettleRead,
     CompleteTurn, Finishes
<1>3. \A t \in Calls : fin'[t] = "no" => fin[t] = "no"
  <2>1. ASSUME NEW t \in Calls, NEW o, Finishes(t, o) PROVE \A d \in Calls : fin'[d] = "no" => fin[d] = "no"
    BY <2>1 DEF Finishes, FinishTurn, First, DriverInv, Settles
  <2>2. ASSUME NEW t \in Calls, CompleteTurn(t) PROVE \A d \in Calls : fin'[d] = "no" => fin[d] = "no"
    BY <2>2 DEF CompleteTurn, DriverInv, Settles
  <2> QED BY <2>1, <2>2, Classified DEF DriverInv, Quiet, turnVars, StartTurn, RefuseTurn, EmitStarted, SettleRead
<1>4. ASSUME NEW m \in early, fin'[m.of] = "no" PROVE Unread(m)' \/ m \in output'[m.of]
  <2>1. m \in Notes /\ m.of \in Calls /\ fin[m.of] = "no"
    BY <1>3, <1>4, NotesAreChunks DEF WireInv, Known
  <2> QED BY <1>1, <2>1, FoldedIntoItsTurn, UnreadStays DEF EarlyKept
<1>5. ASSUME NEW m \in early
      PROVE  /\ tpc'[m.of] = "snapped" /\ fin'[m.of] = "no" => m \in final'[m.of]
             /\ outcome'[m.of] = "completed" => m \in final'[m.of]
  <2>0. m.of \in Calls
    BY NotesAreChunks DEF WireInv, Known
  <2> USE DEF EarlyKept
  <2>1. ASSUME NEW t \in Calls, SettleRead(t)
        PROVE  /\ tpc'[m.of] = "snapped" /\ fin'[m.of] = "no" => m \in final'[m.of]
               /\ outcome'[m.of] = "completed" => m \in final'[m.of]
    <3>1. /\ Settling(t) /\ tpc[t] = "prompt" /\ UNCHANGED <<fin, outcome>>
          /\ final' = [final EXCEPT ![t] = output[t]] /\ tpc' = [tpc EXCEPT ![t] = "snapped"]
      BY <2>1 DEF SettleRead
    <3>2. CASE t = m.of
      <4>1. outcome[m.of] # "completed"
        BY <2>0, <3>1, <3>2 DEF DriverInv, Settles
      <4>2. fin[m.of] = "no" => m \in output[m.of]
        BY <3>1, <3>2, ReadWhenFolded
      <4> QED BY <3>1, <3>2, <4>1, <4>2
    <3>3. CASE t # m.of
      BY <3>1, <3>3 DEF DriverInv, Settles
    <3> QED BY <3>2, <3>3
  <2>2. ASSUME NEW t \in Calls, NEW o \in Outcomes \ {"none"}, Finishes(t, o)
        PROVE  /\ tpc'[m.of] = "snapped" /\ fin'[m.of] = "no" => m \in final'[m.of]
               /\ outcome'[m.of] = "completed" => m \in final'[m.of]
    <3>1. /\ final' = final
          /\ tpc'[m.of] = "snapped" => tpc[m.of] = "snapped"
      <4>1. final' = final /\ (tpc' = tpc \/ tpc' = [tpc EXCEPT ![t] = "ended"])
        BY <2>2 DEF Finishes
      <4> QED BY <2>0, <4>1 DEF DriverInv, Settles
    <3>2. outcome'[m.of] = "completed" =>
              outcome[m.of] = "completed" \/ (tpc[m.of] = "snapped" /\ fin[m.of] = "no")
      <4>1. \/ outcome' = outcome
            \/ fin[t] = "no" /\ outcome' = [outcome EXCEPT ![t] = o]
        BY <2>2 DEF Finishes, FinishTurn, First
      <4>2. o = "completed" => tpc[t] = "snapped"
        BY <2>2 DEF Finishes
      <4> QED BY <2>0, <4>1, <4>2 DEF DriverInv, Settles
    <3> QED BY <1>3, <2>0, <3>1, <3>2
  <2>3. ASSUME UNCHANGED <<tpc, outcome, final>>
        PROVE  /\ tpc'[m.of] = "snapped" /\ fin'[m.of] = "no" => m \in final'[m.of]
               /\ outcome'[m.of] = "completed" => m \in final'[m.of]
    BY <1>3, <2>0, <2>3
  <2>4. ASSUME NEW t \in Calls, StartTurn(t) \/ RefuseTurn(t) \/ EmitStarted(t)
        PROVE  /\ tpc'[m.of] = "snapped" /\ fin'[m.of] = "no" => m \in final'[m.of]
               /\ outcome'[m.of] = "completed" => m \in final'[m.of]
    <3>1. /\ UNCHANGED <<fin, outcome, final>>
          /\ \E p \in {"started", "refused", "prompt"} : tpc' = [tpc EXCEPT ![t] = p]
      BY <2>4 DEF StartTurn, RefuseTurn, EmitStarted
    <3> QED BY <2>0, <3>1 DEF DriverInv, Settles
  <2> QED BY <2>1, <2>2, <2>3, <2>4, Classified DEF DriverInv, Quiet, turnVars, CompleteTurn
<1>6. ASSUME NEW m \in early', m \notin early
      PROVE  /\ Unread(m)'
             /\ ~(tpc'[m.of] = "snapped") /\ ~(outcome'[m.of] = "completed")
  BY <1>6, NewlyEarly DEF turnVars
<1> QED BY <1>1, <1>2, <1>4, <1>5, <1>6 DEF EarlyKept

\* A completed turn holds every update that came before its answer, and the
\* thread never interleaves turns (handleSessionUpdate, settle, finishTurn).
THEOREM OutputIsInPlace == SpecT => []OutputInPlace
<1>1. EarlyKept /\ WireInv /\ ThreadInv => OutputInPlace
  BY DEF EarlyKept, ThreadInv, OutputInPlace, OutputComplete
<1>2. SpecT => []EarlyKept
  BY InitEarly, NextEarly, FoundedHolds, DriverHolds, WireHolds, PTL DEF SpecT
<1> QED BY <1>1, <1>2, WireHolds, ThreadHolds, PTL
=============================================================================
