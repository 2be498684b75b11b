---------------------------- MODULE SessionTurns ----------------------------
(***************************************************************************)
(* The turn lifecycle of a session: Session (session.go) over              *)
(* acpSessionDriver (session_driver.go) over the Peer it prompts through.  *)
(* A member of Calls is one StartTurn; if it is accepted, it is also the   *)
(* session/prompt call that its runPrompt goroutine makes on the Peer.     *)
(*                                                                         *)
(* A turn is finished by whoever enters finishTurn first: runPrompt when   *)
(* the call fails; the settle function, on runPrompt's goroutine or on the *)
(* read loop; the timer CancelTurn arms; Close or Delete.  Meanwhile the   *)
(* read loop folds session/update lines into the current turn.             *)
(*                                                                         *)
(* A send on a closed channel ends the process (panicked).  The other      *)
(* calls a closing driver makes (session/cancel, session/close) take an    *)
(* unknown time and change nothing here.                                   *)
(***************************************************************************)
EXTENDS Peer

CONSTANTS
    Closers,   \* which of Session.Close/Delete and Runtime.Close may happen
    TimedTurns, \* the turns the host may cancel with CancelTurn
    MaxChunks, \* bound: how many updates the agent writes per turn
    MaxThread, \* the resolved MaxThreadEntries
    DropIntermediate \* activeTurn.dropIntermediate: QueuePolicy.Delivery is "drop"

ASSUME ClosersAssumption == Closers \subseteq {"session", "runtime"}
ASSUME TimedAssumption == TimedTurns \subseteq Calls
ASSUME ChunksAssumption ==
    Notes = [kind : {"chunk"}, of : Calls, n : 1..MaxChunks]
ASSUME ThreadAssumption == MaxThread \in Nat \ {0}
ASSUME DropAssumption == DropIntermediate \in BOOLEAN

VARIABLES
    tpc,      \* where each turn is in StartTurn / runPrompt / settle
    fin,      \* how far the once-only body of finishTurn has come
    outcome,  \* how the turn ended
    current,  \* driver.currentTurn
    status,   \* driver.status
    sclosed,  \* Session.closed
    output,   \* the updates folded into activeTurn.outputText
    final,    \* the OutputText that settle read
    timer,    \* activeTurn.cancelTimer: nil, armed, or fired
    thread,   \* driver.thread, as <<kind, turn>>
    closer,   \* where each closer is in Close
    captive,  \* the turn a closer's beginClose returned
    emitting, \* the turn handleSessionUpdate captured, before it emits
    folded,   \* the update the loop holds is folded
    written,  \* history: the updates the agent wrote
    early,    \* history: those it wrote before its answer to their turn
    panicked  \* a goroutine sent on a closed channel

turnVars   == <<tpc, fin, outcome, final>>
driverVars == <<current, status, output, timer, thread>>
closeVars  == <<sclosed, closer, captive>>
updVars    == <<emitting, folded, written, early>>
ownVars    == <<turnVars, driverVars, closeVars, updVars, panicked>>
varsT == <<vars, ownVars>>

InitT ==
    /\ Init
    /\ tpc = [t \in Calls |-> "idle"]
    /\ fin = [t \in Calls |-> "no"]
    /\ outcome = [t \in Calls |-> "none"]
    /\ current = None
    /\ status = "ready"
    /\ sclosed = FALSE
    /\ output = [t \in Calls |-> {}]
    /\ final = [t \in Calls |-> {}]
    /\ timer = [t \in Calls |-> "nil"]
    /\ thread = <<>>
    /\ closer = [k \in Closers |-> "idle"]
    /\ captive = [k \in Closers |-> None]
    /\ emitting = None
    /\ folded = FALSE
    /\ written = {}
    /\ early = {}
    /\ panicked = FALSE

\* append to driver.thread, then pruneThreadLocked
\* Mutation: the cap is not applied.
AddUnpruned(kind, t) == Append(thread, <<kind, t>>)
AddEntry(kind, t) ==
    LET full == Append(thread, <<kind, t>>)
    IN  IF Len(full) > MaxThread THEN Tail(full) ELSE full

-----------------------------------------------------------------------------
(* finishTurn.  Its body runs once; every later caller does nothing but    *)
(* wait for the first.                                                     *)

\* finishOnce.  Mutation: every caller runs the body.
Anyone(t) == TRUE
First(t) == fin[t] = "no"

\* cancelTimer.Stop.  Mutation: it is left armed.
KeptTimer(t) == timer
StoppedTimer(t) == [timer EXCEPT ![t] = "nil"]

\* The status once the turn is no longer current.
\* Mutations: it is left alone; a closed driver becomes ready.
KeptStatus(t) == status
Reopened(t) == IF current = t THEN "ready" ELSE status
StatusAfter(t) == IF current = t /\ status # "closed" THEN "ready" ELSE status

\* The section under mu.
FinishTurn(t, o) ==
    IF ~First(t)
    THEN UNCHANGED <<fin, outcome, timer, current, status, thread>>
    ELSE /\ fin' = [fin EXCEPT ![t] = "cleared"]
         /\ outcome' = [outcome EXCEPT ![t] = o]
         /\ timer' = StoppedTimer(t)
         /\ current' = IF current = t THEN None ELSE current
         /\ status' = StatusAfter(t)
         /\ thread' = IF o = "completed" THEN AddEntry("assistant", t) ELSE thread

\* completion <- result, the terminal event, close(events), close(completion):
\* the first two never block.
CompleteTurn(t) ==
    /\ fin[t] = "cleared"
    /\ fin' = [fin EXCEPT ![t] = "closed"]
    /\ UNCHANGED <<vars, tpc, outcome, final, driverVars, closeVars, updVars, panicked>>

\* emitTurnEvent: a send that never blocks, and panics on a closed channel.
EmitTurnEvent(t) == panicked' = (fin[t] = "closed")

-----------------------------------------------------------------------------
(* Session.StartTurn and acpSessionDriver.StartTurn *)

\* Session.mu is read-locked until StartTurn returns.
InStartTurn(t) == tpc[t] = "started"

\* Single flight.  Mutation: a new turn replaces the current one.
NeverBusy == FALSE
Busy == current # None

StartTurn(t) ==
    /\ tpc[t] = "idle"
    /\ ~sclosed
    /\ status # "closed"
    /\ ~Busy
    /\ current' = t
    /\ status' = "running"
    /\ thread' = AddEntry("user", t)
    /\ tpc' = [tpc EXCEPT ![t] = "started"]
    /\ UNCHANGED <<vars, fin, outcome, final, output, timer, closeVars, updVars, panicked>>

\* closedTurnHandle: the session is closed, or the turn is coalesced.
RefuseTurn(t) ==
    /\ tpc[t] = "idle"
    /\ sclosed \/ status = "closed" \/ Busy
    /\ tpc' = [tpc EXCEPT ![t] = "refused"]
    /\ UNCHANGED <<vars, fin, outcome, final, driverVars, closeVars, updVars, panicked>>

\* emit "started" after mu is released, then go runPrompt
EmitStarted(t) ==
    /\ tpc[t] = "started"
    /\ EmitTurnEvent(t)
    /\ tpc' = [tpc EXCEPT ![t] = "prompt"]
    /\ UNCHANGED <<vars, fin, outcome, final, driverVars, closeVars, updVars>>

-----------------------------------------------------------------------------
(* runPrompt *)

\* The Peer's part of the call.
PromptCall(t) ==
    /\ tpc[t] = "prompt"
    /\ \/ Register(t) \/ WriteRequest(t) \/ WriteFails(t)
       \/ TakeCtx(t) \/ NotifyCancel(t)
       \/ TakeClosed(t) \/ TakeResponse(t) \/ TakeChanClosed(t)
       \/ AfterIdle(t)
    /\ UNCHANGED ownVars

\* err != nil.  Mutation: only the agent's own errors end the turn.
AgentError(t) == result[t] = "error"
AnyError(t) == result[t] # "ok"

PromptFails(t) ==
    /\ tpc[t] = "prompt"
    /\ pc[t] = "returned"
    /\ AnyError(t)
    /\ FinishTurn(t, "failed")
    /\ tpc' = [tpc EXCEPT ![t] = "ended"]
    /\ UNCHANGED <<vars, final, output, closeVars, updVars, panicked>>

\* The settle function runs on runPrompt's goroutine or on the read loop.
Settling(t) ==
    \/ pc[t] = "runfn"
    \/ loop = "fns" /\ running # <<>> /\ Head(running) = t

SettleRead(t) ==
    /\ Settling(t)
    /\ tpc[t] = "prompt"
    /\ final' = [final EXCEPT ![t] = output[t]]
    /\ tpc' = [tpc EXCEPT ![t] = "snapped"]
    /\ UNCHANGED <<vars, fin, outcome, driverVars, closeVars, updVars, panicked>>

SettleFinish(t) ==
    /\ Settling(t)
    /\ tpc[t] = "snapped"
    /\ FinishTurn(t, "completed")
    /\ tpc' = [tpc EXCEPT ![t] = "ended"]
    /\ UNCHANGED <<vars, final, output, closeVars, updVars, panicked>>

Settled(t) == tpc[t] = "ended" /\ fin[t] = "closed"

SettleReturnsOnCaller(t) == Settled(t) /\ RunOnCaller(t) /\ UNCHANGED ownVars
SettleReturnsOnLoop ==
    running # <<>> /\ Settled(Head(running)) /\ RunIdleFn /\ UNCHANGED ownVars

-----------------------------------------------------------------------------
(* CancelTurn and its timer *)

CancelTurn(t) ==
    /\ t \in TimedTurns
    /\ ~sclosed
    /\ current = t
    /\ timer[t] = "nil"
    /\ timer' = [timer EXCEPT ![t] = "armed"]
    /\ UNCHANGED <<vars, turnVars, current, status, output, thread,
                   closeVars, updVars, panicked>>

TimerFires(t) ==
    /\ timer[t] = "armed"
    /\ timer' = [timer EXCEPT ![t] = "fired"]
    /\ UNCHANGED <<vars, turnVars, current, status, output, thread,
                   closeVars, updVars, panicked>>

\* Mutation: the timer only resets itself.
TimerForgets(t) ==
    /\ timer[t] = "fired"
    /\ timer' = StoppedTimer(t)
    /\ UNCHANGED <<vars, turnVars, current, status, output, thread,
                   closeVars, updVars, panicked>>

TimerFinishes(t) ==
    /\ timer[t] = "fired"
    /\ FinishTurn(t, "cancelled")
    /\ UNCHANGED <<vars, tpc, final, output, closeVars, updVars, panicked>>

-----------------------------------------------------------------------------
(* Close and Delete: Session's first, under the write lock; Runtime.Close  *)
(* calls the driver directly.                                              *)

SessionClosed(k) ==
    /\ k = "session"
    /\ closer[k] = "idle"
    /\ \A t \in Calls : ~InStartTurn(t)
    /\ sclosed' = TRUE
    /\ closer' = [closer EXCEPT ![k] = "begin"]
    /\ UNCHANGED <<vars, turnVars, driverVars, captive, updVars, panicked>>

\* What beginClose returns.  Mutation: never the turn.
NoTurn == None
Captured == IF status = "closed" THEN None ELSE current

BeginClose(k) ==
    /\ closer[k] = IF k = "session" THEN "begin" ELSE "idle"
    /\ closer' = [closer EXCEPT ![k] = "begun"]
    /\ captive' = [captive EXCEPT ![k] = Captured]
    /\ status' = "closed"
    /\ UNCHANGED <<vars, turnVars, current, output, timer, thread,
                   sclosed, updVars, panicked>>

\* After the write of session/cancel, which waits while the agent does not read.
FinishInFlightTurn(k) ==
    /\ closer[k] = "begun"
    /\ closer' = [closer EXCEPT ![k] = "finishing"]
    /\ IF captive[k] = None
         THEN UNCHANGED <<fin, outcome, timer, current, status, thread>>
         ELSE FinishTurn(captive[k], "closed")
    /\ UNCHANGED <<vars, tpc, final, output, sclosed, captive, updVars, panicked>>

\* After session/close or session/delete: dispose closes the peer.
Dispose(k) ==
    /\ closer[k] = "finishing"
    /\ captive[k] # None => fin[captive[k]] = "closed"
    /\ closer' = [closer EXCEPT ![k] = "disposed"]
    /\ IF closeStep = "open" /\ loop # "eof" THEN HostClose ELSE UNCHANGED vars
    /\ UNCHANGED <<turnVars, driverVars, sclosed, captive, updVars, panicked>>

-----------------------------------------------------------------------------
(* handleSessionUpdate, on the read loop *)

\* outputText.WriteString.  Mutation: this kind of update is not folded.
Skipped(t) == output[t]
Appended(t) == output[t] \cup {line}

\* The section under mu: capture the current turn and fold the text.
FoldUpdate ==
    /\ loop = "dispatch"
    /\ line.kind = "chunk"
    /\ ~folded
    /\ folded' = TRUE
    /\ emitting' = current
    /\ output' = IF current = None THEN output
                 ELSE [output EXCEPT ![current] = Appended(current)]
    /\ UNCHANGED <<vars, turnVars, current, status, timer, thread, closeVars,
                   written, early, panicked>>

\* After mu is released: emit to the captured turn, or to Session.Updates.
EmitUpdate ==
    /\ folded
    /\ HandleNote
    /\ IF emitting = None \/ DropIntermediate THEN UNCHANGED panicked ELSE EmitTurnEvent(emitting)
    /\ folded' = FALSE
    /\ emitting' = None
    /\ UNCHANGED <<turnVars, driverVars, closeVars, written, early>>

-----------------------------------------------------------------------------
(* The agent: it streams updates of a turn whose prompt it has received *)

AgentChunk(m) ==
    /\ <<id[m.of], m.of>> \in sent
    /\ m \notin written
    /\ \A k \in 1..(m.n - 1) : [m EXCEPT !.n = k] \in written
    /\ AgentNote(m)
    /\ written' = written \cup {m}
    /\ early' = IF \E ok \in BOOLEAN : <<m.of, ok>> \in replied
                THEN early ELSE early \cup {m}
    /\ UNCHANGED <<turnVars, driverVars, closeVars, emitting, folded, panicked>>

\* Bound: one answer to a prompt (Peer itself is checked with duplicates).
AgentAnswer ==
    /\ \E r \in sent, ok \in BOOLEAN :
          /\ \A b \in BOOLEAN : <<r[2], b>> \notin replied
          /\ AgentReply(r, ok)
    /\ UNCHANGED ownVars

-----------------------------------------------------------------------------

TurnStep(t) ==
    \/ EmitStarted(t) \/ PromptCall(t) \/ PromptFails(t)
    \/ (pc[t] = "runfn" /\ (SettleRead(t) \/ SettleFinish(t)))
    \/ SettleReturnsOnCaller(t)

TimerStep(t) == TimerFires(t) \/ TimerFinishes(t)

LoopStepT ==
    \/ /\ LoopTop \/ ReadLine \/ ReadEnds \/ MarkBusy
          \/ ResolvePending \/ Deliver \/ LoopClose \/ LoopExit
       /\ UNCHANGED ownVars
    \/ \E t \in Calls : loop = "fns" /\ (SettleRead(t) \/ SettleFinish(t))
    \/ SettleReturnsOnLoop
    \/ FoldUpdate
    \/ EmitUpdate

CloseStepT == CloseStep /\ UNCHANGED ownVars

CloserStep(k) == BeginClose(k) \/ FinishInFlightTurn(k)

HostStep ==
    \/ \E t \in Calls :
          \/ StartTurn(t) \/ RefuseTurn(t) \/ CancelTurn(t)
          \/ CancelCtx(t) /\ UNCHANGED ownVars
    \/ \E k \in Closers : SessionClosed(k)

NextT ==
    /\ ~panicked
    /\ \/ \E t \in Calls : TurnStep(t) \/ CompleteTurn(t) \/ TimerStep(t)
       \/ LoopStepT
       \/ CloseStepT
       \/ \E k \in Closers : CloserStep(k) \/ Dispose(k)
       \/ HostStep
       \/ \E m \in Notes : AgentChunk(m)
       \/ AgentAnswer
       \/ AgentExit /\ UNCHANGED ownVars

SpecT == InitT /\ [][NextT]_varsT

\* The closer is writing session/cancel to a live agent, which need not read it.
CancelBlocks(k) == agentUp /\ closer[k] = "begun" /\ captive[k] # None

\* Goroutines that can run, run, and a timer that is armed fires.  A closer
\* that has begun goes on as far as finishing the turn it captured, its write
\* permitting; nothing is assumed of session/close, of the host, or of the agent.
FairSpecT ==
    /\ SpecT
    /\ \A t \in Calls :
          /\ WF_varsT(~panicked /\ ~WriteBlocks(t) /\ TurnStep(t))
          /\ WF_varsT(~panicked /\ CompleteTurn(t))
          /\ WF_varsT(~panicked /\ TimerStep(t))
    /\ WF_varsT(~panicked /\ ~ReadBlocks /\ LoopStepT)
    /\ WF_varsT(~panicked /\ CloseStepT)
    /\ \A k \in Closers :
          WF_varsT(~panicked /\ closer[k] # "idle" /\ ~CancelBlocks(k) /\ CloserStep(k))

-----------------------------------------------------------------------------
(* Properties *)

Outcomes == {"none", "completed", "failed", "cancelled", "closed"}

TypeOKT ==
    /\ TypeOK
    /\ tpc \in [Calls -> {"idle", "refused", "started", "prompt", "snapped", "ended"}]
    /\ fin \in [Calls -> {"no", "cleared", "closed"}]
    /\ outcome \in [Calls -> Outcomes]
    /\ current \in Calls \cup {None}
    /\ status \in {"ready", "running", "closed"}
    /\ sclosed \in BOOLEAN
    /\ output \in [Calls -> SUBSET Notes]
    /\ final \in [Calls -> SUBSET Notes]
    /\ timer \in [Calls -> {"nil", "armed", "fired"}]
    /\ thread \in Seq({"user", "assistant"} \X Calls) /\ Len(thread) <= MaxThread
    /\ closer \in [Closers -> {"idle", "begin", "begun", "finishing", "disposed"}]
    /\ captive \in [Closers -> Calls \cup {None}]
    /\ emitting \in Calls \cup {None}
    /\ folded \in BOOLEAN
    /\ written \subseteq Notes
    /\ early \subseteq Notes
    /\ panicked \in BOOLEAN

Accepted(t) == tpc[t] \notin {"idle", "refused"}

\* Single flight: the current turn is exactly the accepted turn that nobody has
\* finished.  So no two turns run at once, and none is forgotten unfinished,
\* whichever of the finishers wins (StartTurn, finishTurn).
CurrentIsUnfinished ==
    \A t \in Calls : current = t <=> Accepted(t) /\ fin[t] = "no"

\* The driver reports "running" exactly while a turn is current, until closed.
StatusFollowsTurn ==
    status # "closed" => (status = "running" <=> current # None)

\* A cancel timer belongs to the current turn: it can never end a later one.
TimerOfCurrentTurn ==
    \A t \in Calls : timer[t] # "nil" => current = t

\* A completed turn's OutputText holds every update the agent wrote before its
\* answer, whoever ran settle (runPrompt, Peer.AfterIdle).
OutputComplete ==
    \A t \in Calls : outcome[t] = "completed" => {m \in early : m.of = t} \subseteq final[t]

\* In the thread an assistant message directly follows its own user message,
\* unless the cap pruned that one: turns never interleave there.
ThreadInOrder ==
    \A i \in 2..Len(thread) :
        thread[i][1] = "assistant" => thread[i - 1] = <<"user", thread[i][2]>>

\* What a turn is told and what the thread keeps agree with what the agent sent.
OutputInPlace == OutputComplete /\ ThreadInOrder

\* A closed driver is not reopened by the turn that was in flight, and starts
\* no other turn.
ClosedForever ==
    [][status = "closed" => status' = "closed" /\ current' \in {current, None}]_varsT

\* SessionTurns implements TurnContract.
turnState(t) == CASE tpc[t] \in {"idle", "refused"} -> tpc[t]
                  [] Accepted(t) /\ fin[t] = "no" -> "running"
                  [] OTHER -> "settled"

TurnPromise == INSTANCE TurnContract WITH
    Turns    <- Calls,
    state    <- [t \in Calls |-> turnState(t)],
    outcome  <- outcome,
    closed   <- sclosed \/ status = "closed",
    answered <- {t \in Calls : <<t, TRUE>> \in replied}

\* Every step of the driver, its peer and their many finishers is a step of the
\* turn contract or invisible in it.
ImplementsTurns == TurnPromise!Spec

\* A cancelled turn ends even when the agent ignores session/cancel.
CancelledTurnSettles ==
    \A t \in Calls : timer[t] = "armed" ~> (fin[t] = "closed" \/ panicked)

\* Closing ends the turn in flight even when the agent ignores everything, unless
\* session/cancel stays unread in the pipe of a live agent: the turn is finished
\* after that write (finishInFlightTurn).
CloseSettlesTurn ==
    \A t \in Calls :
        \/ \E k \in Closers : <>[]CancelBlocks(k)
        \/ (status = "closed" /\ current = t) ~> (fin[t] = "closed" \/ panicked)

\* Once the connection is closed every prompting turn ends, except one whose
\* settle was queued as the read loop ended, or whose prompt stays unread.
DeadConnectionEndsTurn ==
    \A t \in Calls :
        \/ <>[]WriteBlocks(t)
        \/ (closeStep # "open" /\ tpc[t] = "prompt")
               ~> (fin[t] = "closed" \/ panicked \/ (pc[t] = "queued" /\ loop = "dead"))

\* However the session or its connection ends, the turn in flight ends with it,
\* as long as no write is left waiting for an agent that does not read.
EndingEndsTurn == CloseSettlesTurn /\ DeadConnectionEndsTurn

\* session_driver.go:512-514 of emitTurnEvent: "non-blockingly delivers an
\* intermediate event. A full buffer drops the event so session/update handling
\* never stalls the peer read loop": the send has no outcome but delivery or
\* drop; in particular, the turn the loop is
\* about to emit to has not had its channel closed under it.
EmitDeliversOrDrops ==
    folded /\ emitting # None /\ ~DropIntermediate => fin[emitting] # "closed"
=============================================================================
