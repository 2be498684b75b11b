-------------------------------- MODULE Peer --------------------------------
(***************************************************************************)
(* The JSON-RPC peer of rpc.go: one end of a line-oriented stdio pipe to   *)
(* an agent process.  Three kinds of goroutine share it: callers (callRaw, *)
(* then AfterIdle for a prompt), the read loop (Start), and whoever closes *)
(* it (closeOnce: the read loop at end of input, or the host's teardown).  *)
(* The agent is the environment: it answers the requests it has received,  *)
(* more than once or never, in any order, writes other messages, and may   *)
(* exit at any moment.                                                     *)
(*                                                                         *)
(* Parsing, rendering and the raw-message observer are abstracted: a line  *)
(* is a message.  What the peer does with messages other than responses is *)
(* left to the modules that extend this one (PeerInbound, SessionTurns).   *)
(***************************************************************************)
EXTENDS Naturals, Sequences, FiniteSets

CONSTANTS
    Calls,    \* the calls of callRaw; each happens at most once
    CtxCalls, \* those whose context the host may cancel
    Notes,    \* the agent's messages that are not responses
    MaxLines, \* bound: how many lines the agent writes
    None      \* no message, no channel

Response == [kind : {"response"}, id : Nat, call : Calls, ok : BOOLEAN]
Message  == Response \cup Notes

ASSUME CtxAssumption == CtxCalls \subseteq Calls
ASSUME NotesAssumption == \A n \in Notes : n.kind # "response"
ASSUME NoneAssumption == None \notin Message \cup Calls
ASSUME MaxLinesAssumption == MaxLines \in Nat

VARIABLES
    nextID,    \* Peer.nextID
    pc,        \* where each call is in callRaw / AfterIdle
    id,        \* idValue of each call, 0 before it has one
    pending,   \* Peer.pending: the calls whose channel the map holds, by id
    got,       \* the message buffered in (or received from) the call's channel
    chClosed,  \* the calls whose channel is closed
    ctxDone,   \* the calls whose context is cancelled
    result,    \* what callRaw returned
    loop,      \* where the read loop is in Start
    inbox,     \* complete lines between the agent's write and the loop
    nbuf,      \* how many of them are already in the bufio.Reader
    line,      \* the line the loop holds; None when the read ended without one
    target,    \* the call whose channel resolvePending took from the map
    readIdle,  \* Peer.readIdle
    idleFns,   \* Peer.idleFns, one entry per call that queued its function
    running,   \* the functions markReadIdle(true) took and is running
    idleRan,   \* the calls whose AfterIdle function has run
    closeStep, \* how far the once-only body of Close has come
    sent,      \* requests the agent has received: <<id, call>>
    notices,   \* $/cancel_request ids the agent has received
    replied,   \* history: <<call, ok>> for every answer the agent wrote
    agentUp,   \* the agent process is alive
    lines      \* how many lines it has written

callVars  == <<nextID, pc, id, ctxDone, result>>
chanVars  == <<pending, got, chClosed>>
loopVars  == <<loop, nbuf, line, target>>
idleVars  == <<readIdle, idleFns, running, idleRan>>
wireVars  == <<inbox, sent, notices, replied, agentUp, lines>>
vars == <<callVars, chanVars, loopVars, idleVars, wireVars, closeStep>>

-----------------------------------------------------------------------------

\* p.nextID.Add(1)
\* Mutation: the counter does not advance.
StuckID == nextID
FreshID == nextID + 1

\* The entries under an id, and the map without them (delete).
\* Mutations: the lookup fails; the delete is missing.
FindsNone(i) == {}
Entries(i) == {d \in pending : id[d] = i}
Keeps(i) == pending
Without(i) == {d \in pending : id[d] # i}

\* ctx.Done: was the entry still there?  Mutation: the answer is not consulted.
Always(c) == TRUE
StillPending(c) == Entries(id[c]) # {}

\* case <-p.closed.  Mutation: rely on Close's sweep instead.
ChannelSwept(c) == c \in chClosed
PeerClosed(c) == closeStep # "open"

\* response.Error.  Mutation: it is ignored.
AlwaysOk(m) == "ok"
Outcome(m) == IF m.ok THEN "ok" ELSE "error"

\* fns = p.idleFns.  Mutation: they are dropped.
NoFns == <<>>
TakenFns == idleFns

\* How many complete lines the reader holds once one is taken.  An empty reader
\* fills with some of what the pipe holds.  Mutation: the line still counts.
StaleCount == IF nbuf > 0 THEN {nbuf} ELSE 1..Len(inbox)
LeftBuffered == IF nbuf > 0 THEN {nbuf - 1} ELSE 0..(Len(inbox) - 1)

\* A write fails once the agent is gone, and may once the peer is torn down.
WriteMayFail == ~agentUp \/ closeStep # "open"

\* After a line: the top of the loop, or its end if the read that gave the line
\* had ended (an unterminated last line is handled all the same).
AfterLine == {"top"} \cup (IF nbuf = 0 THEN {"eof"} ELSE {})

Init ==
    /\ nextID = 0
    /\ pc = [c \in Calls |-> "idle"]
    /\ id = [c \in Calls |-> 0]
    /\ pending = {}
    /\ got = [c \in Calls |-> None]
    /\ chClosed = {}
    /\ ctxDone = {}
    /\ result = [c \in Calls |-> "none"]
    /\ loop = "top"
    /\ inbox = <<>>
    /\ nbuf = 0
    /\ line = None
    /\ target = None
    /\ readIdle = FALSE
    /\ idleFns = <<>>
    /\ running = <<>>
    /\ idleRan = {}
    /\ closeStep = "open"
    /\ sent = {}
    /\ notices = {}
    /\ replied = {}
    /\ agentUp = TRUE
    /\ lines = 0

-----------------------------------------------------------------------------
(* callRaw *)

Return(c, r) ==
    /\ pc' = [pc EXCEPT ![c] = "returned"]
    /\ result' = [result EXCEPT ![c] = r]

\* idValue := p.nextID.Add(1), then the channel is entered under that id.
\* Close may have swept the map already.
Register(c) ==
    /\ pc[c] = "idle"
    /\ nextID' = FreshID
    /\ id' = [id EXCEPT ![c] = FreshID]
    /\ pending' = {d \in pending : id[d] # FreshID} \cup {c}
    /\ pc' = [pc EXCEPT ![c] = "write"]
    /\ UNCHANGED <<ctxDone, result, got, chClosed, loopVars, idleVars,
                   wireVars, closeStep>>

WriteRequest(c) ==
    /\ pc[c] = "write"
    /\ agentUp
    /\ sent' = sent \cup {<<id[c], c>>}
    /\ pc' = [pc EXCEPT ![c] = "wait"]
    /\ UNCHANGED <<nextID, id, ctxDone, result, chanVars, loopVars, idleVars,
                   inbox, notices, replied, agentUp, lines, closeStep>>

WriteFails(c) ==
    /\ pc[c] = "write"
    /\ WriteMayFail
    /\ pending' = Without(id[c])
    /\ Return(c, "ioerr")
    /\ UNCHANGED <<nextID, id, ctxDone, got, chClosed,
                   loopVars, idleVars, wireVars, closeStep>>

\* The host cancels the context it passed; it may at any time.
CancelCtx(c) ==
    /\ c \in CtxCalls
    /\ pc[c] \in {"write", "wait"}
    /\ c \notin ctxDone
    /\ ctxDone' = ctxDone \cup {c}
    /\ UNCHANGED <<nextID, pc, id, result, chanVars, loopVars, idleVars,
                   wireVars, closeStep>>

\* The four ways out of the select.  Go picks any ready one.
TakeCtx(c) ==
    /\ pc[c] = "wait"
    /\ c \in ctxDone
    /\ pending' = Without(id[c])
    /\ IF StillPending(c)
         THEN pc' = [pc EXCEPT ![c] = "notify"] /\ UNCHANGED result
         ELSE Return(c, "ctx")
    /\ UNCHANGED <<nextID, id, ctxDone, got, chClosed,
                   loopVars, idleVars, wireVars, closeStep>>

NotifyCancel(c) ==
    /\ pc[c] = "notify"
    /\ \/ agentUp /\ notices' = notices \cup {id[c]}
       \/ WriteMayFail /\ UNCHANGED notices
    /\ Return(c, "ctx")
    /\ UNCHANGED <<nextID, id, ctxDone, chanVars, loopVars, idleVars,
                   inbox, sent, replied, agentUp, lines, closeStep>>

TakeClosed(c) ==
    /\ pc[c] = "wait"
    /\ PeerClosed(c)
    /\ Return(c, "pipe")
    /\ UNCHANGED <<nextID, id, ctxDone, chanVars, loopVars, idleVars,
                   wireVars, closeStep>>

TakeResponse(c) ==
    /\ pc[c] = "wait"
    /\ got[c] # None
    /\ Return(c, Outcome(got[c]))
    /\ UNCHANGED <<nextID, id, ctxDone, chanVars, loopVars, idleVars,
                   wireVars, closeStep>>

TakeChanClosed(c) ==
    /\ pc[c] = "wait"
    /\ c \in chClosed
    /\ got[c] = None
    /\ Return(c, "pipe")
    /\ UNCHANGED <<nextID, id, ctxDone, chanVars, loopVars, idleVars,
                   wireVars, closeStep>>

-----------------------------------------------------------------------------
(* AfterIdle, by a caller whose call returned a result *)

AfterIdle(c) ==
    /\ pc[c] = "returned"
    /\ result[c] = "ok"
    /\ IF readIdle
         THEN pc' = [pc EXCEPT ![c] = "runfn"] /\ UNCHANGED idleFns
         ELSE pc' = [pc EXCEPT ![c] = "queued"] /\ idleFns' = Append(idleFns, c)
    /\ UNCHANGED <<nextID, id, ctxDone, result, chanVars, loopVars,
                   readIdle, running, idleRan, wireVars, closeStep>>

RunOnCaller(c) ==
    /\ pc[c] = "runfn"
    /\ pc' = [pc EXCEPT ![c] = "done"]
    /\ idleRan' = idleRan \cup {c}
    /\ UNCHANGED <<nextID, id, ctxDone, result, chanVars, loopVars,
                   readIdle, idleFns, running, wireVars, closeStep>>

-----------------------------------------------------------------------------
(* Start, the read loop *)

\* if !hasBufferedLine() { markReadIdle(true) }
LoopTop ==
    /\ loop = "top"
    /\ IF nbuf > 0
         THEN loop' = "read" /\ UNCHANGED idleVars
         ELSE /\ readIdle' = TRUE
              /\ running' = TakenFns
              /\ idleFns' = <<>>
              /\ loop' = IF TakenFns = <<>> THEN "read" ELSE "fns"
              /\ UNCHANGED idleRan
    /\ UNCHANGED <<callVars, chanVars, nbuf, line, target, wireVars, closeStep>>

RunIdleFn ==
    /\ loop = "fns"
    /\ running # <<>>
    /\ idleRan' = idleRan \cup {Head(running)}
    /\ running' = Tail(running)
    /\ loop' = IF Tail(running) = <<>> THEN "read" ELSE "fns"
    /\ UNCHANGED <<callVars, chanVars, nbuf, line, target,
                   readIdle, idleFns, wireVars, closeStep>>

\* readMessageLine: readIdle is still true when the line is in hand.
ReadLine ==
    /\ loop = "read"
    /\ inbox # <<>>
    /\ line' = Head(inbox)
    /\ inbox' = Tail(inbox)
    /\ nbuf' \in LeftBuffered
    /\ loop' = "line"
    /\ UNCHANGED <<callVars, chanVars, target, idleVars,
                   sent, notices, replied, agentUp, lines, closeStep>>

\* It returns no line: end of input, a read error, or a line beyond
\* maxRPCMessageSize, whether or not the agent is alive.
ReadEnds ==
    /\ loop = "read"
    /\ nbuf = 0
    /\ line' = None
    /\ loop' = "line"
    /\ UNCHANGED <<callVars, chanVars, nbuf, target, idleVars, wireVars, closeStep>>

\* markReadIdle(false)
MarkBusy ==
    /\ loop = "line"
    /\ readIdle' = FALSE
    /\ loop' = IF line = None THEN "eof" ELSE "dispatch"
    /\ UNCHANGED <<callVars, chanVars, nbuf, line, target,
                   idleFns, running, idleRan, wireVars, closeStep>>

\* resolvePending: look the channel up and delete the entry under pendingMu,
\* then send and close outside it.
ResolvePending ==
    /\ loop = "dispatch"
    /\ line.kind = "response"
    /\ \/ \E d \in Entries(line.id) : target' = d /\ loop' = "deliver"
       \/ /\ Entries(line.id) = {}
          /\ loop' \in AfterLine
          /\ UNCHANGED target
    /\ pending' = Without(line.id)
    /\ UNCHANGED <<callVars, got, chClosed, nbuf, line, idleVars, wireVars, closeStep>>

Deliver ==
    /\ loop = "deliver"
    /\ got' = [got EXCEPT ![target] = line]
    /\ chClosed' = chClosed \cup {target}
    /\ target' = None
    /\ loop' \in AfterLine
    /\ UNCHANGED <<callVars, pending, nbuf, line, idleVars, wireVars, closeStep>>

\* Requests and notifications.
HandleNote ==
    /\ loop = "dispatch"
    /\ line.kind # "response"
    /\ loop' \in AfterLine
    /\ UNCHANGED <<callVars, chanVars, nbuf, line, target, idleVars, wireVars, closeStep>>

\* Start returns after closeWithReason.
LoopExit ==
    /\ loop = "eof"
    /\ closeStep = "done"
    /\ loop' = "dead"
    /\ UNCHANGED <<callVars, chanVars, nbuf, line, target, idleVars, wireVars, closeStep>>

-----------------------------------------------------------------------------
(* Close: its body runs once, in the goroutine that came first *)

CloseChannel ==
    /\ closeStep = "open"
    /\ closeStep' = "closed"
    /\ UNCHANGED <<callVars, chanVars, loopVars, idleVars, wireVars>>

LoopClose == loop = "eof" /\ CloseChannel
HostClose == loop # "eof" /\ CloseChannel

SweepPending ==
    /\ closeStep = "closed"
    /\ chClosed' = chClosed \cup pending
    /\ pending' = {}
    /\ closeStep' = "swept"
    /\ UNCHANGED <<callVars, got, loopVars, idleVars, wireVars>>

\* The inbound requests it cancels are PeerInbound's.
SweepInbound ==
    /\ closeStep = "swept"
    /\ closeStep' = "done"
    /\ UNCHANGED <<callVars, chanVars, loopVars, idleVars, wireVars>>

-----------------------------------------------------------------------------
(* The agent process *)

Write(m) ==
    /\ agentUp
    /\ lines < MaxLines
    /\ lines' = lines + 1
    /\ inbox' = Append(inbox, m)

AgentReply(r, ok) ==
    /\ Write([kind |-> "response", id |-> r[1], call |-> r[2], ok |-> ok])
    /\ replied' = replied \cup {<<r[2], ok>>}
    /\ UNCHANGED <<callVars, chanVars, loopVars, idleVars,
                   sent, notices, agentUp, closeStep>>

AgentNote(n) ==
    /\ Write(n)
    /\ UNCHANGED <<callVars, chanVars, loopVars, idleVars,
                   sent, notices, replied, agentUp, closeStep>>

AgentExit ==
    /\ agentUp
    /\ agentUp' = FALSE
    /\ UNCHANGED <<callVars, chanVars, loopVars, idleVars,
                   inbox, sent, notices, replied, lines, closeStep>>

-----------------------------------------------------------------------------

CallStep(c) ==
    \/ WriteRequest(c) \/ WriteFails(c)
    \/ TakeCtx(c) \/ NotifyCancel(c)
    \/ TakeClosed(c) \/ TakeResponse(c) \/ TakeChanClosed(c)
    \/ RunOnCaller(c)

LoopStep ==
    \/ LoopTop \/ RunIdleFn \/ ReadLine \/ ReadEnds \/ MarkBusy
    \/ ResolvePending \/ Deliver \/ HandleNote \/ LoopClose \/ LoopExit

CloseStep == SweepPending \/ SweepInbound

AgentStep ==
    \/ \E r \in sent, ok \in BOOLEAN : AgentReply(r, ok)
    \/ \E n \in Notes : AgentNote(n)
    \/ AgentExit

Next ==
    \/ \E c \in Calls : Register(c) \/ CancelCtx(c) \/ AfterIdle(c) \/ CallStep(c)
    \/ LoopStep
    \/ HostClose
    \/ CloseStep
    \/ AgentStep

Spec == Init /\ [][Next]_vars

\* A live agent need not read: the write waits in the pipe, or for writeMu
\* behind one that does.  It need not write either: the read waits.
WriteBlocks(c) == agentUp /\ pc[c] \in {"write", "notify"}
ReadBlocks == agentUp /\ loop = "read" /\ inbox = <<>>

\* A goroutine that can run, runs.  Nothing is assumed of the agent, of the
\* host's cancellations, or of the host ever closing the peer.
Fairness ==
    /\ \A c \in Calls : WF_vars(~WriteBlocks(c) /\ CallStep(c))
    /\ WF_vars(~ReadBlocks /\ LoopStep)
    /\ WF_vars(CloseStep)

FairSpec == Spec /\ Fairness

-----------------------------------------------------------------------------
(* Properties *)

Results == {"none", "ok", "error", "ctx", "pipe", "ioerr"}

\* The type invariant of the peer.
TypeOK ==
    /\ nextID \in Nat
    /\ pc \in [Calls -> {"idle", "write", "wait", "notify",
                         "returned", "runfn", "queued", "done"}]
    /\ id \in [Calls -> Nat]
    /\ pending \subseteq Calls
    /\ got \in [Calls -> Response \cup {None}]
    /\ chClosed \subseteq Calls
    /\ ctxDone \subseteq Calls
    /\ result \in [Calls -> Results]
    /\ loop \in {"top", "fns", "read", "line", "dispatch", "deliver", "eof", "dead"}
    /\ inbox \in Seq(Message)
    /\ nbuf \in Nat /\ nbuf <= Len(inbox)
    /\ line \in Message \cup {None}
    /\ loop \in {"dispatch", "deliver"} => line # None
    /\ target \in Calls \cup {None}
    /\ loop = "deliver" => target \in Calls /\ line \in Response
    /\ readIdle \in BOOLEAN
    /\ idleFns \in Seq(Calls)
    /\ running \in Seq(Calls)
    /\ idleRan \subseteq Calls
    /\ closeStep \in {"open", "closed", "swept", "done"}
    /\ sent \subseteq Nat \X Calls
    /\ notices \subseteq Nat
    /\ replied \subseteq Calls \X BOOLEAN
    /\ agentUp \in BOOLEAN
    /\ lines \in 0..MaxLines

\* A call that returns an answer returns one the agent wrote for that call's
\* own request, however calls, duplicate answers and cancellations interleave
\* (callRaw, resolvePending).
OwnAnswer ==
    \A c \in Calls :
        /\ result[c] = "ok" => <<c, TRUE>> \in replied
        /\ result[c] = "error" => <<c, FALSE>> \in replied

\* When resolvePending is about to send, the channel it took is neither closed
\* nor full: the send cannot panic against Close's sweep, and a duplicate
\* answer cannot block the read loop.
DeliverSafe ==
    loop = "deliver" => target \in Calls \ chClosed /\ got[target] = None

\* $/cancel_request is sent only for a request whose call dropped its answer:
\* none was delivered to it and none will be.
CancelOnlyUnanswered ==
    \A c \in Calls : id[c] \in notices /\ id[c] # 0 =>
        got[c] = None /\ target # c /\ result[c] = "ctx"

\* What the three properties above rest on: ids are never shared; an entry of
\* the pending map, or a channel taken from it, is empty and open; every answer
\* between the agent and its caller carries the id of the call it answers; a
\* call that gave up left the map.
IdsDistinct ==
    /\ \A c \in Calls : id[c] <= nextID /\ (id[c] = 0 <=> pc[c] = "idle")
    /\ \A c, d \in Calls : id[c] = id[d] /\ id[c] # 0 => c = d
    /\ \A r \in sent : r[1] = id[r[2]] /\ r[1] # 0
    /\ \A i \in notices : i <= nextID

Empty(c) == got[c] = None /\ c \notin chClosed

ChannelsOwned ==
    /\ \A c \in Calls : id[c] = 0 => Empty(c) /\ c \notin pending /\ target # c
    /\ \A c \in pending : Empty(c) /\ target # c
    /\ target # None => loop = "deliver"
    /\ loop = "deliver" =>
          /\ target \in Calls /\ Empty(target)
          /\ line \in Response /\ line.id = id[target]

Genuine(m) ==
    m \in Response => /\ m.id # 0 /\ m.id = id[m.call]
                      /\ <<m.call, m.ok>> \in replied

AnswersGenuine ==
    /\ \A i \in DOMAIN inbox : Genuine(inbox[i])
    /\ line # None => Genuine(line)
    /\ \A c \in Calls : got[c] # None => Genuine(got[c]) /\ got[c].call = c

GaveUp(c) == got[c] = None /\ c \notin pending /\ target # c

CancelsGaveUp ==
    \A c \in Calls :
        /\ pc[c] = "notify" => GaveUp(c)
        /\ id[c] \in notices /\ id[c] # 0 =>
              GaveUp(c) /\ result[c] = "ctx" /\ pc[c] = "returned"

Bookkeeping == IdsDistinct /\ ChannelsOwned /\ AnswersGenuine /\ CancelsGaveUp

\* No call waits for ever, but in a write that a live agent never reads: once
\* the peer is closed every call under way returns, even one that registered
\* after Close swept the pending map, and an answer the agent wrote ends the
\* call that waits for it (callRaw, Close, resolvePending).
MustReturn(c) ==
    \/ closeStep # "open" /\ pc[c] \in {"write", "wait", "notify"}
    \/ pc[c] = "wait" /\ \E i \in DOMAIN inbox :
            inbox[i].kind = "response" /\ inbox[i].id = id[c]

CallsReturn ==
    \A c \in Calls : <>[]WriteBlocks(c) \/ (MustReturn(c) ~> pc[c] = "returned")

\* A function queued by AfterIdle runs, unless the read loop has ended.
QueuedFnRunsOrLoopDead ==
    \A c \in Calls : pc[c] = "queued" ~> (c \in idleRan \/ loop = "dead")

\* Peer implements CallContract.
callState(c) == CASE pc[c] = "idle" -> "idle"
                  [] result[c] # "none" -> "returned"
                  [] OTHER -> "open"

CallPromise == INSTANCE CallContract WITH
    state     <- [c \in Calls |-> callState(c)],
    outcome   <- result,
    answered  <- replied,
    cancelled <- ctxDone,
    closed    <- closeStep # "open",
    alive     <- agentUp

\* Every step of the peer is a step of the contract of Peer.Call or changes
\* nothing a caller sees: a call ends once, for a reason that happened to it.
ImplementsContract == CallPromise!Spec
=============================================================================
