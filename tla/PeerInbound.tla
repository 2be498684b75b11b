----------------------------- MODULE PeerInbound -----------------------------
(***************************************************************************)
(* The other half of rpc.go: the requests the agent sends to the host.     *)
(* The read loop of Peer starts one goroutine per request (handleRequest), *)
(* which registers a cancel function under the request's id, runs the      *)
(* handler, answers and deregisters; the loop itself runs the handler of   *)
(* $/cancel_request; Close cancels what is registered.  Request ids are    *)
(* the agent's, who may use one twice.                                     *)
(***************************************************************************)
EXTENDS Peer

CONSTANTS
    Requests, \* the agent's requests
    Own,      \* those whose handler may cancel a context of its own making
    Keys      \* the raw ids they may carry

ASSUME OwnAssumption == Own \subseteq Requests

ASSUME InboundNotes ==
    Notes = [kind : {"request"}, req : Requests, key : Keys]
            \cup [kind : {"cancel"}, key : Keys]

VARIABLES
    hpc,           \* where each request is, from the wire to its answer
    key,           \* the id the agent gave each request, None before
    inboundCancel, \* Peer.inboundCancel: the requests whose cancel it holds
    reqCancelled,  \* the requests whose context is cancelled
    parentDone,    \* the context given to Start is cancelled (cancelStart)
    code,          \* what each request was answered with
    lost,          \* history: the requests whose entry another of their id took
    cancelSent     \* history: the ids the agent asked to cancel

inVars == <<hpc, key, inboundCancel, reqCancelled, parentDone, code, lost, cancelSent>>
varsI  == <<vars, inVars>>

\* delete(p.inboundCancel, k).  Mutations: reset the map; delete nothing.
ResetMap(k) == {}
KeepMap(k) == inboundCancel
WithoutKey(k) == {r \in inboundCancel : key[r] # k}

\* p.inboundCancel[k].  Mutations: the id is not compared; it never matches.
AnyRequest(k) == inboundCancel
NoRequest(k) == {}
Registered(k) == {r \in inboundCancel : key[r] = k}

\* Requests that share an id share its entry: one that registers replaces the
\* other's, one that ends deletes whatever is there.
Displaced(r) ==
    {q \in Requests \ {r} : key[q] = key[r] /\ hpc[q] \in {"running", "answering"}}

Cancelled(r) == parentDone \/ r \in reqCancelled

InitI ==
    /\ Init
    /\ hpc = [r \in Requests |-> "unsent"]
    /\ key = [r \in Requests |-> None]
    /\ inboundCancel = {}
    /\ reqCancelled = {}
    /\ parentDone = FALSE
    /\ code = [r \in Requests |-> "none"]
    /\ lost = {}
    /\ cancelSent = {}

-----------------------------------------------------------------------------
(* The read loop *)

\* go p.handleRequest(ctx, msg)
StartRequest ==
    /\ HandleNote
    /\ line.kind = "request"
    /\ hpc' = [hpc EXCEPT ![line.req] = "spawned"]
    /\ UNCHANGED <<key, inboundCancel, reqCancelled, parentDone, code, lost, cancelSent>>

\* The handler NewPeer registers for $/cancel_request, run on the loop.
CancelRequest ==
    /\ HandleNote
    /\ line.kind = "cancel"
    /\ reqCancelled' = reqCancelled \cup Registered(line.key)
    /\ UNCHANGED <<hpc, key, inboundCancel, parentDone, code, lost, cancelSent>>

-----------------------------------------------------------------------------
(* handleRequest *)

Answer(r, c) ==
    /\ hpc' = [hpc EXCEPT ![r] = "answering"]
    /\ code' = [code EXCEPT ![r] = c]
    /\ UNCHANGED <<vars, key, inboundCancel, reqCancelled, parentDone, lost, cancelSent>>

\* No handler is registered for the method: -32601, without a context.
MethodNotFound(r) ==
    /\ hpc[r] = "spawned"
    /\ hpc' = [hpc EXCEPT ![r] = "done"]
    /\ code' = [code EXCEPT ![r] = "-32601"]
    /\ UNCHANGED <<vars, key, inboundCancel, reqCancelled, parentDone, lost, cancelSent>>

RegisterCancel(r) ==
    /\ hpc[r] = "spawned"
    /\ inboundCancel' = WithoutKey(key[r]) \cup {r}
    /\ hpc' = [hpc EXCEPT ![r] = "running"]
    /\ lost' = lost \cup Displaced(r)
    /\ UNCHANGED <<vars, key, reqCancelled, parentDone, code, cancelSent>>

\* The host's handler returns a result, or an error of its own, or a result
\* that cannot be rendered.
HandlerReturns(r) ==
    /\ hpc[r] = "running"
    /\ \E c \in {"result", "-32000", "-32603"} : Answer(r, c)

\* It returns context.Canceled: because its context is, or because another one
\* is, of the handler's making.
HandlerCancelled(r) ==
    /\ hpc[r] = "running"
    /\ Cancelled(r) \/ r \in Own
    /\ Answer(r, "-32800")

\* The answer is written (or lost with the agent); then the deferred cleanup.
Deregister(r) ==
    /\ hpc[r] = "answering"
    /\ hpc' = [hpc EXCEPT ![r] = "done"]
    /\ inboundCancel' = WithoutKey(key[r])
    /\ lost' = (lost \ {r}) \cup Displaced(r)
    /\ UNCHANGED <<vars, key, reqCancelled, parentDone, code, cancelSent>>

-----------------------------------------------------------------------------
(* Close, and the teardown that cancels the context of Start *)

SweepRequests ==
    /\ SweepInbound
    /\ reqCancelled' = reqCancelled \cup inboundCancel
    /\ inboundCancel' = {}
    /\ UNCHANGED <<hpc, key, parentDone, code, lost, cancelSent>>

\* stdio.go startTeardown: cancelStart() comes before peer.Close().
CancelStart ==
    /\ ~parentDone
    /\ parentDone' = TRUE
    /\ UNCHANGED <<vars, hpc, key, inboundCancel, reqCancelled, code, lost, cancelSent>>

-----------------------------------------------------------------------------
(* The agent *)

AgentRequest(r, k) ==
    /\ hpc[r] = "unsent"
    /\ AgentNote([kind |-> "request", req |-> r, key |-> k])
    /\ hpc' = [hpc EXCEPT ![r] = "wire"]
    /\ key' = [key EXCEPT ![r] = k]
    /\ UNCHANGED <<inboundCancel, reqCancelled, parentDone, code, lost, cancelSent>>

AgentCancel(k) ==
    /\ AgentNote([kind |-> "cancel", key |-> k])
    /\ cancelSent' = cancelSent \cup {k}
    /\ UNCHANGED <<hpc, key, inboundCancel, reqCancelled, parentDone, code, lost>>

-----------------------------------------------------------------------------

RequestStep(r) ==
    \/ MethodNotFound(r) \/ RegisterCancel(r) \/ HandlerCancelled(r) \/ Deregister(r)

LoopStepI ==
    \/ /\ LoopTop \/ RunIdleFn \/ ReadLine \/ ReadEnds \/ MarkBusy
          \/ ResolvePending \/ Deliver \/ LoopClose \/ LoopExit
       /\ UNCHANGED inVars
    \/ StartRequest
    \/ CancelRequest

CloseStepI ==
    \/ SweepPending /\ UNCHANGED inVars
    \/ SweepRequests

OtherStepI ==
    /\ \/ \E c \in Calls : Register(c) \/ CancelCtx(c) \/ AfterIdle(c) \/ CallStep(c)
       \/ HostClose
       \/ \E r \in sent, ok \in BOOLEAN : AgentReply(r, ok)
       \/ AgentExit
    /\ UNCHANGED inVars

NextI ==
    \/ LoopStepI
    \/ CloseStepI
    \/ OtherStepI
    \/ CancelStart
    \/ \E r \in Requests : RequestStep(r) \/ HandlerReturns(r)
    \/ \E k \in Keys : AgentCancel(k) \/ \E r \in Requests : AgentRequest(r, k)

SpecI == InitI /\ [][NextI]_varsI

\* A handler whose context is cancelled returns (those that honour it do).
\* Nothing is assumed of the others, of the agent, or of the write of the
\* answer, which may wait for an agent that does not read.
RequestRuns(r) ==
    \/ MethodNotFound(r) \/ RegisterCancel(r)
    \/ Cancelled(r) /\ HandlerCancelled(r)

FairSpecI ==
    /\ SpecI
    /\ WF_varsI(~ReadBlocks /\ LoopStepI)
    /\ WF_varsI(CloseStepI)
    /\ \A r \in Requests : WF_varsI(RequestRuns(r))

-----------------------------------------------------------------------------
(* Properties *)

TypeOKI ==
    /\ TypeOK
    /\ hpc \in [Requests -> {"unsent", "wire", "spawned", "running", "answering", "done"}]
    /\ key \in [Requests -> Keys \cup {None}]
    /\ inboundCancel \subseteq Requests
    /\ reqCancelled \subseteq Requests
    /\ parentDone \in BOOLEAN
    /\ code \in [Requests -> {"none", "result", "-32601", "-32000", "-32603", "-32800"}]
    /\ lost \subseteq Requests
    /\ cancelSent \subseteq Keys

\* Unless the handler cancelled a context of its own, -32800 answers only a
\* request the agent asked to cancel under its own id, or one that a closing
\* peer or teardown interrupted (handleRequest).
CancelCodeJustified ==
    \A r \in Requests \ Own : code[r] = "-32800" =>
        key[r] \in cancelSent \/ parentDone \/ closeStep = "done"

\* The map holds cancel functions of requests under way only, one per id: no
\* entry outlives its request, whatever ids the agent reuses.
NoStaleCancel ==
    \A r \in inboundCancel :
        /\ hpc[r] \in {"running", "answering"}
        /\ \A q \in inboundCancel : key[q] = key[r] => q = r

\* Until the peer closes, a running request is out of reach of a cancel exactly
\* when a request of its id has registered or ended since it registered itself:
\* its entry is not put back (rpc.go 435-438 says it is).
CancellableUnlessLost ==
    \A r \in Requests : hpc[r] = "running" /\ closeStep # "done" =>
        (r \in inboundCancel <=> r \notin lost)

\* Whom the map can cancel, while requests come and go and share ids: nobody
\* that has ended, and of the running ones all but those that lost their entry
\* to another request of their id (handleRequest, Close).
CancelMapExact == NoStaleCancel /\ CancellableUnlessLost

\* No other request carries its id.
Unshared(r) == \A q \in Requests : key[q] = key[r] => q = r

\* A cancel the loop has still to read when its request is in the map of an open
\* peer ends that request's handler, if it honours its context and its id is
\* not shared (rpc.go 154-168): the loop reads it, or ends and closes the peer.
\* A cancel read before its request has registered is lost.
CancelEndsRequest ==
    \A r \in Requests :
        (/\ Unshared(r) /\ hpc[r] = "running" /\ closeStep # "done"
         /\ \E i \in DOMAIN inbox : inbox[i] = [kind |-> "cancel", key |-> key[r]])
            ~> (hpc[r] \in {"answering", "done"} \/ ~Unshared(r))
=============================================================================
