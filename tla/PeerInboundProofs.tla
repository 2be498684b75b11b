------------------------- MODULE PeerInboundProofs -------------------------
(***************************************************************************)
(* The inbound requests for any number of requests, ids and lines.  They     *)
(* add no step to the peer; whom the cancel map reaches and when a -32800 is   *)
(* justified follow from an invariant of their own.                         *)
(***************************************************************************)
EXTENDS PeerInbound, PeerProofs

InTypes ==
    /\ hpc \in [Requests -> {"unsent", "wire", "spawned", "running", "answering", "done"}]
    /\ key \in [Requests -> Keys \cup {None}]
    /\ inboundCancel \subseteq Requests /\ reqCancelled \subseteq Requests
    /\ parentDone \in BOOLEAN
    /\ code \in [Requests -> {"none", "result", "-32601", "-32000", "-32603", "-32800"}]
    /\ lost \subseteq Requests
    /\ cancelSent \subseteq Keys

\* A request is on its way once, before its goroutine: in the inbox or in the
\* read loop's hand.
Held == loop \in {"line", "dispatch"} /\ line # None
IsRequest(m) == m.kind = "request"

OnWire ==
    /\ \A i \in DOMAIN inbox : IsRequest(inbox[i]) => hpc[inbox[i].req] = "wire"
    /\ \A i, j \in DOMAIN inbox :
          IsRequest(inbox[i]) /\ IsRequest(inbox[j]) /\ inbox[i].req = inbox[j].req => i = j
    /\ Held /\ IsRequest(line) =>
          /\ hpc[line.req] = "wire"
          /\ \A i \in DOMAIN inbox : IsRequest(inbox[i]) => inbox[i].req # line.req

CancelsKnown ==
    /\ \A i \in DOMAIN inbox : inbox[i].kind = "cancel" => inbox[i].key \in cancelSent
    /\ Held /\ line.kind = "cancel" => line.key \in cancelSent

\* A cancelled context has a cancel of the agent, or Close, behind it.
Traced ==
    /\ \A r \in reqCancelled :
          hpc[r] # "unsent" /\ (key[r] \in cancelSent \/ closeStep = "done")
    /\ \A r \in Requests : code[r] # "none" => hpc[r] \in {"answering", "done"}

\* Only a request under way has lost its entry.
LostUnderWay == \A r \in lost : r \in Requests /\ hpc[r] \in {"running", "answering"}
Found == CancellableUnlessLost /\ LostUnderWay

Handling ==
    InTypes /\ Traced /\ NoStaleCancel /\ Found /\ CancelCodeJustified
InboundInv == OnWire /\ CancelsKnown /\ Handling

-----------------------------------------------------------------------------
(* Every step is a step of the peer or leaves it alone.                      *)

LEMMA InboundStep == [NextI]_varsI => [Next]_vars
<1> SUFFICES ASSUME [NextI]_varsI PROVE [Next]_vars
  OBVIOUS
<1>1. CASE LoopStepI
  BY <1>1 DEF LoopStepI, StartRequest, CancelRequest, Next, LoopStep
<1>2. CASE CloseStepI
  BY <1>2 DEF CloseStepI, SweepRequests, Next, CloseStep
<1>3. CASE OtherStepI
  BY <1>3 DEF OtherStepI, Next, AgentStep
<1>4. CASE CancelStart \/ \E r \in Requests : RequestStep(r) \/ HandlerReturns(r)
  BY <1>4 DEF CancelStart, RequestStep, HandlerReturns, MethodNotFound, RegisterCancel,
     HandlerCancelled, Deregister, Answer
<1>5. ASSUME NEW k \in Keys, NEW r \in Requests, AgentRequest(r, k) PROVE [Next]_vars
  <2>1. [kind |-> "request", req |-> r, key |-> k] \in Notes
    BY InboundNotes
  <2> QED BY <1>5, <2>1 DEF AgentRequest, Next, AgentStep
<1>6. ASSUME NEW k \in Keys, AgentCancel(k) PROVE [Next]_vars
  <2>1. [kind |-> "cancel", key |-> k] \in Notes
    BY InboundNotes
  <2> QED BY <1>6, <2>1 DEF AgentCancel, Next, AgentStep
<1>7. CASE UNCHANGED varsI
  BY <1>7 DEF varsI
<1> QED BY <1>1, <1>2, <1>3, <1>4, <1>5, <1>6, <1>7 DEF NextI

\* The requests of the agent use the peer as it allows (handleRequest, Start): what
\* is proved of Peer holds beside them.
THEOREM InboundUsesPeer == SpecI => Spec
<1>1. InitI => Init
  BY DEF InitI
<1> QED BY <1>1, InboundStep, PTL DEF SpecI, Spec

LEMMA InboundTypes == SpecI => []TypeOK
  BY InboundUsesPeer, TypeCorrect, PTL

-----------------------------------------------------------------------------
(* What the peer's own steps do to the wire.                                 *)

QuietLoop ==
    LoopTop \/ RunIdleFn \/ ReadLine \/ ReadEnds \/ MarkBusy
    \/ ResolvePending \/ Deliver \/ LoopClose \/ LoopExit
QuietOther ==
    \/ \E c \in Calls : Register(c) \/ CancelCtx(c) \/ AfterIdle(c) \/ CallStep(c)
    \/ HostClose
    \/ \E r \in sent, ok \in BOOLEAN : AgentReply(r, ok)
    \/ AgentExit

\* The loop's hand only empties, nothing but answers is added, and Close ends once.
Still == UNCHANGED inbox /\ (Held' => Held /\ line' = line)
Answered == \E m \in Response : inbox' = Append(inbox, m) /\ UNCHANGED <<loop, line>>
ClosedStays == closeStep = "done" => closeStep' = "done"

LEMMA LoopEffect == TypeOK /\ QuietLoop => ClosedStays /\ (Still \/ ReadLine)
<1> SUFFICES ASSUME TypeOK, QuietLoop PROVE ClosedStays /\ (Still \/ ReadLine)
  OBVIOUS
<1> USE DEF ClosedStays, Still, Held, wireVars
<1>1. CASE LoopTop \/ RunIdleFn
  BY <1>1 DEF LoopTop, RunIdleFn
<1>2. CASE ReadLine
  BY <1>2 DEF ReadLine
<1>3. CASE ReadEnds \/ MarkBusy
  BY <1>3 DEF ReadEnds, MarkBusy
<1>4. CASE ResolvePending \/ Deliver
  BY <1>4 DEF ResolvePending, Deliver, AfterLine
<1>5. CASE LoopClose \/ LoopExit
  BY <1>5 DEF LoopClose, CloseChannel, LoopExit, loopVars
<1> QED BY <1>1, <1>2, <1>3, <1>4, <1>5 DEF QuietLoop

LEMMA OtherEffect == TypeOK /\ QuietOther => ClosedStays /\ (Still \/ Answered)
<1> SUFFICES ASSUME TypeOK, QuietOther PROVE ClosedStays /\ (Still \/ Answered)
  OBVIOUS
<1> USE DEF ClosedStays, Still, Held, wireVars, loopVars
<1>1. CASE \E c \in Calls : Register(c) \/ CancelCtx(c) \/ AfterIdle(c)
  BY <1>1 DEF Register, CancelCtx, AfterIdle
<1>2. CASE \E c \in Calls : CallStep(c)
  BY <1>2 DEF CallStep, WriteRequest, WriteFails, TakeCtx, NotifyCancel, TakeClosed,
     TakeResponse, TakeChanClosed, RunOnCaller
<1>3. CASE HostClose \/ AgentExit
  BY <1>3 DEF HostClose, CloseChannel, AgentExit
<1>4. ASSUME NEW r \in sent, NEW ok \in BOOLEAN, AgentReply(r, ok)
      PROVE  ClosedStays /\ Answered
  <2>1. [kind |-> "response", id |-> r[1], call |-> r[2], ok |-> ok] \in Response
    BY DEF TypeOK, Response
  <2> QED BY <1>4, <2>1 DEF AgentReply, Write, Answered
<1> QED BY <1>1, <1>2, <1>3, <1>4 DEF QuietOther

-----------------------------------------------------------------------------
(* Frames.                                                                   *)

LEMMA HandlingFrame ==
    ASSUME Handling, UNCHANGED inVars, ClosedStays
    PROVE  Handling'
<1>1. InTypes' /\ Traced'
  BY DEF Handling, InTypes, Traced, inVars, ClosedStays
<1>2. NoStaleCancel' /\ Found'
  BY DEF Handling, NoStaleCancel, CancellableUnlessLost, LostUnderWay, Found, Displaced, inVars, ClosedStays
<1>3. CancelCodeJustified'
  BY DEF Handling, CancelCodeJustified, inVars, ClosedStays
<1> QED BY <1>1, <1>2, <1>3 DEF Handling

\* What a request's goroutine does is nothing to the requests still on the wire.
LEMMA StillWire ==
    ASSUME TypeOK, OnWire, CancelsKnown, Still, cancelSent \subseteq cancelSent',
           \A r \in Requests : hpc[r] = "wire" => hpc'[r] = "wire"
    PROVE  OnWire' /\ CancelsKnown'
<1>1. /\ \A i \in DOMAIN inbox : IsRequest(inbox[i]) => inbox[i].req \in Requests
      /\ Held /\ IsRequest(line) => line.req \in Requests
  <2>1. \A m \in Message : IsRequest(m) => m.req \in Requests
    BY InboundNotes DEF Message, Response, IsRequest
  <2>2. \A i \in DOMAIN inbox : inbox[i] \in Message
    BY DEF TypeOK
  <2>3. Held => line \in Message
    BY DEF TypeOK, Held
  <2> QED BY <2>1, <2>2, <2>3
<1>2. OnWire'
  BY <1>1 DEF OnWire, Still, IsRequest
<1>3. CancelsKnown'
  BY DEF CancelsKnown, Still
<1> QED BY <1>2, <1>3

LEMMA AnsweredWire ==
    ASSUME TypeOK, OnWire, CancelsKnown, Answered, UNCHANGED <<hpc, cancelSent>>
    PROVE  OnWire' /\ CancelsKnown'
<1>1. PICK m \in Response : inbox' = Append(inbox, m) /\ UNCHANGED <<loop, line>>
  BY DEF Answered
<1>2. /\ DOMAIN inbox' = DOMAIN inbox \cup {Len(inbox) + 1}
      /\ \A i \in DOMAIN inbox : inbox'[i] = inbox[i]
      /\ inbox'[Len(inbox) + 1].kind = "response"
  BY <1>1 DEF TypeOK, Response
<1> QED BY <1>1, <1>2 DEF OnWire, CancelsKnown, Held, IsRequest

LEMMA ReadWire ==
    ASSUME TypeOK, OnWire, CancelsKnown, ReadLine, UNCHANGED <<hpc, cancelSent>>
    PROVE  OnWire' /\ CancelsKnown'
<1>1. /\ \A i \in DOMAIN inbox' : i + 1 \in DOMAIN inbox /\ inbox'[i] = inbox[i + 1]
      /\ 1 \in DOMAIN inbox /\ line' = inbox[1] /\ DOMAIN inbox' \subseteq Nat \ {0}
  BY DEF TypeOK, ReadLine
<1> QED BY <1>1 DEF OnWire, CancelsKnown, Held, IsRequest

-----------------------------------------------------------------------------
LEMMA InboundInit == InitI => InboundInv
<1> SUFFICES ASSUME InitI PROVE InboundInv
  OBVIOUS
<1> USE DEF InitI, Init
<1>1. OnWire /\ CancelsKnown
  BY DEF OnWire, CancelsKnown, Held
<1>2. InTypes /\ Traced
  BY DEF InTypes, Traced
<1>3. NoStaleCancel /\ Found /\ CancelCodeJustified
  BY DEF NoStaleCancel, CancellableUnlessLost, LostUnderWay, Found, CancelCodeJustified
<1> QED BY <1>1, <1>2, <1>3 DEF InboundInv, Handling

LEMMA InboundNext == TypeOK /\ InboundInv /\ [NextI]_varsI => InboundInv'
<1> SUFFICES ASSUME TypeOK, OnWire, CancelsKnown, Handling, [NextI]_varsI
             PROVE  OnWire' /\ CancelsKnown' /\ Handling'
  BY DEF InboundInv
<1>0. InTypes /\ Traced /\ NoStaleCancel /\ Found /\ CancelCodeJustified
  BY DEF Handling
<1>1. CASE QuietLoop /\ UNCHANGED inVars
  <2>1. Handling'
    BY <1>1, LoopEffect, HandlingFrame
  <2>2. OnWire' /\ CancelsKnown'
    BY <1>1, LoopEffect, StillWire, ReadWire DEF inVars
  <2> QED BY <2>1, <2>2
<1>2. CASE QuietOther /\ UNCHANGED inVars
  <2>1. Handling'
    BY <1>2, OtherEffect, HandlingFrame
  <2>2. OnWire' /\ CancelsKnown'
    BY <1>2, OtherEffect, StillWire, AnsweredWire DEF inVars
  <2> QED BY <2>1, <2>2
<1>3. CASE StartRequest
  <2>1. line \in Notes /\ line.kind = "request" /\ line.req \in Requests /\ Held /\ ~Held'
    BY <1>3, InboundNotes DEF StartRequest, HandleNote, AfterLine, TypeOK, Message, Response, Held
  <2>2. hpc[line.req] = "wire" /\ hpc' = [hpc EXCEPT ![line.req] = "spawned"]
    BY <1>3, <2>1 DEF StartRequest, OnWire, IsRequest
  <2>3. OnWire' /\ CancelsKnown'
    <3>1. UNCHANGED <<inbox, cancelSent>>
      BY <1>3 DEF StartRequest, HandleNote, wireVars
    <3>2. \A i \in DOMAIN inbox : IsRequest(inbox[i]) =>
              inbox[i].req \in Requests /\ inbox[i].req # line.req
      BY <2>1, InboundNotes DEF TypeOK, Message, Response, OnWire, IsRequest
    <3>3. \A i \in DOMAIN inbox : IsRequest(inbox[i]) => hpc'[inbox[i].req] = "wire"
      BY <1>0, <2>2, <3>2 DEF InTypes, OnWire
    <3>4. OnWire'
      BY <2>1, <3>1, <3>3 DEF OnWire
    <3>5. CancelsKnown'
      BY <2>1, <3>1 DEF CancelsKnown
    <3> QED BY <3>4, <3>5
  <2>4. InTypes' /\ Traced'
    BY <1>0, <1>3, <2>1, <2>2 DEF StartRequest, HandleNote, InTypes, Traced
  <2>5. NoStaleCancel' /\ Found' /\ CancelCodeJustified'
    BY <1>0, <1>3, <2>1, <2>2 DEF StartRequest, HandleNote, InTypes, NoStaleCancel,
       CancellableUnlessLost, LostUnderWay, Found, Displaced, CancelCodeJustified
  <2> QED BY <2>3, <2>4, <2>5 DEF Handling
<1>4. CASE CancelRequest
  <2>1. line.key \in cancelSent
    BY <1>4 DEF CancelRequest, HandleNote, CancelsKnown, Held, TypeOK
  <2>2. OnWire' /\ CancelsKnown'
    BY <1>4, StillWire DEF CancelRequest, HandleNote, AfterLine, wireVars, Still, Held
  <2>3. InTypes' /\ Traced'
    BY <1>0, <1>4, <2>1 DEF CancelRequest, HandleNote, InTypes, Traced, Registered, NoStaleCancel
  <2>4. NoStaleCancel' /\ Found' /\ CancelCodeJustified'
    BY <1>0, <1>4 DEF CancelRequest, HandleNote, NoStaleCancel, CancellableUnlessLost, LostUnderWay, Found, Displaced,
       CancelCodeJustified
  <2> QED BY <2>2, <2>3, <2>4 DEF Handling
<1>5. CASE CloseStepI
  <2>1. CASE SweepPending /\ UNCHANGED inVars
    <3>1. ClosedStays /\ Still
      BY <2>1 DEF SweepPending, ClosedStays, Still, Held, wireVars, loopVars
    <3> QED BY <2>1, <3>1, HandlingFrame, StillWire DEF inVars
  <2>2. CASE SweepRequests
    <3>1. closeStep' = "done" /\ Still
      BY <2>2 DEF SweepRequests, SweepInbound, Still, Held, wireVars, loopVars
    <3>2. OnWire' /\ CancelsKnown'
      BY <2>2, <3>1, StillWire DEF SweepRequests
    <3>3. InTypes' /\ Traced'
      BY <1>0, <2>2, <3>1 DEF SweepRequests, InTypes, Traced, NoStaleCancel
    <3>4. NoStaleCancel'
      BY <2>2 DEF SweepRequests, NoStaleCancel
    <3>5. Found' /\ CancelCodeJustified'
      BY <1>0, <2>2, <3>1 DEF SweepRequests, CancellableUnlessLost, LostUnderWay, Found,
         CancelCodeJustified
    <3> QED BY <3>2, <3>3, <3>4, <3>5 DEF Handling
  <2> QED BY <1>5, <2>1, <2>2 DEF CloseStepI
<1>6. CASE CancelStart
  <2>1. OnWire' /\ CancelsKnown'
    BY <1>6, StillWire DEF CancelStart, Still, Held, vars, wireVars, loopVars
  <2>2. Handling'
    BY <1>0, <1>6 DEF CancelStart, vars, Handling, InTypes, Traced, NoStaleCancel,
       CancellableUnlessLost, LostUnderWay, Found, Displaced, CancelCodeJustified
  <2> QED BY <2>1, <2>2
<1>7. ASSUME NEW r \in Requests, RequestStep(r) \/ HandlerReturns(r)
      PROVE  OnWire' /\ CancelsKnown' /\ Handling'
  <2>1. /\ UNCHANGED <<vars, key, reqCancelled, parentDone, cancelSent>>
        /\ hpc[r] \in {"spawned", "running", "answering"}
        /\ hpc' \in {[hpc EXCEPT ![r] = l] : l \in {"running", "answering", "done"}}
    BY <1>7 DEF RequestStep, HandlerReturns, MethodNotFound, RegisterCancel, HandlerCancelled,
       Deregister, Answer
  <2>2. OnWire' /\ CancelsKnown'
    BY <1>0, <2>1, StillWire DEF Still, Held, vars, wireVars, loopVars, InTypes
  <2>3. InTypes'
    BY <1>0, <1>7 DEF RequestStep, HandlerReturns, MethodNotFound, RegisterCancel, HandlerCancelled,
       Deregister, Answer, InTypes, WithoutKey, Displaced
  <2>4. Traced'
    BY <1>0, <1>7 DEF RequestStep, HandlerReturns, MethodNotFound, RegisterCancel, HandlerCancelled,
       Deregister, Answer, InTypes, Traced, vars
  <2>5. NoStaleCancel'
    BY <1>0, <1>7 DEF RequestStep, HandlerReturns, MethodNotFound, RegisterCancel, HandlerCancelled,
       Deregister, Answer, InTypes, NoStaleCancel, WithoutKey
  <2>6. Found'
    BY <1>0, <1>7 DEF RequestStep, HandlerReturns, MethodNotFound, RegisterCancel, HandlerCancelled,
       Deregister, Answer, InTypes, CancellableUnlessLost, LostUnderWay, Found, Displaced, WithoutKey, vars
  <2>7. CancelCodeJustified'
    BY <1>0, <1>7 DEF RequestStep, HandlerReturns, MethodNotFound, RegisterCancel, HandlerCancelled,
       Deregister, Answer, InTypes, CancelCodeJustified, Cancelled, Traced, vars
  <2> QED BY <2>2, <2>3, <2>4, <2>5, <2>6, <2>7 DEF Handling
<1>8. ASSUME NEW k \in Keys, NEW r \in Requests, AgentRequest(r, k)
      PROVE  OnWire' /\ CancelsKnown' /\ Handling'
  <2> DEFINE m == [kind |-> "request", req |-> r, key |-> k]
  <2>1. /\ inbox' = Append(inbox, m) /\ UNCHANGED <<loop, line, closeStep>>
        /\ hpc[r] = "unsent" /\ hpc' = [hpc EXCEPT ![r] = "wire"] /\ key' = [key EXCEPT ![r] = k]
        /\ UNCHANGED <<inboundCancel, reqCancelled, parentDone, code, lost, cancelSent>>
    BY <1>8 DEF AgentRequest, AgentNote, Write, loopVars
  <2>2. /\ DOMAIN inbox' = DOMAIN inbox \cup {Len(inbox) + 1}
        /\ \A i \in DOMAIN inbox : inbox'[i] = inbox[i]
        /\ inbox'[Len(inbox) + 1] = m /\ Len(inbox) + 1 \notin DOMAIN inbox
    BY <2>1 DEF TypeOK
  <2>3. m.kind = "request" /\ m.req = r
    OBVIOUS
  <2>4. OnWire' /\ CancelsKnown'
    BY <1>0, <2>1, <2>2, <2>3 DEF OnWire, CancelsKnown, Held, IsRequest, InTypes
  <2>5. InTypes' /\ Traced'
    BY <1>0, <2>1 DEF InTypes, Traced
  <2>6. NoStaleCancel' /\ Found' /\ CancelCodeJustified'
    BY <1>0, <2>1 DEF InTypes, Traced, NoStaleCancel, CancellableUnlessLost, LostUnderWay, Found, Displaced,
       CancelCodeJustified
  <2> QED BY <2>4, <2>5, <2>6 DEF Handling
<1>9. ASSUME NEW k \in Keys, AgentCancel(k)
      PROVE  OnWire' /\ CancelsKnown' /\ Handling'
  <2> DEFINE m == [kind |-> "cancel", key |-> k]
  <2>1. /\ inbox' = Append(inbox, m) /\ UNCHANGED <<loop, line, closeStep>>
        /\ cancelSent' = cancelSent \cup {k}
        /\ UNCHANGED <<hpc, key, inboundCancel, reqCancelled, parentDone, code, lost>>
    BY <1>9 DEF AgentCancel, AgentNote, Write, loopVars
  <2>2. /\ DOMAIN inbox' = DOMAIN inbox \cup {Len(inbox) + 1}
        /\ \A i \in DOMAIN inbox : inbox'[i] = inbox[i]
        /\ inbox'[Len(inbox) + 1] = m
    BY <2>1 DEF TypeOK
  <2>3. m.kind = "cancel" /\ m.key = k
    OBVIOUS
  <2>4. OnWire' /\ CancelsKnown'
    BY <2>1, <2>2, <2>3 DEF OnWire, CancelsKnown, Held, IsRequest
  <2>5. InTypes' /\ Traced'
    BY <1>0, <2>1 DEF InTypes, Traced
  <2>6. NoStaleCancel' /\ Found' /\ CancelCodeJustified'
    BY <1>0, <2>1 DEF InTypes, NoStaleCancel, CancellableUnlessLost, LostUnderWay, Found, Displaced, CancelCodeJustified
  <2> QED BY <2>4, <2>5, <2>6 DEF Handling
<1>10. CASE UNCHANGED varsI
  <2>1. UNCHANGED inVars /\ Still /\ ClosedStays
    BY <1>10 DEF varsI, vars, wireVars, loopVars, Still, Held, ClosedStays
  <2> QED BY <2>1, HandlingFrame, StillWire DEF inVars
<1> QED BY <1>1, <1>2, <1>3, <1>4, <1>5, <1>6, <1>7, <1>8, <1>9, <1>10
       DEF NextI, LoopStepI, OtherStepI, QuietLoop, QuietOther

LEMMA InboundCorrect == SpecI => []InboundInv
  BY InboundInit, InboundNext, InboundTypes, PTL DEF SpecI

-----------------------------------------------------------------------------
\* Every reachable state of the inbound half is well typed.
THEOREM InboundTypesHold == SpecI => []TypeOKI
<1>1. TypeOK /\ InboundInv => TypeOKI
  BY DEF InboundInv, Handling, InTypes, TypeOKI
<1> QED BY <1>1, InboundTypes, InboundCorrect, PTL

\* Whom the cancel map can cancel, however the agent reuses ids: no request that
\* has ended, and every running one but those whose entry another request of
\* their id took (handleRequest, $/cancel_request, Close).
THEOREM CancelMapHolds == SpecI => []CancelMapExact
<1>1. InboundInv => CancelMapExact
  BY DEF InboundInv, Handling, Found, CancelMapExact
<1> QED BY <1>1, InboundCorrect, PTL

\* -32800 answers a request only if the agent asked to cancel its id, a closing
\* peer or teardown interrupted it, or its handler cancelled a context of its own
\* (handleRequest).
THEOREM CancelCodeHolds == SpecI => []CancelCodeJustified
<1>1. InboundInv => CancelCodeJustified
  BY DEF InboundInv, Handling
<1> QED BY <1>1, InboundCorrect, PTL
=============================================================================
