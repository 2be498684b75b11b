----------------------------- MODULE PeerProofs -----------------------------
(***************************************************************************)
(* Type correctness of Peer, its three safety invariants, and that it        *)
(* implements its contract, for any set of calls, of other messages and any *)
(* number of lines.  The strengthening is Bookkeeping (Peer).              *)
(***************************************************************************)
EXTENDS Peer, TLAPS

\* A response is never one of the agent's other messages.
LEMMA KindOfMessage ==
    ASSUME NEW m \in Message
    PROVE  (m.kind = "response") <=> (m \in Response)
  BY NotesAssumption DEF Message, Response

\* Appending an element of the set keeps a sequence over it.
LEMMA AppendType ==
    ASSUME NEW S, NEW s \in Seq(S), NEW e \in S
    PROVE  Append(s, e) \in Seq(S) /\ Len(Append(s, e)) = Len(s) + 1
  OBVIOUS

-----------------------------------------------------------------------------

LEMMA InitTypeOK == Init => TypeOK
<1> SUFFICES ASSUME Init PROVE TypeOK
  OBVIOUS
<1>1. /\ inbox \in Seq(Message) /\ nbuf <= Len(inbox)
      /\ idleFns \in Seq(Calls) /\ running \in Seq(Calls)
  BY DEF Init
<1>2. lines \in 0..MaxLines
  BY MaxLinesAssumption DEF Init
<1> QED BY <1>1, <1>2 DEF Init, TypeOK, Results

\* One step of any goroutine, or of the agent, keeps the type invariant.
LEMMA NextTypeOK == TypeOK /\ [Next]_vars => TypeOK'
<1> SUFFICES ASSUME TypeOK, [Next]_vars PROVE TypeOK'
  OBVIOUS
<1> USE DEF TypeOK
<1>1. ASSUME NEW c \in Calls, Register(c) PROVE TypeOK'
  BY <1>1 DEF Register, FreshID, loopVars, idleVars, wireVars
<1>2. ASSUME NEW c \in Calls, CancelCtx(c) PROVE TypeOK'
  BY <1>2 DEF CancelCtx, chanVars, loopVars, idleVars, wireVars
<1>3. ASSUME NEW c \in Calls, AfterIdle(c) PROVE TypeOK'
  <2>1. idleFns' \in Seq(Calls)
    <3>1. idleFns' = idleFns \/ idleFns' = Append(idleFns, c)
      BY <1>3 DEF AfterIdle
    <3>2. Append(idleFns, c) \in Seq(Calls)
      BY AppendType
    <3> QED BY <3>1, <3>2
  <2>2. pc' = [pc EXCEPT ![c] = "runfn"] \/ pc' = [pc EXCEPT ![c] = "queued"]
    BY <1>3 DEF AfterIdle
  <2> QED BY <1>3, <2>1, <2>2 DEF AfterIdle, callVars, chanVars, loopVars, wireVars
<1>4. ASSUME NEW c \in Calls, CallStep(c) PROVE TypeOK'
  <2>1. CASE WriteRequest(c)
    BY <2>1 DEF WriteRequest, chanVars, loopVars, idleVars
  <2>2. CASE WriteFails(c)
    BY <2>2 DEF WriteFails, Without, Return, Results, loopVars, idleVars, wireVars
  <2>3. CASE TakeCtx(c)
    BY <2>3 DEF TakeCtx, Without, Return, Results, loopVars, idleVars, wireVars
  <2>4. CASE NotifyCancel(c)
    BY <2>4 DEF NotifyCancel, Return, Results, chanVars, loopVars, idleVars
  <2>5. CASE TakeClosed(c)
    BY <2>5 DEF TakeClosed, Return, Results, chanVars, loopVars, idleVars, wireVars
  <2>6. CASE TakeResponse(c)
    BY <2>6 DEF TakeResponse, Outcome, Return, Results, chanVars, loopVars, idleVars, wireVars
  <2>7. CASE TakeChanClosed(c)
    BY <2>7 DEF TakeChanClosed, Return, Results, chanVars, loopVars, idleVars, wireVars
  <2>8. CASE RunOnCaller(c)
    BY <2>8 DEF RunOnCaller, chanVars, loopVars, wireVars
  <2> QED BY <1>4, <2>1, <2>2, <2>3, <2>4, <2>5, <2>6, <2>7, <2>8 DEF CallStep
<1>5. ASSUME LoopStep PROVE TypeOK'
  <2>1. CASE LoopTop
    <3>1. idleFns' \in Seq(Calls) /\ running' \in Seq(Calls)
      <4>1. \/ idleFns' = idleFns /\ running' = running
            \/ idleFns' = <<>> /\ running' = idleFns
        BY <2>1 DEF LoopTop, TakenFns, idleVars
      <4>2. <<>> \in Seq(Calls)
        OBVIOUS
      <4> QED BY <4>1, <4>2
    <3>2. readIdle' \in BOOLEAN /\ idleRan' = idleRan /\ loop' \in {"read", "fns"}
      BY <2>1 DEF LoopTop, idleVars
    <3> QED BY <2>1, <3>1, <3>2 DEF LoopTop, callVars, chanVars, wireVars
  <2>2. CASE RunIdleFn
    BY <2>2 DEF RunIdleFn, callVars, chanVars, wireVars
  <2>3. CASE ReadLine
    <3>1. /\ inbox' \in Seq(Message) /\ Len(inbox') = Len(inbox) - 1
          /\ line' \in Message
      BY <2>3 DEF ReadLine
    <3>2. nbuf' \in Nat /\ nbuf' <= Len(inbox')
      BY <2>3, <3>1 DEF ReadLine, LeftBuffered
    <3> QED BY <2>3, <3>1, <3>2, NoneAssumption DEF ReadLine, callVars, chanVars, idleVars
  <2>4. CASE ReadEnds
    BY <2>4 DEF ReadEnds, callVars, chanVars, wireVars, idleVars
  <2>5. CASE MarkBusy
    BY <2>5 DEF MarkBusy, callVars, chanVars, wireVars
  <2>6. CASE ResolvePending
    <3>1. line \in Response
      BY <2>6, KindOfMessage DEF ResolvePending
    <3>2. pending' \subseteq Calls
      BY <2>6 DEF ResolvePending, Without
    <3>3. \/ target' \in Calls /\ loop' = "deliver"
          \/ target' = target /\ loop' \in {"top", "eof"}
      BY <2>6 DEF ResolvePending, Entries, AfterLine
    <3> QED BY <2>6, <3>1, <3>2, <3>3 DEF ResolvePending, callVars, wireVars, idleVars
  <2>7. CASE Deliver
    <3>1. target \in Calls /\ line \in Response
      BY <2>7 DEF Deliver
    <3>2. got' \in [Calls -> Response \cup {None}] /\ chClosed' \subseteq Calls
      BY <2>7, <3>1 DEF Deliver
    <3> QED BY <2>7, <3>2 DEF Deliver, AfterLine, callVars, wireVars, idleVars
  <2>8. CASE HandleNote
    BY <2>8 DEF HandleNote, AfterLine, callVars, chanVars, wireVars, idleVars
  <2>9. CASE LoopClose
    BY <2>9 DEF LoopClose, CloseChannel, callVars, chanVars, loopVars, wireVars, idleVars
  <2>10. CASE LoopExit
    BY <2>10 DEF LoopExit, callVars, chanVars, wireVars, idleVars
  <2> QED BY <1>5, <2>1, <2>2, <2>3, <2>4, <2>5, <2>6, <2>7, <2>8, <2>9, <2>10 DEF LoopStep
<1>6. ASSUME HostClose PROVE TypeOK'
  BY <1>6 DEF HostClose, CloseChannel, callVars, chanVars, loopVars, wireVars, idleVars
<1>7. ASSUME CloseStep PROVE TypeOK'
  BY <1>7 DEF CloseStep, SweepPending, SweepInbound, callVars, chanVars, loopVars, wireVars, idleVars
<1>8. ASSUME AgentStep PROVE TypeOK'
  <2>1. ASSUME NEW r \in sent, NEW ok \in BOOLEAN, AgentReply(r, ok) PROVE TypeOK'
    <3>1. [kind |-> "response", id |-> r[1], call |-> r[2], ok |-> ok] \in Message
      BY DEF Message, Response
    <3>2. inbox' \in Seq(Message) /\ Len(inbox') = Len(inbox) + 1
      BY <2>1, <3>1 DEF AgentReply, Write
    <3>3. lines' \in 0..MaxLines
      BY <2>1, MaxLinesAssumption DEF AgentReply, Write
    <3>4. replied' \subseteq Calls \X BOOLEAN
      BY <2>1 DEF AgentReply
    <3>5. nbuf' \in Nat /\ nbuf' <= Len(inbox')
      BY <2>1, <3>2 DEF AgentReply, loopVars
    <3> QED BY <2>1, <3>2, <3>3, <3>4, <3>5 DEF AgentReply, callVars, chanVars, loopVars, idleVars
  <2>2. ASSUME NEW n \in Notes, AgentNote(n) PROVE TypeOK'
    <3>1. inbox' \in Seq(Message) /\ Len(inbox') = Len(inbox) + 1
      BY <2>2 DEF AgentNote, Write, Message
    <3>2. lines' \in 0..MaxLines
      BY <2>2, MaxLinesAssumption DEF AgentNote, Write
    <3>3. nbuf' \in Nat /\ nbuf' <= Len(inbox')
      BY <2>2, <3>1 DEF AgentNote, loopVars
    <3> QED BY <2>2, <3>1, <3>2, <3>3 DEF AgentNote, callVars, chanVars, loopVars, idleVars
  <2>3. CASE AgentExit
    BY <2>3 DEF AgentExit, callVars, chanVars, loopVars, idleVars
  <2> QED BY <1>8, <2>1, <2>2, <2>3 DEF AgentStep
<1>9. CASE UNCHANGED vars
  BY <1>9 DEF vars, callVars, chanVars, loopVars, idleVars, wireVars
<1> QED BY <1>1, <1>2, <1>3, <1>4, <1>5, <1>6, <1>7, <1>8, <1>9 DEF Next

\* Every reachable state of the peer is well typed.
THEOREM TypeCorrect == Spec => []TypeOK
  BY InitTypeOK, NextTypeOK, PTL DEF Spec

-----------------------------------------------------------------------------
(* Bookkeeping.  Each of its parts reads some variables only: a step that  *)
(* leaves those alone keeps it.                                            *)

LEMMA IdsFrame ==
    ASSUME IdsDistinct, UNCHANGED <<nextID, id, sent, notices>>,
           \A c \in Calls : pc'[c] = "idle" <=> pc[c] = "idle"
    PROVE  IdsDistinct'
  BY DEF IdsDistinct

LEMMA ChannelsFrame ==
    ASSUME ChannelsOwned, UNCHANGED <<id, pending, got, chClosed, target>>,
           loop = "deliver" \/ loop' # "deliver",
           loop = "deliver" => loop' = "deliver" /\ line' = line
    PROVE  ChannelsOwned'
  BY DEF ChannelsOwned, Empty

LEMMA AnswersFrame ==
    ASSUME AnswersGenuine, UNCHANGED <<inbox, line, got, id, replied>>
    PROVE  AnswersGenuine'
  BY DEF AnswersGenuine, Genuine

LEMMA CancelsFrame ==
    ASSUME CancelsGaveUp, UNCHANGED <<pc, id, notices, got, pending, target, result>>
    PROVE  CancelsGaveUp'
  BY DEF CancelsGaveUp, GaveUp

\* A call that returns, and had not given up, keeps what is known of the others.
LEMMA CancelsReturn ==
    ASSUME CancelsGaveUp, TypeOK, NEW c \in Calls, NEW r,
           pc[c] \in {"write", "wait"}, Return(c, r),
           UNCHANGED <<id, notices, got, target>>, pending' \subseteq pending
    PROVE  CancelsGaveUp'
  BY DEF CancelsGaveUp, GaveUp, Return, TypeOK

\* Ids are given once, so an id has at most one entry.
LEMMA OneEntry ==
    ASSUME TypeOK, IdsDistinct, NEW c \in Calls, pc[c] # "idle"
    PROVE  /\ id[c] # 0
           /\ Entries(id[c]) \subseteq {c}
           /\ Without(id[c]) = pending \ {c}
  BY DEF TypeOK, IdsDistinct, Entries, Without

-----------------------------------------------------------------------------

LEMMA InitBookkeeping == Init => Bookkeeping
<1> SUFFICES ASSUME Init PROVE Bookkeeping
  OBVIOUS
<1> USE DEF Init
<1>1. IdsDistinct /\ CancelsGaveUp
  BY DEF IdsDistinct, CancelsGaveUp
<1>2. ChannelsOwned
  BY NoneAssumption DEF ChannelsOwned, Empty
<1>3. AnswersGenuine
  BY DEF AnswersGenuine
<1> QED BY <1>1, <1>2, <1>3 DEF Bookkeeping

\* Every step of the peer or the agent keeps Bookkeeping.
LEMMA NextBookkeeping == TypeOK /\ Bookkeeping /\ [Next]_vars => Bookkeeping'
<1> SUFFICES ASSUME TypeOK, IdsDistinct, ChannelsOwned, AnswersGenuine, CancelsGaveUp,
                    [Next]_vars
             PROVE  IdsDistinct' /\ ChannelsOwned' /\ AnswersGenuine' /\ CancelsGaveUp'
  BY DEF Bookkeeping
<1> DEFINE Kept == IdsDistinct' /\ ChannelsOwned' /\ AnswersGenuine' /\ CancelsGaveUp'
<1>1. ASSUME NEW c \in Calls, Register(c) PROVE Kept
  <2> USE <1>1 DEF Register, FreshID
  <2>1. /\ id[c] = 0
        /\ id'[c] = nextID + 1
        /\ \A d \in Calls \ {c} : id'[d] = id[d]
        /\ \A d \in Calls : id[d] <= nextID
    BY DEF IdsDistinct, TypeOK
  <2>2. pending' = pending \cup {c}
    BY <2>1 DEF TypeOK
  <2>3. IdsDistinct'
    BY <2>1 DEF IdsDistinct, TypeOK, wireVars
  <2>4. ChannelsOwned'
    BY <2>1, <2>2 DEF ChannelsOwned, Empty, TypeOK, loopVars
  <2>5. AnswersGenuine'
    BY <2>1 DEF AnswersGenuine, Genuine, Response, TypeOK, loopVars, wireVars
  <2>6. CancelsGaveUp'
    BY <2>1, <2>2 DEF CancelsGaveUp, GaveUp, IdsDistinct, TypeOK, loopVars, wireVars
  <2> QED BY <2>3, <2>4, <2>5, <2>6
<1>2. ASSUME NEW c \in Calls, CancelCtx(c) PROVE Kept
  BY <1>2, IdsFrame, ChannelsFrame, AnswersFrame, CancelsFrame
     DEF CancelCtx, chanVars, loopVars, wireVars
<1>3. ASSUME NEW c \in Calls, AfterIdle(c) PROVE Kept
  <2> USE <1>3 DEF AfterIdle, chanVars, loopVars, wireVars
  <2>1. \A d \in Calls : pc'[d] = "idle" <=> pc[d] = "idle"
    BY DEF TypeOK
  <2>2. CancelsGaveUp'
    BY DEF CancelsGaveUp, GaveUp, TypeOK
  <2> QED BY <2>1, <2>2, IdsFrame, ChannelsFrame, AnswersFrame
<1>4. ASSUME NEW c \in Calls, CallStep(c) PROVE Kept
  <2>1. CASE WriteRequest(c)
    <3> USE <2>1 DEF WriteRequest, chanVars, loopVars
    <3>1. IdsDistinct'
      BY DEF IdsDistinct, TypeOK
    <3>2. CancelsGaveUp'
      BY DEF CancelsGaveUp, GaveUp, TypeOK
    <3> QED BY <3>1, <3>2, ChannelsFrame, AnswersFrame
  <2>2. CASE WriteFails(c)
    <3> USE <2>2 DEF WriteFails, loopVars, wireVars
    <3>1. pending' \subseteq pending
      BY DEF Without
    <3>2. \A d \in Calls : pc'[d] = "idle" <=> pc[d] = "idle"
      BY DEF Return, TypeOK
    <3>3. ChannelsOwned'
      BY <3>1 DEF ChannelsOwned, Empty
    <3> QED BY <3>1, <3>2, <3>3, IdsFrame, AnswersFrame, CancelsReturn
  <2>3. CASE TakeCtx(c)
    <3> USE <2>3 DEF TakeCtx, loopVars, wireVars
    <3>1. /\ pending' \subseteq pending
          /\ c \notin pending'
      BY OneEntry
    <3>2. \A d \in Calls : pc'[d] = "idle" <=> pc[d] = "idle"
      BY DEF Return, TypeOK
    <3>3. ChannelsOwned'
      BY <3>1 DEF ChannelsOwned, Empty
    <3>4. CancelsGaveUp'
      <4>1. CASE StillPending(c)
        <5>1. c \in pending
          BY <4>1, OneEntry DEF StillPending, Entries
        <5>2. got[c] = None /\ target # c
          BY <5>1 DEF ChannelsOwned, Empty
        <5>3. GaveUp(c)'
          BY <3>1, <5>2 DEF GaveUp
        <5> QED BY <4>1, <3>1, <5>3 DEF CancelsGaveUp, GaveUp, TypeOK
      <4>2. CASE ~StillPending(c)
        BY <4>2, <3>1, CancelsReturn
      <4> QED BY <4>1, <4>2
    <3> QED BY <3>2, <3>3, <3>4, IdsFrame, AnswersFrame
  <2>4. CASE NotifyCancel(c)
    <3> USE <2>4 DEF NotifyCancel, Return, chanVars, loopVars
    <3>1. IdsDistinct'
      BY DEF IdsDistinct, TypeOK
    <3>2. CancelsGaveUp'
      BY DEF CancelsGaveUp, GaveUp, IdsDistinct, TypeOK
    <3> QED BY <3>1, <3>2, ChannelsFrame, AnswersFrame
  <2>5. ASSUME NEW r, Return(c, r), pc[c] = "wait",
               UNCHANGED <<nextID, id, ctxDone, chanVars, loopVars, idleVars, wireVars>>
        PROVE  Kept
    <3> USE <2>5 DEF chanVars, loopVars, wireVars
    <3>1. \A d \in Calls : pc'[d] = "idle" <=> pc[d] = "idle"
      BY DEF Return, TypeOK
    <3> QED BY <3>1, IdsFrame, ChannelsFrame, AnswersFrame, CancelsReturn
  <2>6. CASE TakeClosed(c)
    BY <2>5, <2>6 DEF TakeClosed
  <2>7. CASE TakeResponse(c)
    BY <2>5, <2>7 DEF TakeResponse
  <2>8. CASE TakeChanClosed(c)
    BY <2>5, <2>8 DEF TakeChanClosed
  <2>9. CASE RunOnCaller(c)
    <3> USE <2>9 DEF RunOnCaller, chanVars, loopVars, wireVars
    <3>1. \A d \in Calls : pc'[d] = "idle" <=> pc[d] = "idle"
      BY DEF TypeOK
    <3>2. CancelsGaveUp'
      BY DEF CancelsGaveUp, GaveUp, TypeOK
    <3> QED BY <3>1, <3>2, IdsFrame, ChannelsFrame, AnswersFrame
  <2> QED BY <1>4, <2>1, <2>2, <2>3, <2>4, <2>6, <2>7, <2>8, <2>9 DEF CallStep
<1>5. ASSUME LoopStep PROVE Kept
  <2>1. CASE LoopTop
    BY <2>1, IdsFrame, ChannelsFrame, AnswersFrame, CancelsFrame
       DEF LoopTop, callVars, chanVars, wireVars
  <2>2. CASE RunIdleFn
    BY <2>2, IdsFrame, ChannelsFrame, AnswersFrame, CancelsFrame
       DEF RunIdleFn, callVars, chanVars, wireVars
  <2>3. CASE ReadLine
    <3> USE <2>3 DEF ReadLine, callVars, chanVars
    <3>1. line' = inbox[1] /\ 1 \in DOMAIN inbox
      BY DEF TypeOK
    <3>2. \A i \in DOMAIN inbox' : i + 1 \in DOMAIN inbox /\ inbox'[i] = inbox[i + 1]
      BY DEF TypeOK
    <3>3. AnswersGenuine'
      BY <3>1, <3>2 DEF AnswersGenuine, Genuine
    <3> QED BY <3>3, IdsFrame, ChannelsFrame, CancelsFrame
  <2>4. CASE ReadEnds
    <3> USE <2>4 DEF ReadEnds, callVars, chanVars, wireVars
    <3>1. AnswersGenuine'
      BY DEF AnswersGenuine, Genuine
    <3> QED BY <3>1, IdsFrame, ChannelsFrame, CancelsFrame
  <2>5. CASE MarkBusy
    BY <2>5, IdsFrame, ChannelsFrame, AnswersFrame, CancelsFrame
       DEF MarkBusy, callVars, chanVars, wireVars
  <2>6. CASE ResolvePending
    <3> USE <2>6 DEF ResolvePending, AfterLine, callVars, wireVars
    <3>1. line \in Response /\ target = None /\ pending' \subseteq pending
      BY KindOfMessage DEF TypeOK, ChannelsOwned, Without
    <3>2. ChannelsOwned'
      BY <3>1 DEF ChannelsOwned, Empty, Entries, Without, IdsDistinct, TypeOK
    <3>3. CancelsGaveUp'
      BY <3>1 DEF CancelsGaveUp, GaveUp, Entries
    <3> QED BY <3>2, <3>3, IdsFrame, AnswersFrame
  <2>7. CASE Deliver
    <3> USE <2>7 DEF Deliver, AfterLine, callVars, wireVars
    <3>1. /\ target \in Calls /\ line \in Response /\ target \notin pending
          /\ line.id = id[target] /\ id[target] # 0 /\ Genuine(line)
      BY NoneAssumption DEF ChannelsOwned, AnswersGenuine, TypeOK, Message
    <3>2. line.call = target
      BY <3>1 DEF IdsDistinct, Genuine, Response
    <3>3. ChannelsOwned'
      BY <3>1, NoneAssumption DEF ChannelsOwned, Empty, TypeOK
    <3>4. AnswersGenuine'
      BY <3>1, <3>2 DEF AnswersGenuine, Genuine, TypeOK
    <3>5. CancelsGaveUp'
      BY <3>1, NoneAssumption DEF CancelsGaveUp, GaveUp, TypeOK
    <3> QED BY <3>3, <3>4, <3>5, IdsFrame
  <2>8. CASE HandleNote
    BY <2>8, IdsFrame, ChannelsFrame, AnswersFrame, CancelsFrame
       DEF HandleNote, AfterLine, callVars, chanVars, wireVars
  <2>9. CASE LoopClose
    BY <2>9, IdsFrame, ChannelsFrame, AnswersFrame, CancelsFrame
       DEF LoopClose, CloseChannel, callVars, chanVars, loopVars, wireVars
  <2>10. CASE LoopExit
    BY <2>10, IdsFrame, ChannelsFrame, AnswersFrame, CancelsFrame
       DEF LoopExit, callVars, chanVars, wireVars
  <2> QED BY <1>5, <2>1, <2>2, <2>3, <2>4, <2>5, <2>6, <2>7, <2>8, <2>9, <2>10 DEF LoopStep
<1>6. ASSUME HostClose PROVE Kept
  BY <1>6, IdsFrame, ChannelsFrame, AnswersFrame, CancelsFrame
     DEF HostClose, CloseChannel, callVars, chanVars, loopVars, wireVars
<1>7. ASSUME CloseStep PROVE Kept
  <2>1. CASE SweepPending
    <3> USE <2>1 DEF SweepPending, callVars, loopVars, wireVars
    <3>1. ChannelsOwned'
      BY DEF ChannelsOwned, Empty, TypeOK
    <3>2. AnswersGenuine'
      BY DEF AnswersGenuine, Genuine
    <3>3. CancelsGaveUp'
      BY DEF CancelsGaveUp, GaveUp
    <3> QED BY <3>1, <3>2, <3>3, IdsFrame
  <2>2. CASE SweepInbound
    BY <2>2, IdsFrame, ChannelsFrame, AnswersFrame, CancelsFrame
       DEF SweepInbound, callVars, chanVars, loopVars, wireVars
  <2> QED BY <1>7, <2>1, <2>2 DEF CloseStep
<1>8. ASSUME AgentStep PROVE Kept
  <2>1. ASSUME NEW r \in sent, NEW ok \in BOOLEAN, AgentReply(r, ok) PROVE Kept
    <3> USE <2>1 DEF AgentReply, Write, callVars, chanVars, loopVars
    <3> DEFINE m == [kind |-> "response", id |-> r[1], call |-> r[2], ok |-> ok]
    <3>1. inbox' = Append(inbox, m) /\ replied' = replied \cup {<<r[2], ok>>}
      OBVIOUS
    <3>2. m.id # 0 /\ m.id = id[m.call] /\ <<m.call, m.ok>> \in replied'
      BY <3>1 DEF IdsDistinct
    <3>3. \A i \in DOMAIN inbox' : inbox'[i] = m \/ (i \in DOMAIN inbox /\ inbox'[i] = inbox[i])
      BY <3>1 DEF TypeOK
    <3>4. AnswersGenuine'
      BY <3>1, <3>2, <3>3 DEF AnswersGenuine, Genuine
    <3> QED BY <3>4, IdsFrame, ChannelsFrame, CancelsFrame
  <2>2. ASSUME NEW n \in Notes, AgentNote(n) PROVE Kept
    <3> USE <2>2 DEF AgentNote, Write, callVars, chanVars, loopVars
    <3>1. n \notin Response
      BY NotesAssumption DEF Response
    <3>2. \A i \in DOMAIN inbox' : inbox'[i] = n \/ (i \in DOMAIN inbox /\ inbox'[i] = inbox[i])
      BY DEF TypeOK
    <3>3. AnswersGenuine'
      BY <3>1, <3>2 DEF AnswersGenuine, Genuine
    <3> QED BY <3>3, IdsFrame, ChannelsFrame, CancelsFrame
  <2>3. CASE AgentExit
    BY <2>3, IdsFrame, ChannelsFrame, AnswersFrame, CancelsFrame
       DEF AgentExit, callVars, chanVars, loopVars
  <2> QED BY <1>8, <2>1, <2>2, <2>3 DEF AgentStep
<1>9. CASE UNCHANGED vars
  BY <1>9, IdsFrame, ChannelsFrame, AnswersFrame, CancelsFrame
     DEF vars, callVars, chanVars, loopVars, wireVars
<1> QED BY <1>1, <1>2, <1>3, <1>4, <1>5, <1>6, <1>7, <1>8, <1>9 DEF Next

\* The strengthening: in every reachable state ids are distinct, channels in
\* the pending map are empty and open, and answers belong to their calls.
THEOREM BookkeepingCorrect == Spec => []Bookkeeping
  BY InitTypeOK, NextTypeOK, InitBookkeeping, NextBookkeeping, PTL DEF Spec

-----------------------------------------------------------------------------
(* The safety invariants. *)

\* Only TakeResponse returns an answer: the one in the call's channel, which is
\* genuine.
LEMMA NextOwnAnswer == TypeOK /\ Bookkeeping /\ OwnAnswer /\ [Next]_vars => OwnAnswer'
<1> SUFFICES ASSUME TypeOK, Bookkeeping, OwnAnswer, [Next]_vars PROVE OwnAnswer'
  OBVIOUS
<1>1. ASSUME UNCHANGED result, replied \subseteq replied' PROVE OwnAnswer'
  BY <1>1 DEF OwnAnswer
<1>2. ASSUME NEW c \in Calls, NEW r \in {"ctx", "pipe", "ioerr"}, Return(c, r),
             UNCHANGED replied
      PROVE  OwnAnswer'
  BY <1>2 DEF Return, OwnAnswer, TypeOK
<1>3. ASSUME NEW c \in Calls, Register(c) \/ CancelCtx(c) \/ AfterIdle(c) PROVE OwnAnswer'
  BY <1>1, <1>3 DEF Register, CancelCtx, AfterIdle, wireVars
<1>4. ASSUME NEW c \in Calls, CallStep(c) PROVE OwnAnswer'
  <2>1. CASE WriteRequest(c) \/ RunOnCaller(c)
    BY <1>1, <2>1 DEF WriteRequest, RunOnCaller, wireVars
  <2>2. CASE WriteFails(c)
    BY <1>2, <2>2 DEF WriteFails, wireVars
  <2>3. CASE TakeCtx(c)
    BY <1>1, <1>2, <2>3 DEF TakeCtx, wireVars
  <2>4. CASE NotifyCancel(c)
    BY <1>2, <2>4 DEF NotifyCancel
  <2>5. CASE TakeClosed(c)
    BY <1>2, <2>5 DEF TakeClosed, wireVars
  <2>6. CASE TakeResponse(c)
    <3>1. /\ got[c] \in Response /\ got[c].call = c
          /\ <<c, got[c].ok>> \in replied
      <4>1. got[c] # None /\ got[c] \in Response
        BY <2>6 DEF TakeResponse, TypeOK
      <4>2. Genuine(got[c]) /\ got[c].call = c
        BY <4>1 DEF Bookkeeping, AnswersGenuine
      <4> QED BY <4>1, <4>2 DEF Genuine
    <3>2. got[c].ok \in BOOLEAN
      BY <3>1 DEF Response
    <3>3. result' = [result EXCEPT ![c] = IF got[c].ok THEN "ok" ELSE "error"]
          /\ replied' = replied
      BY <2>6 DEF TakeResponse, Outcome, Return, wireVars
    <3> QED BY <3>1, <3>2, <3>3 DEF OwnAnswer, TypeOK
  <2>7. CASE TakeChanClosed(c)
    BY <1>2, <2>7 DEF TakeChanClosed, wireVars
  <2> QED BY <1>4, <2>1, <2>2, <2>3, <2>4, <2>5, <2>6, <2>7 DEF CallStep
<1>5. ASSUME LoopStep PROVE OwnAnswer'
  BY <1>1, <1>5 DEF LoopStep, LoopTop, RunIdleFn, ReadLine, ReadEnds, MarkBusy,
     ResolvePending, Deliver, HandleNote, LoopClose, LoopExit, CloseChannel, callVars, wireVars
<1>6. ASSUME HostClose \/ CloseStep PROVE OwnAnswer'
  BY <1>1, <1>6 DEF HostClose, CloseChannel, CloseStep, SweepPending, SweepInbound,
     callVars, wireVars
<1>7. ASSUME AgentStep PROVE OwnAnswer'
  BY <1>1, <1>7 DEF AgentStep, AgentReply, AgentNote, AgentExit, callVars
<1>8. CASE UNCHANGED vars
  BY <1>1, <1>8 DEF vars, callVars, wireVars
<1> QED BY <1>3, <1>4, <1>5, <1>6, <1>7, <1>8 DEF Next

\* A call that returns an answer returns one the agent wrote for its own
\* request (callRaw, resolvePending).
THEOREM OwnAnswerHolds == Spec => []OwnAnswer
<1>1. Init => OwnAnswer
  BY DEF Init, OwnAnswer
<1> QED BY <1>1, InitTypeOK, NextTypeOK, InitBookkeeping, NextBookkeeping,
           NextOwnAnswer, PTL DEF Spec

\* The channel resolvePending sends on is open and empty: the send neither
\* panics nor blocks the read loop.
THEOREM DeliverSafeHolds == Spec => []DeliverSafe
<1>1. Bookkeeping => DeliverSafe
  BY DEF Bookkeeping, ChannelsOwned, Empty, DeliverSafe
<1> QED BY <1>1, BookkeepingCorrect, PTL

\* $/cancel_request never follows an answer that was delivered, and none is
\* delivered after it (the ctx.Done branch of callRaw).
THEOREM CancelOnlyUnansweredHolds == Spec => []CancelOnlyUnanswered
<1>1. Bookkeeping => CancelOnlyUnanswered
  BY DEF Bookkeeping, CancelsGaveUp, GaveUp, CancelOnlyUnanswered
<1> QED BY <1>1, BookkeepingCorrect, PTL

-----------------------------------------------------------------------------
(***************************************************************************)
(* The peer implements the contract of Peer.Call (CallContract).  Beside    *)
(* the bookkeeping above, the mapping needs to know that a call has a        *)
(* result exactly when it has returned.                                      *)
(***************************************************************************)

Under == {"write", "wait", "notify"}

ReturnsOnce ==
    \A c \in Calls :
        /\ result[c] = "none" <=> pc[c] = "idle" \/ pc[c] \in Under
        /\ pc[c] = "notify" => c \in ctxDone

-----------------------------------------------------------------------------
(* ReturnsOnce is inductive. *)

LEMMA InitReturnsOnce == Init => ReturnsOnce
  BY DEF Init, ReturnsOnce, Under

LEMMA NextReturnsOnce == TypeOK /\ ReturnsOnce /\ [Next]_vars => ReturnsOnce'
<1> SUFFICES ASSUME TypeOK, ReturnsOnce, [Next]_vars PROVE ReturnsOnce'
  OBVIOUS
<1>1. ASSUME UNCHANGED <<pc, result, ctxDone>> PROVE ReturnsOnce'
  BY <1>1 DEF ReturnsOnce
<1>2. ASSUME NEW c \in Calls, NEW r \in Results \ {"none"}, Return(c, r), UNCHANGED ctxDone
      PROVE  ReturnsOnce'
  BY <1>2 DEF Return, ReturnsOnce, TypeOK, Under
<1>3. ASSUME NEW c \in Calls, Register(c) \/ CancelCtx(c) \/ AfterIdle(c) PROVE ReturnsOnce'
  BY <1>3 DEF Register, CancelCtx, AfterIdle, ReturnsOnce, TypeOK, Under
<1>4. ASSUME NEW c \in Calls, CallStep(c) PROVE ReturnsOnce'
  <2>1. CASE WriteRequest(c) \/ RunOnCaller(c)
    BY <2>1 DEF WriteRequest, RunOnCaller, ReturnsOnce, TypeOK, Under
  <2>2. CASE WriteFails(c)
    BY <1>2, <2>2 DEF WriteFails, Results
  <2>3. CASE TakeCtx(c)
    <3>1. CASE StillPending(c)
      BY <2>3, <3>1 DEF TakeCtx, ReturnsOnce, TypeOK, Under
    <3>2. CASE ~StillPending(c)
      BY <1>2, <2>3, <3>2 DEF TakeCtx, Results
    <3> QED BY <3>1, <3>2
  <2>4. CASE NotifyCancel(c)
    BY <1>2, <2>4 DEF NotifyCancel, Results
  <2>5. CASE TakeClosed(c) \/ TakeChanClosed(c)
    BY <1>2, <2>5 DEF TakeClosed, TakeChanClosed, Results
  <2>6. CASE TakeResponse(c)
    BY <1>2, <2>6 DEF TakeResponse, Outcome, Results
  <2> QED BY <1>4, <2>1, <2>2, <2>3, <2>4, <2>5, <2>6 DEF CallStep
<1>5. ASSUME LoopStep PROVE ReturnsOnce'
  BY <1>1, <1>5 DEF LoopStep, LoopTop, RunIdleFn, ReadLine, ReadEnds, MarkBusy,
     ResolvePending, Deliver, HandleNote, LoopClose, LoopExit, CloseChannel, callVars
<1>6. ASSUME HostClose \/ CloseStep PROVE ReturnsOnce'
  BY <1>1, <1>6 DEF HostClose, CloseChannel, CloseStep, SweepPending, SweepInbound, callVars
<1>7. ASSUME AgentStep PROVE ReturnsOnce'
  BY <1>1, <1>7 DEF AgentStep, AgentReply, AgentNote, AgentExit, callVars
<1>8. CASE UNCHANGED vars
  BY <1>1, <1>8 DEF vars, callVars
<1> QED BY <1>3, <1>4, <1>5, <1>6, <1>7, <1>8 DEF Next

-----------------------------------------------------------------------------
(* A closed channel that holds no answer was closed by Close. *)

SweptIsClosed ==
    \A c \in Calls : c \in chClosed /\ got[c] = None => closeStep # "open"

LEMMA InitSwept == Init => SweptIsClosed
  BY DEF Init, SweptIsClosed

LEMMA NextSwept == TypeOK /\ SweptIsClosed /\ [Next]_vars => SweptIsClosed'
<1> SUFFICES ASSUME TypeOK, SweptIsClosed, [Next]_vars PROVE SweptIsClosed'
  OBVIOUS
<1>1. ASSUME UNCHANGED <<got, chClosed>>, closeStep' # "open" \/ UNCHANGED closeStep
      PROVE  SweptIsClosed'
  BY <1>1 DEF SweptIsClosed
<1>2. ASSUME NEW c \in Calls, Register(c) \/ CancelCtx(c) \/ AfterIdle(c) PROVE SweptIsClosed'
  BY <1>1, <1>2 DEF Register, CancelCtx, AfterIdle, chanVars
<1>3. ASSUME NEW c \in Calls, CallStep(c) PROVE SweptIsClosed'
  BY <1>1, <1>3 DEF CallStep, WriteRequest, WriteFails, TakeCtx, NotifyCancel, TakeClosed,
     TakeResponse, TakeChanClosed, RunOnCaller, chanVars
<1>4. ASSUME LoopStep PROVE SweptIsClosed'
  <2>1. CASE Deliver
    <3>1. target \in Calls /\ line # None
      BY <2>1 DEF Deliver, TypeOK
    <3> QED BY <2>1, <3>1 DEF Deliver, SweptIsClosed, TypeOK
  <2>2. CASE ~Deliver
    BY <1>1, <1>4, <2>2 DEF LoopStep, LoopTop, RunIdleFn, ReadLine, ReadEnds, MarkBusy,
       ResolvePending, HandleNote, LoopClose, LoopExit, CloseChannel, chanVars
  <2> QED BY <2>1, <2>2
<1>5. ASSUME HostClose \/ CloseStep PROVE SweptIsClosed'
  BY <1>1, <1>5 DEF HostClose, CloseChannel, CloseStep, SweepPending, SweepInbound,
     SweptIsClosed, chanVars
<1>6. ASSUME AgentStep PROVE SweptIsClosed'
  BY <1>1, <1>6 DEF AgentStep, AgentReply, AgentNote, AgentExit, chanVars
<1>7. CASE UNCHANGED vars
  BY <1>1, <1>7 DEF vars, chanVars
<1> QED BY <1>2, <1>3, <1>4, <1>5, <1>6, <1>7 DEF Next

-----------------------------------------------------------------------------
(* The mapping, step by step. *)

LEMMA InitMapped == Init => CallPromise!Init
  BY DEF Init, CallPromise!Init, callState

\* A step that changes nothing the contract mentions.
LEMMA Invisible ==
    ASSUME UNCHANGED <<pc, result, replied, ctxDone, closeStep, agentUp>>
    PROVE  UNCHANGED CallPromise!vars
  BY DEF CallPromise!vars, callState

\* A step inside a call: it stays open, or stays returned.
LEMMA InsideCall ==
    ASSUME NEW c \in Calls, NEW p, pc' = [pc EXCEPT ![c] = p], pc[c] # "idle", p # "idle",
           TypeOK, UNCHANGED <<result, replied, ctxDone, closeStep, agentUp>>
    PROVE  UNCHANGED CallPromise!vars
<1>1. \A d \in Calls : callState(d)' = callState(d)
  BY DEF callState, TypeOK
<1> QED BY <1>1 DEF CallPromise!vars

\* A return: justified as the contract asks.
LEMMA ReturnMaps ==
    ASSUME TypeOK, ReturnsOnce, NEW c \in Calls, pc[c] \in Under,
           NEW r \in Results \ {"none"}, Return(c, r),
           CallPromise!Justified(c, r),
           UNCHANGED <<replied, ctxDone, closeStep, agentUp>>
    PROVE  CallPromise!Return(c)
<1>1. result' = [result EXCEPT ![c] = r] /\ pc' = [pc EXCEPT ![c] = "returned"]
  BY DEF Return
<1>2. callState(c) = "open" /\ callState(c)' = "returned"
  BY <1>1 DEF callState, ReturnsOnce, TypeOK, Under, Results
<1>3. \A d \in Calls \ {c} : callState(d)' = callState(d)
  BY <1>1 DEF callState, TypeOK
<1>4. [d \in Calls |-> callState(d)]' =
         [[d \in Calls |-> callState(d)] EXCEPT ![c] = "returned"]
  BY <1>2, <1>3
<1>5. r \in {"ok", "error", "ctx", "pipe", "ioerr"}
  BY DEF Results
<1> QED BY <1>1, <1>2, <1>4, <1>5 DEF CallPromise!Return

\* Every step of the peer is a step of the contract, or invisible in it.
LEMMA NextMapped ==
    ASSUME TypeOK, Bookkeeping, OwnAnswer, ReturnsOnce, SweptIsClosed, [Next]_vars
    PROVE  [CallPromise!Next]_CallPromise!vars
<1>1. ASSUME NEW c \in Calls, Register(c) PROVE CallPromise!Issue(c)
  <2>1. pc[c] = "idle" /\ result[c] = "none" /\ pc' = [pc EXCEPT ![c] = "write"]
    BY <1>1 DEF Register, ReturnsOnce
  <2>2. UNCHANGED <<result, replied, ctxDone, closeStep, agentUp>>
    BY <1>1 DEF Register, wireVars
  <2>3. callState(c) = "idle" /\ callState(c)' = "open"
    BY <2>1, <2>2 DEF callState, TypeOK
  <2>4. \A d \in Calls \ {c} : callState(d)' = callState(d)
    BY <2>1, <2>2 DEF callState, TypeOK
  <2>5. [d \in Calls |-> callState(d)]' =
           [[d \in Calls |-> callState(d)] EXCEPT ![c] = "open"]
    BY <2>3, <2>4
  <2> QED BY <2>2, <2>3, <2>5 DEF CallPromise!Issue
<1>2. ASSUME NEW c \in Calls, CancelCtx(c) PROVE CallPromise!Cancel(c)
  <2>1. pc[c] \in Under /\ ctxDone' = ctxDone \cup {c}
        /\ UNCHANGED <<pc, result, replied, closeStep, agentUp>>
    BY <1>2 DEF CancelCtx, Under, wireVars
  <2>2. callState(c) = "open"
    BY <2>1 DEF callState, ReturnsOnce, Under
  <2>3. UNCHANGED [d \in Calls |-> callState(d)]
    BY <2>1 DEF callState
  <2> QED BY <2>1, <2>2, <2>3 DEF CallPromise!Cancel
<1>3. ASSUME NEW c \in Calls, AfterIdle(c) PROVE UNCHANGED CallPromise!vars
  <2>1. \E p \in {"runfn", "queued"} : pc' = [pc EXCEPT ![c] = p]
    BY <1>3 DEF AfterIdle
  <2> QED BY <1>3, <2>1, InsideCall DEF AfterIdle, wireVars
<1>4. ASSUME NEW c \in Calls, CallStep(c)
      PROVE  CallPromise!Return(c) \/ UNCHANGED CallPromise!vars
  <2>1. CASE WriteRequest(c) \/ RunOnCaller(c)
    BY <2>1, InsideCall DEF WriteRequest, RunOnCaller, wireVars
  <2>2. CASE WriteFails(c)
    <3>1. CallPromise!Justified(c, "ioerr")
      BY <2>2 DEF WriteFails, WriteMayFail, CallPromise!Justified
    <3> QED BY <2>2, <3>1, ReturnMaps DEF WriteFails, Under, Results, wireVars
  <2>3. CASE TakeCtx(c)
    <3>1. CASE StillPending(c)
      BY <2>3, <3>1, InsideCall DEF TakeCtx, wireVars
    <3>2. CASE ~StillPending(c)
      <4>1. CallPromise!Justified(c, "ctx")
        BY <2>3 DEF TakeCtx, CallPromise!Justified
      <4> QED BY <2>3, <3>2, <4>1, ReturnMaps DEF TakeCtx, Under, Results, wireVars
    <3> QED BY <3>1, <3>2
  <2>4. CASE NotifyCancel(c)
    <3>1. CallPromise!Justified(c, "ctx")
      BY <2>4 DEF NotifyCancel, ReturnsOnce, CallPromise!Justified
    <3> QED BY <2>4, <3>1, ReturnMaps DEF NotifyCancel, Under, Results
  <2>5. CASE TakeClosed(c)
    <3>1. CallPromise!Justified(c, "pipe")
      BY <2>5 DEF TakeClosed, PeerClosed, CallPromise!Justified
    <3> QED BY <2>5, <3>1, ReturnMaps DEF TakeClosed, Under, Results, wireVars
  <2>6. CASE TakeResponse(c)
    <3>1. Outcome(got[c]) \in {"ok", "error"}
      BY DEF Outcome
    <3>2. CallPromise!Justified(c, Outcome(got[c]))
      <4>1. result'[c] = Outcome(got[c]) /\ replied' = replied
        BY <2>6 DEF TakeResponse, Return, TypeOK, wireVars
      <4>2. OwnAnswer'
        BY NextOwnAnswer
      <4> QED BY <3>1, <4>1, <4>2 DEF OwnAnswer, CallPromise!Justified
    <3> QED BY <2>6, <3>1, <3>2, ReturnMaps DEF TakeResponse, Under, Results, wireVars
  <2>7. CASE TakeChanClosed(c)
    <3>1. CallPromise!Justified(c, "pipe")
      BY <2>7 DEF TakeChanClosed, SweptIsClosed, CallPromise!Justified
    <3> QED BY <2>7, <3>1, ReturnMaps DEF TakeChanClosed, Under, Results, wireVars
  <2> QED BY <1>4, <2>1, <2>2, <2>3, <2>4, <2>5, <2>6, <2>7 DEF CallStep
<1>5. ASSUME LoopStep PROVE CallPromise!Shut \/ UNCHANGED CallPromise!vars
  <2>1. CASE LoopClose
    <3>1. /\ UNCHANGED <<pc, result, replied, ctxDone, agentUp>>
          /\ closeStep' = "closed"
      BY <2>1 DEF LoopClose, CloseChannel, callVars, wireVars
    <3> QED BY <3>1 DEF CallPromise!Shut, callState
  <2>2. CASE ~LoopClose
    BY <1>5, <2>2, Invisible DEF LoopStep, LoopTop, RunIdleFn, ReadLine, ReadEnds, MarkBusy,
       ResolvePending, Deliver, HandleNote, LoopExit, callVars, wireVars
  <2> QED BY <2>1, <2>2
<1>6. ASSUME HostClose \/ CloseStep PROVE CallPromise!Shut
  <2>1. /\ UNCHANGED <<pc, result, replied, ctxDone, agentUp>>
        /\ closeStep' # "open"
    BY <1>6 DEF HostClose, CloseChannel, CloseStep, SweepPending, SweepInbound,
       callVars, wireVars
  <2> QED BY <2>1 DEF CallPromise!Shut, callState
<1>7. ASSUME AgentStep
      PROVE  CallPromise!Next \/ UNCHANGED CallPromise!vars
  <2>1. ASSUME NEW r \in sent, NEW ok \in BOOLEAN, AgentReply(r, ok)
        PROVE  CallPromise!Answer(r[2], ok)
    <3>1. r[2] \in Calls /\ pc[r[2]] # "idle"
      BY DEF Bookkeeping, IdsDistinct, TypeOK
    <3>2. callState(r[2]) # "idle"
      BY <3>1 DEF callState
    <3>3. /\ UNCHANGED <<pc, result, ctxDone, closeStep, agentUp>>
          /\ agentUp /\ replied' = replied \cup {<<r[2], ok>>}
      BY <2>1 DEF AgentReply, Write, callVars
    <3> QED BY <3>1, <3>2, <3>3 DEF CallPromise!Answer, callState
  <2>2. ASSUME NEW n \in Notes, AgentNote(n) PROVE UNCHANGED CallPromise!vars
    BY <2>2, Invisible DEF AgentNote, callVars
  <2>3. CASE AgentExit
    BY <2>3 DEF AgentExit, CallPromise!Next, CallPromise!Exit, callState, callVars
  <2>4. \A r \in sent : r[2] \in Calls
    BY DEF TypeOK
  <2> QED BY <1>7, <2>1, <2>2, <2>3, <2>4 DEF AgentStep, CallPromise!Next
<1>8. CASE UNCHANGED vars
  BY <1>8, Invisible DEF vars, callVars, wireVars
<1> QED BY <1>1, <1>2, <1>3, <1>4, <1>5, <1>6, <1>7, <1>8 DEF Next, CallPromise!Next

\* Every behaviour of the peer is one the contract of Peer.Call allows.
THEOREM PeerImplementsContract == Spec => ImplementsContract
<1>1. TypeOK /\ Bookkeeping /\ OwnAnswer /\ ReturnsOnce /\ SweptIsClosed /\ [Next]_vars
         => [CallPromise!Next]_CallPromise!vars
  BY NextMapped
<1>2. Init => OwnAnswer
  BY DEF Init, OwnAnswer
<1> QED BY <1>1, <1>2, InitMapped, InitReturnsOnce, NextReturnsOnce, InitSwept, NextSwept,
           TypeCorrect, BookkeepingCorrect, OwnAnswerHolds, PTL
        DEF Spec, ImplementsContract, CallPromise!Spec
=============================================================================
