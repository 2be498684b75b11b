--------------------------- MODULE GatewayProofs ---------------------------
(***************************************************************************)
(* The safety of the session pool for any requests, sessions and limit.    *)
(* The invariant separates the records that the map has offered from those *)
(* that only their creator knows: a handler that holds a record without a  *)
(* lock holds one of the first kind, whatever became of it meanwhile.      *)
(***************************************************************************)
EXTENDS Gateway, FiniteSetTheorems, TLAPS

\* The creator has put the record into the map at some time.
Published(s) ==
  /\ creator[s] \in Reqs
  /\ kind[creator[s]] # "temporary"
  /\ pc[creator[s]] \notin {"idle", "starting", "insert"}

\* The request alone knows its session.
Private(q) == pc[q] = "insert" \/ (pc[q] = "turn" /\ kind[q] = "temporary")

\* Handlers past getSession, or past their own insertion.
Holds(q) ==
  \/ pc[q] \in {"found", "remove", "register", "begin"}
  \/ pc[q] = "turn" /\ kind[q] # "temporary"

\* The phases a request, the ticker and the closer go through.
Phases ==
  /\ \A q \in Reqs :
       /\ kind[q] = "temporary" => pc[q] \in {"starting", "turn", "closing", "done"}
       /\ pc[q] \in {"starting", "insert", "found", "register", "begin", "turn"} => kind[q] # "delete"
  /\ \A s \in Sids : creator[s] \in Reqs => pc[creator[s]] \notin {"idle", "starting"}
  /\ \A p \in Procs : pc[p] \notin {"sweeping", "closing", "exit"} => todo[p] = {}

\* What is in the map, behind a response id or in a handler's hands has been
\* published; what a creator keeps to itself has not.
Publicity ==
  /\ \A s \in listed : Published(s)
  /\ \A q \in Reqs : alias[q] # None => Published(alias[q])
  /\ \A q \in Reqs : Holds(q) => Published(rec[q])
  /\ \A q \in Reqs : Private(q) => creator[rec[q]] = q
  /\ \A p \in Procs : \A s \in todo[p] : creator[s] \in Reqs

\* A session nobody but its creator knows is not being closed either.
PrivateAreOpen ==
  ~Down => \A q \in Reqs : Private(q) =>
    acp[rec[q]] = "open" /\ \A p \in Procs : rec[q] \notin todo[p]

\* Server.mu is held by one sweep, which has listed records before it.
SweepHolds ==
  /\ ~Locked => ahead = {} /\ doomed = None
  /\ \A p, r \in Procs : pc[p] = "sweeping" /\ pc[r] = "sweeping" => p = r
  /\ pc[Main] # "sweeping"
  /\ ahead \subseteq listed
  /\ doomed # None => doomed \in listed \ ahead

\* The owner test is behind whoever is past getSession.
OwnerChecked == \A q \in Reqs : pc[q] = "found" => SameOwner(q, rec[q])

GatewayInv ==
  /\ TypeOKG
  /\ Phases
  /\ Publicity
  /\ SweepHolds
  /\ OneTurnPerSession
  /\ NoneForgotten
  /\ PrivateAreOpen
  /\ ListedAreOpen
  /\ OwnerChecked
  /\ Isolation
-----------------------------------------------------------------------------
LEMMA InitGatewayInv == Init => GatewayInv
  BY GatewayAssumption DEF Init, GatewayInv, TypeOKG, Phases, Publicity, OneTurnPerSession,
     NoneForgotten, PrivateAreOpen, ListedAreOpen, OwnerChecked, Isolation, Published, Private,
     Holds, Using, Procs, Kinds, Down, SweepHolds, Locked

\* A request comes with a kind and a profile, and the others keep theirs.
LEMMA ComesWith ==
  ASSUME TypeOKG, NEW q \in Reqs, NEW k \in Kinds, Comes(q, k)
  PROVE  /\ kind' \in [Reqs -> Kinds \cup {None}] /\ who' \in [Reqs -> Profiles \cup {None}]
         /\ kind'[q] = k
         /\ \A r \in Reqs \ {q} : kind'[r] = kind[r] /\ who'[r] = who[r]
  BY DEF Comes, TypeOKG

\* A turn changes the flags of its record and its request's place only.
LEMMA TypeTurn == ASSUME TypeOKG, NEW q \in Reqs, Begin(q) \/ End(q) PROVE TypeOKG'
<1> USE GatewayAssumption DEF TypeOKG, Procs, Goto, Begin, End
<1>1. busy' \in [Sids -> BOOLEAN] /\ stale' \in [Sids -> BOOLEAN]
  OBVIOUS
<1>2. pc' \in [Procs -> {"idle", "starting", "insert", "resolved", "found", "remove",
                        "register", "begin", "turn", "sweeping", "closing", "runtime", "exit",
                        "done"}]
  OBVIOUS
<1>3. todo' \in [Procs -> SUBSET Sids]
  OBVIOUS
<1>4. \A r \in Reqs :
        pc'[r] \in {"insert", "resolved", "found", "remove", "register", "begin", "turn"} => rec[r] \in Sids
  OBVIOUS
<1>5. \A r \in Reqs : pc'[r] # "idle" => kind[r] \in Kinds
  BY DEF Kinds
<1>6. UNCHANGED <<kind, who, rec, listed, alias, acp, creator, ahead, doomed>>
  BY DEF sweep
<1> QED BY <1>1, <1>2, <1>3, <1>4, <1>5, <1>6

LEMMA TypeClosing == ASSUME TypeOKG, Publicity, NEW p \in Procs, Closing(p) PROVE TypeOKG'
<1> USE GatewayAssumption DEF TypeOKG, Procs
<1>1. ASSUME NEW s \in Sids, CloseOne(p, s) PROVE TypeOKG'
  BY <1>1 DEF CloseOne, Publicity, sweep
<1>2. CASE CloseDone(p)
  BY <1>2 DEF CloseDone, Goto, pool, sweep
<1> QED BY <1>1, <1>2 DEF Closing

LEMMA TypeOKGStep == ASSUME GatewayInv, Next PROVE TypeOKG'
<1> USE GatewayAssumption DEF GatewayInv, TypeOKG, Procs, Goto, Kinds
<1>1. ASSUME NEW q \in Reqs, Ask(q) PROVE TypeOKG'
  <2>1. ASSUME NEW k \in {"chat", "responses"}, AskNew(q, k) PROVE TypeOKG'
    BY <2>1, ComesWith DEF AskNew, pool, sweep
  <2>2. ASSUME AskTemporary(q) PROVE TypeOKG'
    BY <2>2, ComesWith DEF AskTemporary, pool, sweep
  <2>3. ASSUME NEW k \in {"chat", "responses", "delete"}, NEW s \in Sids, AskNamed(q, k, s)
        PROVE  TypeOKG'
    BY <2>3, ComesWith DEF AskNamed, pool, sweep
  <2>4. ASSUME NEW p \in Reqs, AskPrevious(q, p) PROVE TypeOKG'
    BY <2>4, ComesWith DEF AskPrevious, pool, sweep
  <2>5. ASSUME AskList(q) PROVE TypeOKG'
    BY <2>5, ComesWith DEF AskList, Expired, sweep
  <2> QED BY <1>1, <2>1, <2>2, <2>3, <2>4, <2>5 DEF Ask
<1>2. ASSUME NEW q \in Reqs, StartFails(q) \/ (\E s \in Sids : StartOk(q, s)) \/ Insert(q)
      PROVE  TypeOKG'
  BY <1>2 DEF StartFails, StartOk, Insert, pool, sweep
<1>3. ASSUME NEW q \in Reqs, GetSession(q) \/ Validate(q) \/ Remove(q) \/ Register(q)
      PROVE  TypeOKG'
  BY <1>3 DEF GetSession, Validate, Remove, Register, pool, sweep, Unlist
<1>4. ASSUME NEW q \in Reqs, Begin(q) \/ End(q) PROVE TypeOKG'
  BY <1>4, TypeTurn
<1>5. ASSUME NEW p \in Procs, Closing(p) PROVE TypeOKG'
  BY <1>5, TypeClosing
<1>6. ASSUME NEW p \in Procs, Sweeping(p) PROVE TypeOKG'
  BY <1>6 DEF Sweeping, Look, Delete, SweepEnds, SweepHolds, Unlist, pool, sweep
<1>7. ASSUME Sweep \/ JanitorExit \/ Drain \/ CloseRuntime \/ \E s \in Sids : Expire(s)
      PROVE  TypeOKG'
  <2>1. ASSUME Drain PROVE TypeOKG'
    BY <2>1 DEF Drain, sweep
  <2>2. ASSUME CloseRuntime PROVE TypeOKG'
    <3>1. todo' \in [Procs -> SUBSET Sids]
      BY <2>2 DEF CloseRuntime
    <3>2. pc' = [pc EXCEPT ![Main] = "exit"]
      BY <2>2 DEF CloseRuntime
    <3>3. UNCHANGED <<kind, who, rec, listed, alias, acp, creator, busy, stale, ahead, doomed>>
      BY <2>2 DEF CloseRuntime, sweep
    <3> QED BY <3>1, <3>2, <3>3
  <2>3. ASSUME NEW s \in Sids, Expire(s) PROVE TypeOKG'
    BY <2>3 DEF Expire, sweep
  <2>4. ASSUME Sweep \/ JanitorExit PROVE TypeOKG'
    BY <2>4 DEF Sweep, JanitorExit, Expired, pool, sweep
  <2> QED BY <1>7, <2>1, <2>2, <2>3, <2>4
<1> QED BY <1>1, <1>2, <1>3, <1>4, <1>5, <1>6, <1>7 DEF Next, Handle

\* Each phase is entered from the right one, and a goroutine takes sessions to
\* close only when it has none left.
LEMMA PhasesStep == ASSUME GatewayInv, Next PROVE Phases'
<1> USE GatewayAssumption DEF GatewayInv, Procs, Goto, TypeOKG, Phases, Kinds
<1>1. ASSUME NEW q \in Reqs, Ask(q) PROVE Phases'
  BY <1>1 DEF AskNew, AskTemporary, AskNamed, AskPrevious, AskList, Ask, Comes, pool, sweep, Expired
<1>2. ASSUME NEW q \in Reqs, StartFails(q) \/ (\E s \in Sids : StartOk(q, s)) \/ Insert(q)
      PROVE  Phases'
  BY <1>2 DEF StartFails, StartOk, Insert, pool, sweep
<1>3. ASSUME NEW q \in Reqs, GetSession(q) \/ Validate(q) \/ Remove(q) \/ Register(q)
      PROVE  Phases'
  BY <1>3 DEF GetSession, Validate, Remove, Register, pool, sweep, Unlist
<1>4. ASSUME NEW q \in Reqs, Begin(q) \/ End(q) PROVE Phases'
  BY <1>4 DEF Begin, End
<1>5. ASSUME NEW p \in Procs, Closing(p) PROVE Phases'
  BY <1>5 DEF CloseOne, CloseDone, Closing, pool, sweep
<1>6. ASSUME NEW p \in Procs, Sweeping(p) PROVE Phases'
  BY <1>6 DEF Sweeping, Look, Delete, SweepEnds, SweepHolds, Unlist, pool, sweep
<1>7. ASSUME Sweep \/ JanitorExit \/ Drain \/ CloseRuntime \/ \E s \in Sids : Expire(s)
      PROVE  Phases'
  BY <1>7 DEF Sweep, JanitorExit, Drain, CloseRuntime, Expire, Expired, pool, sweep
<1> QED BY <1>1, <1>2, <1>3, <1>4, <1>5, <1>6, <1>7 DEF Next, Handle

\* A record is published by its creator's insertion and stays so; a creator of
\* a new session is none of an older one.
LEMMA PublicityStep == ASSUME GatewayInv, Next PROVE Publicity'
<1> USE GatewayAssumption DEF GatewayInv, Procs, Goto, TypeOKG, Phases, Publicity, Published,
   Private, Holds
<1>1. ASSUME NEW q \in Reqs, Ask(q) PROVE Publicity'
  BY <1>1 DEF AskNew, AskTemporary, AskNamed, AskPrevious, AskList, Ask, Comes, pool, sweep, Expired
<1>2. ASSUME NEW q \in Reqs, StartFails(q) \/ (\E s \in Sids : StartOk(q, s)) \/ Insert(q)
      PROVE  Publicity'
  <2>1. ASSUME StartFails(q) PROVE Publicity'
    BY <2>1 DEF StartFails, pool, sweep
  <2>2. ASSUME NEW s \in Sids, StartOk(q, s) PROVE Publicity'
    BY <2>2 DEF StartOk
  <2>3. ASSUME Insert(q) PROVE Publicity'
    BY <2>3 DEF Insert
  <2> QED BY <1>2, <2>1, <2>2, <2>3
<1>3. ASSUME NEW q \in Reqs, GetSession(q) \/ Validate(q) \/ Remove(q) \/ Register(q)
      PROVE  Publicity'
  <2>1. ASSUME GetSession(q) PROVE Publicity'
    BY <2>1 DEF GetSession, pool, sweep
  <2>2. ASSUME Validate(q) PROVE Publicity'
    BY <2>2 DEF Validate, pool, sweep
  <2>3. ASSUME Remove(q) PROVE Publicity'
    BY <2>3 DEF Remove, Unlist
  <2>4. ASSUME Register(q) PROVE Publicity'
    BY <2>4 DEF Register
  <2> QED BY <1>3, <2>1, <2>2, <2>3, <2>4
<1>4. ASSUME NEW q \in Reqs, Begin(q) \/ End(q) PROVE Publicity'
  <2>1. ASSUME Begin(q) PROVE Publicity'
    BY <2>1 DEF Begin
  <2>2. ASSUME End(q) PROVE Publicity'
    BY <2>2 DEF End
  <2> QED BY <1>4, <2>1, <2>2
<1>5. ASSUME NEW p \in Procs, Closing(p) PROVE Publicity'
  BY <1>5 DEF CloseOne, CloseDone, Closing, pool, sweep
<1>6. ASSUME NEW p \in Procs, Sweeping(p) PROVE Publicity'
  BY <1>6 DEF Sweeping, Look, Delete, SweepEnds, SweepHolds, Unlist, pool, sweep
<1>7. ASSUME Sweep \/ JanitorExit \/ Drain \/ CloseRuntime \/ \E s \in Sids : Expire(s)
      PROVE  Publicity'
  BY <1>7 DEF Sweep, JanitorExit, Drain, CloseRuntime, Expire, Expired, pool, sweep
<1> QED BY <1>1, <1>2, <1>3, <1>4, <1>5, <1>6, <1>7 DEF Next, Handle

\* Whoever adds to the map or takes from it does so under the lock that the
\* sweep holds.
LEMMA SweepHoldsStep == ASSUME GatewayInv, Next PROVE SweepHolds'
<1> USE GatewayAssumption DEF GatewayInv, Procs, Goto, TypeOKG, SweepHolds, Locked
<1>1. ASSUME NEW q \in Reqs, Ask(q) PROVE SweepHolds'
  BY <1>1 DEF AskNew, AskTemporary, AskNamed, AskPrevious, AskList, Ask, Comes, pool, sweep, Expired
<1>2. ASSUME NEW q \in Reqs, StartFails(q) \/ (\E s \in Sids : StartOk(q, s)) \/ Insert(q)
      PROVE  SweepHolds'
  BY <1>2 DEF StartFails, StartOk, Insert, pool, sweep
<1>3. ASSUME NEW q \in Reqs, GetSession(q) \/ Validate(q) \/ Remove(q) \/ Register(q)
      PROVE  SweepHolds'
  BY <1>3 DEF GetSession, Validate, Remove, Register, pool, sweep, Unlist
<1>4. ASSUME NEW q \in Reqs, Begin(q) \/ End(q) PROVE SweepHolds'
  BY <1>4 DEF Begin, End, sweep
<1>5. ASSUME NEW p \in Procs, Closing(p) PROVE SweepHolds'
  BY <1>5 DEF CloseOne, CloseDone, Closing, pool, sweep
<1>6. ASSUME NEW p \in Procs, Sweeping(p) PROVE SweepHolds'
  BY <1>6 DEF Sweeping, Look, Delete, SweepEnds, Unlist, pool, sweep
<1>7. ASSUME Sweep \/ JanitorExit \/ Drain \/ CloseRuntime \/ \E s \in Sids : Expire(s)
      PROVE  SweepHolds'
  BY <1>7 DEF Sweep, JanitorExit, Drain, CloseRuntime, Expire, Expired, pool, sweep
<1> QED BY <1>1, <1>2, <1>3, <1>4, <1>5, <1>6, <1>7 DEF Next, Handle

\* Nobody enters or leaves a turn.
LEMMA QuietStep ==
  ASSUME OneTurnPerSession, UNCHANGED busy,
         \A r \in Reqs : pc'[r] = "turn" <=> pc[r] = "turn",
         \A r \in Reqs : pc[r] = "turn" => rec'[r] = rec[r] /\ kind'[r] = kind[r]
  PROVE  OneTurnPerSession'
<1>1. \A r \in Reqs, s \in Sids : Using(r, s)' <=> Using(r, s)
  BY DEF Using
<1>2. \A r \in Reqs, s \in Sids : Using(r, s) => kind'[r] = kind[r]
  BY DEF Using
<1> QED BY <1>1, <1>2 DEF OneTurnPerSession

\* tryBegin excludes a second holder of a published record; a temporary session
\* is in nobody else's hands.
LEMMA OneTurnPerSessionStep == ASSUME GatewayInv, Next PROVE OneTurnPerSession'
<1> USE GatewayAssumption DEF GatewayInv, Procs, Goto, TypeOKG
<1>1. ASSUME NEW q \in Reqs, Ask(q) PROVE OneTurnPerSession'
  BY <1>1, QuietStep DEF AskNew, AskTemporary, AskNamed, AskPrevious, AskList, Ask, Comes, pool, sweep
<1>2. ASSUME NEW q \in Reqs, StartFails(q) \/ Insert(q) PROVE OneTurnPerSession'
  BY <1>2, QuietStep DEF StartFails, Insert, pool, sweep
<1>3. ASSUME NEW q \in Reqs, NEW s \in Sids, StartOk(q, s) PROVE OneTurnPerSession'
  <2>1. CASE kind[q] # "temporary"
    BY <1>3, <2>1, QuietStep DEF StartOk
  <2>2. CASE kind[q] = "temporary"
    <3>1. \A r \in Reqs : pc[r] = "turn" => rec[r] # s
      BY <1>3 DEF StartOk, Publicity, Published, Private, Holds
    <3>2. \A r \in Reqs, d \in Sids : Using(r, d)' <=> Using(r, d) \/ (r = q /\ d = s)
      BY <1>3, <2>2 DEF StartOk, Using
    <3>3. UNCHANGED <<busy, kind>>
      BY <1>3 DEF StartOk
    <3> QED BY <2>2, <3>1, <3>2, <3>3 DEF OneTurnPerSession, Using
  <2> QED BY <2>1, <2>2
<1>4. ASSUME NEW q \in Reqs, GetSession(q) \/ Validate(q) \/ Remove(q) \/ Register(q)
      PROVE OneTurnPerSession'
  BY <1>4, QuietStep DEF GetSession, Validate, Remove, Register, pool, sweep
<1>5. ASSUME NEW q \in Reqs, Begin(q) PROVE OneTurnPerSession'
  <2>1. CASE busy[rec[q]]
    BY <1>5, <2>1, QuietStep DEF Begin
  <2>2. CASE ~busy[rec[q]]
    <3>1. kind[q] # "temporary" /\ rec[q] \in Sids /\ Published(rec[q])
      BY <1>5 DEF Begin, Phases, Publicity, Holds
    <3>2. \A r \in Reqs : ~Using(r, rec[q])
      BY <2>2, <3>1 DEF OneTurnPerSession, Using, Publicity, Published, Private
    <3>3. \A r \in Reqs, d \in Sids : Using(r, d)' <=> Using(r, d) \/ (r = q /\ d = rec[q])
      BY <1>5, <2>2 DEF Begin, Using
    <3>4. UNCHANGED kind /\ \A d \in Sids : busy'[d] <=> busy[d] \/ d = rec[q]
      BY <1>5, <2>2 DEF Begin
    <3> QED BY <3>1, <3>2, <3>3, <3>4 DEF OneTurnPerSession
  <2> QED BY <2>1, <2>2
<1>6. ASSUME NEW q \in Reqs, End(q) PROVE OneTurnPerSession'
  <2>1. Using(q, rec[q]) /\ rec[q] \in Sids
    BY <1>6 DEF End, Using
  <2>2. \A r \in Reqs, d \in Sids : Using(r, d)' <=> Using(r, d) /\ r # q
    BY <1>6 DEF End, Using
  <2>3. UNCHANGED kind
    BY <1>6 DEF End
  <2>4. \A r \in Reqs : Using(r, rec[q]) => r = q
    BY <2>1 DEF OneTurnPerSession
  <2>5. \A d \in Sids \ {rec[q]} : ~Using(q, d)
    BY DEF Using
  <2>6. CASE kind[q] = "temporary"
    <3>1. UNCHANGED busy
      BY <1>6, <2>6 DEF End
    <3> QED BY <2>2, <2>3, <2>6, <3>1 DEF OneTurnPerSession
  <2>7. CASE kind[q] # "temporary"
    <3>1. \A d \in Sids : busy'[d] <=> busy[d] /\ d # rec[q]
      BY <1>6, <2>7 DEF End
    <3> QED BY <2>2, <2>3, <2>4, <2>5, <3>1 DEF OneTurnPerSession
  <2> QED BY <2>6, <2>7
<1>7. ASSUME NEW p \in Procs, Closing(p) PROVE OneTurnPerSession'
  BY <1>7, QuietStep DEF Closing, CloseOne, CloseDone, pool, sweep
<1>8. ASSUME NEW p \in Procs, Sweeping(p) PROVE OneTurnPerSession'
  BY <1>8, QuietStep DEF Sweeping, Look, Delete, SweepEnds, pool, sweep
<1>9. CASE Sweep \/ JanitorExit \/ Drain \/ CloseRuntime \/ \E s \in Sids : Expire(s)
  BY <1>9, QuietStep DEF Sweep, JanitorExit, Drain, CloseRuntime, Expire, pool, sweep
<1> QED BY <1>1, <1>2, <1>3, <1>4, <1>5, <1>6, <1>7, <1>8, <1>9 DEF Next, Handle

\* Whoever takes a session out of the map, or is refused a place in it, has it
\* on the list of those to close.
LEMMA NoneForgottenStep == ASSUME GatewayInv, Next PROVE NoneForgotten'
<1> USE GatewayAssumption DEF GatewayInv, Procs, Goto, TypeOKG, Phases, NoneForgotten
<1>1. ASSUME NEW q \in Reqs, Ask(q) PROVE NoneForgotten'
  BY <1>1 DEF AskNew, AskTemporary, AskNamed, AskPrevious, AskList, Ask, Comes, pool, sweep, Expired
<1>2. ASSUME NEW q \in Reqs, StartFails(q) \/ (\E s \in Sids : StartOk(q, s)) \/ Insert(q)
      PROVE  NoneForgotten'
  BY <1>2 DEF StartFails, StartOk, Insert, pool, sweep
<1>3. ASSUME NEW q \in Reqs, GetSession(q) \/ Validate(q) \/ Remove(q) \/ Register(q)
      PROVE  NoneForgotten'
  BY <1>3 DEF GetSession, Validate, Remove, Register, pool, sweep, Unlist
<1>4. ASSUME NEW q \in Reqs, Begin(q) \/ End(q) PROVE NoneForgotten'
  BY <1>4 DEF Begin, End
<1>5. ASSUME NEW p \in Procs, Closing(p) PROVE NoneForgotten'
  BY <1>5 DEF CloseOne, CloseDone, Closing, pool, sweep
<1>6. ASSUME NEW p \in Procs, Sweeping(p) PROVE NoneForgotten'
  BY <1>6 DEF Sweeping, Look, Delete, SweepEnds, SweepHolds, Unlist, pool, sweep
<1>7. ASSUME Sweep \/ JanitorExit \/ Drain \/ CloseRuntime \/ \E s \in Sids : Expire(s)
      PROVE  NoneForgotten'
  BY <1>7 DEF Sweep, JanitorExit, Drain, CloseRuntime, Expire, Expired, pool, sweep
<1> QED BY <1>1, <1>2, <1>3, <1>4, <1>5, <1>6, <1>7 DEF Next, Handle

\* Only published sessions are taken to be closed, until Runtime.Close.
LEMMA PrivateAreOpenStep == ASSUME GatewayInv, Next PROVE PrivateAreOpen'
<1> USE GatewayAssumption DEF GatewayInv, Procs, Goto, TypeOKG, Phases, Publicity,
   PrivateAreOpen, ListedAreOpen, Published, Private, Holds, Down
<1>1. ASSUME NEW q \in Reqs, Ask(q) PROVE PrivateAreOpen'
  BY <1>1 DEF AskNew, AskTemporary, AskNamed, AskPrevious, AskList, Ask, Comes, pool, sweep, Expired
<1>2. ASSUME NEW q \in Reqs, StartFails(q) \/ (\E s \in Sids : StartOk(q, s)) \/ Insert(q)
      PROVE  PrivateAreOpen'
  BY <1>2 DEF StartFails, StartOk, Insert, pool, sweep
<1>3. ASSUME NEW q \in Reqs, GetSession(q) \/ Validate(q) \/ Remove(q) \/ Register(q)
      PROVE  PrivateAreOpen'
  BY <1>3 DEF GetSession, Validate, Remove, Register, pool, sweep, Unlist
<1>4. ASSUME NEW q \in Reqs, Begin(q) \/ End(q) PROVE PrivateAreOpen'
  BY <1>4 DEF Begin, End
<1>5. ASSUME NEW p \in Procs, Closing(p) PROVE PrivateAreOpen'
  BY <1>5 DEF CloseOne, CloseDone, Closing, pool, sweep
<1>6. ASSUME NEW p \in Procs, Sweeping(p) PROVE PrivateAreOpen'
  BY <1>6 DEF Sweeping, Look, Delete, SweepEnds, SweepHolds, Unlist, pool, sweep
<1>7. ASSUME Sweep \/ JanitorExit \/ Drain \/ CloseRuntime \/ \E s \in Sids : Expire(s)
      PROVE  PrivateAreOpen'
  BY <1>7 DEF Sweep, JanitorExit, Drain, CloseRuntime, Expire, Expired, pool, sweep
<1> QED BY <1>1, <1>2, <1>3, <1>4, <1>5, <1>6, <1>7 DEF Next, Handle

\* A record enters the map open, and is closed only after it has left.
LEMMA ListedAreOpenStep == ASSUME GatewayInv, Next PROVE ListedAreOpen'
<1> USE GatewayAssumption DEF GatewayInv, Procs, Goto, TypeOKG, Phases, Publicity,
   PrivateAreOpen, ListedAreOpen, Published, Private, Holds, Down
<1>1. ASSUME NEW q \in Reqs, Ask(q) PROVE ListedAreOpen'
  BY <1>1 DEF AskNew, AskTemporary, AskNamed, AskPrevious, AskList, Ask, Comes, pool, sweep, Expired
<1>2. ASSUME NEW q \in Reqs, StartFails(q) \/ (\E s \in Sids : StartOk(q, s)) \/ Insert(q)
      PROVE  ListedAreOpen'
  BY <1>2 DEF StartFails, StartOk, Insert, pool, sweep
<1>3. ASSUME NEW q \in Reqs, GetSession(q) \/ Validate(q) \/ Remove(q) \/ Register(q)
      PROVE  ListedAreOpen'
  BY <1>3 DEF GetSession, Validate, Remove, Register, pool, sweep, Unlist
<1>4. ASSUME NEW q \in Reqs, Begin(q) \/ End(q) PROVE ListedAreOpen'
  BY <1>4 DEF Begin, End
<1>5. ASSUME NEW p \in Procs, Closing(p) PROVE ListedAreOpen'
  BY <1>5 DEF CloseOne, CloseDone, Closing, pool, sweep
<1>6. ASSUME NEW p \in Procs, Sweeping(p) PROVE ListedAreOpen'
  BY <1>6 DEF Sweeping, Look, Delete, SweepEnds, SweepHolds, Unlist, pool, sweep
<1>7. ASSUME Sweep \/ JanitorExit \/ Drain \/ CloseRuntime \/ \E s \in Sids : Expire(s)
      PROVE  ListedAreOpen'
  BY <1>7 DEF Sweep, JanitorExit, Drain, CloseRuntime, Expire, Expired, pool, sweep
<1> QED BY <1>1, <1>2, <1>3, <1>4, <1>5, <1>6, <1>7 DEF Next, Handle

\* A request that arrives holds no record yet, and the others keep theirs.
LEMMA ArrivalStep ==
  ASSUME GatewayInv, NEW q \in Reqs, Ask(q)
  PROVE  /\ pc[q] = "idle" /\ UNCHANGED creator
         /\ pc'[q] \notin {"found", "register", "begin", "turn"}
         /\ \A r \in Reqs \ {q} :
              pc'[r] = pc[r] /\ rec'[r] = rec[r] /\ kind'[r] = kind[r] /\ who'[r] = who[r]
<1> USE DEF GatewayInv, TypeOKG, Goto, Procs, Kinds
<1>1. UNCHANGED creator
  BY DEF Ask, AskNew, AskTemporary, AskNamed, AskPrevious, AskList, pool
<1>2. pc[q] = "idle" /\ pc'[q] \notin {"found", "register", "begin", "turn"}
  BY DEF Ask, AskNew, AskTemporary, AskNamed, AskPrevious, AskList
<1>3. \A r \in Reqs \ {q} : pc'[r] = pc[r] /\ rec'[r] = rec[r]
  BY DEF Ask, AskNew, AskTemporary, AskNamed, AskPrevious, AskList
<1>4. \E k \in Kinds : Comes(q, k)
  BY DEF Ask, AskNew, AskTemporary, AskNamed, AskPrevious, AskList
<1> QED BY <1>1, <1>2, <1>3, <1>4, ComesWith

Owns(r) == SameOwner(r, rec[r])
Matches(r) == SameOwner(r, rec[r]) /\ Compatible(r, rec[r])

\* The creator of a record in use is not the request that arrives.
LEMMA MatchingStays ==
  ASSUME GatewayInv, NEW q \in Reqs, Ask(q), NEW r \in Reqs \ {q},
         pc[r] \in {"found", "register", "begin", "turn"}
  PROVE  (Owns(r) => Owns(r)') /\ (Matches(r) => Matches(r)')
<1>1. creator[rec[r]] \in Reqs \ {q}
  <2>1. CASE Holds(r)
    BY <2>1, ArrivalStep DEF GatewayInv, Publicity, Published
  <2>2. CASE ~Holds(r)
    BY <2>2 DEF GatewayInv, Publicity, Holds, Private
  <2> QED BY <2>1, <2>2
<1>2. /\ UNCHANGED creator /\ rec'[r] = rec[r] /\ kind'[r] = kind[r] /\ who'[r] = who[r]
      /\ kind'[creator[rec[r]]] = kind[creator[rec[r]]]
      /\ who'[creator[rec[r]]] = who[creator[rec[r]]]
  BY <1>1, ArrivalStep
<1> QED BY <1>2 DEF Owns, Matches, SameOwner, Compatible, Hash

\* getSession is followed by the owner test.
LEMMA OwnerCheckedStep == ASSUME GatewayInv, Next PROVE OwnerChecked'
<1> USE GatewayAssumption DEF GatewayInv, Procs, Goto, TypeOKG, Phases, Publicity, OwnerChecked,
   Published, Holds, SameOwner
<1>1. ASSUME NEW q \in Reqs, Ask(q) PROVE OwnerChecked'
  <2>1. SUFFICES ASSUME NEW r \in Reqs, pc'[r] \in {"found"} PROVE Owns(r)'
    BY DEF OwnerChecked, Owns
  <2>2. pc[r] = pc'[r] /\ r # q
    BY <1>1, <2>1, ArrivalStep
  <2>3. Owns(r)
    BY <2>1, <2>2 DEF OwnerChecked, Owns
  <2> QED BY <1>1, <2>1, <2>2, <2>3, MatchingStays
<1>2. ASSUME NEW q \in Reqs, StartFails(q) \/ (\E s \in Sids : StartOk(q, s)) \/ Insert(q)
      PROVE  OwnerChecked'
  BY <1>2 DEF StartFails, StartOk, Insert, pool, sweep
<1>3. ASSUME NEW q \in Reqs, GetSession(q) \/ Validate(q) \/ Remove(q) \/ Register(q)
      PROVE  OwnerChecked'
  BY <1>3 DEF GetSession, Validate, Remove, Register, pool, sweep, Unlist
<1>4. ASSUME NEW q \in Reqs, Begin(q) \/ End(q) PROVE OwnerChecked'
  BY <1>4 DEF Begin, End
<1>5. ASSUME NEW p \in Procs, Closing(p) PROVE OwnerChecked'
  BY <1>5 DEF CloseOne, CloseDone, Closing, pool, sweep
<1>6. ASSUME NEW p \in Procs, Sweeping(p) PROVE OwnerChecked'
  BY <1>6 DEF Sweeping, Look, Delete, SweepEnds, SweepHolds, Unlist, pool, sweep
<1>7. ASSUME Sweep \/ JanitorExit \/ Drain \/ CloseRuntime \/ \E s \in Sids : Expire(s)
      PROVE  OwnerChecked'
  BY <1>7 DEF Sweep, JanitorExit, Drain, CloseRuntime, Expire, Expired, pool, sweep
<1> QED BY <1>1, <1>2, <1>3, <1>4, <1>5, <1>6, <1>7 DEF Next, Handle

\* A request reaches a turn by validation, or on the session it created.
LEMMA IsolationStep == ASSUME GatewayInv, Next PROVE Isolation'
<1> USE GatewayAssumption DEF GatewayInv, Procs, Goto, TypeOKG, Phases, Publicity, OwnerChecked,
   Isolation, Published, Private, Holds, SameOwner, Compatible, Hash
<1>1. ASSUME NEW q \in Reqs, Ask(q) PROVE Isolation'
  <2>1. SUFFICES ASSUME NEW r \in Reqs, pc'[r] \in {"register", "begin", "turn"} PROVE Matches(r)'
    BY DEF Isolation, Matches
  <2>2. pc[r] = pc'[r] /\ r # q
    BY <1>1, <2>1, ArrivalStep
  <2>3. Matches(r)
    BY <2>1, <2>2 DEF Isolation, Matches
  <2> QED BY <1>1, <2>1, <2>2, <2>3, MatchingStays
<1>2. ASSUME NEW q \in Reqs, StartFails(q) \/ (\E s \in Sids : StartOk(q, s)) \/ Insert(q)
      PROVE  Isolation'
  BY <1>2 DEF StartFails, StartOk, Insert, pool, sweep
<1>3. ASSUME NEW q \in Reqs, GetSession(q) \/ Validate(q) \/ Remove(q) \/ Register(q)
      PROVE  Isolation'
  BY <1>3 DEF GetSession, Validate, Remove, Register, pool, sweep, Unlist
<1>4. ASSUME NEW q \in Reqs, Begin(q) \/ End(q) PROVE Isolation'
  BY <1>4 DEF Begin, End
<1>5. ASSUME NEW p \in Procs, Closing(p) PROVE Isolation'
  BY <1>5 DEF CloseOne, CloseDone, Closing, pool, sweep
<1>6. ASSUME NEW p \in Procs, Sweeping(p) PROVE Isolation'
  BY <1>6 DEF Sweeping, Look, Delete, SweepEnds, SweepHolds, Unlist, pool, sweep
<1>7. ASSUME Sweep \/ JanitorExit \/ Drain \/ CloseRuntime \/ \E s \in Sids : Expire(s)
      PROVE  Isolation'
  BY <1>7 DEF Sweep, JanitorExit, Drain, CloseRuntime, Expire, Expired, pool, sweep
<1> QED BY <1>1, <1>2, <1>3, <1>4, <1>5, <1>6, <1>7 DEF Next, Handle

LEMMA NextGatewayInv == GatewayInv /\ [Next]_vars => GatewayInv'
<1> SUFFICES ASSUME GatewayInv, [Next]_vars PROVE GatewayInv'
  OBVIOUS
<1>1. CASE Next
  BY <1>1, TypeOKGStep, PhasesStep, PublicityStep, SweepHoldsStep, OneTurnPerSessionStep, NoneForgottenStep,
     PrivateAreOpenStep, ListedAreOpenStep, OwnerCheckedStep, IsolationStep DEF GatewayInv
<1>2. CASE UNCHANGED vars
  BY <1>2 DEF vars, GatewayInv, TypeOKG, Phases, Publicity, OneTurnPerSession, NoneForgotten,
     PrivateAreOpen, ListedAreOpen, OwnerChecked, Isolation, Published, Private, Holds, Using,
     Down, SameOwner, Compatible, Hash, SweepHolds, Locked, sweep
<1> QED BY <1>1, <1>2

\* The invariant of the pool.
THEOREM PoolInvariant == Spec => []GatewayInv
  BY InitGatewayInv, NextGatewayInv, PTL DEF Spec

\* The state of the gateway is well typed in every run.
THEOREM GatewayTyped == Spec => []TypeOKG
  BY PoolInvariant, PTL DEF GatewayInv

\* tryBegin and end allow one turn per session, for any number of requests.
THEOREM OneTurnHolds == Spec => []OneTurnPerSession
  BY PoolInvariant, PTL DEF GatewayInv

\* createPersistentSession, removal, expiry and shutdown lose no session, and
\* until shutdown getSession returns none that is closed or being closed.
THEOREM SessionsAccountedHolds == Spec => []SessionsAccounted
  BY PoolInvariant, PTL DEF GatewayInv, SessionsAccounted

\* validatePersistentSession and creation keep requests to sessions of their
\* owner and fingerprint, and of no other system prompt where both have one.
THEOREM IsolationHolds == Spec => []Isolation
  BY PoolInvariant, PTL DEF GatewayInv

-----------------------------------------------------------------------------
(* The limit.  It needs only that the map is finite and how it grows.      *)

WithinLimit == IsFiniteSet(listed) /\ LimitHolds

\* Nothing but Insert adds to the map.
LEMMA OnlyInsertAdds ==
  ASSUME [Next]_vars PROVE listed' \subseteq listed \/ \E q \in Reqs : Insert(q)
<1>1. ASSUME NEW q \in Reqs, Ask(q) PROVE listed' \subseteq listed
  BY <1>1 DEF Ask, AskNew, AskTemporary, AskNamed, AskPrevious, AskList, Comes, pool, sweep
<1>2. ASSUME NEW q \in Reqs, Handle(q), ~Insert(q) PROVE listed' \subseteq listed
  BY <1>2 DEF Handle, StartFails, StartOk, GetSession, Validate, Remove, Register, Begin, End,
     Unlist, pool
<1>3. ASSUME NEW p \in Procs, Closing(p) PROVE listed' \subseteq listed
  BY <1>3 DEF Closing, CloseOne, CloseDone, pool, sweep
<1>4. ASSUME NEW p \in Procs, Sweeping(p) PROVE listed' \subseteq listed
  BY <1>4 DEF Sweeping, Look, Delete, SweepEnds, Unlist, pool, sweep
<1>5. CASE Sweep \/ JanitorExit \/ Drain \/ CloseRuntime \/ \E s \in Sids : Expire(s)
  BY <1>5 DEF Sweep, JanitorExit, Drain, CloseRuntime, Expire, pool, sweep
<1>6. CASE UNCHANGED vars
  BY <1>6 DEF vars
<1> QED BY <1>1, <1>2, <1>3, <1>4, <1>5, <1>6 DEF Next

LEMMA NextWithinLimit == WithinLimit /\ [Next]_vars => WithinLimit'
<1> SUFFICES ASSUME WithinLimit, [Next]_vars PROVE WithinLimit'
  OBVIOUS
<1> USE GatewayAssumption DEF WithinLimit
<1>0. Cardinality(listed) \in Nat
  BY FS_CardinalityType
<1>1. CASE listed' \subseteq listed
  <2>1. IsFiniteSet(listed') /\ Cardinality(listed') <= Cardinality(listed)
    BY <1>1, FS_Subset
  <2>2. Cardinality(listed') \in Nat
    BY <2>1, FS_CardinalityType
  <2> QED BY <1>0, <2>1, <2>2 DEF LimitHolds
<1>2. ASSUME NEW q \in Reqs, Insert(q) PROVE WithinLimit'
  <2>1. CASE Full
    BY <1>2, <2>1 DEF Insert, LimitHolds
  <2>2. CASE ~Full
    <3>1. listed' = listed \cup {rec[q]}
      BY <1>2, <2>2 DEF Insert
    <3>2. /\ IsFiniteSet(listed')
          /\ Cardinality(listed') = Cardinality(listed) \/ Cardinality(listed') = Cardinality(listed) + 1
      BY <3>1, FS_AddElement
    <3>3. MaxSessions > 0 => Cardinality(listed) < MaxSessions
      BY <1>0, <2>2 DEF Full
    <3> QED BY <1>0, <3>2, <3>3 DEF LimitHolds
  <2> QED BY <2>1, <2>2
<1> QED BY <1>1, <1>2, OnlyInsertAdds

\* createPersistentSession never lets the map exceed MaxSessions.
THEOREM LimitHoldsAlways == Spec => []LimitHolds
<1>1. Init => WithinLimit
  BY GatewayAssumption, FS_EmptySet DEF Init, WithinLimit, LimitHolds
<1>2. WithinLimit => LimitHolds
  BY DEF WithinLimit
<1> QED BY <1>1, <1>2, NextWithinLimit, PTL DEF Spec

-----------------------------------------------------------------------------
(* What goes with a session that leaves the map.                          *)

\* The response ids of whatever is unlisted go under the same lock.
LEMMA Unlisting ==
  ASSUME TypeOKG, [Next]_vars
  PROVE  \/ listed \subseteq listed'
         \/ \E s \in Sids : Unlist({s})
         \/ Drain
<1> DEFINE Goal ==
         \/ listed \subseteq listed'
         \/ \E s \in Sids : Unlist({s})
         \/ Drain
<1>1. ASSUME NEW q \in Reqs, Ask(q) PROVE Goal
  BY <1>1 DEF Ask, AskNew, AskTemporary, AskNamed, AskPrevious, AskList, Comes, pool, sweep
<1>2. ASSUME NEW q \in Reqs, Handle(q) PROVE Goal
  BY <1>2 DEF Handle, StartFails, StartOk, Insert, GetSession, Validate, Remove, Register, Begin,
     End, pool, sweep, TypeOKG
<1>3. ASSUME NEW p \in Procs, Sweeping(p) \/ Closing(p) PROVE Goal
  BY <1>3 DEF Sweeping, Look, Delete, SweepEnds, Closing, CloseOne, CloseDone, pool, sweep, TypeOKG
<1>4. CASE Sweep \/ JanitorExit \/ CloseRuntime \/ \E s \in Sids : Expire(s)
  BY <1>4 DEF Sweep, JanitorExit, CloseRuntime, Expire, pool, sweep
<1>5. CASE UNCHANGED vars
  BY <1>5 DEF vars
<1> QED BY <1>1, <1>2, <1>3, <1>4, <1>5 DEF Next

\* removeResponseAliasesLocked and the drain: a step that takes sessions out of
\* the map leaves no response id that stands for one of them.
THEOREM UnlistingDropsAliasesAlways == Spec => UnlistingDropsAliases
<1>1. TypeOKG /\ [Next]_vars => [\A q \in Reqs : alias'[q] \notin listed \ listed']_vars
  <2> SUFFICES ASSUME TypeOKG, [Next]_vars, NEW q \in Reqs PROVE alias'[q] \notin listed \ listed'
    OBVIOUS
  <2>1. None \notin listed
    BY GatewayAssumption DEF TypeOKG
  <2>2. ASSUME NEW S, Unlist(S) PROVE alias'[q] \notin listed \ listed'
    BY <2>1, <2>2 DEF Unlist
  <2>3. ASSUME Drain PROVE alias'[q] \notin listed
    BY <2>1, <2>3 DEF Drain
  <2> QED BY <2>2, <2>3, Unlisting
<1> QED BY <1>1, GatewayTyped, PTL DEF Spec, UnlistingDropsAliases
=============================================================================
