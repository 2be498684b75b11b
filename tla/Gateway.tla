------------------------------ MODULE Gateway ------------------------------
(* The session pool of the OpenAI gateway (openai/server.go): request        *)
(* handlers, the cleanup ticker and Server.Close share the map of session    *)
(* records (guarded by Server.mu), the busy flag of each record (guarded by  *)
(* the record's own mutex) and the map of response ids.  A step is what runs *)
(* under one lock, or between two blocking calls; a handler holds its record *)
(* from step to step without any lock.                                       *)
(*                                                                           *)
(* Time is the flag stale[s]: "now is after expiresAt".  It may rise at any  *)
(* moment, during a turn too (the time-to-live is a setting, a turn has no   *)
(* limit), and every refresh lowers it.  A data race on expiresAt (it is     *)
(* read at 1003 and 1273 without the record's mutex) reads the old or the    *)
(* new value: After compares one machine word, the monotonic reading.        *)
(* The flag tainted is left out: every caller of end passes false.           *)
(*                                                                           *)
(* Server.mu is held through the loop of cleanupExpired, which takes the     *)
(* mutex of one record after the other; every other section under Server.mu  *)
(* is one step.  Session.Close waits for the agent's answer to session/close *)
(* under a context that never ends.                                          *)
EXTENDS Naturals, FiniteSets

CONSTANTS Reqs,         \* HTTP requests, one goroutine each
          Sids,         \* sessions that can be opened
          Profiles,     \* owner, route (agent, model, cwd) and system prompt
          Asks,         \* the kinds and profiles a request may have (a bound)
          MaxSessions,  \* 0: no limit
          OwnsRuntime,  \* the server made its own Runtime
          Silent,       \* sessions whose agent may leave a request unanswered
          Janitor,      \* the goroutine of cleanupLoop
          Main,         \* the caller of Server.Close
          None

Kinds == {"chat", "responses", "temporary", "delete", "list"}

ASSUME GatewayAssumption ==
  /\ Asks \in [Reqs -> SUBSET (Kinds \X Profiles)]
  /\ MaxSessions \in Nat
  /\ OwnsRuntime \in BOOLEAN
  /\ Silent \subseteq Sids
  /\ Janitor # Main
  /\ {Janitor, Main} \cap Reqs = {}
  /\ None \notin Reqs \cup Sids \cup Kinds

VARIABLES
  pc,       \* where each goroutine is
  kind,     \* what each request asks for
  who,      \* the profile of each request
  rec,      \* the record each request holds
  listed,   \* keys of Server.sessions
  alias,    \* Server.responses; a response id is named by its request
  acp,      \* the agent session behind a record: "none", "open", "closed"
  creator,  \* the request whose context the record was made from
  busy,     \* sessionRecord.busy
  stale,    \* now is after sessionRecord.expiresAt
  todo,     \* sessions a goroutine has taken and still has to close
  ahead,    \* expired records the loop of cleanupExpired has before it
  doomed    \* the record it found idle and deletes next

sweep == <<ahead, doomed>>
vars == <<pc, kind, who, rec, listed, alias, acp, creator, busy, stale, todo, sweep>>
pool == <<listed, alias, acp, creator, busy, stale, todo, sweep>>

Procs == Reqs \cup {Janitor, Main}

(* Server.Close has begun: done is closed, the server context is cancelled.  *)
Down == pc[Main] # "idle"

(* cleanupExpired holds Server.mu.                                           *)
Locked == \E p \in Procs : pc[p] = "sweeping"

(* MaxSessions reached.  Mutation: one too many.                             *)
FullTooLate == MaxSessions > 0 /\ Cardinality(listed) > MaxSessions
Full == MaxSessions > 0 /\ Cardinality(listed) >= MaxSessions

(* The fingerprint: the chat and the responses handler hash different        *)
(* fields, so their fingerprints never agree.                                *)
Hash(q) == <<IF kind[q] = "chat" THEN "chat" ELSE "responses", who[q].route>>

SameOwner(q, s) == who[q].owner = who[creator[s]].owner

Compatible(q, s) ==
  /\ Hash(q) = Hash(creator[s])
  /\ \/ who[q].system = None
     \/ who[creator[s]].system = None
     \/ who[q].system = who[creator[s]].system

(* delete(s.sessions, id) with removeResponseAliasesLocked.                  *)
Unlist(S) ==
  /\ listed' = listed \ S
  /\ alias' = [q \in Reqs |-> IF alias[q] \in S THEN None ELSE alias[q]]

(* The records whose time is over.                                           *)
Expired == {s \in listed : stale[s]}

Goto(p, to) == pc' = [pc EXCEPT ![p] = to]

Init ==
  /\ pc = [p \in Procs |-> "idle"]
  /\ kind = [q \in Reqs |-> None]
  /\ who = [q \in Reqs |-> None]
  /\ rec = [q \in Reqs |-> None]
  /\ listed = {}
  /\ alias = [q \in Reqs |-> None]
  /\ acp = [s \in Sids |-> "none"]
  /\ creator = [s \in Sids |-> None]
  /\ busy = [s \in Sids |-> FALSE]
  /\ stale = [s \in Sids |-> FALSE]
  /\ todo = [p \in Procs |-> {}]
  /\ ahead = {}
  /\ doomed = None

-----------------------------------------------------------------------------
(* A request arrives.                                                        *)

Comes(q, k) ==
  /\ kind' = [kind EXCEPT ![q] = k]
  /\ \E w \in Profiles : <<k, w>> \in Asks[q] /\ who' = [who EXCEPT ![q] = w]

(* createPersistentSession, the first test of the limit; a full pool answers *)
(* 429.                                                                      *)
AskNew(q, k) ==
  /\ pc[q] = "idle"
  /\ ~Locked
  /\ Comes(q, k)
  /\ Goto(q, IF Full THEN "done" ELSE "starting")
  /\ UNCHANGED <<rec, pool>>

(* A request without session: a session of its own, for one turn, with no    *)
(* record and no part in the limit.                                          *)
AskTemporary(q) ==
  /\ pc[q] = "idle"
  /\ Comes(q, "temporary")
  /\ Goto(q, "starting")
  /\ UNCHANGED <<rec, pool>>

(* A request that names a session id, or a DELETE of it.                     *)
AskNamed(q, k, s) ==
  /\ pc[q] = "idle"
  /\ Comes(q, k)
  /\ rec' = [rec EXCEPT ![q] = s]
  /\ Goto(q, "resolved")
  /\ UNCHANGED pool

(* sessionIDForResponse: previous_response_id stands for a session id; an    *)
(* unknown one answers 404.                                                  *)
AskPrevious(q, p) ==
  /\ pc[q] = "idle"
  /\ ~Locked
  /\ Comes(q, "responses")
  /\ rec' = [rec EXCEPT ![q] = alias[p]]
  /\ Goto(q, IF alias[p] = None THEN "done" ELSE "resolved")
  /\ UNCHANGED pool

(* GET of the list runs cleanupExpired in the handler.                       *)
AskList(q) ==
  /\ pc[q] = "idle"
  /\ ~Locked
  /\ Comes(q, "list")
  /\ ahead' = Expired
  /\ Goto(q, IF Expired = {} THEN "done" ELSE "sweeping")
  /\ UNCHANGED <<rec, listed, alias, acp, creator, busy, stale, todo, doomed>>

-----------------------------------------------------------------------------
(* Opening a session.                                                        *)

(* runtime.StartSession fails.  Server.Close cancels the context of          *)
(* persistent starts, which makes this likely, not certain.                  *)
StartFails(q) ==
  /\ pc[q] = "starting"
  /\ Goto(q, "done")
  /\ UNCHANGED <<kind, who, rec, pool>>

StartOk(q, s) ==
  /\ pc[q] = "starting"
  /\ acp[s] = "none"
  /\ acp' = [acp EXCEPT ![s] = "open"]
  /\ creator' = [creator EXCEPT ![s] = q]
  /\ rec' = [rec EXCEPT ![q] = s]
  /\ Goto(q, IF kind[q] = "temporary" THEN "turn" ELSE "insert")
  /\ UNCHANGED <<kind, who, listed, alias, busy, stale, todo, sweep>>

(* Mutation: a refused session is not closed.                                *)
InsertRefused(q) ==
  /\ pc[q] = "insert"
  /\ ~Locked
  /\ Goto(q, IF Full THEN "done" ELSE "begin")
  /\ listed' = IF Full THEN listed ELSE listed \cup {rec[q]}
  /\ UNCHANGED <<kind, who, rec, alias, acp, creator, busy, stale, todo, sweep>>

(* The second test of the limit, and the insertion, under one lock.  Nothing *)
(* here looks at Server.done: a record may be inserted after the drain.      *)
Insert(q) ==
  /\ pc[q] = "insert"
  /\ ~Locked
  /\ IF Full
     THEN /\ todo' = [todo EXCEPT ![q] = {rec[q]}]
          /\ Goto(q, "closing")
          /\ UNCHANGED listed
     ELSE /\ listed' = listed \cup {rec[q]}
          /\ Goto(q, IF kind[q] = "responses" THEN "register" ELSE "begin")
          /\ UNCHANGED todo
  /\ UNCHANGED <<kind, who, rec, alias, acp, creator, busy, stale, sweep>>

-----------------------------------------------------------------------------
(* Using a session.                                                          *)

(* getSession and the owner test of validatePersistentSession and of DELETE. *)
GetSession(q) ==
  /\ pc[q] = "resolved"
  /\ ~Locked
  /\ IF rec[q] \in listed /\ SameOwner(q, rec[q])
     THEN Goto(q, IF kind[q] = "delete" THEN "remove" ELSE "found")
     ELSE Goto(q, "done")
  /\ UNCHANGED <<kind, who, rec, pool>>

(* Mutation: fingerprint and system prompt are not compared.                 *)
ValidateOwner(q) ==
  /\ pc[q] = "found"
  /\ Goto(q, IF stale[rec[q]] THEN "remove" ELSE "begin")
  /\ UNCHANGED <<kind, who, rec, pool>>

(* The rest of validatePersistentSession, on the record it holds: an expired *)
(* session goes to removeSession, whether or not it is busy.  A responses    *)
(* request on a named session may ask not to be stored.                      *)
Validate(q) ==
  /\ pc[q] = "found"
  /\ IF stale[rec[q]]
     THEN Goto(q, "remove")
     ELSE IF ~Compatible(q, rec[q])
     THEN Goto(q, "done")
     ELSE \E to \in IF kind[q] = "responses" THEN {"register", "begin"} ELSE {"begin"} :
            Goto(q, to)
  /\ UNCHANGED <<kind, who, rec, pool>>

(* removeSession, then closeManagedSession outside the lock.                 *)
Remove(q) ==
  /\ pc[q] = "remove"
  /\ ~Locked
  /\ Unlist({rec[q]})
  /\ todo' = [todo EXCEPT ![q] = {rec[q]}]
  /\ Goto(q, "closing")
  /\ UNCHANGED <<kind, who, rec, acp, creator, busy, stale, sweep>>

(* registerResponseSession, without a look at the map of sessions.           *)
Register(q) ==
  /\ pc[q] = "register"
  /\ ~Locked
  /\ alias' = [alias EXCEPT ![q] = rec[q]]
  /\ Goto(q, "begin")
  /\ UNCHANGED <<kind, who, rec, listed, acp, creator, busy, stale, todo, sweep>>

(* Mutation: end is deferred before the test.                                *)
BeginDeferred(q) ==
  /\ pc[q] = "begin"
  /\ Goto(q, IF busy[rec[q]] THEN "done" ELSE "turn")
  /\ busy' = [busy EXCEPT ![rec[q]] = ~@]
  /\ stale' = [stale EXCEPT ![rec[q]] = FALSE]
  /\ UNCHANGED <<kind, who, rec, listed, alias, acp, creator, todo, sweep>>

(* tryBegin; a busy record is refused before end is deferred (the stream     *)
(* paths answer 409, the others turn the error into a 502).                  *)
Begin(q) ==
  /\ pc[q] = "begin"
  /\ IF busy[rec[q]]
     THEN Goto(q, "done") /\ UNCHANGED <<busy, stale>>
     ELSE /\ busy' = [busy EXCEPT ![rec[q]] = TRUE]
          /\ stale' = [stale EXCEPT ![rec[q]] = FALSE]
          /\ Goto(q, "turn")
  /\ UNCHANGED <<kind, who, rec, listed, alias, acp, creator, todo, sweep>>

(* Mutation: end is skipped.                                                 *)
EndStaysBusy(q) ==
  /\ pc[q] = "turn"
  /\ Goto(q, "done")
  /\ stale' = [stale EXCEPT ![rec[q]] = FALSE]
  /\ UNCHANGED <<kind, who, rec, listed, alias, acp, creator, busy, todo, sweep>>

(* Run or the stream returned; the deferred end(false, ttl).  A temporary    *)
(* session is closed instead.                                                *)
End(q) ==
  /\ pc[q] = "turn"
  /\ IF kind[q] = "temporary"
     THEN /\ todo' = [todo EXCEPT ![q] = {rec[q]}]
          /\ Goto(q, "closing")
          /\ UNCHANGED <<busy, stale>>
     ELSE /\ busy' = [busy EXCEPT ![rec[q]] = FALSE]
          /\ stale' = [stale EXCEPT ![rec[q]] = FALSE]
          /\ Goto(q, "done")
          /\ UNCHANGED todo
  /\ UNCHANGED <<kind, who, rec, listed, alias, acp, creator, sweep>>

-----------------------------------------------------------------------------
(* Closing sessions.                                                         *)

(* Session.Close of one taken record; a second close does nothing.           *)
CloseOne(p, s) ==
  /\ s \in todo[p]
  /\ acp' = [acp EXCEPT ![s] = "closed"]
  /\ todo' = [todo EXCEPT ![p] = @ \ {s}]
  /\ UNCHANGED <<pc, kind, who, rec, listed, alias, creator, busy, stale, sweep>>

(* The loop over the taken records is over.                                  *)
CloseDone(p) ==
  /\ pc[p] \in {"closing", "exit"}
  /\ todo[p] = {}
  /\ Goto(p, CASE p = Janitor -> "idle"
               [] p = Main /\ pc[p] = "closing" -> "runtime"
               [] OTHER -> "done")
  /\ UNCHANGED <<kind, who, rec, pool>>

(* cleanupExpired of the ticker; a tick that finds nothing expired does      *)
(* nothing.  Every expiry is tested here, before the look at the records: a  *)
(* turn that begins and ends in between does not save its record, as it does *)
(* not in the code between 1273 and 1278.                                    *)
Sweep ==
  /\ pc[Janitor] = "idle"
  /\ ~Locked
  /\ Expired # {}
  /\ ahead' = Expired
  /\ Goto(Janitor, "sweeping")
  /\ UNCHANGED <<kind, who, rec, listed, alias, acp, creator, busy, stale, todo, doomed>>

(* isBusy of the next record, under the record's mutex; a busy one is kept.  *)
Look(p, s) ==
  /\ pc[p] = "sweeping"
  /\ doomed = None
  /\ s \in ahead
  /\ ahead' = ahead \ {s}
  /\ doomed' = IF busy[s] THEN None ELSE s
  /\ UNCHANGED <<pc, kind, who, rec, listed, alias, acp, creator, busy, stale, todo>>

(* The deletion, with the record's mutex released: a request that holds the  *)
(* record may have begun a turn since.                                       *)
Delete(p) ==
  /\ pc[p] = "sweeping"
  /\ doomed # None
  /\ Unlist({doomed})
  /\ todo' = [todo EXCEPT ![p] = @ \cup {doomed}]
  /\ doomed' = None
  /\ UNCHANGED <<pc, kind, who, rec, acp, creator, busy, stale, ahead>>

(* Server.mu is released; the records that were deleted are closed.          *)
SweepEnds(p) ==
  /\ pc[p] = "sweeping"
  /\ ahead = {}
  /\ doomed = None
  /\ Goto(p, "closing")
  /\ UNCHANGED <<kind, who, rec, pool>>

(* cleanupLoop sees done; a tick that is ready too may win the select.       *)
JanitorExit ==
  /\ pc[Janitor] = "idle"
  /\ Down
  /\ Goto(Janitor, "done")
  /\ UNCHANGED <<kind, who, rec, pool>>

(* Server.Close up to drainSessions.                                         *)
Drain ==
  /\ pc[Main] = "idle"
  /\ ~Locked
  /\ listed' = {}
  /\ alias' = [q \in Reqs |-> None]
  /\ todo' = [todo EXCEPT ![Main] = listed]
  /\ Goto(Main, "closing")
  /\ UNCHANGED <<kind, who, rec, acp, creator, busy, stale, sweep>>

(* Mutation: the runtime is left open.                                       *)
CloseUnregistered ==
  /\ pc[Main] = "runtime"
  /\ Goto(Main, "exit")
  /\ UNCHANGED <<kind, who, rec, pool>>

(* Runtime.Close takes every session registered with the runtime, listed or  *)
(* not.  Session.Close unregisters its session before it asks the agent, so  *)
(* one that already waits for a silent agent may be missing.                 *)
CloseRuntime ==
  /\ pc[Main] = "runtime"
  /\ \E S \in SUBSET {s \in Sids : acp[s] = "open"} :
       /\ \A s \in Sids \ S : acp[s] = "open" => s \in Silent /\ \E p \in Procs : s \in todo[p]
       /\ todo' = [todo EXCEPT ![Main] = IF OwnsRuntime THEN S ELSE {}]
  /\ Goto(Main, "exit")
  /\ UNCHANGED <<kind, who, rec, listed, alias, acp, creator, busy, stale, sweep>>

(* Time passes for the record of an open session.                            *)
Expire(s) ==
  /\ acp[s] = "open"
  /\ kind[creator[s]] # "temporary"
  /\ ~stale[s]
  /\ stale' = [stale EXCEPT ![s] = TRUE]
  /\ UNCHANGED <<pc, kind, who, rec, listed, alias, acp, creator, busy, todo, sweep>>

-----------------------------------------------------------------------------
Ask(q) ==
  \/ \E k \in {"chat", "responses"} : AskNew(q, k)
  \/ AskTemporary(q)
  \/ \E k \in {"chat", "responses", "delete"}, s \in Sids : AskNamed(q, k, s)
  \/ \E p \in Reqs : AskPrevious(q, p)
  \/ AskList(q)

Handle(q) ==
  \/ StartFails(q) \/ (\E s \in Sids : StartOk(q, s)) \/ Insert(q)
  \/ GetSession(q) \/ Validate(q) \/ Remove(q)
  \/ Register(q) \/ Begin(q) \/ End(q)

Sweeping(p) == (\E s \in Sids : Look(p, s)) \/ Delete(p) \/ SweepEnds(p)

Closing(p) == CloseDone(p) \/ \E s \in Sids : CloseOne(p, s)

Next ==
  \/ \E q \in Reqs : Ask(q) \/ Handle(q)
  \/ \E p \in Procs : Sweeping(p) \/ Closing(p)
  \/ Sweep
  \/ JanitorExit
  \/ Drain
  \/ CloseRuntime
  \/ \E s \in Sids : Expire(s)

Spec == Init /\ [][Next]_vars

(* The goroutine has a session to close whose agent need not answer: it may  *)
(* wait there for ever, with the sessions it has not come to.                *)
Waiting(p) == todo[p] \cap Silent # {}

(* A handler goroutine runs, and gets Server.mu in the end although sweeps   *)
(* take it again and again (a sync.Mutex passes to the one that waits); but  *)
(* StartSession may take for ever, and a turn or a close too where the agent *)
(* is silent.  The ticker ticks until Server.Close; time passes.  Nobody has *)
(* to ask or to shut down.                                                   *)
Fairness ==
  /\ \A q \in Reqs :
       SF_vars(pc[q] # "starting" /\ ~(pc[q] = "turn" /\ rec[q] \in Silent) /\ Handle(q))
  /\ \A p \in Procs : WF_vars(Sweeping(p)) /\ WF_vars(~Waiting(p) /\ Closing(p))
  /\ WF_vars(~Down /\ Sweep)
  /\ WF_vars(CloseRuntime)
  /\ \A s \in Sids : WF_vars(Expire(s))

FairSpec == Spec /\ Fairness

-----------------------------------------------------------------------------
(* The type of the state, with the fields that are set in each phase: a      *)
(* handler past its look-up holds a record, and a session has the context it *)
(* was made from.                                                            *)
TypeOKG ==
  /\ pc \in [Procs -> {"idle", "starting", "insert", "resolved", "found", "remove",
                       "register", "begin", "turn", "sweeping", "closing", "runtime", "exit",
                       "done"}]
  /\ kind \in [Reqs -> Kinds \cup {None}]
  /\ who \in [Reqs -> Profiles \cup {None}]
  /\ rec \in [Reqs -> Sids \cup {None}]
  /\ listed \subseteq Sids
  /\ alias \in [Reqs -> Sids \cup {None}]
  /\ acp \in [Sids -> {"none", "open", "closed"}]
  /\ creator \in [Sids -> Reqs \cup {None}]
  /\ busy \in [Sids -> BOOLEAN]
  /\ stale \in [Sids -> BOOLEAN]
  /\ todo \in [Procs -> SUBSET Sids]
  /\ ahead \subseteq Sids
  /\ doomed \in Sids \cup {None}
  /\ \A q \in Reqs : pc[q] # "idle" => kind[q] \in Kinds
  /\ \A q \in Reqs :
       pc[q] \in {"insert", "resolved", "found", "remove", "register", "begin", "turn"} => rec[q] \in Sids
  /\ \A s \in Sids : (creator[s] = None) <=> (acp[s] = "none")

Using(q, s) == pc[q] = "turn" /\ rec[q] = s

(* "Only one turn may run at a time per ACP session; concurrent requests     *)
(* return session_busy" (README.md:126): two requests never run a turn on    *)
(* one session, and busy is up exactly while a turn of the record runs, so a *)
(* rejected request neither clears the flag nor leaves it up.                *)
OneTurnPerSession ==
  \A s \in Sids :
    /\ \A q, r \in Reqs : Using(q, s) /\ Using(r, s) => q = r
    /\ busy[s] <=> \E q \in Reqs : Using(q, s) /\ kind[q] # "temporary"

(* The limit holds although it is tested before the session is started, with *)
(* the lock released in between.                                             *)
LimitHolds == MaxSessions > 0 => Cardinality(listed) <= MaxSessions

(* "so local ACP agent processes do not leak" (README.md:128): an open       *)
(* session is in the map, where expiry and shutdown find it, or in the hands *)
(* of a goroutine that inserts it, uses it for one turn or closes it.        *)
NoneForgotten ==
  \A s \in Sids : acp[s] = "open" =>
    \/ s \in listed
    \/ \E p \in Procs : s \in todo[p]
    \/ \E q \in Reqs : rec[q] = s /\ (pc[q] = "insert" \/ (pc[q] = "turn" /\ kind[q] = "temporary"))

(* Until shutdown the map never offers a session that the gateway has closed *)
(* or is about to close.                                                     *)
ListedAreOpen ==
  ~Down => \A s \in listed : acp[s] = "open" /\ \A p \in Procs : s \notin todo[p]

(* No session is lost and none is offered after its end: the map and the     *)
(* requests that close sessions account for every one the agent keeps open.  *)
SessionsAccounted == NoneForgotten /\ ListedAreOpen

(* "Sessions are isolated by API key/owner, agent, model, cwd, and system    *)
(* prompt hash" (README.md:126), as far as the code keeps it: whichever way  *)
(* a request came by its record, by id, by a response id or by creating it,  *)
(* it runs a turn only on a session of its owner, made by the same handler   *)
(* for the same agent, model and cwd, and not of another system prompt when  *)
(* both the request and the session have one.  A request without a system    *)
(* prompt is let in to a session with any, and the reverse (server.go:1011). *)
Isolation ==
  \A q \in Reqs : pc[q] \in {"register", "begin", "turn"} =>
    SameOwner(q, rec[q]) /\ Compatible(q, rec[q])

(* A step that takes sessions out of the map leaves no response id for them; *)
(* an id registered later, by a request that held the record, may dangle.    *)
UnlistingDropsAliases ==
  [][\A q \in Reqs : alias'[q] \notin listed \ listed']_vars

(* "Never tear down a session mid-turn" (server.go:1276): a session with a   *)
(* turn running leaves the map only by DELETE, by shutdown or by a request   *)
(* that found it expired; never by the sweep of the ticker or of a listing.  *)
(* The code does not keep it: tryBegin needs the record's mutex alone.       *)
SweepSparesBusy ==
  [][\A s \in listed \ listed' : busy[s] =>
       (pc[Main] = "idle" /\ pc'[Main] # "idle") \/ \E q \in Reqs : pc[q] = "remove" /\ rec[q] = s]_vars

(* A session stays open for ever only because an agent does not answer: the  *)
(* one that runs its turn, one that the goroutine closing it waits for, or   *)
(* one that the ticker waits for, so that no sweep comes any more.           *)
Unanswered(s) ==
  \/ \E q \in Reqs : Using(q, s) /\ s \in Silent
  \/ \E p \in Procs : s \in todo[p] /\ Waiting(p)
  \/ Waiting(Janitor)

(* "periodic TTL cleanup [...] trigger cleanup so local ACP agent processes  *)
(* do not leak" (README.md:128), as far as the code keeps it: until shutdown *)
(* every session is closed in the end, also if no request names it again,    *)
(* unless an agent leaves a session/close or a prompt unanswered.            *)
EverySessionCloses ==
  \A s \in Sids : acp[s] = "open" ~> acp[s] = "closed" \/ Down \/ Unanswered(s)

(* "On shutdown, the gateway closes every registered managed ACP session and *)
(* the runtime it created" (README.md:128), as far as the code keeps it: a   *)
(* session that is open before Server.Close has reached the runtime is       *)
(* closed, listed or not, unless Server.Close waits for ever for an agent,   *)
(* or another goroutine does for the agent of this session.                  *)
ShutdownCloses ==
  \A s \in Sids :
    OwnsRuntime /\ pc[Main] \in {"closing", "runtime"} /\ acp[s] = "open" ~>
      \/ acp[s] = "closed"
      \/ Waiting(Main)
      \/ s \in Silent /\ \E p \in Procs : s \in todo[p]
=============================================================================
