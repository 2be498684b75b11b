-------------------------- MODULE LifecycleProofs --------------------------
(***************************************************************************)
(* Proofs about Lifecycle: every failure disposes, the reports of a cleanup   *)
(* are true, the registry holds the open sessions that kept their entry, and  *)
(* a clean end leaves no process, for any number of connections over any ids. *)
(***************************************************************************)
EXTENDS Lifecycle, TLAPS

\* A request that is opening its session, one that gives up, a session that ends.
Opening == {"idle", "initialize", "authenticate", "open", "config", "register"}
GivingUp == {"undo", "leave", "dispose", "listed", "undone", "notundone", "left"}
Closing == {"close", "delete", "closing", "deleting", "notdeleting", "ended"}

\* Where a request is says what it has returned and whether its process is
\* being torn down: nobody touches the process of a session still being opened.
Phases ==
    \A c \in Conns :
        /\ pc[c] = "idle" => leader[c] = "none"
        /\ pc[c] \in Opening \cup GivingUp => res[c] = "none"
        /\ pc[c] \in Closing => res[c] = "session"
        /\ pc[c] \in Opening \cup {"undo", "leave"} => stage[c] = "no"
        /\ pc[c] = "ended" => stage[c] # "no"
        /\ res[c] \in {"error", "listed"} =>
              pc[c] = "returned" /\ (leader[c] # "none" => stage[c] # "no")

\* A session was deleted only on the paths that say so.
Deletions ==
    \A c \in Conns :
        /\ pc[c] = "config" => HasMeta(c)
        /\ pc[c] \in {"leave", "left"} => kind[c] = "resume"
        /\ pc[c] = "undone" => c \in deleted
        /\ c \in deleted =>
              \/ pc[c] \in {"undone", "deleting", "ended"}
              \/ (pc[c] = "returned" /\ res[c] = "error")
        /\ status[c] = "succeeded" => c \in deleted
        /\ status[c] = "not_attempted" =>
              kind[c] = "resume" /\ c \notin deleted /\ res[c] = "error"

\* What is in the registry is an open session under its own id, and not in the
\* hands of Runtime.Close, which holds sessions only.
Listing ==
    /\ \A i \in Ids : sessions[i] # None =>
          LET c == sessions[i] IN
          /\ Id[c] = i /\ res[c] = "session" /\ pc[c] = "returned" /\ stage[c] = "no"
          /\ c \notin rtodo /\ c # rcur
    /\ \A c \in rtodo : res[c] = "session"
    /\ rpc \in {"idle", "next", "done"} => rcur = None
    /\ rpc = "idle" => rtodo = {}
    /\ rpc \in {"closing", "disposing"} => rcur \in Conns /\ res[rcur] = "session"

\* A teardown that ended well has seen the process out.
Trees ==
    \A c \in Conns :
        /\ stage[c] = "done" /\ termErr[c] = "nil" => Waited(c)
        /\ ended[c] = "nil" => stage[c] = "done" /\ termErr[c] = "nil"

\* Only a session that the host was given has lost its entry.
LostAreSessions == \A c \in lost : res[c] = "session"

LifeInv == TypeOKL /\ Phases /\ Deletions /\ Listing /\ Trees /\ LostAreSessions /\ OpenIsListed

-----------------------------------------------------------------------------
(* A step of NextL by the action it is.                                      *)

Step ==
    \/ \E c \in Conns :
        \/ Begin(c) \/ BootstrapCall(c) \/ EndCall(c) \/ DisposeCall(c) \/ Register(c)
        \/ \E timedOut \in BOOLEAN : DisposeReturns(c, timedOut)
        \/ TeardownStep(c) /\ Unwatched
        \/ ProcessStep(c) /\ Unwatched
        \/ \E how \in {"close", "delete"} : EndSession(c, how)
    \/ RuntimeClose \/ RuntimeNext \/ RuntimeCall \/ RuntimeDisposes
    \/ \E timedOut \in BOOLEAN : RuntimeDisposed(timedOut)
    \/ UNCHANGED lvars

LEMMA Steps == [NextL]_lvars => Step
  BY DEF NextL, CallerStep, RuntimeStep, Step

LEMMA TypeInit == InitL => TypeOKL
  BY DEF InitL, InitP, TypeOKL

LEMMA TypeStep == TypeOKL /\ Step => TypeOKL'
<1> SUFFICES ASSUME TypeOKL, Step PROVE TypeOKL'
  OBVIOUS
<1> USE LifecycleAssumption DEF TypeOKL
<1>1. CASE \E c \in Conns : Begin(c)
  BY <1>1 DEF Begin, Returns, Goto, Spawn, registry, runtime, pvars
<1>2. CASE \E c \in Conns : BootstrapCall(c)
  BY <1>2 DEF BootstrapCall, Answered, Abandon, Goto, registry, runtime, pvars, Disposing
<1>3. CASE \E c \in Conns : EndCall(c)
  BY <1>3 DEF EndCall, Goto, registry, runtime, pvars, Disposing
<1>4. CASE \E c \in Conns : DisposeCall(c)
  BY <1>4 DEF DisposeCall, StartTeardown, request, registry, runtime
<1>5. CASE \E c \in Conns : Register(c)
  BY <1>5 DEF Register, Namesakes, Returns, Goto, runtime, pvars, Ids
<1>6. CASE \E c \in Conns, timedOut \in BOOLEAN : DisposeReturns(c, timedOut)
  BY <1>6 DEF DisposeReturns, CleanupStatus, Returns, Goto, registry, runtime, pvars
<1>7. CASE \E c \in Conns : TeardownStep(c) /\ Unwatched
  BY <1>7 DEF TeardownStep, TeardownSeesExit, TeardownTimer, GivesUp, WaitErr, Signalled,
              Unwatched, request, registry, runtime
<1>8. CASE \E c \in Conns : ProcessStep(c) /\ Unwatched
  BY <1>8 DEF ProcessStep, LeaderExits, KidExits, Unwatched, request, registry, runtime
<1>9. CASE \E c \in Conns, how \in {"close", "delete"} : EndSession(c, how)
  BY <1>9 DEF EndSession, Namesakes, Unregistered, Goto, runtime, pvars, Ids
<1>10. CASE RuntimeClose
  BY <1>10 DEF RuntimeClose, Snapshot, request, pvars
<1>11. CASE RuntimeNext
  BY <1>11 DEF RuntimeNext, request, registry, pvars
<1>12. CASE RuntimeCall
  BY <1>12 DEF RuntimeCall, request, registry, pvars
<1>13. CASE RuntimeDisposes
  BY <1>13 DEF RuntimeDisposes, StartTeardown, request, registry, runtime
<1>14. CASE \E timedOut \in BOOLEAN : RuntimeDisposed(timedOut)
  BY <1>14 DEF RuntimeDisposed, request, registry, pvars
<1>15. CASE UNCHANGED lvars
  BY <1>15 DEF lvars, request, registry, runtime, pvars
<1> QED
  BY <1>1, <1>2, <1>3, <1>4, <1>5, <1>6, <1>7, <1>8, <1>9, <1>10, <1>11, <1>12, <1>13, <1>14,
     <1>15 DEF Step

-----------------------------------------------------------------------------
(* Phases.                                                                   *)

LEMMA PhasesInit == InitL => Phases
  BY DEF InitL, InitP, Phases, Opening, GivingUp, Closing

LEMMA PhasesStep == TypeOKL /\ Phases /\ Listing /\ Step => Phases'
<1> SUFFICES ASSUME TypeOKL, Phases, Listing, Step PROVE Phases'
  OBVIOUS
<1> USE LifecycleAssumption DEF TypeOKL, Phases, Opening, GivingUp, Closing
<1>1. CASE \E c \in Conns : Begin(c)
  BY <1>1 DEF Begin, Returns, Goto, Spawn, pvars
<1>2. CASE \E c \in Conns : BootstrapCall(c)
  BY <1>2 DEF BootstrapCall, Answered, Abandon, Goto, pvars
<1>3. CASE \E c \in Conns : EndCall(c)
  BY <1>3 DEF EndCall, Goto, pvars
<1>4. CASE \E c \in Conns : DisposeCall(c)
  BY <1>4 DEF DisposeCall, StartTeardown, request, Disposing
<1>5. CASE \E c \in Conns : Register(c)
  BY <1>5 DEF Register, Returns, Goto, pvars
<1>6. CASE \E c \in Conns, timedOut \in BOOLEAN : DisposeReturns(c, timedOut)
  BY <1>6 DEF DisposeReturns, DisposeMayReturn, Returns, Goto, Disposing, pvars
<1>7. CASE \E c \in Conns : TeardownStep(c) /\ Unwatched
  BY <1>7 DEF TeardownStep, TeardownSeesExit, TeardownTimer, GivesUp, Unwatched, request
<1>8. CASE \E c \in Conns : ProcessStep(c) /\ Unwatched
  BY <1>8 DEF ProcessStep, LeaderExits, KidExits, Unwatched, request
<1>9. CASE \E c \in Conns, how \in {"close", "delete"} : EndSession(c, how)
  BY <1>9 DEF EndSession, Goto, pvars
<1>10. CASE RuntimeDisposes
  BY <1>10 DEF RuntimeDisposes, StartTeardown, request, Listing
<1>11. CASE UNCHANGED <<leader, stage, pc, res>>
  BY <1>11
<1> QED
  BY <1>1, <1>2, <1>3, <1>4, <1>5, <1>6, <1>7, <1>8, <1>9, <1>10, <1>11
     DEF Step, RuntimeClose, RuntimeNext, RuntimeCall, RuntimeDisposed, lvars, request, pvars

-----------------------------------------------------------------------------
(* Deletions.                                                                *)

LEMMA DeletionsInit == InitL => Deletions
  BY DEF InitL, InitP, Deletions

LEMMA DeletionsStep == TypeOKL /\ Phases /\ Deletions /\ Step => Deletions'
<1> SUFFICES ASSUME TypeOKL, Phases, Deletions, Step PROVE Deletions'
  OBVIOUS
<1> USE DEF TypeOKL, Deletions
<1>1. CASE \E c \in Conns : Begin(c)
  BY <1>1 DEF Begin, Returns, Goto, HasMeta
<1>2. CASE \E c \in Conns : BootstrapCall(c)
  BY <1>2 DEF BootstrapCall, Answered, Abandon, Goto, HasMeta
<1>3. CASE \E c \in Conns : EndCall(c)
  <2>1. PICK c \in Conns : EndCall(c)
    BY <1>3
  <2>2. \A d \in Conns : status[d] = "not_attempted" => d # c
    BY <2>1 DEF EndCall, Phases
  <2>3. \A d \in Conns \ {c} : pc'[d] = pc[d]
    BY <2>1 DEF EndCall, Goto
  <2>4. UNCHANGED <<kind, res, status>> /\ c \notin deleted /\ res[c] # "error"
    BY <2>1 DEF EndCall, Phases, GivingUp, Closing
  <2>5. CASE deleted' = deleted \cup {c} /\ pc'[c] \in {"undone", "deleting"}
    BY <2>2, <2>3, <2>4, <2>5 DEF HasMeta
  <2>6. CASE deleted' = deleted /\ pc'[c] \in {"notundone", "left", "closing", "notdeleting"}
    <3>1. pc'[c] = "left" => pc[c] = "leave"
      BY <2>1 DEF EndCall, Goto
    <3> QED
      BY <2>3, <2>4, <2>6, <3>1 DEF HasMeta
  <2> QED
    BY <2>1, <2>5, <2>6 DEF EndCall, Deletes, Goto
<1>4. CASE \E c \in Conns : Register(c)
  BY <1>4 DEF Register, Returns, Goto, HasMeta, Phases, Opening
<1>5. CASE \E c \in Conns, timedOut \in BOOLEAN : DisposeReturns(c, timedOut)
  <2>1. PICK c \in Conns, timedOut \in BOOLEAN : DisposeReturns(c, timedOut)
    BY <1>5
  <2>2. res[c] \in {"none", "session"} /\ status[c] # "not_attempted"
    BY <2>1 DEF DisposeReturns, Disposing, Phases, GivingUp, Closing
  <2>3. CASE pc[c] \in {"dispose", "listed"}
    BY <2>1, <2>2, <2>3 DEF DisposeReturns, Returns, Goto, HasMeta
  <2>4. CASE pc[c] \in {"undone", "notundone"}
    BY <2>1, <2>2, <2>4 DEF DisposeReturns, CleanupStatus, Returns, Goto, HasMeta
  <2>5. CASE pc[c] = "left"
    BY <2>1, <2>2, <2>5 DEF DisposeReturns, Returns, Goto, HasMeta
  <2>6. CASE pc[c] \in {"closing", "deleting", "notdeleting"}
    BY <2>1, <2>2, <2>6 DEF DisposeReturns, Goto, HasMeta
  <2> QED
    BY <2>1, <2>3, <2>4, <2>5, <2>6 DEF DisposeReturns, Disposing
<1>6. CASE \E c \in Conns, how \in {"close", "delete"} : EndSession(c, how)
  BY <1>6 DEF EndSession, Goto, HasMeta
<1>7. CASE UNCHANGED <<kind, pc, res, status, deleted>>
  BY <1>7 DEF HasMeta
<1> QED
  BY <1>1, <1>2, <1>3, <1>4, <1>5, <1>6, <1>7
     DEF Step, DisposeCall, Unwatched, RuntimeClose, RuntimeNext, RuntimeCall, RuntimeDisposes,
         RuntimeDisposed, lvars, request

-----------------------------------------------------------------------------
(* Listing.                                                                  *)

LEMMA ListingInit == InitL => Listing
  BY DEF InitL, InitP, Listing, Ids

LEMMA ListingStep == TypeOKL /\ Phases /\ Listing /\ Step => Listing'
<1> SUFFICES ASSUME TypeOKL, Phases, Listing, Step PROVE Listing'
  OBVIOUS
<1> USE LifecycleAssumption DEF TypeOKL, Listing
<1>1. CASE \E c \in Conns : Begin(c)
  BY <1>1 DEF Begin, Returns, Goto, Spawn, pvars, registry, runtime, Phases, Opening
<1>2. CASE \E c \in Conns : BootstrapCall(c)
  BY <1>2 DEF BootstrapCall, Answered, Abandon, Goto, pvars, registry, runtime
<1>3. CASE \E c \in Conns : EndCall(c)
  BY <1>3 DEF EndCall, Goto, pvars, registry, runtime
<1>4. CASE \E c \in Conns : DisposeCall(c)
  BY <1>4 DEF DisposeCall, StartTeardown, request, registry, runtime, Disposing
<1>5. CASE \E c \in Conns : Register(c)
  BY <1>5 DEF Register, Returns, Goto, pvars, runtime, Phases, Opening, Ids
<1>6. CASE \E c \in Conns, timedOut \in BOOLEAN : DisposeReturns(c, timedOut)
  BY <1>6 DEF DisposeReturns, Returns, Goto, Disposing, pvars, registry, runtime, Phases, GivingUp, Closing
<1>7. CASE \E c \in Conns : TeardownStep(c) /\ Unwatched
  BY <1>7 DEF TeardownStep, TeardownSeesExit, TeardownTimer, GivesUp, Unwatched, request,
              registry, runtime
<1>8. CASE \E c \in Conns, how \in {"close", "delete"} : EndSession(c, how)
  BY <1>8 DEF EndSession, Unregistered, Goto, pvars, runtime, Ids
<1>9. CASE RuntimeClose
  BY <1>9 DEF RuntimeClose, Snapshot, request, pvars
<1>10. CASE RuntimeNext
  BY <1>10 DEF RuntimeNext, request, registry, pvars
<1>11. CASE RuntimeDisposes
  BY <1>11 DEF RuntimeDisposes, StartTeardown, request, registry, runtime
<1>12. CASE RuntimeCall \/ \E timedOut \in BOOLEAN : RuntimeDisposed(timedOut)
  BY <1>12 DEF RuntimeCall, RuntimeDisposed, request, registry, pvars
<1>13. CASE UNCHANGED <<stage, request, registry, runtime>>
  BY <1>13 DEF request, registry, runtime
<1> QED
  BY <1>1, <1>2, <1>3, <1>4, <1>5, <1>6, <1>7, <1>8, <1>9, <1>10, <1>11, <1>12, <1>13
     DEF Step, ProcessStep, LeaderExits, KidExits, Unwatched, lvars, pvars

-----------------------------------------------------------------------------
(* Trees.                                                                    *)

LEMMA TreesInit == InitL => Trees
  BY DEF InitL, InitP, Trees

LEMMA TreesStep == TypeOKL /\ Phases /\ Trees /\ Step => Trees'
<1> SUFFICES ASSUME TypeOKL, Phases, Trees, Step PROVE Trees'
  OBVIOUS
<1> USE DEF TypeOKL, Trees, Waited
<1>1. CASE \E c \in Conns : Begin(c)
  BY <1>1 DEF Begin, Spawn, pvars, Phases, Opening
<1>2. CASE \E c \in Conns : DisposeCall(c)
  BY <1>2 DEF DisposeCall, StartTeardown
<1>3. CASE \E c \in Conns, timedOut \in BOOLEAN : DisposeReturns(c, timedOut)
  BY <1>3 DEF DisposeReturns, DisposeMayReturn, DisposeErr, pvars
<1>4. CASE \E c \in Conns : TeardownStep(c) /\ Unwatched
  <2>1. PICK c \in Conns : TeardownStep(c)
    BY <1>4
  <2>2. CASE TeardownSeesExit(c)
    BY <1>4, <2>2 DEF TeardownSeesExit, WaitErr, Signalled, Unwatched
  <2>3. CASE TeardownTimer(c)
    BY <1>4, <2>3 DEF TeardownTimer, GivesUp, Signalled, Unwatched
  <2> QED
    BY <2>1, <2>2, <2>3 DEF TeardownStep
<1>5. CASE \E c \in Conns : ProcessStep(c) /\ Unwatched
  BY <1>5 DEF ProcessStep, LeaderExits, KidExits, Unwatched
<1>6. CASE RuntimeDisposes
  BY <1>6 DEF RuntimeDisposes, StartTeardown
<1>7. CASE UNCHANGED <<pvars, ended>>
  BY <1>7 DEF pvars
<1> QED
  BY <1>1, <1>2, <1>3, <1>4, <1>5, <1>6, <1>7
     DEF Step, BootstrapCall, EndCall, Register, EndSession, RuntimeClose, RuntimeNext, RuntimeCall,
         RuntimeDisposed, lvars, pvars

-----------------------------------------------------------------------------
(* OpenIsListed: an entry that another session of the id takes is not put     *)
(* back, and nothing else takes one.                                        *)

LEMMA OpenInit == InitL => OpenIsListed /\ LostAreSessions
  BY DEF InitL, InitP, OpenIsListed, LostAreSessions

LEMMA LostStep == TypeOKL /\ Phases /\ LostAreSessions /\ Step => LostAreSessions'
<1> SUFFICES ASSUME TypeOKL, Phases, LostAreSessions, Step PROVE LostAreSessions'
  OBVIOUS
<1> USE DEF TypeOKL, LostAreSessions
<1>1. \A c \in Conns : res[c] = "session" => res'[c] = "session"
  BY DEF Step, Begin, BootstrapCall, Abandon, EndCall, DisposeCall, Register, DisposeReturns, Returns,
     Goto, Unwatched, EndSession, RuntimeClose, RuntimeNext, RuntimeCall, RuntimeDisposes,
     RuntimeDisposed, lvars, request, Phases, Opening, GivingUp, Closing, Disposing
<1>2. ASSUME NEW c \in Conns, Register(c) PROVE LostAreSessions'
  BY <1>1, <1>2 DEF Register, Namesakes
<1>3. ASSUME NEW c \in Conns, NEW how \in {"close", "delete"}, EndSession(c, how)
      PROVE  LostAreSessions'
  BY <1>1, <1>3 DEF EndSession, Namesakes
<1>4. CASE lost' = lost
  BY <1>1, <1>4
<1> QED
  BY <1>2, <1>3, <1>4
     DEF Step, Begin, BootstrapCall, EndCall, DisposeCall, DisposeReturns, Unwatched, RuntimeClose,
         RuntimeNext, RuntimeCall, RuntimeDisposes, RuntimeDisposed, lvars, registry

LEMMA OpenStep ==
    TypeOKL /\ Phases /\ Listing /\ LostAreSessions /\ OpenIsListed /\ Step => OpenIsListed'
<1> SUFFICES ASSUME TypeOKL, Phases, Listing, LostAreSessions, OpenIsListed, Step
             PROVE  OpenIsListed'
  OBVIOUS
<1> USE LifecycleAssumption DEF TypeOKL, OpenIsListed, Ended
<1>1. CASE \E c \in Conns : Begin(c)
  BY <1>1 DEF Begin, Returns, Goto, Spawn, pvars, registry, runtime, Phases, Opening
<1>2. CASE \E c \in Conns : BootstrapCall(c)
  BY <1>2 DEF BootstrapCall, Answered, Abandon, Goto, pvars, registry, runtime, Phases, Opening
<1>3. CASE \E c \in Conns : EndCall(c)
  BY <1>3 DEF EndCall, Goto, pvars, registry, runtime, Disposing
<1>4. CASE \E c \in Conns : DisposeCall(c)
  BY <1>4 DEF DisposeCall, StartTeardown, request, registry, runtime
<1>5. CASE \E c \in Conns : Register(c)
  BY <1>5 DEF Register, Returns, Goto, pvars, runtime, Phases, Opening, Ids, Namesakes,
              LostAreSessions
<1>6. CASE \E c \in Conns, timedOut \in BOOLEAN : DisposeReturns(c, timedOut)
  BY <1>6 DEF DisposeReturns, DisposeMayReturn, Returns, Goto, Disposing, pvars, registry, runtime,
              Phases, GivingUp
<1>7. CASE \E c \in Conns : TeardownStep(c) /\ Unwatched
  BY <1>7 DEF TeardownStep, TeardownSeesExit, TeardownTimer, GivesUp, Unwatched, request,
              registry, runtime
<1>8. CASE \E c \in Conns, how \in {"close", "delete"} : EndSession(c, how)
  BY <1>8 DEF EndSession, Unregistered, Goto, pvars, runtime, Ids, Namesakes
<1>9. CASE RuntimeClose
  BY <1>9 DEF RuntimeClose, Snapshot, request, pvars, Ids, Listing
<1>10. CASE RuntimeNext
  BY <1>10 DEF RuntimeNext, request, registry, pvars, Listing
<1>11. CASE RuntimeDisposes
  BY <1>11 DEF RuntimeDisposes, StartTeardown, request, registry, runtime
<1>12. CASE \E timedOut \in BOOLEAN : RuntimeDisposed(timedOut)
  BY <1>12 DEF RuntimeDisposed, DisposeMayReturn, request, registry, pvars, Listing
<1>13. CASE UNCHANGED <<stage, pc, res, sessions, lost, rtodo, rcur>>
  BY <1>13
<1> QED
  BY <1>1, <1>2, <1>3, <1>4, <1>5, <1>6, <1>7, <1>8, <1>9, <1>10, <1>11, <1>12, <1>13
     DEF Step, RuntimeCall, ProcessStep, LeaderExits, KidExits, Unwatched, lvars, pvars, request,
         registry, runtime

-----------------------------------------------------------------------------
(* Results.                                                                  *)

LEMMA LifeInvHolds == SpecL => []LifeInv
<1>1. InitL => LifeInv
  BY TypeInit, PhasesInit, DeletionsInit, ListingInit, TreesInit, OpenInit DEF LifeInv
<1>2. LifeInv /\ [NextL]_lvars => LifeInv'
  BY Steps, TypeStep, PhasesStep, DeletionsStep, ListingStep, TreesStep, LostStep, OpenStep DEF LifeInv
<1> QED
  BY <1>1, <1>2, PTL DEF SpecL

\* Type correctness of the life cycle of sessions (runtime.go, session_service.go,
\* stdio.go).
THEOREM LifecycleTypes == SpecL => []TypeOKL
  BY LifeInvHolds, PTL DEF LifeInv

\* A request that returned without a session has begun to tear its process down
\* (the cleanup of Create, Load, Resume, Fork and ListAgentSessions).
THEOREM FailureDisposesHolds == SpecL => []FailureDisposes
<1>1. LifeInv => FailureDisposes
  BY DEF LifeInv, Phases, FailureDisposes
<1> QED
  BY <1>1, LifeInvHolds, PTL

\* RuntimeError.CleanupStatus is "succeeded" only for a session the agent deleted
\* and "not_attempted" only for a resumed one left alone (Create, Resume); the
\* theorem says nothing of "failed".
THEOREM StatusIsTrueHolds == SpecL => []StatusIsTrue
<1>1. LifeInv => StatusIsTrue
  BY DEF LifeInv, Deletions, StatusIsTrue
<1> QED
  BY <1>1, LifeInvHolds, PTL

\* The registry holds live sessions, and of those nobody has ended every one but
\* the ones whose entry another session of their id took (register, unregister,
\* Runtime.Close).
THEOREM RegistryExactHolds == SpecL => []RegistryExact
<1>1. LifeInv => RegistryExact
  BY DEF LifeInv, Listing, ListedIsConnected, RegistryExact
<1> QED
  BY <1>1, LifeInvHolds, PTL

\* A Close or a Delete that returns nil leaves no process of the tree behind
\* (startTeardown, doWait).
THEOREM CleanEndHolds == SpecL => []CleanEndLeavesNoTree
<1>1. LifeInv => CleanEndLeavesNoTree
  BY DEF LifeInv, Trees, Waited, CleanEndLeavesNoTree
<1> QED
  BY <1>1, LifeInvHolds, PTL
=============================================================================
