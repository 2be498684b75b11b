-------------------------- MODULE ReadModelProofs --------------------------
(***************************************************************************)
(* Proofs about ReadModel for any number of setters, lines, turns, snapshots, *)
(* messages and tools: options that count as current are the agent's, a       *)
(* generation of updates ends once, and a running tool call outlives the      *)
(* finished ones.                                                           *)
(***************************************************************************)
EXTENDS ReadModel, FiniteSetTheorems, SequenceTheorems, TLAPS

Line ==
    [type : {"answer"}, of : Setters, snap : Snapshots \cup {None}]
    \cup [type : {"options"}, snap : Snapshots]
    \cup [type : {"idle", "mode"}]
    \cup [type : {"body"}, msg : MsgIds \cup {None}]
    \cup [type : {"tool"}, msg : {None}, id : Tools, status : {"running", "finished"}]

InFlight == {k \in Setters : spc[k] \notin {"idle", "done"}}

ConfigTypes ==
    /\ agent \in Snapshots /\ wire \in Seq(Line)
    /\ spc \in [Setters -> {"idle", "call", "answered", "applied", "done"}]
    /\ answer \in [Setters -> Snapshots \cup {None}]
    /\ lapsed \subseteq Setters /\ mover \in Setters \cup {None}
    /\ DOMAIN begun = Setters /\ \A k \in Setters : begun[k][1] \in Nat
    /\ options \in Snapshots /\ version \in Nat

\* configChangesPending counts the setters under way.
Counted == IsFiniteSet(InFlight) /\ pending = Cardinality(InFlight)

\* A setter is answered once, unless it had given up, and none that is idle is.
IsAnswer(l) == l.type = "answer"
AwaitedOrLapsed(k) == spc[k] = "call" \/ (k \in lapsed /\ spc[k] \in {"applied", "done"})
AnswersOnce ==
    /\ \A k \in Setters : spc[k] # "idle" /\ k \notin handled => AwaitedOrLapsed(k)
    /\ \A i \in DOMAIN wire : IsAnswer(wire[i]) =>
          AwaitedOrLapsed(wire[i].of) /\ wire[i].of \in handled
    /\ \A i, j \in DOMAIN wire :
          IsAnswer(wire[i]) /\ IsAnswer(wire[j]) /\ wire[i].of = wire[j].of => i = j

\* A setter that found nobody under way, and since which nothing began or was
\* read, is the only one under way.
Undisturbed(k) == begun[k][2] /\ begun[k][1] = version
Alone ==
    \A k \in InFlight :
        begun[k][1] <= version /\ \A j \in InFlight : Undisturbed(k) => j = k

\* Its answer, read or not, is the agent's state unless a notification on the
\* wire says otherwise or a setter that had given up changed it since.
Unread == \E i \in DOMAIN wire : wire[i].type = "options"
Settles == ~Unread /\ ~Strayed
AnswersFresh ==
    /\ \A k \in Setters :
          spc[k] = "answered" /\ answer[k] \in Snapshots /\ Undisturbed(k) /\ Settles
              => answer[k] = agent
    /\ \A i \in DOMAIN wire :
          IsAnswer(wire[i]) /\ spc[wire[i].of] = "call" /\ wire[i].snap \in Snapshots
          /\ Undisturbed(wire[i].of) /\ Settles
              => wire[i].snap = agent

\* The last notification, if no answer follows, is the agent's state.
LastIsAgents ==
    \A i \in DOMAIN wire :
        wire[i].type = "options"
        /\ (\A j \in DOMAIN wire : j > i => wire[j].type \notin {"options", "answer"})
            => wire[i].snap = agent

\* An answer after which no notification was written is of the setter that moved
\* the agent last, or is followed by that one's.
MoverIsOnWire ==
    \A i \in DOMAIN wire :
        IsAnswer(wire[i]) /\ (\A j \in DOMAIN wire : j > i => wire[j].type # "options")
            => \E j \in DOMAIN wire : j >= i /\ IsAnswer(wire[j]) /\ wire[j].of = mover

\* Nothing counts as current while an answer is awaited.
AwaitedIsStale == \A k \in Setters : spc[k] \in {"call", "answered"} => ~current
CurrentIsAgents == current /\ Settles => options = agent

ConfigInv ==
    /\ ConfigTypes /\ Counted /\ AnswersOnce /\ Alone
    /\ AnswersFresh /\ LastIsAgents /\ MoverIsOnWire /\ AwaitedIsStale /\ CurrentIsAgents

ConfigRest ==
    /\ AnswersOnce /\ Alone /\ AnswersFresh /\ LastIsAgents /\ MoverIsOnWire
    /\ AwaitedIsStale /\ CurrentIsAgents

-----------------------------------------------------------------------------
LEMMA ConfigInit == InitR => ConfigInv
<1> SUFFICES ASSUME InitR PROVE ConfigInv
  OBVIOUS
<1> USE DEF InitR
<1>1. ConfigTypes
  BY DEF ConfigTypes
<1>2. Counted
  <2>1. InFlight = {}
    BY DEF InFlight
  <2> QED BY <2>1, FS_EmptySet DEF Counted
<1>3. ConfigRest
  BY DEF ConfigRest, AnswersOnce, Alone, InFlight, AnswersFresh, LastIsAgents, MoverIsOnWire,
     AwaitedIsStale, CurrentIsAgents
<1> QED BY <1>1, <1>2, <1>3 DEF ConfigInv, ConfigRest

LEMMA AnswersTyped ==
    ASSUME ConfigTypes, NEW i \in DOMAIN wire, IsAnswer(wire[i])
    PROVE  wire[i].of \in Setters /\ wire[i].snap \in Snapshots \cup {None}
<1>1. wire[i] \in Line
  BY DEF ConfigTypes
<1> QED BY <1>1 DEF Line, IsAnswer

\* What a line appended or taken does to the wire.
LEMMA Appended ==
    ASSUME NEW l, wire' = Append(wire, l), wire \in Seq(Line)
    PROVE  /\ DOMAIN wire' = DOMAIN wire \cup {Len(wire) + 1}
           /\ \A i \in DOMAIN wire : wire'[i] = wire[i] /\ i < Len(wire) + 1
           /\ wire'[Len(wire) + 1] = l /\ Len(wire) + 1 \notin DOMAIN wire
  OBVIOUS

LEMMA Taken ==
    ASSUME wire \in Seq(Line), wire # <<>>, wire' = Tail(wire)
    PROVE  /\ wire' \in Seq(Line) /\ 1 \in DOMAIN wire /\ Head(wire) = wire[1]
           /\ \A i \in DOMAIN wire' : i + 1 \in DOMAIN wire /\ wire'[i] = wire[i + 1]
           /\ \A i \in DOMAIN wire : i # 1 => i - 1 \in DOMAIN wire' /\ wire'[i - 1] = wire[i]
           /\ DOMAIN wire \subseteq Nat \ {0} /\ DOMAIN wire' \subseteq Nat \ {0}
  OBVIOUS

\* pending after a step of one setter.
LEMMA CountedNext ==
    ASSUME Counted, NEW k, InFlight' = InFlight \cup {k} \/ InFlight' = InFlight \ {k} \/ InFlight' = InFlight,
           InFlight' = InFlight \cup {k} => k \notin InFlight /\ pending' = pending + 1,
           InFlight' = InFlight \ {k} => k \in InFlight /\ pending' = pending - 1,
           InFlight' = InFlight => pending' = pending
    PROVE  Counted'
  BY FS_AddElement, FS_RemoveElement DEF Counted

LEMMA NonePending == Counted => (pending = 0 <=> InFlight = {})
  BY FS_EmptySet DEF Counted

-----------------------------------------------------------------------------
LEMMA ConfigBegin ==
    ASSUME ConfigInv, NEW k \in Setters, BeginConfigChange(k)
    PROVE  ConfigInv'
<1>0. ConfigTypes /\ Counted /\ ConfigRest
  BY DEF ConfigInv, ConfigRest
<1>1. ConfigTypes'
  BY <1>0 DEF BeginConfigChange, ConfigTypes, agentVars
<1>2. InFlight' = InFlight \cup {k} /\ k \notin InFlight
  BY <1>0 DEF BeginConfigChange, ConfigTypes, InFlight
<1>3. Counted'
  BY <1>0, <1>2, CountedNext DEF BeginConfigChange
<1>4. UNCHANGED <<wire, agent, handled, mover, answer, lapsed, options>> /\ version' = version + 1
      /\ ~current'
  BY DEF BeginConfigChange, agentVars
<1>5. /\ spc[k] = "idle" /\ spc'[k] = "call"
      /\ \A j \in Setters : j # k => spc'[j] = spc[j] /\ begun'[j] = begun[j]
  BY <1>0 DEF BeginConfigChange, ConfigTypes
<1>6. begun'[k] = <<version + 1, pending = 0>>
  BY <1>0 DEF BeginConfigChange, ConfigTypes
<1>7. \A i \in DOMAIN wire : IsAnswer(wire[i]) =>
          wire[i].of # k /\ wire[i].of \in Setters
  BY <1>0, <1>5 DEF ConfigTypes, ConfigRest, AnswersOnce, AwaitedOrLapsed, Line, IsAnswer
<1>8. AnswersOnce'
  BY <1>0, <1>4, <1>5, <1>7 DEF ConfigRest, AnswersOnce, AwaitedOrLapsed
<1>9. \A j \in InFlight : ~Undisturbed(j)'
  BY <1>0, <1>2, <1>4, <1>5 DEF ConfigRest, ConfigTypes, Alone, Undisturbed, InFlight
<1>10. Alone'
  <2>1. k \in InFlight' /\ begun'[k][1] = version' /\ (Undisturbed(k)' => InFlight = {})
    <3>1. Undisturbed(k)' => pending = 0
      <4>1. begun'[k][2] = (pending = 0)
        BY <1>6
      <4> QED BY <4>1, Zenon DEF Undisturbed
    <3> QED BY <1>0, <1>2, <1>4, <1>6, <3>1, NonePending
  <2>2. \A j \in InFlight : begun'[j][1] <= version'
    BY <1>0, <1>2, <1>4, <1>5 DEF ConfigRest, Alone, ConfigTypes, InFlight
  <2>3. version' \in Nat
    BY <1>1 DEF ConfigTypes
  <2> QED BY <1>2, <1>9, <2>1, <2>2, <2>3 DEF Alone
<1>11. AnswersFresh'
  <2>1. \A j \in Setters : spc'[j] = "answered" => j \in InFlight
    BY <1>5 DEF InFlight
  <2>2. \A i \in DOMAIN wire : IsAnswer(wire[i]) /\ spc'[wire[i].of] = "call" => wire[i].of \in InFlight
    BY <1>5, <1>7 DEF InFlight
  <2> QED BY <1>4, <1>7, <1>9, <2>1, <2>2 DEF AnswersFresh
<1>12. LastIsAgents' /\ MoverIsOnWire' /\ AwaitedIsStale' /\ CurrentIsAgents'
  BY <1>0, <1>4 DEF ConfigRest, LastIsAgents, MoverIsOnWire, AwaitedIsStale, CurrentIsAgents
<1> QED BY <1>1, <1>3, <1>8, <1>10, <1>11, <1>12 DEF ConfigInv

\* What applying or dropping an answer leaves alone.
LEMMA ConfigApplied ==
    ASSUME ConfigInv, NEW k \in Setters, spc[k] \in {"call", "answered"}, Applied(k),
           UNCHANGED <<agent, wire, handled, mover, version, pending>>,
           lapsed' = lapsed \/ lapsed' = lapsed \cup {k},
           spc[k] = "call" => k \in lapsed',
           options' \in Snapshots
    PROVE  /\ ConfigTypes' /\ Counted' /\ AnswersOnce' /\ Alone' /\ AnswersFresh'
           /\ LastIsAgents' /\ MoverIsOnWire'
           /\ k \in InFlight
           /\ \A j \in Setters : spc'[j] \in {"call", "answered"} =>
                  j \in InFlight /\ j # k /\ spc'[j] = spc[j]
<1>0. ConfigTypes /\ Counted /\ ConfigRest
  BY DEF ConfigInv, ConfigRest
<1>1. /\ spc' = [spc EXCEPT ![k] = "applied"] /\ answer' = [answer EXCEPT ![k] = None]
      /\ begun' = [begun EXCEPT ![k] = <<0, FALSE>>]
  BY DEF Applied
<1>2. /\ spc'[k] = "applied" /\ answer'[k] = None /\ begun'[k] = <<0, FALSE>>
      /\ \A j \in Setters : j # k =>
            spc'[j] = spc[j] /\ answer'[j] = answer[j] /\ begun'[j] = begun[j]
  BY <1>0, <1>1 DEF ConfigTypes
<1>3. ConfigTypes'
  BY <1>0, <1>1, <1>2 DEF ConfigTypes
<1>4. InFlight' = InFlight /\ k \in InFlight
  BY <1>0, <1>2 DEF ConfigTypes, InFlight
<1>5. Counted'
  BY <1>0, <1>4 DEF Counted
<1>6. begun'[k][1] = 0 /\ ~Undisturbed(k)'
  <2>1. begun'[k][1] = 0 /\ begun'[k][2] = FALSE
    BY <1>2
  <2> QED BY <2>1 DEF Undisturbed
<1>7. Alone'
  <2>1. \A j \in InFlight : j # k => begun'[j][1] <= version /\ Undisturbed(j)' = Undisturbed(j)
    BY <1>0, <1>2 DEF ConfigRest, Alone, Undisturbed, InFlight
  <2>2. 0 <= version
    BY <1>0 DEF ConfigTypes
  <2> QED BY <1>0, <1>4, <1>6, <2>1, <2>2 DEF ConfigRest, Alone
<1>8. \A i \in DOMAIN wire : IsAnswer(wire[i]) => wire[i].of \in Setters
  BY <1>0, AnswersTyped
<1>9. AnswersOnce'
  BY <1>0, <1>2, <1>8 DEF ConfigRest, AnswersOnce, AwaitedOrLapsed
<1>10. AnswersFresh'
  <2>1. Settles' => Settles
    BY DEF Settles, Unread, Strayed
  <2>2. \A j \in Setters : j # k => Undisturbed(j)' = Undisturbed(j)
    BY <1>2 DEF Undisturbed
  <2> QED BY <1>0, <1>2, <1>8, <2>1, <2>2 DEF ConfigRest, AnswersFresh
<1>11. LastIsAgents' /\ MoverIsOnWire'
  BY <1>0 DEF ConfigRest, LastIsAgents, MoverIsOnWire
<1>12. \A j \in Setters : spc'[j] \in {"call", "answered"} =>
           j \in InFlight /\ j # k /\ spc'[j] = spc[j]
  BY <1>2 DEF InFlight
<1> QED BY <1>3, <1>4, <1>5, <1>7, <1>9, <1>10, <1>11, <1>12

LEMMA ConfigApply ==
    ASSUME ConfigInv, NEW k \in Setters, ApplyAnswer(k)
    PROVE  ConfigInv'
<1>0. ConfigTypes /\ Counted /\ ConfigRest
  BY DEF ConfigInv, ConfigRest
<1>1. /\ spc[k] = "answered" /\ Applied(k)
      /\ UNCHANGED <<agent, wire, handled, mover, version, pending, lapsed>>
  BY DEF ApplyAnswer, agentVars
<1>2. /\ answer[k] \in Snapshots => options' = answer[k] /\ current' = Fresh(k)
      /\ answer[k] \notin Snapshots => UNCHANGED <<options, current>>
  BY DEF ApplyAnswer
<1>3. options' \in Snapshots
  BY <1>0, <1>2 DEF ConfigTypes
<1>4. /\ ConfigTypes' /\ Counted' /\ AnswersOnce' /\ Alone' /\ AnswersFresh'
      /\ LastIsAgents' /\ MoverIsOnWire' /\ k \in InFlight
      /\ \A j \in Setters : spc'[j] \in {"call", "answered"} =>
            j \in InFlight /\ j # k /\ spc'[j] = spc[j]
  BY <1>1, <1>3, ConfigApplied
<1>5. Undisturbed(k) => \A j \in InFlight : j = k
  BY <1>0, <1>4 DEF ConfigRest, Alone
<1>6. AwaitedIsStale'
  <2>1. CASE answer[k] \in Snapshots
    BY <1>2, <1>4, <1>5, <2>1 DEF AwaitedIsStale, Fresh, Undisturbed
  <2>2. CASE answer[k] \notin Snapshots
    BY <1>0, <1>2, <1>4, <2>2 DEF ConfigRest, AwaitedIsStale
  <2> QED BY <2>1, <2>2
<1>7. CurrentIsAgents'
  <2>1. Settles' => Settles
    BY <1>1 DEF Settles, Unread, Strayed
  <2> QED BY <1>0, <1>1, <1>2, <2>1 DEF ConfigRest, CurrentIsAgents, AnswersFresh, Fresh, Undisturbed
<1> QED BY <1>4, <1>6, <1>7 DEF ConfigInv

LEMMA ConfigGivesUp ==
    ASSUME ConfigInv, NEW k \in Setters, SetterGivesUp(k)
    PROVE  ConfigInv'
<1>0. ConfigTypes /\ Counted /\ ConfigRest
  BY DEF ConfigInv, ConfigRest
<1>1. /\ spc[k] \in {"call", "answered"} /\ Applied(k) /\ lapsed' = lapsed \cup {k}
      /\ UNCHANGED <<agent, wire, handled, mover, version, pending, options, current>>
  BY DEF SetterGivesUp, agentVars
<1>2. options' \in Snapshots /\ k \in lapsed'
  BY <1>0, <1>1 DEF ConfigTypes
<1>3. /\ ConfigTypes' /\ Counted' /\ AnswersOnce' /\ Alone' /\ AnswersFresh'
      /\ LastIsAgents' /\ MoverIsOnWire'
      /\ \A j \in Setters : spc'[j] \in {"call", "answered"} => spc'[j] = spc[j]
  BY <1>1, <1>2, ConfigApplied
<1>4. AwaitedIsStale'
  BY <1>0, <1>1, <1>3 DEF ConfigRest, AwaitedIsStale
<1>5. CurrentIsAgents'
  <2>1. Settles' => Settles
    BY <1>1 DEF Settles, Unread, Strayed
  <2> QED BY <1>0, <1>1, <2>1 DEF ConfigRest, CurrentIsAgents
<1> QED BY <1>3, <1>4, <1>5 DEF ConfigInv

LEMMA ConfigEnd ==
    ASSUME ConfigInv, NEW k \in Setters, EndConfigChange(k)
    PROVE  ConfigInv'
<1>0. ConfigTypes /\ Counted /\ ConfigRest
  BY DEF ConfigInv, ConfigRest
<1>1. /\ spc[k] = "applied" /\ spc' = [spc EXCEPT ![k] = "done"] /\ pending' = pending - 1
      /\ UNCHANGED <<agent, wire, handled, mover, answer, lapsed, begun, version, options, current>>
  BY DEF EndConfigChange, agentVars
<1>2. ConfigTypes'
  BY <1>0, <1>1 DEF ConfigTypes
<1>3. InFlight' = InFlight \ {k} /\ k \in InFlight
  BY <1>0, <1>1 DEF ConfigTypes, InFlight
<1>4. Counted'
  BY <1>0, <1>1, <1>3, CountedNext
<1>5. AnswersOnce' /\ Alone'
  BY <1>0, <1>1, <1>3 DEF ConfigTypes, ConfigRest, AnswersOnce, AwaitedOrLapsed, Alone, Undisturbed, IsAnswer
<1>6. AnswersFresh' /\ LastIsAgents' /\ MoverIsOnWire' /\ AwaitedIsStale' /\ CurrentIsAgents'
  BY <1>0, <1>1 DEF ConfigTypes, ConfigRest, AnswersFresh, LastIsAgents, MoverIsOnWire, AwaitedIsStale,
     CurrentIsAgents, Undisturbed, Settles, Strayed, Unread, IsAnswer
<1> QED BY <1>2, <1>4, <1>5, <1>6 DEF ConfigInv

LEMMA ConfigAnswers ==
    ASSUME ConfigInv, NEW k \in Setters, AgentAnswers(k)
    PROVE  ConfigInv'
<1>0. ConfigTypes /\ Counted /\ ConfigRest
  BY DEF ConfigInv, ConfigRest
<1>1. PICK a \in {agent', None} : wire' = Append(wire, [type |-> "answer", of |-> k, snap |-> a])
  BY DEF AgentAnswers, Write
<1>2. /\ spc[k] # "idle" /\ k \notin handled /\ handled' = handled \cup {k}
      /\ agent' \in Snapshots /\ mover' = k
      /\ UNCHANGED <<spc, answer, lapsed, begun, version, pending, options, current>>
  BY DEF AgentAnswers, config
<1> DEFINE l == [type |-> "answer", of |-> k, snap |-> a]
<1>3. l \in Line /\ IsAnswer(l) /\ l.of = k /\ l.snap = a /\ l.type = "answer"
  BY <1>2 DEF Line, IsAnswer
<1>4. ConfigTypes'
  BY <1>0, <1>1, <1>2, <1>3 DEF ConfigTypes
<1> HIDE DEF l
<1>5. InFlight' = InFlight
  BY <1>2 DEF InFlight
<1>6. Counted'
  BY <1>0, <1>2, <1>5 DEF Counted
<1>7. /\ DOMAIN wire' = DOMAIN wire \cup {Len(wire) + 1}
      /\ \A i \in DOMAIN wire : wire'[i] = wire[i] /\ i < Len(wire) + 1
      /\ wire'[Len(wire) + 1] = l /\ Len(wire) + 1 \notin DOMAIN wire
  BY <1>0, <1>1, Appended DEF ConfigTypes, l
<1>8. AwaitedOrLapsed(k) /\ \A i \in DOMAIN wire : IsAnswer(wire[i]) => wire[i].of # k /\ wire[i].of \in Setters
  BY <1>0, <1>2, AnswersTyped DEF ConfigRest, AnswersOnce
<1>9. \A j : AwaitedOrLapsed(j)' = AwaitedOrLapsed(j)
  BY <1>2 DEF AwaitedOrLapsed
<1>10. AnswersOnce'
  BY <1>0, <1>2, <1>3, <1>7, <1>8, <1>9 DEF ConfigRest, AnswersOnce
<1>11. Alone' /\ AwaitedIsStale'
  BY <1>0, <1>2, <1>5 DEF ConfigRest, Alone, AwaitedIsStale, Undisturbed
<1>12. Settles' => spc[k] = "call" /\ k \in InFlight
  BY <1>2, <1>8 DEF Settles, Strayed, AwaitedOrLapsed, InFlight
<1>13. \A j \in InFlight : Settles' /\ Undisturbed(j) => j = k
  BY <1>0, <1>12 DEF ConfigRest, Alone
<1>14. AnswersFresh'
  <2>1. \A j \in Setters : spc[j] = "answered" => j \in InFlight
    BY DEF InFlight
  <2>2. \A i \in DOMAIN wire : IsAnswer(wire[i]) /\ spc[wire[i].of] = "call" => wire[i].of \in InFlight
    BY <1>8 DEF InFlight
  <2>3. a \in Snapshots => a = agent'
    BY ReadModelAssumption
  <2>4. \A j : Undisturbed(j)' = Undisturbed(j)
    BY <1>2 DEF Undisturbed
  <2> QED BY <1>2, <1>3, <1>7, <1>8, <1>12, <1>13, <2>1, <2>2, <2>3, <2>4 DEF AnswersFresh
<1>15. LastIsAgents'
  BY <1>3, <1>7 DEF LastIsAgents
<1>16. MoverIsOnWire'
  <2>1. Len(wire) + 1 \in DOMAIN wire' /\ IsAnswer(wire'[Len(wire) + 1]) /\ wire'[Len(wire) + 1].of = mover'
    BY <1>2, <1>3, <1>7
  <2>2. \A i \in DOMAIN wire' : Len(wire) + 1 >= i
    BY <1>0, <1>7 DEF ConfigTypes
  <2> QED BY <2>1, <2>2 DEF MoverIsOnWire
<1>17. CurrentIsAgents'
  BY <1>0, <1>2, <1>12 DEF ConfigRest, AwaitedIsStale, CurrentIsAgents
<1> QED BY <1>4, <1>6, <1>10, <1>11, <1>14, <1>15, <1>16, <1>17 DEF ConfigInv

\* A line that is no answer: a notification brings its own snapshot, any other
\* line leaves the options alone.
LEMMA ConfigLine ==
    ASSUME ConfigInv, NEW l \in Line, wire' = Append(wire, l), ~IsAnswer(l),
           UNCHANGED <<handled, config>>,
           agent' \in Snapshots, l.type = "options" => l.snap = agent' /\ mover' = None,
           l.type # "options" => agent' = agent /\ mover' = mover
    PROVE  ConfigInv'
<1>0. ConfigTypes /\ Counted /\ ConfigRest
  BY DEF ConfigInv, ConfigRest
<1>1. /\ UNCHANGED <<spc, answer, lapsed, begun, version, pending, options, current>>
      /\ InFlight' = InFlight
  BY DEF config, InFlight
<1>2. ConfigTypes' /\ Counted'
  BY <1>0, <1>1 DEF ConfigTypes, Counted
<1>3. /\ DOMAIN wire' = DOMAIN wire \cup {Len(wire) + 1}
      /\ \A i \in DOMAIN wire : wire'[i] = wire[i] /\ i < Len(wire) + 1
      /\ wire'[Len(wire) + 1] = l /\ Len(wire) + 1 \notin DOMAIN wire
  BY <1>0, Appended DEF ConfigTypes
<1>4. AnswersOnce'
  BY <1>0, <1>1, <1>3 DEF ConfigRest, AnswersOnce, AwaitedOrLapsed
<1>5. Alone' /\ AwaitedIsStale'
  BY <1>0, <1>1 DEF ConfigRest, Alone, AwaitedIsStale, Undisturbed
<1>6. Settles' => Settles /\ l.type # "options"
  BY <1>1, <1>3 DEF Settles, Strayed, Unread
<1>7. AnswersFresh' /\ CurrentIsAgents'
  BY <1>0, <1>1, <1>3, <1>6 DEF ConfigRest, AnswersFresh, CurrentIsAgents, Undisturbed
<1>8. LastIsAgents'
  BY <1>0, <1>3 DEF ConfigRest, LastIsAgents, IsAnswer
<1>9. MoverIsOnWire'
  <2> SUFFICES ASSUME NEW i \in DOMAIN wire', IsAnswer(wire'[i]),
                      \A j \in DOMAIN wire' : j > i => wire'[j].type # "options"
               PROVE  \E j \in DOMAIN wire' : j >= i /\ IsAnswer(wire'[j]) /\ wire'[j].of = mover'
    BY DEF MoverIsOnWire
  <2>1. i \in DOMAIN wire /\ IsAnswer(wire[i]) /\ l.type # "options"
    BY <1>3
  <2>2. \A j \in DOMAIN wire : j > i => wire[j].type # "options"
    BY <1>3
  <2>3. PICK j \in DOMAIN wire : j >= i /\ IsAnswer(wire[j]) /\ wire[j].of = mover
    BY <1>0, <2>1, <2>2 DEF ConfigRest, MoverIsOnWire
  <2> QED BY <1>3, <2>1, <2>3
<1> QED BY <1>2, <1>4, <1>5, <1>7, <1>8, <1>9 DEF ConfigInv

LEMMA ConfigRead ==
    ASSUME ConfigInv, ReadUpdate
    PROVE  ConfigInv'
<1>0. ConfigTypes /\ Counted /\ ConfigRest
  BY DEF ConfigInv, ConfigRest
<1> DEFINE l == wire[1]
<1>1. /\ wire' \in Seq(Line) /\ 1 \in DOMAIN wire /\ Head(wire) = wire[1]
      /\ \A i \in DOMAIN wire' : i + 1 \in DOMAIN wire /\ wire'[i] = wire[i + 1]
      /\ \A i \in DOMAIN wire : i # 1 => i - 1 \in DOMAIN wire' /\ wire'[i - 1] = wire[i]
      /\ DOMAIN wire \subseteq Nat \ {0} /\ DOMAIN wire' \subseteq Nat \ {0}
  BY <1>0, Taken DEF ConfigTypes, ReadUpdate
<1>2. FoldConfig(l) /\ UNCHANGED <<agent, handled, mover>> /\ l \in Line
  BY <1>0, <1>1 DEF ReadUpdate, ConfigTypes
<1>3. \A i \in DOMAIN wire : IsAnswer(wire[i]) =>
          /\ wire[i].of \in Setters /\ AwaitedOrLapsed(wire[i].of)
          /\ spc[wire[i].of] = "call" => wire[i].of \in InFlight
  <2>1. \A i \in DOMAIN wire : IsAnswer(wire[i]) => wire[i].of \in Setters
    BY <1>0, AnswersTyped
  <2> QED BY <1>0, <2>1 DEF ConfigRest, AnswersOnce, InFlight
<1>4. l.type # "options" /\ ~Unread' => ~Unread
  BY <1>1 DEF Unread
<1>5. LastIsAgents'
  <2> SUFFICES ASSUME NEW i \in DOMAIN wire', wire'[i].type = "options",
                      \A j \in DOMAIN wire' : j > i => wire'[j].type \notin {"options", "answer"}
               PROVE  wire'[i].snap = agent'
    BY DEF LastIsAgents
  <2>1. \A j \in DOMAIN wire : j > i + 1 => wire[j].type \notin {"options", "answer"}
    <3> SUFFICES ASSUME NEW j \in DOMAIN wire, j > i + 1
                 PROVE  wire[j].type \notin {"options", "answer"}
      OBVIOUS
    <3>1. j - 1 \in DOMAIN wire' /\ wire'[j - 1] = wire[j] /\ j - 1 > i
      BY <1>1
    <3> QED BY <3>1
  <2> QED BY <1>0, <1>1, <1>2, <2>1 DEF ConfigRest, LastIsAgents
<1>9. MoverIsOnWire'
  <2> SUFFICES ASSUME NEW i \in DOMAIN wire', IsAnswer(wire'[i]),
                      \A j \in DOMAIN wire' : j > i => wire'[j].type # "options"
               PROVE  \E j \in DOMAIN wire' : j >= i /\ IsAnswer(wire'[j]) /\ wire'[j].of = mover
    BY <1>2 DEF MoverIsOnWire
  <2>1. \A j \in DOMAIN wire : j > i + 1 => wire[j].type # "options"
    <3> SUFFICES ASSUME NEW j \in DOMAIN wire, j > i + 1 PROVE wire[j].type # "options"
      OBVIOUS
    <3>1. j - 1 \in DOMAIN wire' /\ wire'[j - 1] = wire[j] /\ j - 1 > i
      BY <1>1
    <3> QED BY <3>1
  <2>2. PICK j \in DOMAIN wire : j >= i + 1 /\ IsAnswer(wire[j]) /\ wire[j].of = mover
    BY <1>0, <1>1, <2>1 DEF ConfigRest, MoverIsOnWire
  <2>3. j - 1 \in DOMAIN wire' /\ wire'[j - 1] = wire[j] /\ j - 1 >= i
    BY <1>1, <2>2
  <2> QED BY <2>2, <2>3
<1>10. l.type # "options" /\ Settles' => Settles
  <2>1. UNCHANGED lapsed
    BY <1>2 DEF FoldConfig, config
  <2> QED BY <1>2, <1>4, <2>1 DEF Settles, Strayed
<1> HIDE DEF l
<1>6. CASE IsAnswer(l) /\ spc[l.of] = "call"
  <2>1. /\ spc' = [spc EXCEPT ![l.of] = "answered"] /\ answer' = [answer EXCEPT ![l.of] = l.snap]
        /\ UNCHANGED <<lapsed, begun, options, current, version, pending>>
    BY <1>2, <1>6 DEF FoldConfig, IsAnswer
  <2>2. l.of \in Setters /\ l.snap \in Snapshots \cup {None}
    BY <1>2, <1>6 DEF Line, IsAnswer
  <2>3. spc[l.of] = "call" /\ l.of \in handled
    BY <1>0, <1>1, <1>6 DEF ConfigRest, AnswersOnce, l
  <2>4. ConfigTypes'
    BY <1>0, <1>1, <1>2, <2>1, <2>2 DEF ConfigTypes
  <2>5. InFlight' = InFlight
    BY <1>0, <2>1, <2>2, <2>3 DEF ConfigTypes, InFlight
  <2>6. Counted' /\ Alone' /\ AwaitedIsStale'
    BY <1>0, <2>1, <2>2, <2>3, <2>5 DEF ConfigTypes, ConfigRest, Counted, Alone, AwaitedIsStale, Undisturbed
  <2>7. \A i \in DOMAIN wire' : IsAnswer(wire'[i]) => wire'[i].of # l.of
    BY <1>0, <1>1, <1>6 DEF ConfigRest, AnswersOnce, l
  <2>8. AnswersOnce'
    <3>0. \A k \in Setters : k # l.of => AwaitedOrLapsed(k)' = AwaitedOrLapsed(k) /\ spc'[k] = spc[k]
      BY <1>0, <2>1 DEF ConfigTypes, AwaitedOrLapsed
    <3>1. \A i \in DOMAIN wire' :
              (IsAnswer(wire[i]) => AwaitedOrLapsed(wire[i].of) /\ wire[i].of \in handled)'
      <4> SUFFICES ASSUME NEW i \in DOMAIN wire', IsAnswer(wire'[i])
                   PROVE  (AwaitedOrLapsed(wire[i].of) /\ wire[i].of \in handled)'
        OBVIOUS
      <4>1. /\ wire'[i].of \in Setters /\ wire'[i].of \in handled /\ wire'[i].of # l.of
            /\ AwaitedOrLapsed(wire[i + 1].of) /\ wire[i + 1].of = wire'[i].of
        BY <1>0, <1>1, <1>3, <2>7 DEF ConfigRest, AnswersOnce
      <4> QED BY <1>0, <1>2, <2>1, <4>1 DEF ConfigTypes, AwaitedOrLapsed
    <3>3. \A k \in Setters : spc'[k] # "idle" /\ k \notin handled' => AwaitedOrLapsed(k)'
      BY <1>0, <1>2, <2>3, <3>0 DEF ConfigRest, AnswersOnce
    <3>2. \A i, j \in DOMAIN wire' :
              IsAnswer(wire'[i]) /\ IsAnswer(wire'[j]) /\ wire'[i].of = wire'[j].of => i = j
      BY <1>0, <1>1 DEF ConfigRest, AnswersOnce
    <3> QED BY <3>1, <3>2, <3>3 DEF AnswersOnce
  <2>9. AnswersFresh'
    <3>1. Settles' => Settles
      BY <1>10, <1>6 DEF IsAnswer
    <3>2. \A k \in Setters : Undisturbed(k)' = Undisturbed(k)
      BY <2>1 DEF Undisturbed
    <3>3. \A k \in Setters : k # l.of => spc'[k] = spc[k] /\ answer'[k] = answer[k]
      BY <1>0, <2>1 DEF ConfigTypes
    <3>4. answer'[l.of] = l.snap
      BY <1>0, <2>1, <2>2 DEF ConfigTypes
    <3>5. l.snap \in Snapshots /\ Undisturbed(l.of) /\ Settles => l.snap = agent
      BY <1>0, <1>1, <1>6 DEF ConfigRest, AnswersFresh, l
    <3>6. \A i \in DOMAIN wire' :
              (IsAnswer(wire[i]) /\ spc[wire[i].of] = "call" /\ wire[i].snap \in Snapshots
                  /\ Undisturbed(wire[i].of) /\ Settles => wire[i].snap = agent)'
      BY <1>0, <1>1, <1>2, <1>3, <2>7, <3>1, <3>2, <3>3 DEF ConfigRest, AnswersFresh
    <3>7. \A k \in Setters :
              spc'[k] = "answered" /\ answer'[k] \in Snapshots /\ Undisturbed(k)' /\ Settles'
                  => answer'[k] = agent'
      BY <1>0, <1>2, <3>1, <3>2, <3>3, <3>4, <3>5 DEF ConfigRest, AnswersFresh
    <3> QED BY <3>6, <3>7 DEF AnswersFresh
  <2>10. CurrentIsAgents'
    BY <1>0, <1>2, <1>6, <1>10, <2>1 DEF ConfigRest, CurrentIsAgents, IsAnswer
  <2> QED BY <1>5, <1>9, <2>4, <2>6, <2>8, <2>9, <2>10 DEF ConfigInv
<1>7. CASE l.type \in {"options", "mode"}
  <2>1. /\ version' = version + 1 /\ UNCHANGED <<spc, answer, lapsed, begun, pending>>
        /\ l.type = "options" => options' = l.snap /\ current' = (pending = 0)
        /\ l.type = "mode" => ~current' /\ options' = options
    BY <1>2, <1>7 DEF FoldConfig, Settled
  <2>2. ConfigTypes'
    <3>1. l.type = "options" => l.snap \in Snapshots
      BY <1>2 DEF Line
    <3> QED BY <1>0, <1>1, <1>2, <1>7, <2>1, <3>1 DEF ConfigTypes
  <2>3. InFlight' = InFlight
    BY <2>1 DEF InFlight
  <2>4. \A k \in InFlight : begun[k][1] <= version' /\ ~Undisturbed(k)'
    BY <1>0, <2>1 DEF ConfigTypes, ConfigRest, Alone, Undisturbed, InFlight
  <2>5. Counted' /\ Alone'
    BY <1>0, <2>1, <2>3, <2>4 DEF Counted, Alone
  <2>6. AnswersOnce'
    BY <1>0, <1>1, <1>2, <2>1 DEF ConfigRest, AnswersOnce, AwaitedOrLapsed
  <2>7. AnswersFresh'
    <3>1. \A k \in Setters : spc'[k] = "answered" => k \in InFlight
      BY <2>1 DEF InFlight
    <3>2. \A i \in DOMAIN wire' : IsAnswer(wire'[i]) /\ spc'[wire'[i].of] = "call" => wire'[i].of \in InFlight
      BY <1>1, <1>3, <2>1
    <3> QED BY <2>4, <3>1, <3>2 DEF AnswersFresh
  <2>8. pending = 0 => InFlight = {}
    BY <1>0, NonePending
  <2>9. AwaitedIsStale'
    <3>1. \A k \in Setters : spc'[k] \in {"call", "answered"} => k \in InFlight
      BY <2>1 DEF InFlight
    <3> QED BY <1>7, <2>1, <2>8, <3>1 DEF AwaitedIsStale
  <2>10. CurrentIsAgents'
    <3> SUFFICES ASSUME current', Settles' PROVE options' = agent
      BY <1>2 DEF CurrentIsAgents
    <3>1. l.type = "options" /\ options' = l.snap /\ InFlight = {}
      BY <1>7, <2>1, <2>8
    <3>2. \A j \in DOMAIN wire : j > 1 => wire[j].type \notin {"options", "answer"}
      <4>1. \A j \in DOMAIN wire' : wire'[j].type # "options" /\ mover \notin lapsed
        BY <1>2, <2>1 DEF Settles, Unread, Strayed
      <4>2. \A j \in DOMAIN wire' : IsAnswer(wire'[j]) => wire'[j].of \in lapsed
        BY <1>1, <1>3, <3>1 DEF AwaitedOrLapsed
      <4>3. \A j \in DOMAIN wire' : ~IsAnswer(wire'[j])
        BY <1>2, <1>9, <4>1, <4>2 DEF MoverIsOnWire
      <4>4. \A j \in DOMAIN wire : j > 1 => j - 1 \in DOMAIN wire' /\ wire'[j - 1] = wire[j]
        BY <1>1
      <4> QED BY <4>1, <4>3, <4>4 DEF IsAnswer
    <3> QED BY <1>0, <1>1, <3>1, <3>2 DEF ConfigRest, LastIsAgents, l
  <2> QED BY <1>5, <1>9, <2>2, <2>5, <2>6, <2>7, <2>9, <2>10 DEF ConfigInv
<1>8. CASE \/ l.type \in {"body", "idle", "tool"}
           \/ IsAnswer(l) /\ spc[l.of] # "call"
  <2>1. UNCHANGED <<spc, answer, lapsed, begun, version, pending, options, current>>
    BY <1>2, <1>8 DEF FoldConfig, config, IsAnswer
  <2>2. InFlight' = InFlight /\ (Settles' => Settles)
    BY <1>8, <1>10, <2>1 DEF InFlight, IsAnswer
  <2>3. ConfigTypes' /\ Counted' /\ Alone' /\ AwaitedIsStale' /\ CurrentIsAgents'
    BY <1>0, <1>1, <1>2, <2>1, <2>2 DEF ConfigTypes, ConfigRest, Counted, Alone, AwaitedIsStale,
       CurrentIsAgents, Undisturbed
  <2>4. AnswersOnce'
    <3>1. \A k : AwaitedOrLapsed(k)' = AwaitedOrLapsed(k)
      BY <2>1 DEF AwaitedOrLapsed
    <3>2. \A i \in DOMAIN wire' :
              (IsAnswer(wire[i]) => AwaitedOrLapsed(wire[i].of) /\ wire[i].of \in handled)'
      <4> SUFFICES ASSUME NEW i \in DOMAIN wire', IsAnswer(wire'[i])
                   PROVE  (AwaitedOrLapsed(wire[i].of) /\ wire[i].of \in handled)'
        OBVIOUS
      <4>1. /\ AwaitedOrLapsed(wire[i + 1].of) /\ wire[i + 1].of \in handled
            /\ wire[i + 1].of = wire'[i].of
        BY <1>0, <1>1 DEF ConfigRest, AnswersOnce
      <4> QED BY <1>2, <2>1, <4>1 DEF AwaitedOrLapsed
    <3>3. \A i, j \in DOMAIN wire' :
              IsAnswer(wire'[i]) /\ IsAnswer(wire'[j]) /\ wire'[i].of = wire'[j].of => i = j
      BY <1>0, <1>1 DEF ConfigRest, AnswersOnce
    <3> QED BY <1>0, <1>2, <2>1, <3>1, <3>2, <3>3 DEF ConfigRest, AnswersOnce
  <2>5. AnswersFresh'
    BY <1>0, <1>1, <1>2, <2>1, <2>2 DEF ConfigRest, AnswersFresh, Undisturbed
  <2> QED BY <1>5, <1>9, <2>3, <2>4, <2>5 DEF ConfigInv
<1> QED BY <1>2, <1>6, <1>7, <1>8 DEF Line, IsAnswer

LEMMA ConfigFrame ==
    ASSUME ConfigInv, UNCHANGED <<agent, wire, handled, mover, config>>
    PROVE  ConfigInv'
<1>0. ConfigTypes /\ Counted /\ ConfigRest
  BY DEF ConfigInv, ConfigRest
<1>1. /\ UNCHANGED <<spc, answer, lapsed, begun, options, current, version, pending>>
      /\ InFlight' = InFlight
  BY DEF config, InFlight
<1>2. ConfigTypes' /\ Counted' /\ AnswersOnce'
  BY <1>0, <1>1 DEF ConfigTypes, Counted, ConfigRest, AnswersOnce, AwaitedOrLapsed
<1>3. Alone' /\ AnswersFresh' /\ LastIsAgents' /\ MoverIsOnWire' /\ AwaitedIsStale' /\ CurrentIsAgents'
  BY <1>0, <1>1 DEF ConfigRest, Alone, AnswersFresh, LastIsAgents, MoverIsOnWire, AwaitedIsStale,
     CurrentIsAgents, Undisturbed, Settles, Strayed, Unread
<1> QED BY <1>2, <1>3 DEF ConfigInv

LEMMA ConfigNext == ConfigInv /\ [NextR]_rvars => ConfigInv'
<1> SUFFICES ASSUME ConfigInv, [NextR]_rvars PROVE ConfigInv'
  OBVIOUS
<1>1. ASSUME NEW k \in Setters, SetterStep(k) PROVE ConfigInv'
  BY <1>1, ConfigBegin, ConfigApply, ConfigGivesUp, ConfigEnd DEF SetterStep
<1>2. ASSUME NEW k \in Setters, AgentAnswers(k) PROVE ConfigInv'
  BY <1>2, ConfigAnswers
<1>3. CASE AgentNotifies
  <2> DEFINE l == [type |-> "options", snap |-> agent']
  <2>1. agent' \in Snapshots /\ mover' = None /\ wire' = Append(wire, l) /\ UNCHANGED <<handled, config>>
    BY <1>3 DEF AgentNotifies, Write
  <2>2. l \in Line /\ ~IsAnswer(l) /\ l.type = "options" /\ l.snap = agent'
    BY <2>1 DEF Line, IsAnswer
  <2> HIDE DEF l
  <2> QED BY <2>1, <2>2, ConfigLine
<1>4. CASE AgentStreams
  <2>1. UNCHANGED <<agent, handled, mover, config>>
    BY <1>4 DEF AgentStreams
  <2>2. \E l \in Line : wire' = Append(wire, l) /\ l.type \in {"body", "idle", "mode", "tool"}
    <3>1. CASE \E m \in MsgIds \cup {None} : Write([type |-> "body", msg |-> m])
      <4>1. PICK m \in MsgIds \cup {None} : Write([type |-> "body", msg |-> m])
        BY <3>1
      <4>2. [type |-> "body", msg |-> m] \in Line
        BY DEF Line
      <4> QED BY <4>1, <4>2 DEF Write
    <3>2. CASE Write([type |-> "idle"]) \/ Write([type |-> "mode"])
      <4>1. [type |-> "idle"] \in Line /\ [type |-> "mode"] \in Line
        BY DEF Line
      <4> QED BY <3>2, <4>1 DEF Write
    <3>3. CASE \E t \in Tools, s \in {"running", "finished"} :
                  Write([type |-> "tool", msg |-> None, id |-> t, status |-> s])
      <4>1. PICK t \in Tools, s \in {"running", "finished"} :
                  Write([type |-> "tool", msg |-> None, id |-> t, status |-> s])
        BY <3>3
      <4>2. [type |-> "tool", msg |-> None, id |-> t, status |-> s] \in Line
        BY DEF Line
      <4> QED BY <4>1, <4>2 DEF Write
    <3> QED BY <1>4, <3>1, <3>2, <3>3 DEF AgentStreams
  <2>3. PICK l \in Line : wire' = Append(wire, l) /\ l.type \in {"body", "idle", "mode", "tool"}
    BY <2>2
  <2>4. ~IsAnswer(l) /\ l.type # "options" /\ agent \in Snapshots
    BY <2>3 DEF IsAnswer, ConfigInv, ConfigTypes
  <2> QED BY <2>1, <2>3, <2>4, ConfigLine
<1>5. CASE ReadUpdate
  BY <1>5, ConfigRead
<1>6. CASE Bind \/ LoopSends \/ HostStep
  <2>1. UNCHANGED <<agent, wire, handled, mover, config>>
    BY <1>6 DEF Bind, LoopSends, HostStep, StartTurn, EndTurn, BeginClose, HostSends, HostReceives,
       agentVars
  <2> QED BY <2>1, ConfigFrame
<1>7. CASE UNCHANGED rvars
  BY <1>7, ConfigFrame DEF rvars, agentVars
<1> QED BY <1>1, <1>2, <1>3, <1>4, <1>5, <1>6, <1>7 DEF NextR, LoopStep

\* Options that count as current are the agent's, but for a notification on its
\* way and for a setting the agent applied after its setter's context had ended
\* (session_driver.go 62-63; beginConfigChange, SetAgentConfigOption 413-416).
THEOREM CurrentHolds == SpecR => []CurrentIsExact
<1>1. ConfigInv => CurrentIsExact
  BY DEF ConfigInv, CurrentIsAgents, Settles, Unread, CurrentIsExact
<1> QED BY <1>1, ConfigInit, ConfigNext, PTL DEF SpecR

-----------------------------------------------------------------------------
(* Tool calls.                                                               *)

ToolsCapped ==
    /\ calls \in [Tools -> {"running", "finished", "absent"}]
    /\ IsFiniteSet(Present(calls)) /\ Cardinality(Present(calls)) <= MaxTools

KeptLongest ==
    (\E t \in Tools : calls[t] = "running" /\ calls'[t] = "absent") => FinishedIn(calls') = {}

LEMMA ToolFolded ==
    ASSUME ToolsCapped, NEW l \in Line, FoldTool(l)
    PROVE  ToolsCapped' /\ KeptLongest
<1>1. CASE l.type # "tool"
  BY <1>1 DEF FoldTool, ToolsCapped, KeptLongest
<1>2. CASE l.type = "tool"
  <2> DEFINE m == [calls EXCEPT ![l.id] = l.status]
  <2>1. l.id \in Tools /\ l.status \in {"running", "finished"}
    BY <1>2 DEF Line
  <2>2. PICK gone \in Victims(m) : calls' = Drop(m, gone)
    BY <1>2 DEF FoldTool
  <2>3. /\ m \in [Tools -> {"running", "finished", "absent"}]
        /\ m[l.id] = l.status /\ \A t \in Tools : t # l.id => m[t] = calls[t]
    BY <2>1 DEF ToolsCapped
  <2> HIDE DEF m
  <2>4. Present(m) = Present(calls) \cup {l.id}
    BY <2>1, <2>3 DEF Present
  <2>5. /\ IsFiniteSet(Present(m)) /\ Cardinality(Present(m)) \in Nat
        /\ l.id \in Present(calls) => Cardinality(Present(m)) <= MaxTools
    <3>1. IsFiniteSet(Present(m))
      BY <2>4, FS_AddElement DEF ToolsCapped
    <3>2. Cardinality(Present(m)) \in Nat
      BY <3>1, FS_CardinalityType
    <3>3. l.id \in Present(calls) => Present(m) = Present(calls)
      BY <2>4
    <3> QED BY <3>1, <3>2, <3>3 DEF ToolsCapped
  <2>6. gone \subseteq Present(m) /\ Cardinality(gone) = Over(m)
        /\ (gone \subseteq FinishedIn(m) \/ FinishedIn(m) \subseteq gone)
    BY <2>2 DEF Victims
  <2>7. calls' \in [Tools -> {"running", "finished", "absent"}]
        /\ \A t \in Tools : calls'[t] = IF t \in gone THEN "absent" ELSE m[t]
    BY <2>2, <2>3 DEF Drop
  <2>8. Present(calls') = Present(m) \ gone
    BY <2>3, <2>7 DEF Present
  <2>9. /\ IsFiniteSet(Present(calls'))
        /\ Cardinality(Present(calls')) = Cardinality(Present(m)) - Over(m)
    <3>1. Present(m) \cap gone = gone
      BY <2>6
    <3>2. /\ IsFiniteSet(Present(m) \ gone)
          /\ Cardinality(Present(m) \ gone)
                = Cardinality(Present(m)) - Cardinality(Present(m) \cap gone)
      BY <2>5, FS_Difference
    <3> QED BY <2>6, <2>8, <3>1, <3>2
  <2>10. ToolsCapped'
    <3>1. Cardinality(Present(m)) - Over(m) <= MaxTools
      BY <2>5, ReadModelAssumption DEF Over
    <3> QED BY <2>7, <2>9, <3>1 DEF ToolsCapped
  <2>11. KeptLongest
    <3> SUFFICES ASSUME NEW t \in Tools, calls[t] = "running", calls'[t] = "absent"
                 PROVE  FinishedIn(calls') = {}
      BY DEF KeptLongest
    <3>1. l.id \notin Present(calls)
      <4> SUFFICES ASSUME l.id \in Present(calls) PROVE FALSE
        OBVIOUS
      <4>1. Cardinality(gone) = 0
        BY <2>5, <2>6, ReadModelAssumption DEF Over
      <4>2. gone = {}
        BY <2>5, <2>6, <4>1, FS_Subset, FS_EmptySet
      <4> QED BY <2>1, <2>3, <2>7, <4>2
    <3>2. t # l.id /\ m[t] = "running"
      BY <2>3, <3>1 DEF Present
    <3>3. FinishedIn(m) \subseteq gone
      BY <2>6, <2>7, <3>2 DEF FinishedIn
    <3> QED BY <2>7, <3>3 DEF FinishedIn
  <2> QED BY <2>10, <2>11
<1> QED BY <1>1, <1>2

LEMMA ToolsInit == InitR => ToolsCapped
<1> SUFFICES ASSUME InitR PROVE ToolsCapped
  OBVIOUS
<1>1. calls \in [Tools -> {"running", "finished", "absent"}] /\ Present(calls) = {}
  BY DEF InitR, Present
<1> QED BY <1>1, FS_EmptySet, ReadModelAssumption DEF ToolsCapped

LEMMA ToolsNext == ConfigInv /\ ToolsCapped /\ [NextR]_rvars => ToolsCapped' /\ KeptLongest
<1> SUFFICES ASSUME ConfigInv, ToolsCapped, [NextR]_rvars PROVE ToolsCapped' /\ KeptLongest
  OBVIOUS
<1>1. CASE ReadUpdate
  <2>1. Head(wire) \in Line /\ FoldTool(Head(wire))
    BY <1>1 DEF ConfigInv, ConfigTypes, ReadUpdate
  <2> QED BY <2>1, ToolFolded
<1>2. CASE UNCHANGED calls
  BY <1>2 DEF ToolsCapped, KeptLongest
<1>3. ReadUpdate \/ UNCHANGED calls
  BY DEF NextR, SetterStep, BeginConfigChange, ApplyAnswer, SetterGivesUp, EndConfigChange, AgentAnswers,
     AgentNotifies, AgentStreams, LoopStep, Bind, LoopSends, HostStep, StartTurn, EndTurn, BeginClose,
     HostSends, HostReceives, rvars
<1> QED BY <1>1, <1>2, <1>3

\* A running tool call is forgotten only when no finished one is left
\* (pruneToolCallsLocked).
THEOREM RunningKept == SpecR => RunningKeptLongest
<1>1. KeptLongest => [(\E t \in Tools : calls[t] = "running" /\ calls'[t] = "absent")
                        => FinishedIn(calls') = {}]_rvars
  BY DEF KeptLongest
<1> QED BY <1>1, ConfigInit, ConfigNext, ToolsInit, ToolsNext, PTL DEF SpecR, RunningKeptLongest

-----------------------------------------------------------------------------
(* Generations of updates.                                                   *)

AnyNote == [gen : Nat, terminal : BOOLEAN]

EndOf(g) == Note(g, TRUE)
UpdateOf(g) == Note(g, FALSE)

LEMMA NotesOf ==
    ASSUME NEW g \in Nat
    PROVE  /\ EndOf(g) \in AnyNote /\ EndOf(g).terminal /\ EndOf(g).gen = g
           /\ UpdateOf(g) \in AnyNote /\ ~UpdateOf(g).terminal /\ UpdateOf(g).gen = g
  BY DEF EndOf, UpdateOf, Note, AnyNote

\* What one binding sends: an update, before it the end of the generation it
\* leaves.
GenTypes ==
    /\ gen \in Nat /\ orphan \in 0..gen
    /\ sending \in Seq(AnyNote) /\ owed \in Seq(AnyNote) /\ log \in Seq(AnyNote)
    /\ bound # None => sending = <<>>
    /\ Len(sending) <= 2
    /\ Len(sending) = 2 =>
          sending[1].terminal /\ ~sending[2].terminal /\ sending[1].gen # sending[2].gen

\* A terminal is of a generation that is over and of no other terminal.
Past(n) == n.terminal => n.gen # 0 /\ n.gen # orphan /\ n.gen <= gen
Apart(n, q) == n.terminal /\ q.terminal => n.gen # q.gen
EndsOnce ==
    /\ \A i \in DOMAIN owed :
          /\ owed[i].terminal /\ Past(owed[i])
          /\ \A j \in DOMAIN owed : owed[j].gen = owed[i].gen => j = i
          /\ \A j \in DOMAIN sending : Apart(sending[j], owed[i])
          /\ \A j \in DOMAIN log : Apart(log[j], owed[i])
    /\ \A i \in DOMAIN sending :
          /\ Past(sending[i])
          /\ \A j \in DOMAIN log : Apart(log[j], sending[i])
    /\ \A i \in DOMAIN log : Past(log[i])

\* After a terminal at most one update, and then none waits to be sent.
Straggler(i, j) == i < j /\ log[i].terminal /\ log[j].gen = log[i].gen
Straggle ==
    \A i, j \in DOMAIN log : Straggler(i, j) =>
        /\ ~log[j].terminal
        /\ \A k \in DOMAIN sending : sending[k].gen # log[i].gen
        /\ \A k \in DOMAIN log : Straggler(i, k) => k = j

GenInv == GenTypes /\ EndsOnce /\ Straggle /\ OlderAreClosed

LEMMA GenInit == InitR => GenInv
<1> SUFFICES ASSUME InitR PROVE GenInv
  OBVIOUS
<1> QED BY DEF InitR, GenInv, GenTypes, EndsOnce, Straggle, OlderAreClosed

LEMMA OneNote ==
    ASSUME NEW a \in AnyNote
    PROVE  <<a>> \in Seq(AnyNote) /\ Len(<<a>>) = 1 /\ DOMAIN <<a>> = {1} /\ <<a>>[1] = a
  OBVIOUS

LEMMA TwoNotes ==
    ASSUME NEW a \in AnyNote, NEW b \in AnyNote, NEW s, s = <<a>> \o <<b>>
    PROVE  s \in Seq(AnyNote) /\ Len(s) = 2 /\ DOMAIN s = {1, 2} /\ s[1] = a /\ s[2] = b
<1>1. <<a>> \in Seq(AnyNote) /\ <<b>> \in Seq(AnyNote) /\ Len(<<a>>) = 1 /\ Len(<<b>>) = 1
      /\ <<a>>[1] = a /\ <<b>>[1] = b
  BY OneNote
<1>2. /\ s \in Seq(AnyNote) /\ Len(s) = 2
      /\ \A i \in 1..2 : s[i] = IF i <= 1 THEN <<a>>[i] ELSE <<b>>[i - 1]
  <2>1. /\ s \in Seq(AnyNote) /\ Len(s) = Len(<<a>>) + Len(<<b>>)
        /\ \A i \in 1..(Len(<<a>>) + Len(<<b>>)) :
              s[i] = IF i <= Len(<<a>>) THEN <<a>>[i] ELSE <<b>>[i - Len(<<a>>)]
    BY <1>1, ConcatProperties
  <2> QED BY <1>1, <2>1
<1>3. DOMAIN s = 1..2
  BY <1>2
<1> QED BY <1>1, <1>2, <1>3

LEMMA AppendFacts ==
    ASSUME NEW s \in Seq(AnyNote), NEW e \in AnyNote, NEW r, r = Append(s, e)
    PROVE  /\ r \in Seq(AnyNote) /\ DOMAIN r = DOMAIN s \cup {Len(s) + 1} /\ DOMAIN s \subseteq Nat
           /\ \A i \in DOMAIN s : r[i] = s[i] /\ i < Len(s) + 1
           /\ r[Len(s) + 1] = e /\ Len(s) + 1 \notin DOMAIN s /\ Len(s) + 1 \in Nat
  OBVIOUS

LEMMA GenFrame ==
    ASSUME GenInv, UNCHANGED <<orphan, gen, sending, owed, log, dropped>>,
           bound' = bound \/ sending = <<>>
    PROVE  GenInv'
<1>1. GenTypes'
  BY DEF GenInv, GenTypes
<1>2. EndsOnce' /\ Straggle'
  BY DEF GenInv, EndsOnce, Past, Straggle, Straggler
<1>3. OlderAreClosed'
  BY DEF GenInv, OlderAreClosed, Closing
<1> QED BY <1>1, <1>2, <1>3 DEF GenInv

\* A binding leaves the generation that is open, or not, and opens the next, or not.
LEMMA GenBound ==
    ASSUME GenInv, bound' = None, sending = <<>>, UNCHANGED <<owed, log, dropped>>,
           \/ gen' = gen /\ orphan' \in {0, orphan}
           \/ gen' = gen + 1 /\ orphan' = gen + 1,
           sending' \in Seq(AnyNote), Len(sending') \in {1, 2},
           Len(sending') = 2 =>
               sending'[1].terminal /\ ~sending'[2].terminal /\ sending'[1].gen # sending'[2].gen,
           orphan' \in 0..gen',
           \A i \in DOMAIN sending' :
               /\ sending'[i].gen \in {orphan, orphan', 0}
               /\ sending'[i].terminal => sending'[i].gen = orphan /\ orphan # 0 /\ orphan' # orphan,
           orphan # 0 /\ orphan' # orphan => 1 \in DOMAIN sending' /\ sending'[1] = EndOf(orphan)
    PROVE  GenInv'
<1>0. GenTypes /\ EndsOnce /\ Straggle /\ OlderAreClosed
  BY DEF GenInv
<1>1. gen \in Nat /\ gen' \in Nat /\ orphan \in 0..gen /\ gen <= gen'
  BY <1>0 DEF GenTypes
<1>2. GenTypes'
  <2>0. \A k \in {1, 2} : k <= 2
    OBVIOUS
  <2>1. Len(sending') <= 2 /\ gen' \in Nat /\ orphan' \in 0..gen'
    BY <1>1, <2>0, Zenon
  <2>2. owed' \in Seq(AnyNote) /\ log' \in Seq(AnyNote)
    BY <1>0 DEF GenTypes
  <2> QED BY <2>1, <2>2, Zenon DEF GenTypes
<1>3. \A n : Past(n) /\ n.terminal /\ n.gen \in Nat =>
          n.gen \notin {orphan, orphan', 0} /\ n.gen <= gen'
  BY <1>1 DEF Past
<1>4. /\ \A i \in DOMAIN owed : owed[i].gen \in Nat /\ Past(owed[i]) /\ owed[i].terminal
      /\ \A i \in DOMAIN log : log[i].gen \in Nat /\ Past(log[i])
  <2>1. \A n \in AnyNote : n.gen \in Nat
    BY DEF AnyNote
  <2>2. /\ \A i \in DOMAIN owed : owed[i] \in AnyNote
        /\ \A i \in DOMAIN log : log[i] \in AnyNote
    BY <1>0 DEF GenTypes
  <2> QED BY <1>0, <2>1, <2>2 DEF EndsOnce
<1>5. \A i \in DOMAIN sending' : (Past(sending[i]))'
  BY <1>1 DEF Past
<1>6. EndsOnce'
  <2>1. \A i \in DOMAIN owed : (Past(owed[i]))'
    BY <1>3, <1>4 DEF Past
  <2>2. \A i \in DOMAIN log : (Past(log[i]))'
    BY <1>3, <1>4 DEF Past
  <2>3. \A i \in DOMAIN sending' :
            /\ \A j \in DOMAIN owed : Apart(sending'[i], owed[j])
            /\ \A j \in DOMAIN log : Apart(log[j], sending'[i])
    BY <1>3, <1>4 DEF Apart
  <2> QED BY <1>0, <1>5, <2>1, <2>2, <2>3 DEF EndsOnce
<1>7. Straggle'
  <2>1. \A i, j \in DOMAIN log : Straggler(i, j)' = Straggler(i, j)
    BY DEF Straggler
  <2>2. \A i \in DOMAIN log, k \in DOMAIN sending' :
            log[i].terminal => sending'[k].gen # log[i].gen
    BY <1>3, <1>4
  <2> QED BY <1>0, <2>1, <2>2 DEF Straggle, Straggler
<1>8. OlderAreClosed'
  <2> SUFFICES ASSUME NEW g \in 1..gen', g # orphan' PROVE Closing(g)'
    BY DEF OlderAreClosed
  <2>1. CASE g = orphan
    <3>1. 1 \in DOMAIN sending' /\ sending'[1] = EndOf(g)
      BY <1>1, <2>1
    <3> QED BY <3>1 DEF Closing, EndOf
  <2>2. CASE g # orphan
    <3>1. g \in 1..gen
      BY <1>1
    <3>2. Closing(g) /\ \A i \in DOMAIN sending : FALSE
      BY <1>0, <2>2, <3>1 DEF OlderAreClosed
    <3> QED BY <3>2 DEF Closing
  <2> QED BY <2>1, <2>2
<1> QED BY <1>2, <1>6, <1>7, <1>8 DEF GenInv

LEMMA GenBind == ASSUME GenInv, Bind PROVE GenInv'
<1>0. gen \in Nat /\ orphan \in 0..gen /\ sending = <<>>
  BY DEF GenInv, GenTypes, Bind
<1>1. bound' = None /\ UNCHANGED <<owed, log, dropped>>
  BY DEF Bind
<1>2. orphan \in Nat /\ (gen' = gen + 1 => gen' \in Nat)
  BY <1>0
<1>3. CASE orphan # 0 /\ orphan' = 0 /\ gen' = gen /\ sending' = <<EndOf(orphan)>>
  <2>1. /\ sending' \in Seq(AnyNote) /\ Len(sending') = 1
        /\ DOMAIN sending' = {1} /\ sending'[1] = EndOf(orphan)
    BY <1>2, <1>3, NotesOf, OneNote
  <2>2. /\ sending'[1].gen = orphan
        /\ \A i \in DOMAIN sending' : i = 1
        /\ Len(sending') \in {1, 2} /\ Len(sending') # 2
    BY <1>2, <2>1, NotesOf
  <2>3. orphan' \in {0, orphan, gen'} /\ orphan' \in 0..gen'
    BY <1>0, <1>3
  <2> QED BY <1>0, <1>1, <1>2, <1>3, <2>1, <2>2, <2>3, NotesOf, GenBound
<1>4. CASE orphan' = orphan /\ gen' = gen /\ sending' = <<UpdateOf(orphan)>>
  <2>1. /\ sending' \in Seq(AnyNote) /\ Len(sending') = 1
        /\ DOMAIN sending' = {1} /\ sending'[1] = UpdateOf(orphan)
    BY <1>2, <1>4, NotesOf, OneNote
  <2>2. /\ sending'[1].gen = orphan
        /\ \A i \in DOMAIN sending' : i = 1
        /\ Len(sending') \in {1, 2} /\ Len(sending') # 2
    BY <1>2, <2>1, NotesOf
  <2>3. orphan' \in {0, orphan, gen'} /\ orphan' \in 0..gen'
    BY <1>0, <1>4
  <2> QED BY <1>0, <1>1, <1>2, <1>4, <2>1, <2>2, <2>3, NotesOf, GenBound
<1>5. CASE orphan = 0 /\ orphan' = gen + 1 /\ gen' = gen + 1 /\ sending' = <<UpdateOf(orphan')>>
  <2>1. /\ sending' \in Seq(AnyNote) /\ Len(sending') = 1
        /\ DOMAIN sending' = {1} /\ sending'[1] = UpdateOf(orphan')
    BY <1>2, <1>5, NotesOf, OneNote
  <2> QED BY <1>0, <1>1, <1>2, <1>5, <2>1, NotesOf, GenBound
<1>6. CASE /\ orphan # 0 /\ orphan' = gen + 1 /\ gen' = gen + 1
           /\ sending' = <<EndOf(orphan)>> \o <<UpdateOf(orphan')>>
  <2>1. /\ sending' \in Seq(AnyNote) /\ Len(sending') = 2 /\ DOMAIN sending' = {1, 2}
        /\ sending'[1] = EndOf(orphan) /\ sending'[2] = UpdateOf(orphan')
    <3>1. EndOf(orphan) \in AnyNote /\ UpdateOf(orphan') \in AnyNote
      BY <1>2, <1>6, NotesOf
    <3> QED BY <1>6, <3>1, TwoNotes
  <2> QED BY <1>0, <1>1, <1>2, <1>6, <2>1, NotesOf, GenBound
<1>7. CASE bound.kind = "idle" /\ sending' = <<Note(orphan, orphan # 0)>> /\ orphan' = 0
           /\ UNCHANGED gen
  <2>1. orphan' = 0 /\ gen' = gen
    BY <1>7
  <2>2. CASE orphan = 0
    <3>1. (orphan # 0) = FALSE
      BY <2>2
    <3> QED BY <1>4, <1>7, <2>1, <2>2, <3>1 DEF UpdateOf
  <2>3. CASE orphan # 0
    <3>1. (orphan # 0) = TRUE
      BY <2>3
    <3> QED BY <1>3, <1>7, <2>1, <2>3, <3>1 DEF EndOf
  <2> QED BY <2>2, <2>3
<1>8. CASE LET switches == orphan # 0 /\ bound.msg # None /\ orphanMsg \notin {None, bound.msg}
               opens == orphan = 0 \/ switches
           IN /\ gen' = IF opens THEN gen + 1 ELSE gen
              /\ orphan' = IF opens THEN gen + 1 ELSE orphan
              /\ sending' = Ending(switches) \o <<UpdateOf(orphan')>>
  <2> DEFINE switches == orphan # 0 /\ bound.msg # None /\ orphanMsg \notin {None, bound.msg}
  <2>1. /\ gen' = IF orphan = 0 \/ switches THEN gen + 1 ELSE gen
        /\ orphan' = IF orphan = 0 \/ switches THEN gen + 1 ELSE orphan
        /\ sending' = Ending(switches) \o <<UpdateOf(orphan')>>
        /\ switches => orphan # 0
    BY <1>8
  <2> HIDE DEF switches
  <2>2. CASE switches
    <3>1. Ending(switches) = <<EndOf(orphan)>>
      BY <2>2 DEF Ending, EndOf
    <3> QED BY <1>6, <2>1, <2>2, <3>1
  <2>3. CASE ~switches
    <3>1. Ending(switches) = <<>>
      BY <2>3 DEF Ending
    <3>2. \A x : <<>> \o <<x>> = <<x>>
      OBVIOUS
    <3>3. sending' = <<UpdateOf(orphan')>>
      BY <2>1, <3>1, <3>2
    <3> QED BY <1>4, <1>5, <2>1, <2>3, <3>3
  <2> QED BY <2>2, <2>3
<1> QED BY <1>4, <1>7, <1>8 DEF Bind, UpdateOf

LEMMA GenTake == ASSUME GenInv, TakeTerminal PROVE GenInv'
<1>0. GenTypes /\ EndsOnce /\ Straggle /\ OlderAreClosed
  BY DEF GenInv
<1>1. orphan' = 0 /\ UNCHANGED <<gen, bound, sending, log, dropped>>
  BY DEF TakeTerminal
<1>2. CASE orphan = 0
  <2>1. orphan' = orphan /\ owed' = owed
    BY <1>1, <1>2 DEF TakeTerminal
  <2> QED BY <1>1, <2>1, GenFrame
<1>3. CASE orphan # 0
  <2>0. PICK n : n = Note(orphan, TRUE)
    OBVIOUS
  <2>1. owed' = Append(owed, n)
    BY <1>3, <2>0 DEF TakeTerminal
  <2>2. n \in AnyNote /\ n.terminal /\ n.gen = orphan /\ n = Note(orphan, TRUE)
    BY <1>0, <2>0 DEF Note, AnyNote, GenTypes
  <2>3. /\ owed' \in Seq(AnyNote) /\ DOMAIN owed' = DOMAIN owed \cup {Len(owed) + 1}
        /\ \A i \in DOMAIN owed : owed'[i] = owed[i]
        /\ owed'[Len(owed) + 1] = n /\ Len(owed) + 1 \notin DOMAIN owed
    <3>1. owed \in Seq(AnyNote)
      BY <1>0 DEF GenTypes
    <3>2. n \in AnyNote
      BY <2>2
    <3> QED BY <2>1, <3>1, <3>2, AppendFacts
  <2>4. GenTypes'
    BY <1>0, <1>1, <2>3 DEF GenTypes
  <2> DEFINE Ended(q) == q.terminal => q.gen # 0 /\ q.gen <= gen
  <2>5. \A q : Past(q) => Ended(q) /\ (q.terminal => q.gen # orphan)
    BY DEF Past
  <2>6. Ended(n)
    BY <1>0, <1>3, <2>2 DEF GenTypes
  <2>7. EndsOnce'
    <3>1. /\ \A i \in DOMAIN owed : owed[i].gen # n.gen
          /\ \A j \in DOMAIN sending : Apart(sending[j], n)
          /\ \A j \in DOMAIN log : Apart(log[j], n)
      BY <1>0, <2>2, <2>5 DEF EndsOnce, Apart
    <3>2. \A i \in DOMAIN owed' :
              /\ owed'[i].terminal /\ Ended(owed'[i])
              /\ \A j \in DOMAIN sending : Apart(sending[j], owed'[i])
              /\ \A j \in DOMAIN log : Apart(log[j], owed'[i])
      <4> SUFFICES ASSUME NEW i \in DOMAIN owed'
                   PROVE  /\ owed'[i].terminal /\ Ended(owed'[i])
                          /\ \A j \in DOMAIN sending : Apart(sending[j], owed'[i])
                          /\ \A j \in DOMAIN log : Apart(log[j], owed'[i])
        OBVIOUS
      <4> HIDE DEF Ended
      <4>1. CASE i \in DOMAIN owed
        BY <1>0, <2>3, <2>5, <4>1 DEF EndsOnce
      <4>2. CASE i = Len(owed) + 1
        BY <2>2, <2>3, <2>6, <3>1, <4>2
      <4> QED BY <2>3, <4>1, <4>2
    <3>3. \A i, j \in DOMAIN owed' : owed'[j].gen = owed'[i].gen => j = i
      BY <1>0, <2>3, <3>1 DEF EndsOnce
    <3>4. /\ \A i \in DOMAIN sending :
                /\ Ended(sending[i])
                /\ \A j \in DOMAIN log : Apart(log[j], sending[i])
          /\ \A i \in DOMAIN log : Ended(log[i])
      BY <1>0, <1>1, <2>5 DEF EndsOnce
    <3> QED BY <1>1, <3>2, <3>3, <3>4 DEF EndsOnce, Past
  <2>8. Straggle'
    BY <1>0, <1>1 DEF Straggle, Straggler
  <2>9. OlderAreClosed'
    <3> SUFFICES ASSUME NEW g \in 1..gen, g # 0 PROVE Closing(g)'
      BY <1>1 DEF OlderAreClosed
    <3>1. CASE g = orphan
      BY <2>2, <2>3, <3>1 DEF Closing
    <3>2. CASE g # orphan
      BY <1>0, <1>1, <2>3, <3>2 DEF OlderAreClosed, Closing
    <3> QED BY <3>1, <3>2
  <2> QED BY <2>4, <2>7, <2>8, <2>9 DEF GenInv
<1> QED BY <1>2, <1>3

\* What a send of note n does to the history, n leaving the sender's hands.
LEMMA Sent ==
    ASSUME GenTypes, NEW n \in AnyNote, Enqueue(n)
    PROVE  \/ log' = log /\ dropped' = dropped \cup {n}
           \/ /\ dropped' = dropped /\ log' \in Seq(AnyNote)
              /\ DOMAIN log' = DOMAIN log \cup {Len(log) + 1} /\ DOMAIN log \subseteq Nat
              /\ \A i \in DOMAIN log : log'[i] = log[i] /\ i < Len(log) + 1
              /\ log'[Len(log) + 1] = n /\ Len(log) + 1 \notin DOMAIN log
              /\ Len(log) + 1 \in Nat
<1>1. CASE log' = Append(log, n) /\ dropped' = dropped
  <2>1. log \in Seq(AnyNote)
    BY DEF GenTypes
  <2> QED BY <1>1, <2>1, AppendFacts
<1>2. CASE log' = log /\ dropped' = dropped \cup {n}
  BY <1>2
<1> QED BY <1>1, <1>2 DEF Enqueue

LEMMA GenLoopSends == ASSUME GenInv, LoopSends PROVE GenInv'
<1>0. GenTypes /\ EndsOnce /\ Straggle /\ OlderAreClosed
  BY DEF GenInv
<1> DEFINE n == sending[1]
<1>1. /\ sending # <<>> /\ sending' = Tail(sending) /\ Enqueue(n)
      /\ UNCHANGED <<orphan, gen, bound, owed>>
  BY <1>0 DEF LoopSends, GenTypes
<1>2. /\ sending' \in Seq(AnyNote) /\ 1 \in DOMAIN sending /\ n \in AnyNote
      /\ \A i \in DOMAIN sending' : i = 1 /\ 2 \in DOMAIN sending /\ sending'[i] = sending[2]
                                     /\ Len(sending) = 2
      /\ \A i \in DOMAIN sending : i = 1 \/ (i = 2 /\ 1 \in DOMAIN sending')
      /\ Len(sending') \in {0, 1} /\ bound = None
  <2>1. sending \in Seq(AnyNote) /\ Len(sending) \in {1, 2} /\ bound = None
    <3>1. sending \in Seq(AnyNote) /\ Len(sending) <= 2 /\ bound = None
      BY <1>0, <1>1 DEF GenTypes
    <3>2. Len(sending) \in Nat /\ Len(sending) # 0
      BY <1>1, <3>1, EmptySeq
    <3> HIDE DEF n
    <3>3. \A k \in Nat : k # 0 /\ k <= 2 => k \in {1, 2}
      OBVIOUS
    <3>4. Len(sending) \in {1, 2}
      BY <3>1, <3>2, <3>3
    <3> QED BY <3>1, <3>4
  <2>2. sending' \in Seq(AnyNote) /\ Len(sending') = Len(sending) - 1 /\ DOMAIN sending' = 1..Len(sending')
        /\ \A i \in DOMAIN sending' : sending'[i] = sending[i + 1]
    BY <1>1, <2>1
  <2>3. CASE Len(sending) = 1
    BY <2>1, <2>2, <2>3
  <2>4. CASE Len(sending) = 2
    BY <2>1, <2>2, <2>4
  <2> QED BY <2>1, <2>3, <2>4
<1>3. ~n.terminal => DOMAIN sending' = {}
  BY <1>0, <1>2 DEF GenTypes
<1>4. \A i \in DOMAIN sending' : sending'[i] = sending[2] /\ ~sending[2].terminal /\ n.gen # sending[2].gen
  BY <1>0, <1>2 DEF GenTypes
<1>5. \A q : Past(q)' = Past(q)
  BY <1>1 DEF Past
<1> HIDE DEF n
<1>6. /\ Past(n) /\ \A j \in DOMAIN log : Apart(log[j], n)
      /\ \A i \in DOMAIN owed : Apart(n, owed[i])
  BY <1>0, <1>2 DEF EndsOnce, n
<1>7. CASE log' = log /\ dropped' = dropped \cup {n}
  <2>1. GenTypes'
    <3>1. Len(sending') <= 2 /\ Len(sending') # 2
      BY <1>2
    <3> QED BY <1>0, <1>1, <1>2, <1>7, <3>1, Zenon DEF GenTypes
  <2>2. EndsOnce'
    BY <1>0, <1>1, <1>2, <1>5, <1>7 DEF EndsOnce
  <2>3. Straggle'
    BY <1>0, <1>2, <1>7 DEF Straggle, Straggler
  <2>4. OlderAreClosed'
    BY <1>0, <1>1, <1>2, <1>7 DEF OlderAreClosed, Closing, n
  <2> QED BY <2>1, <2>2, <2>3, <2>4 DEF GenInv
<1>8. CASE /\ dropped' = dropped /\ log' \in Seq(AnyNote)
           /\ DOMAIN log' = DOMAIN log \cup {Len(log) + 1} /\ DOMAIN log \subseteq Nat
           /\ \A i \in DOMAIN log : log'[i] = log[i] /\ i < Len(log) + 1
           /\ log'[Len(log) + 1] = n /\ Len(log) + 1 \notin DOMAIN log
           /\ Len(log) + 1 \in Nat
  <2>1. GenTypes'
    <3>1. Len(sending') <= 2 /\ Len(sending') # 2
      BY <1>2
    <3> QED BY <1>0, <1>1, <1>2, <1>8, <3>1, Zenon DEF GenTypes
  <2>2. EndsOnce'
    <3>1. \A i \in DOMAIN owed :
            /\ owed[i].terminal /\ Past(owed[i])
            /\ \A j \in DOMAIN owed : owed[j].gen = owed[i].gen => j = i
            /\ \A j \in DOMAIN sending' : Apart(sending'[j], owed[i])
            /\ \A j \in DOMAIN log' : Apart(log'[j], owed[i])
      BY <1>0, <1>2, <1>6, <1>8 DEF EndsOnce
    <3>2. \A i \in DOMAIN sending' :
            /\ Past(sending'[i])
            /\ \A j \in DOMAIN log' : Apart(log'[j], sending'[i])
      BY <1>4 DEF Past, Apart
    <3>3. \A i \in DOMAIN log' : Past(log'[i])
      BY <1>0, <1>6, <1>8 DEF EndsOnce
    <3> QED BY <1>1, <1>5, <3>1, <3>2, <3>3 DEF EndsOnce
  <2>3. Straggle'
    <3> SUFFICES ASSUME NEW i \in DOMAIN log', NEW j \in DOMAIN log', Straggler(i, j)'
                 PROVE  /\ ~log'[j].terminal
                        /\ \A k \in DOMAIN sending' : sending'[k].gen # log'[i].gen
                        /\ \A k \in DOMAIN log' : Straggler(i, k)' => k = j
      BY DEF Straggle
    <3>1. i \in DOMAIN log /\ log[i].terminal /\ log'[i] = log[i]
      BY <1>8 DEF Straggler
    <3>2. n.gen = log[i].gen => ~n.terminal /\ DOMAIN sending' = {}
      BY <1>3, <1>6, <3>1 DEF Apart
    <3>3. n.gen = log[i].gen => \A k \in DOMAIN log : ~Straggler(i, k)
      BY <1>0, <1>2, <3>1 DEF Straggle, n
    <3>4. \A k \in DOMAIN log : Straggler(i, k)' = Straggler(i, k)
      BY <1>8, <3>1 DEF Straggler
    <3>5. CASE j \in DOMAIN log
      <4>1. Straggler(i, j) /\ n.gen # log[i].gen
        BY <3>3, <3>4, <3>5
      <4>2. \A k \in Nat : k = Len(log) + 1 => ~Straggler(i, k)'
        BY <1>8, <3>1, <4>1 DEF Straggler
      <4> QED BY <1>0, <1>2, <1>8, <3>1, <3>4, <3>5, <4>1, <4>2 DEF Straggle
    <3>6. CASE j = Len(log) + 1
      <4>1. n.gen = log[i].gen
        BY <1>8, <3>1, <3>6 DEF Straggler
      <4> QED BY <1>8, <3>2, <3>3, <3>4, <3>6, <4>1
    <3> QED BY <1>8, <3>5, <3>6
  <2>4. OlderAreClosed'
    <3> SUFFICES ASSUME NEW g \in 1..gen, g # orphan PROVE Closing(g)'
      BY <1>1 DEF OlderAreClosed
    <3>1. Closing(g)
      BY <1>0 DEF OlderAreClosed
    <3>2. CASE \E i \in DOMAIN sending : sending[i] = Note(g, TRUE)
      BY <1>2, <1>8, <3>2 DEF Closing, n
    <3>3. CASE \/ \E i \in DOMAIN owed : owed[i] = Note(g, TRUE)
               \/ \E i \in DOMAIN log : log[i] = Note(g, TRUE)
               \/ Note(g, TRUE) \in dropped
      BY <1>1, <1>8, <3>3 DEF Closing
    <3> QED BY <3>1, <3>2, <3>3 DEF Closing
  <2> QED BY <2>1, <2>2, <2>3, <2>4 DEF GenInv
<1> QED BY <1>0, <1>1, <1>2, <1>7, <1>8, Sent

Without(s, i) == SubSeq(s, 1, i - 1) \o SubSeq(s, i + 1, Len(s))

LEMMA Removed ==
    ASSUME NEW s \in Seq(AnyNote), NEW i \in DOMAIN s, NEW r, r = Without(s, i)
    PROVE  /\ r \in Seq(AnyNote)
           /\ \A j \in DOMAIN r :
                 /\ j < i => j \in DOMAIN s \ {i} /\ r[j] = s[j]
                 /\ ~(j < i) => j + 1 \in DOMAIN s \ {i} /\ r[j] = s[j + 1]
           /\ \A j \in DOMAIN s \ {i} : \E k \in DOMAIN r : r[k] = s[j]
           /\ DOMAIN r \subseteq Nat /\ DOMAIN s \subseteq Nat
<1> DEFINE a == SubSeq(s, 1, i - 1)
           b == SubSeq(s, i + 1, Len(s))
<1>1. i \in 1..Len(s) /\ Len(s) \in Nat /\ DOMAIN s = 1..Len(s)
  OBVIOUS
<1>2. a \in Seq(AnyNote) /\ Len(a) = i - 1 /\ \A j \in 1..(i - 1) : a[j] = s[j]
  BY <1>1
<1>3. b \in Seq(AnyNote) /\ Len(b) = Len(s) - i /\ \A j \in 1..(Len(s) - i) : b[j] = s[i + j]
  BY <1>1
<1>4. r = a \o b
  BY DEF Without
<1> HIDE DEF a, b
<1>5. /\ r \in Seq(AnyNote) /\ DOMAIN r = 1..(Len(s) - 1)
      /\ \A j \in 1..(Len(s) - 1) : /\ j < i => r[j] = a[j]
                                    /\ ~(j < i) => r[j] = b[j - (i - 1)]
  <2>0. a \in Seq(AnyNote) /\ b \in Seq(AnyNote)
    BY <1>2, <1>3
  <2>1. /\ r \in Seq(AnyNote) /\ Len(r) = Len(a) + Len(b)
        /\ \A j \in 1..(Len(a) + Len(b)) : r[j] = IF j <= Len(a) THEN a[j] ELSE b[j - Len(a)]
    <3>1. /\ a \o b \in Seq(AnyNote) /\ Len(a \o b) = Len(a) + Len(b)
          /\ \A j \in 1..(Len(a) + Len(b)) : (a \o b)[j] = IF j <= Len(a) THEN a[j] ELSE b[j - Len(a)]
      BY <2>0, ConcatProperties
    <3> QED BY <1>4, <3>1, Zenon
  <2>2. Len(a) + Len(b) = Len(s) - 1
    BY <1>1, <1>2, <1>3
  <2>3. DOMAIN r = 1..Len(r)
    BY <2>1
  <2>4. \A j \in 1..(Len(s) - 1) : j < i <=> j <= Len(a)
    BY <1>1, <1>2
  <2> QED BY <1>2, <2>1, <2>2, <2>3, <2>4
<1>6. \A j \in DOMAIN r : j < i => j \in DOMAIN s \ {i} /\ r[j] = s[j]
  <2> SUFFICES ASSUME NEW j \in DOMAIN r, j < i PROVE j \in DOMAIN s \ {i} /\ r[j] = s[j]
    OBVIOUS
  <2>1. j \in 1..(i - 1) /\ j \in 1..Len(s) /\ r[j] = a[j]
    BY <1>1, <1>5
  <2> QED BY <1>1, <1>2, <2>1
<1>7. \A j \in DOMAIN r : ~(j < i) => j + 1 \in DOMAIN s \ {i} /\ r[j] = s[j + 1]
  <2> SUFFICES ASSUME NEW j \in DOMAIN r, ~(j < i)
               PROVE  j + 1 \in DOMAIN s \ {i} /\ r[j] = s[j + 1]
    OBVIOUS
  <2>1. j \in 1..(Len(s) - 1) /\ r[j] = b[j - (i - 1)]
    BY <1>5
  <2>2. j - (i - 1) \in 1..(Len(s) - i) /\ i + (j - (i - 1)) = j + 1
    BY <1>1, <2>1
  <2>3. r[j] = s[i + (j - (i - 1))]
    BY <1>3, <2>1, <2>2
  <2>4. j + 1 \in 1..Len(s) /\ j + 1 # i
    BY <1>1, <2>1
  <2> QED BY <1>1, <2>2, <2>3, <2>4
<1>8. \A j \in DOMAIN s \ {i} : \E k \in DOMAIN r : r[k] = s[j]
  <2> SUFFICES ASSUME NEW j \in DOMAIN s \ {i} PROVE \E k \in DOMAIN r : r[k] = s[j]
    OBVIOUS
  <2>1. CASE j < i
    <3>1. j \in DOMAIN r
      BY <1>1, <1>5, <2>1
    <3> QED BY <1>6, <2>1, <3>1
  <2>2. CASE j > i
    <3>1. j - 1 \in DOMAIN r /\ ~(j - 1 < i) /\ (j - 1) + 1 = j
      BY <1>1, <1>5, <2>2
    <3>2. r[j - 1] = s[(j - 1) + 1]
      BY <1>7, <3>1
    <3> QED BY <3>1, <3>2
  <2> QED BY <1>1, <2>1, <2>2
<1> QED BY <1>1, <1>5, <1>6, <1>7, <1>8

LEMMA GenHostSends == ASSUME GenInv, HostSends PROVE GenInv'
<1>0. GenTypes /\ EndsOnce /\ Straggle /\ OlderAreClosed
  BY DEF GenInv
<1>1. PICK o \in DOMAIN owed :
          Enqueue(owed[o]) /\ owed' = SubSeq(owed, 1, o - 1) \o SubSeq(owed, o + 1, Len(owed))
  BY DEF HostSends
<1>2. UNCHANGED <<orphan, gen, bound, sending>>
  BY DEF HostSends
<1> DEFINE n == owed[o]
<1>3. /\ owed' \in Seq(AnyNote)
      /\ \A j \in DOMAIN owed' :
            /\ j < o => j \in DOMAIN owed \ {o} /\ owed'[j] = owed[j]
            /\ ~(j < o) => j + 1 \in DOMAIN owed \ {o} /\ owed'[j] = owed[j + 1]
      /\ \A j \in DOMAIN owed \ {o} : \E k \in DOMAIN owed' : owed'[k] = owed[j]
      /\ DOMAIN owed' \subseteq Nat /\ DOMAIN owed \subseteq Nat
  <2>1. owed \in Seq(AnyNote)
    BY <1>0 DEF GenTypes
  <2>2. owed' = Without(owed, o)
    BY <1>1 DEF Without
  <2> QED BY <2>1, <2>2, Removed
<1>4. /\ n \in AnyNote /\ n.terminal /\ Past(n)
      /\ \A j \in DOMAIN owed \ {o} : owed[j].gen # n.gen
      /\ \A j \in DOMAIN sending : Apart(sending[j], n)
      /\ \A j \in DOMAIN log : Apart(log[j], n)
  BY <1>0 DEF GenTypes, EndsOnce
<1>5. \A q : Past(q)' = Past(q)
  BY <1>2 DEF Past
<1>6. Enqueue(n)
  BY <1>1
<1>7. o \in Nat
  BY <1>3
<1>8. \A j \in DOMAIN owed' :
          /\ owed'[j].terminal /\ Past(owed'[j]) /\ owed'[j].gen # n.gen
          /\ \A k \in DOMAIN owed' : owed'[k].gen = owed'[j].gen => k = j
          /\ \A k \in DOMAIN sending : Apart(sending[k], owed'[j])
          /\ \A k \in DOMAIN log : Apart(log[k], owed'[j])
  <2> SUFFICES ASSUME NEW j \in DOMAIN owed'
               PROVE  /\ owed'[j].terminal /\ Past(owed'[j]) /\ owed'[j].gen # n.gen
                      /\ \A k \in DOMAIN owed' : owed'[k].gen = owed'[j].gen => k = j
                      /\ \A k \in DOMAIN sending : Apart(sending[k], owed'[j])
                      /\ \A k \in DOMAIN log : Apart(log[k], owed'[j])
    OBVIOUS
  <2>1. \E q \in DOMAIN owed \ {o} : owed'[j] = owed[q]
    BY <1>3
  <2>2. \A k \in DOMAIN owed' : owed'[k].gen = owed'[j].gen => k = j
    <3> SUFFICES ASSUME NEW k \in DOMAIN owed', owed'[k].gen = owed'[j].gen PROVE k = j
      OBVIOUS
    <3>1. CASE j < o /\ k < o
      BY <1>0, <1>3, <3>1 DEF EndsOnce
    <3>2. CASE ~(j < o) /\ ~(k < o)
      <4>1. j + 1 = k + 1
        BY <1>0, <1>3, <3>2 DEF EndsOnce
      <4> QED BY <1>3, <4>1
    <3>3. CASE j < o /\ ~(k < o)
      <4>1. j = k + 1
        BY <1>0, <1>3, <3>3 DEF EndsOnce
      <4> QED BY <1>3, <1>7, <3>3, <4>1
    <3>4. CASE ~(j < o) /\ k < o
      <4>1. j + 1 = k
        BY <1>0, <1>3, <3>4 DEF EndsOnce
      <4> QED BY <1>3, <1>7, <3>4, <4>1
    <3> QED BY <3>1, <3>2, <3>3, <3>4
  <2> QED BY <1>0, <1>4, <2>1, <2>2 DEF EndsOnce
<1>9. CASE log' = log /\ dropped' = dropped \cup {n}
  <2>1. GenTypes'
    BY <1>0, <1>2, <1>3, <1>9 DEF GenTypes
  <2>2. EndsOnce'
    BY <1>0, <1>2, <1>5, <1>8, <1>9 DEF EndsOnce
  <2>3. Straggle'
    BY <1>0, <1>2, <1>9 DEF Straggle, Straggler
  <2>4. OlderAreClosed'
    <3> SUFFICES ASSUME NEW g \in 1..gen, g # orphan PROVE Closing(g)'
      BY <1>2 DEF OlderAreClosed
    <3>1. Closing(g)
      BY <1>0 DEF OlderAreClosed
    <3> QED BY <1>2, <1>3, <1>9, <3>1 DEF Closing
  <2> QED BY <2>1, <2>2, <2>3, <2>4 DEF GenInv
<1>10. CASE /\ dropped' = dropped /\ log' \in Seq(AnyNote)
            /\ DOMAIN log' = DOMAIN log \cup {Len(log) + 1} /\ DOMAIN log \subseteq Nat
            /\ \A i \in DOMAIN log : log'[i] = log[i] /\ i < Len(log) + 1
            /\ log'[Len(log) + 1] = n /\ Len(log) + 1 \notin DOMAIN log
            /\ Len(log) + 1 \in Nat
  <2> HIDE DEF n
  <2>1. GenTypes'
    BY <1>0, <1>2, <1>3, <1>10 DEF GenTypes
  <2>2. EndsOnce'
    <3>1. \A i \in DOMAIN owed' :
            /\ owed'[i].terminal /\ Past(owed'[i])
            /\ \A j \in DOMAIN owed' : owed'[j].gen = owed'[i].gen => j = i
            /\ \A j \in DOMAIN sending : Apart(sending[j], owed'[i])
            /\ \A j \in DOMAIN log' : Apart(log'[j], owed'[i])
      BY <1>8, <1>10 DEF Apart
    <3>2. \A i \in DOMAIN sending :
            /\ Past(sending[i])
            /\ \A j \in DOMAIN log' : Apart(log'[j], sending[i])
      BY <1>0, <1>4, <1>10 DEF EndsOnce, Apart
    <3>3. \A i \in DOMAIN log' : Past(log'[i])
      BY <1>0, <1>4, <1>10 DEF EndsOnce
    <3> QED BY <1>2, <1>5, <3>1, <3>2, <3>3 DEF EndsOnce
  <2>3. Straggle'
    <3>1. \A N \in Nat : N = Len(log) + 1 =>
              \A i \in DOMAIN log' : ~Straggler(i, N)' /\ ~Straggler(N, i)'
      BY <1>4, <1>10 DEF Straggler, Apart
    <3>2. \A i, j \in DOMAIN log : Straggler(i, j)' = Straggler(i, j)
      BY <1>10 DEF Straggler
    <3> QED BY <1>0, <1>2, <1>10, <3>1, <3>2 DEF Straggle
  <2>4. OlderAreClosed'
    <3> SUFFICES ASSUME NEW g \in 1..gen, g # orphan PROVE Closing(g)'
      BY <1>2 DEF OlderAreClosed
    <3>1. Closing(g)
      BY <1>0 DEF OlderAreClosed
    <3>2. CASE \E i \in DOMAIN owed : owed[i] = Note(g, TRUE)
      BY <1>3, <1>10, <3>2 DEF Closing, n
    <3>3. CASE \/ \E i \in DOMAIN sending : sending[i] = Note(g, TRUE)
               \/ \E i \in DOMAIN log : log[i] = Note(g, TRUE)
               \/ Note(g, TRUE) \in dropped
      BY <1>2, <1>10, <3>3 DEF Closing
    <3> QED BY <3>1, <3>2, <3>3 DEF Closing
  <2> QED BY <2>1, <2>2, <2>3, <2>4 DEF GenInv
<1> QED BY <1>0, <1>4, <1>6, <1>9, <1>10, Sent

LEMMA GenNext == GenInv /\ [NextR]_rvars => GenInv'
<1> SUFFICES ASSUME GenInv, [NextR]_rvars PROVE GenInv'
  OBVIOUS
<1>1. CASE Bind \/ LoopSends \/ HostSends
  BY <1>1, GenBind, GenLoopSends, GenHostSends
<1>2. CASE StartTurn \/ BeginClose
  BY <1>2, GenTake DEF StartTurn, BeginClose
<1>3. CASE ReadUpdate
  BY <1>3, GenFrame DEF ReadUpdate
<1>4. CASE UNCHANGED <<orphan, gen, sending, owed, log, dropped, bound>>
  BY <1>4, GenFrame
<1>5. \/ Bind \/ LoopSends \/ HostSends \/ StartTurn \/ BeginClose \/ ReadUpdate
      \/ UNCHANGED <<orphan, gen, sending, owed, log, dropped, bound>>
  BY DEF NextR, SetterStep, BeginConfigChange, ApplyAnswer, SetterGivesUp, EndConfigChange, AgentAnswers,
     AgentNotifies, AgentStreams, LoopStep, HostStep, EndTurn, HostReceives, rvars, orphans
<1> QED BY <1>1, <1>2, <1>3, <1>4, <1>5

\* A generation of updates ends once, with at most one update after its end, and so
\* does an UpdateID whose message id opens no other generation
\* (bindOrphanUpdate, takeOrphanTerminalLocked, sendOrphanUpdate).
THEOREM GenerationsEnd == SpecR => []GenerationsEndOnce
<1>1. GenInv => StreamsEndOnce
  <2> SUFFICES ASSUME GenInv, NEW i \in DOMAIN log, NEW j \in DOMAIN log,
                      i < j, log[i].terminal, ~Recurs(log[i].gen),
                      UpdateID(log[j].gen) = UpdateID(log[i].gen), log[j].terminal
               PROVE  FALSE
    BY DEF StreamsEndOnce
  <2>1. log[j] \in AnyNote /\ gen \in Nat
    BY DEF GenInv, GenTypes
  <2>2. log[j].gen \in 1..gen
    BY <2>1 DEF GenInv, EndsOnce, Past, AnyNote
  <2>3. log[j].gen = log[i].gen
    BY <2>2 DEF Recurs
  <2> QED BY <2>3 DEF GenInv, Straggle, Straggler
<1>2. GenInv => AtMostOneStraggler
  <2> SUFFICES ASSUME GenInv PROVE AtMostOneStraggler
    OBVIOUS
  <2> SUFFICES ASSUME NEW i \in DOMAIN log, log[i].terminal
               PROVE  LET later == {j \in DOMAIN log : j > i /\ log[j].gen = log[i].gen}
                      IN Cardinality(later) <= 1 /\ \A j \in later : ~log[j].terminal
    BY DEF AtMostOneStraggler
  <2> DEFINE later == {j \in DOMAIN log : j > i /\ log[j].gen = log[i].gen}
  <2>1. \A j, k \in later : ~log[j].terminal /\ k = j
    BY DEF GenInv, GenTypes, Straggle, Straggler
  <2>2. later = {} \/ \E j : later = {j}
    BY <2>1
  <2> HIDE DEF later
  <2>3. Cardinality(later) \in {0, 1}
    <3>1. CASE later = {}
      BY <3>1, FS_EmptySet
    <3>2. CASE \E j : later = {j}
      BY <3>2, FS_Singleton
    <3> QED BY <2>2, <3>1, <3>2
  <2>4. Cardinality(later) <= 1 /\ \A j \in later : ~log[j].terminal
    BY <2>1, <2>3
  <2> QED BY <2>4 DEF later
<1>3. GenInv => GenerationsEndOnce
  BY <1>1, <1>2 DEF GenInv, GenerationsEndOnce
<1> QED BY <1>3, GenInit, GenNext, PTL DEF SpecR
=============================================================================
