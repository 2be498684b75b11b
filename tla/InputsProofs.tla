----------------------------- MODULE InputsProofs -----------------------------
(***************************************************************************)
(* What the pure algorithms compute for every input, of any length.  Their     *)
(* recursive functions run over the positions of a sequence: each is first    *)
(* shown to exist, then unfolded, and what it computes is proved by           *)
(* induction on the position.                                                *)
(***************************************************************************)
EXTENDS Inputs, CodecTerms, FiniteSetTheorems, WellFoundedInduction, TLAPS

\* Induction, about a set of naturals: a least element outside it has no
\* predecessor.
LEMMA Induction ==
    ASSUME NEW S, 0 \in S, \A n \in Nat : n \in S => n + 1 \in S
    PROVE  \A n \in Nat : n \in S
<1> SUFFICES ASSUME Nat \ S # {} PROVE FALSE
  OBVIOUS
<1> DEFINE T == Nat \ S
<1>1. PICK x \in T : \A y \in T : ~(<<y, x>> \in OpToRel(<, Nat))
  <2>1. T \subseteq Nat /\ T # {}
    OBVIOUS
  <2> HIDE DEF T
  <2> QED BY <2>1, WFMin, NatLessThanWellFounded, Zenon
<1>2. x \in Nat /\ x # 0 /\ x - 1 \in Nat /\ x - 1 < x
  OBVIOUS
<1>3. x - 1 \notin T
  BY <1>1, <1>2 DEF OpToRel
<1> QED BY <1>2, <1>3

\* A fold over the first N positions, from a base by a step that stays in T.
Steps(T, N) == [1..N -> [T -> T]]
IsFold(g, T, base, N, step) ==
    /\ g \in [0..N -> T] /\ g[0] = base
    /\ \A n \in 1..N : g[n] = step[n][g[n - 1]]

LEMMA FoldExists ==
    ASSUME NEW T, NEW base \in T, NEW N \in Nat, NEW step \in Steps(T, N)
    PROVE  \E g : IsFold(g, T, base, N, step)
<1> USE DEF Steps
<1> DEFINE Upto(m, g) == /\ g \in [0..m -> T] /\ g[0] = base
                         /\ \A n \in 1..m : g[n] = step[n][g[n - 1]]
           S == {m \in Nat : m <= N => \E g : Upto(m, g)}
<1>1. 0 \in S
  <2>1. Upto(0, [n \in 0..0 |-> base])
    OBVIOUS
  <2> HIDE DEF Upto
  <2> QED BY <2>1
<1>2. ASSUME NEW m \in Nat, m \in S PROVE m + 1 \in S
  <2> SUFFICES ASSUME m + 1 <= N PROVE \E g : Upto(m + 1, g)
    OBVIOUS
  <2>1. PICK g : Upto(m, g)
    BY <1>2
  <2> DEFINE h == [n \in 0..(m + 1) |-> IF n = m + 1 THEN step[m + 1][g[m]] ELSE g[n]]
  <2>2. step[m + 1][g[m]] \in T
    BY <2>1
  <2>3. h \in [0..(m + 1) -> T] /\ h[0] = base
    BY <2>1, <2>2
  <2>4. ASSUME NEW n \in 1..(m + 1) PROVE h[n] = step[n][h[n - 1]]
    <3>1. CASE n = m + 1
      <4>1. h[n] = step[n][g[m]] /\ h[n - 1] = g[m]
        BY <3>1
      <4> QED BY <4>1
    <3>2. CASE n # m + 1
      <4>1. n \in 1..m /\ h[n] = g[n] /\ h[n - 1] = g[n - 1]
        BY <3>2
      <4> QED BY <4>1, <2>1
    <3> QED BY <3>1, <3>2
  <2>5. Upto(m + 1, h)
    BY <2>3, <2>4
  <2> HIDE DEF Upto, h
  <2> QED BY <2>5
<1>3. N \in S
  <2> HIDE DEF S
  <2> QED BY <1>1, <1>2, Induction
<1>4. PICK g : Upto(N, g)
  BY <1>3
<1> QED BY <1>4 DEF IsFold

\* What holds at the start of a fold and is kept by each step holds throughout.
LEMMA FoldKeeps ==
    ASSUME NEW N \in Nat, NEW S, 0 \in S, \A n \in 1..N : n - 1 \in S => n \in S
    PROVE  \A n \in 0..N : n \in S
<1> DEFINE U == {n \in Nat : n <= N => n \in S}
<1>1. 0 \in U
  OBVIOUS
<1>2. ASSUME NEW n \in Nat, n \in U PROVE n + 1 \in U
  BY <1>2
<1>3. \A n \in Nat : n \in U
  <2> HIDE DEF U
  <2> QED BY <1>1, <1>2, Induction
<1> QED BY <1>3

-----------------------------------------------------------------------------
(* applyInitialConfig: the report is true.                                   *)

\* A session as the driver has it.
IsSession(s) ==
    DOMAIN s = {"agent", "agentMode", "shown", "mode", "current", "script", "accepted"}

\* The read model is right where it says it is current, and no mode is in doubt.
Honest(s) == IsSession(s) /\ (s.current => s.shown = s.agent)
ModeKnown(s) == s.mode = s.agentMode

\* What an item of the report promises.
Held(key, id, v, s) ==
    \/ <<id, v>> \in s.accepted
    \/ IF key = "mode" THEN s.agentMode = v ELSE id \in OptionIds /\ s.agent[id] = v

\* Setting an option leaves the mode alone, and a success is the agent's word.
LEMMA SetOptionHonest ==
    ASSUME NEW s, Honest(s), NEW id, NEW v
    PROVE  /\ Honest(SetOption(s, id, v))
           /\ ModeKnown(s) => ModeKnown(SetOption(s, id, v))
           /\ ~Fails(s) => <<id, v>> \in SetOption(s, id, v).accepted
<1> DEFINE t == SetOption(s, id, v)
<1>1. /\ t.agentMode = s.agentMode /\ t.mode = s.mode
      /\ t.current = (Answer(s) \in Snapshots)
      /\ t.agent = AgentSets(s, id, v) /\ t.accepted = Accept(s, id, v)
      /\ IsSession(t)
  BY DEF Honest, IsSession, SetOption
<1>2. Answer(s) \in Snapshots => t.shown = AgentSets(s, id, v)
  BY DEF Honest, IsSession, SetOption, Fails, Failures, Snapshots
<1> QED BY <1>1, <1>2 DEF Honest, ModeKnown, Accept

\* A mode the agent has taken is the mode shown; the options are in doubt after.
LEMMA SetModeHonest ==
    ASSUME NEW s, Honest(s), NEW v
    PROVE  /\ Honest(SetMode(s, v))
           /\ ~Fails(s) => /\ ModeKnown(SetMode(s, v))
                           /\ <<"mode", v>> \in SetMode(s, v).accepted
<1> DEFINE t == SetMode(s, v)
<1>1. IsSession(t) /\ t.current = FALSE /\ t.accepted = Accept(s, "mode", v)
  BY DEF Honest, IsSession, SetMode
<1>2. ~Fails(s) => t.mode = v /\ t.agentMode = v
  BY DEF Honest, IsSession, SetMode, Fails, Failures
<1> QED BY <1>1, <1>2 DEF Honest, ModeKnown, Accept

\* The state of the aliases tried so far.
IsTrial(r) == DOMAIN r = {"ok", "failed", "value", "s"}
Trial(key, id, r) ==
    /\ IsTrial(r) /\ r.ok \in BOOLEAN /\ r.failed \in BOOLEAN
    /\ Honest(r.s)
    /\ (key # "mode" \/ r.ok \/ ~r.failed) => ModeKnown(r.s)
    /\ r.ok => Held(key, id, r.value, r.s)

\* A mode goes by the id "mode" (applyInitialConfig passes it itself).
LEMMA TryKeeps ==
    ASSUME NEW key, NEW id, key = "mode" => id = "mode", NEW r, NEW v, Trial(key, id, r)
    PROVE  Trial(key, id, Try(key, id, r, v))
<1> DEFINE t == Try(key, id, r, v)
           equal == IF key = "mode" THEN ModeEqual(r.s, v, r.failed) ELSE OptionEqual(r.s, id, v)
           set == IF key = "mode" THEN SetMode(r.s, v) ELSE SetOption(r.s, id, v)
<1>1. CASE r.ok
  BY <1>1 DEF Try
<1>2. CASE ~r.ok /\ equal
  <2>1. t = [r EXCEPT !.ok = TRUE, !.value = v]
    BY <1>2 DEF Try
  <2>2. IsTrial(t) /\ t.ok = TRUE /\ t.failed = r.failed /\ t.value = v /\ t.s = r.s
    BY <2>1 DEF Trial, IsTrial
  <2>3. ModeKnown(r.s) /\ Held(key, id, v, r.s)
    BY <1>2 DEF Trial, ModeEqual, OptionEqual, ModeKnown, Held, Honest
  <2> QED BY <2>2, <2>3 DEF Trial
<1>3. CASE ~r.ok /\ ~equal
  <2>1. t = [ok |-> ~Fails(r.s), failed |-> Fails(r.s), value |-> v, s |-> set]
    BY <1>3 DEF Try
  <2>2. IsTrial(t) /\ t.ok = ~Fails(r.s) /\ t.failed = Fails(r.s) /\ t.value = v /\ t.s = set
    BY <2>1 DEF IsTrial
  <2>3. Fails(r.s) \in BOOLEAN
    BY DEF Fails
  <2>4. Honest(r.s)
    BY DEF Trial
  <2>5. /\ Honest(set)
        /\ ~Fails(r.s) => <<id, v>> \in set.accepted
        /\ (key # "mode" \/ ~Fails(r.s)) => ModeKnown(set)
    BY <1>3, <2>4, SetOptionHonest, SetModeHonest DEF Trial
  <2> QED BY <2>2, <2>3, <2>5 DEF Trial, Held
<1> QED BY <1>1, <1>2, <1>3 DEF Trial

\* Trying the aliases one after the other is well defined, ...
LEMMA TrialsExist ==
    ASSUME NEW key, NEW id, NEW s, NEW a, NEW N \in Nat
    PROVE  \E g : g = [n \in 0..N |-> IF n = 0 THEN Untried(s) ELSE Try(key, id, g[n - 1], a[n])]
<1> DEFINE First(m, g) ==
             g = [n \in 0..m |-> IF n = 0 THEN Untried(s) ELSE Try(key, id, g[n - 1], a[n])]
           S == {m \in Nat : \E g : First(m, g)}
<1>1. 0 \in S
  <2> DEFINE g == [n \in 0..0 |-> Untried(s)]
  <2>1. First(0, g)
    OBVIOUS
  <2> HIDE DEF First, g
  <2> QED BY <2>1
<1>2. ASSUME NEW m \in Nat, m \in S PROVE m + 1 \in S
  <2>1. PICK g : First(m, g)
    BY <1>2
  <2> DEFINE h == [n \in 0..(m + 1) |-> IF n = m + 1 THEN Try(key, id, g[m], a[m + 1]) ELSE g[n]]
  <2>2. \A n \in 0..(m + 1) :
            h[n] = IF n = 0 THEN Untried(s) ELSE Try(key, id, h[n - 1], a[n])
    BY <2>1
  <2>3. First(m + 1, h)
    BY <2>2
  <2> HIDE DEF First, h
  <2> QED BY <2>3
<1>3. N \in S
  <2> HIDE DEF S
  <2> QED BY <1>1, <1>2, Induction
<1> QED BY <1>3

\* ... and keeps what is known of the session.
LEMMA TryAliasesKeeps ==
    ASSUME NEW key, NEW id, key = "mode" => id = "mode", NEW s, NEW v, Honest(s), ModeKnown(s)
    PROVE  Trial(key, id, TryAliases(key, id, s, v))
<1> DEFINE a == Aliases(key, v)
           N == Len(a)
           tried == CHOOSE g : g = [n \in 0..N |-> IF n = 0 THEN Untried(s)
                                                    ELSE Try(key, id, g[n - 1], a[n])]
           S == {n \in Nat : n <= N => Trial(key, id, tried[n])}
<1>1. N \in Nat
  BY DEF Aliases
<1>2. tried = [n \in 0..N |-> IF n = 0 THEN Untried(s) ELSE Try(key, id, tried[n - 1], a[n])]
  <2> HIDE DEF N, a
  <2> QED BY <1>1, TrialsExist
<1>3. TryAliases(key, id, s, v) = tried[N]
  BY DEF TryAliases
<1> HIDE DEF a, N, tried
<1>4. 0 \in S
  <2>1. tried[0] = Untried(s)
    BY <1>1, <1>2
  <2>2. Trial(key, id, Untried(s))
    BY DEF Untried, Trial, IsTrial
  <2> QED BY <2>1, <2>2
<1>5. ASSUME NEW n \in Nat, n \in S PROVE n + 1 \in S
  <2> SUFFICES ASSUME n + 1 <= N PROVE Trial(key, id, tried[n + 1])
    OBVIOUS
  <2>1. Trial(key, id, tried[n])
    BY <1>1, <1>5
  <2>2. tried[n + 1] = Try(key, id, tried[n], a[n + 1])
    BY <1>1, <1>2
  <2> QED BY <2>1, <2>2, TryKeeps
<1>6. N \in S
  <2> HIDE DEF S
  <2> QED BY <1>1, <1>4, <1>5, Induction
<1> QED BY <1>1, <1>3, <1>6

\* The state of the report between two keys.
IsTrue(e) == e.id # "" => e.accepted \/ e.held
AllTrue(q) == \E n \in Nat : DOMAIN q = 1..n /\ \A i \in 1..n : IsTrue(q[i])
Truthful(r) ==
    /\ DOMAIN r = {"error", "applied", "s"}
    /\ Honest(r.s)
    /\ r.error = "none" => ModeKnown(r.s)
    /\ AllTrue(r.applied)

\* An entry for what was held is a true one.
LEMMA EntryTrue ==
    ASSUME NEW key, NEW id, NEW v, NEW s, id # "" => Held(key, id, v, s)
    PROVE  IsTrue(Entry(key, id, v, s))
  BY DEF Entry, Held, IsTrue

LEMMA Appended ==
    ASSUME NEW q, NEW n \in Nat, DOMAIN q = 1..n, NEW e
    PROVE  /\ DOMAIN Append(q, e) = 1..(n + 1)
           /\ \A i \in 1..(n + 1) : Append(q, e)[i] = IF i = n + 1 THEN e ELSE q[i]
  OBVIOUS

LEMMA AppendTrue ==
    ASSUME NEW q, AllTrue(q), NEW e, IsTrue(e)
    PROVE  AllTrue(Append(q, e))
<1>1. PICK n \in Nat : DOMAIN q = 1..n /\ \A i \in 1..n : IsTrue(q[i])
  BY DEF AllTrue
<1>2. /\ DOMAIN Append(q, e) = 1..(n + 1)
      /\ \A i \in 1..(n + 1) : Append(q, e)[i] = IF i = n + 1 THEN e ELSE q[i]
  BY <1>1, Appended
<1>3. \A i \in 1..(n + 1) : IsTrue(Append(q, e)[i])
  BY <1>1, <1>2
<1>4. n + 1 \in Nat
  OBVIOUS
<1> QED BY <1>2, <1>3, <1>4 DEF AllTrue

\* An entry is added, and the session moves on to s.
LEMMA ReportGrows ==
    ASSUME NEW r, Truthful(r), NEW e, IsTrue(e), NEW s, Honest(s), ModeKnown(s)
    PROVE  Truthful([r EXCEPT !.applied = Append(@, e), !.s = s])
<1> DEFINE r1 == [r EXCEPT !.applied = Append(@, e), !.s = s]
<1>1. /\ DOMAIN r1 = {"error", "applied", "s"}
      /\ r1.s = s /\ r1.applied = Append(r.applied, e)
  BY DEF Truthful
<1>2. AllTrue(Append(r.applied, e))
  BY AppendTrue DEF Truthful
<1> QED BY <1>1, <1>2 DEF Truthful

\* The try of an option, whatever the agent answered to it, keeps the report true.
LEMMA SettledTruthful ==
    ASSUME NEW r, Truthful(r), r.error = "none", NEW key, NEW id, NEW v,
           NEW t, Trial(key, id, t)
    PROVE  Truthful(Settled(r, key, id, v, t))
<1> DEFINE unlisted == [r EXCEPT !.applied = Append(@, Entry(key, "", v, r.s))]
           failed == [r EXCEPT !.error = key, !.s = t.s]
           done == [r EXCEPT !.applied = Append(@, Entry(key, id, t.value, t.s)), !.s = t.s]
<1>1. CASE id = ""
  <2>1. Settled(r, key, id, v, t) = unlisted
    BY <1>1 DEF Settled
  <2>2. unlisted = [r EXCEPT !.applied = Append(@, Entry(key, "", v, r.s)), !.s = r.s]
    BY DEF Truthful
  <2>3. Honest(r.s) /\ ModeKnown(r.s)
    BY DEF Truthful
  <2>4. IsTrue(Entry(key, "", v, r.s))
    BY DEF Entry, IsTrue
  <2>5. Truthful([r EXCEPT !.applied = Append(@, Entry(key, "", v, r.s)), !.s = r.s])
    BY <2>3, <2>4, ReportGrows, Zenon
  <2> QED BY <2>1, <2>2, <2>5, Zenon
<1>2. CASE id # "" /\ ~t.ok
  <2>1. Settled(r, key, id, v, t) = failed
    BY <1>2 DEF Settled
  <2>2. Honest(t.s) /\ (key = "none" => ModeKnown(t.s))
    BY <1>2 DEF Trial
  <2>3. Truthful(failed)
    BY <2>2 DEF Truthful
  <2> QED BY <2>1, <2>3, Zenon
<1>3. CASE id # "" /\ t.ok
  <2>1. Settled(r, key, id, v, t) = done
    BY <1>3 DEF Settled
  <2>2. Honest(t.s) /\ ModeKnown(t.s) /\ Held(key, id, t.value, t.s)
    BY <1>3 DEF Trial
  <2>3. IsTrue(Entry(key, id, t.value, t.s))
    BY <2>2, EntryTrue
  <2>4. Truthful(done)
    BY <2>2, <2>3, ReportGrows, Zenon
  <2> QED BY <2>1, <2>4, Zenon
<1> QED BY <1>1, <1>2, <1>3

\* One key of the config keeps the report true, whatever the agent answers.
LEMMA ApplyKeyTruthful ==
    ASSUME NEW r, Truthful(r), NEW key, NEW v
    PROVE  Truthful(ApplyKey(r, key, v))
<1> DEFINE id == OptionId(r.s, key)
           t == TryAliases(key, id, r.s, v)
<1>1. CASE r.error # "none" \/ v = ""
  BY <1>1, Zenon DEF ApplyKey
<1>2. CASE ~(r.error # "none" \/ v = "")
  <2>1. Trial(key, id, t)
    <3>1. key = "mode" => id = "mode"
      BY DEF OptionId
    <3>2. Honest(r.s) /\ ModeKnown(r.s)
      BY <1>2 DEF Truthful
    <3> HIDE DEF id
    <3> QED BY <3>1, <3>2, TryAliasesKeeps
  <2>2. Truthful(Settled(r, key, id, v, t))
    BY <1>2, <2>1, SettledTruthful, Zenon
  <2>3. ApplyKey(r, key, v) = Settled(r, key, id, v, t)
    BY <1>2, Zenon DEF ApplyKey
  <2> QED BY <2>2, <2>3, Zenon
<1> QED BY <1>1, <1>2

\* Whatever the agent answers, whatever the session holds and whatever is asked
\* for, an item applyInitialConfig reports as applied was accepted by the agent
\* or is what it held at that time.
THEOREM ReportTrue ==
    ASSUME NEW s, Honest(s), ModeKnown(s), NEW config
    PROVE  \A i \in DOMAIN Apply(s, config).applied :
               LET item == Apply(s, config).applied[i] IN
               item.id # "" => item.accepted \/ item.held
<1>1. Truthful([error |-> "none", applied |-> <<>>, s |-> s])
  <2>1. AllTrue(<<>>)
    <3>1. 0 \in Nat /\ DOMAIN <<>> = 1..0 /\ \A i \in 1..0 : IsTrue(<<>>[i])
      OBVIOUS
    <3> QED BY <3>1 DEF AllTrue
  <2> QED BY <2>1 DEF Truthful
<1>2. Truthful(Apply(s, config))
  BY <1>1, ApplyKeyTruthful, Zenon DEF Apply
<1> QED BY <1>2 DEF Truthful, AllTrue, IsTrue

\* The session just opened is one of these: ReportIsTrue of every script of
\* answers, of any length.
THEOREM ReportIsTrueHolds == Spec => []ReportIsTrue
<1>1. ReportIsTrue
  <2> SUFFICES ASSUME NEW config \in InitialConfigs, NEW s \in Sessions
               PROVE  \A i \in DOMAIN Apply(s, config).applied :
                         LET item == Apply(s, config).applied[i] IN
                         item.id # "" => item.accepted \/ item.held
    BY DEF ReportIsTrue
  <2>1. Honest(s) /\ ModeKnown(s)
    BY DEF Sessions, Opened, Honest, IsSession, ModeKnown
  <2> QED BY <2>1, ReportTrue
<1> QED BY <1>1, PTL

-----------------------------------------------------------------------------
(* The model ids of the gateway: what is listed can be asked for.             *)

\* Ids over a set of words.
Ids(W) == [path : {p \in Seq(W) : p # <<>>}, mark : BOOLEAN]

\* A sequence over a set, and one added to it.
LEMMA Appending ==
    ASSUME NEW X, NEW q \in Seq(X), NEW e \in X
    PROVE  Append(q, e) \in Seq(X)
  OBVIOUS

\* uniqueStrings only drops.
LEMMA UniqueType ==
    ASSUME NEW X, NEW q \in Seq(X)
    PROVE  Unique(q) \in Seq(X)
<1> DEFINE N == Len(q)
           T == Seq(X)
           kept == CHOOSE g : g = [n \in 0..N |-> IF n = 0 THEN <<>> ELSE Keep(g[n - 1], q[n])]
           step == [n \in 1..N |-> [r \in T |-> Keep(r, q[n])]]
<1>1. N \in Nat /\ <<>> \in T
  OBVIOUS
<1>2. \A r \in T, n \in 1..N : Keep(r, q[n]) \in T
  BY DEF Keep
<1>3. PICK g : IsFold(g, T, <<>>, N, step)
  <2>1. step \in Steps(T, N)
    BY <1>2 DEF Steps
  <2> HIDE DEF T, N, step
  <2> QED BY <1>1, <2>1, FoldExists
<1>4. g = [n \in 0..N |-> IF n = 0 THEN <<>> ELSE Keep(g[n - 1], q[n])]
  <2> HIDE DEF T, N
  <2> QED BY <1>1, <1>3 DEF IsFold
<1>5. kept = [n \in 0..N |-> IF n = 0 THEN <<>> ELSE Keep(kept[n - 1], q[n])]
  BY <1>4
<1>6. Unique(q) = kept[N]
  BY DEF Unique
<1> HIDE DEF kept, T, N, step
<1>7. kept[N] \in T
  <2> DEFINE S == {n \in Nat : kept[n] \in T}
  <2>1. 0 \in S
    BY <1>1, <1>5
  <2>2. ASSUME NEW n \in 1..N, n - 1 \in S PROVE n \in S
    BY <1>1, <1>2, <1>5, <2>2
  <2> HIDE DEF S
  <2>3. N \in S
    BY <1>1, <2>1, <2>2, FoldKeeps
  <2> QED BY <2>3 DEF S
<1> QED BY <1>6, <1>7 DEF T

\* An agent whose offers, qualified by its name, are in Y, and a gateway of them.
IsAgent(agent, Y) ==
    \E X : /\ agent.models \in Seq(X) /\ agent.choices \in Seq(X)
           /\ \A m \in X : Qualify(agent.id, m) \in Y
IsGateway(server, Y) ==
    /\ server.discovers \in BOOLEAN /\ server.models \in Seq(Y)
    /\ Len(server.agents) \in Nat
    /\ \A a \in 1..Len(server.agents) : IsAgent(server.agents[a], Y)
    /\ Id(<<Default(server)>>, FALSE) \in Y

LEMMA WiderGateway ==
    ASSUME NEW Y, NEW Z, Y \subseteq Z, NEW server, IsGateway(server, Y)
    PROVE  IsGateway(server, Z)
<1>1. \A agent : IsAgent(agent, Y) => IsAgent(agent, Z)
  BY DEF IsAgent
<1>2. server.models \in Seq(Z)
  BY DEF IsGateway
<1> QED BY <1>1, <1>2 DEF IsGateway

LEMMA OffersType ==
    ASSUME NEW Y, NEW agent, IsAgent(agent, Y)
    PROVE  OffersOf(agent) \in Seq(Y)
<1>1. PICK X : /\ agent.models \in Seq(X) /\ agent.choices \in Seq(X)
               /\ \A m \in X : Qualify(agent.id, m) \in Y
  BY DEF IsAgent
<1>2. Offered(agent) \in Seq(X)
  BY <1>1, UniqueType DEF Offered
<1> DEFINE q == Offered(agent)
<1> HIDE DEF q
<1>3. \A i \in 1..Len(q) : Qualify(agent.id, q[i]) \in Y
  BY <1>1, <1>2 DEF q
<1>4. OffersOf(agent) = [i \in 1..Len(q) |-> Qualify(agent.id, q[i])] /\ Len(q) \in Nat
  BY <1>2 DEF OffersOf, q
<1> QED BY <1>3, <1>4

\* The agents in their order, each with what it offers.
LEMMA DiscoveredType ==
    ASSUME NEW Y, NEW server, IsGateway(server, Y)
    PROVE  Discovered(server) \in Seq(Y)
<1> DEFINE agents == server.agents
           N == Len(agents)
           T == Seq(Y)
           found == CHOOSE g : g = [a \in 0..N |-> IF a = 0 THEN <<>>
                                                   ELSE Ask(g[a - 1], agents[a])]
           step == [a \in 1..N |-> [r \in T |-> Ask(r, agents[a])]]
<1>1. N \in Nat /\ <<>> \in T
  BY DEF IsGateway
<1>2. \A r \in T, a \in 1..N : Ask(r, agents[a]) \in T
  BY OffersType DEF IsGateway, Ask
<1>3. PICK g : IsFold(g, T, <<>>, N, step)
  <2>1. step \in Steps(T, N)
    BY <1>2 DEF Steps
  <2> HIDE DEF T, N, step
  <2> QED BY <1>1, <2>1, FoldExists
<1>4. g = [a \in 0..N |-> IF a = 0 THEN <<>> ELSE Ask(g[a - 1], agents[a])]
  <2> HIDE DEF T, N, agents
  <2>1. ASSUME NEW a \in 1..N PROVE g[a] = Ask(g[a - 1], agents[a])
    <3>1. g[a - 1] \in T /\ g[a] = step[a][g[a - 1]]
      BY <1>1, <1>3 DEF IsFold
    <3> QED BY <3>1
  <2>2. g = [a \in 0..N |-> g[a]] /\ g[0] = <<>>
    BY <1>3 DEF IsFold
  <2>3. \A a \in 0..N : g[a] = IF a = 0 THEN <<>> ELSE Ask(g[a - 1], agents[a])
    BY <1>1, <2>1, <2>2
  <2> QED BY <2>2, <2>3
<1>5. found = [a \in 0..N |-> IF a = 0 THEN <<>> ELSE Ask(found[a - 1], agents[a])]
  BY <1>4
<1>6. Discovered(server) = IF server.discovers THEN Unique(found[N]) ELSE <<>>
  BY DEF Discovered
<1> HIDE DEF found, T, N, step, agents
<1>7. found[N] \in T
  <2> DEFINE S == {a \in Nat : found[a] \in T}
  <2>1. 0 \in S
    BY <1>1, <1>5
  <2>2. ASSUME NEW a \in 1..N, a - 1 \in S PROVE a \in S
    BY <1>1, <1>2, <1>5, <2>2
  <2> HIDE DEF S
  <2>3. N \in S
    BY <1>1, <2>1, <2>2, FoldKeeps
  <2> QED BY <2>3 DEF S
<1> QED BY <1>1, <1>6, <1>7, UniqueType DEF T

\* The inventory is a sequence of ids.
LEMMA InventoryType ==
    ASSUME NEW Y, NEW server, IsGateway(server, Y), NEW cached \in BOOLEAN
    PROVE  ModelsForList(server, cached) \in Seq(Y)
<1>1. <<Id(<<Default(server)>>, FALSE)>> \in Seq(Y) /\ server.models \in Seq(Y)
  <2> DEFINE standin == Id(<<Default(server)>>, FALSE)
  <2>1. standin \in Y /\ server.models \in Seq(Y)
    BY DEF IsGateway
  <2> HIDE DEF standin
  <2>2. <<standin>> \in Seq(Y)
    BY <2>1
  <2> QED BY <2>1, <2>2 DEF standin
<1>2. Configured(server) \in Seq(Y)
  BY <1>1, UniqueType DEF Configured
<1>3. Configured(server) \o Discovered(server) \in Seq(Y)
  BY <1>2, DiscoveredType
<1> QED BY <1>1, <1>3, UniqueType DEF ModelsForList

\* A set of positions that is not empty has a least one.
LEMMA LeastPosition ==
    ASSUME NEW n \in Nat, NEW P, P \subseteq 1..n, P # {}
    PROVE  Min(P) \in P /\ \A i \in P : Min(P) <= i
<1>1. P \subseteq Nat
  OBVIOUS
<1>2. PICK x \in P : \A y \in P : ~(<<y, x>> \in OpToRel(<, Nat))
  BY <1>1, WFMin, NatLessThanWellFounded, Zenon
<1>3. ASSUME NEW y \in P PROVE x <= y
  <2>1. x \in Nat /\ y \in Nat
    BY <1>1
  <2>2. ~(y < x)
    BY <1>2, <2>1 DEF OpToRel
  <2> QED BY <2>1, <2>2
<1> QED BY <1>3 DEF Min

\* A set of positions that is not empty has a last one.
LEMMA LastPosition ==
    ASSUME NEW n \in Nat, NEW P, P \subseteq 1..n, P # {}
    PROVE  \E i \in P : \A j \in P : j <= i
<1> DEFINE R == {k \in 1..n : n + 1 - k \in P}
<1>1. PICK x \in P : TRUE
  OBVIOUS
<1>2. n + 1 - x \in R
  OBVIOUS
<1>3. Min(R) \in R /\ \A k \in R : Min(R) <= k
  <2>1. R \subseteq 1..n /\ R # {}
    BY <1>2
  <2> HIDE DEF R
  <2> QED BY <2>1, LeastPosition
<1> DEFINE i == n + 1 - Min(R)
<1>4. i \in P
  BY <1>3
<1>5. ASSUME NEW j \in P PROVE j <= i
  <2>1. n + 1 - j \in R
    OBVIOUS
  <2> QED BY <1>3, <2>1
<1> QED BY <1>4, <1>5

LEMMA LatestIs ==
    ASSUME NEW n \in Nat, NEW P, P \subseteq 1..n
    PROVE  /\ P = {} => Latest(P) = 0
           /\ P # {} => Latest(P) \in P /\ \A j \in P : j <= Latest(P)
<1>1. CASE P # {}
  <2>1. \E i \in P : \A j \in P : j <= i
    BY <1>1, LastPosition
  <2> QED BY <1>1, <2>1 DEF Latest
<1> QED BY <1>1 DEF Latest

\* The id that another one stands for as well (publicModelMatches).
Alias == Id(<<"claude-haiku-4-5">>, FALSE)

LEMMA CleanIsId ==
    ASSUME NEW W, NEW x \in Ids(W)
    PROVE  /\ Clean(x) \in Ids(W) /\ Clean(x).path = x.path /\ Clean(Clean(x)) = Clean(x)
           /\ Internal(x) => Internal(Clean(x))
<1>1. Clean(x) \in Ids(W) /\ Clean(x).path = x.path /\ Clean(Clean(x)) = Clean(x)
  BY DEF Ids, Clean
<1> QED BY <1>1 DEF Internal, Slashed

\* The model of an internal id, under its agent again, is that id.
LEMMA Requalified ==
    ASSUME NEW W, NEW x \in Ids(W), Internal(x)
    PROVE  /\ Slashed(x) /\ ModelPart(x) \in Ids(W)
           /\ Qualify(x.path[1], Clean(ModelPart(x))) = Clean(x)
           /\ ModelPart(x) = [x EXCEPT !.path = Tail(@)]
<1> DEFINE p == x.path
<1>1. p \in Seq(W) /\ Len(p) > 1
  BY DEF Internal, Slashed, Ids
<1>2. ModelPart(x) = [x EXCEPT !.path = Tail(p)]
  BY DEF ModelPart
<1> HIDE DEF p
<1>3. Tail(p) \in Seq(W) /\ Tail(p) # <<>> /\ <<p[1]>> \o Tail(p) = p
  BY <1>1
<1>4. ModelPart(x) \in Ids(W)
  BY <1>2, <1>3 DEF Ids, p
<1>5. Qualify(p[1], Clean(ModelPart(x))) = [x EXCEPT !.path = <<p[1]>> \o Tail(p), !.mark = FALSE]
  BY <1>2, <1>3 DEF Ids, Qualify, Clean, p
<1>6. [x EXCEPT !.path = <<p[1]>> \o Tail(p), !.mark = FALSE] = Clean(x)
  BY <1>3 DEF Ids, Clean, p
<1> QED BY <1>2, <1>4, <1>5, <1>6 DEF p, Internal

\* What is shown for an id without an agent is that id.
LEMMA PublicOfBare ==
    ASSUME NEW W, NEW x \in Ids(W), ~Internal(x), NEW m \in Public(x)
    PROVE  m = Clean(x)
  BY DEF Public, ModelPart

\* A public id of one part leads, in any gateway, to the first agent that has
\* its model, and is accepted.
THEOREM ListedRoutes ==
    ASSUME NEW W, NEW g, IsGateway(g, Ids(W)), NEW cached \in BOOLEAN,
           NEW m \in Listed(g, cached), m # Alias
    PROVE  Leads(g, m)
<1> DEFINE all == ModelsForList(g, TRUE)
           having == {i \in DOMAIN all : Internal(all[i]) /\ m \in Public(all[i])}
           bare == \E i \in DOMAIN all : ~Slashed(all[i]) /\ Clean(all[i]) = m /\ all[i] # m
           first == all[Min(having)]
<1> SUFFICES ASSUME ~Slashed(m), having # {} \/ ~bare
             PROVE  /\ Accepted(g, m)
                    /\ having # {} =>
                         /\ Resolve(g, m)[1] = first.path[1]
                         /\ \E i \in having : Resolve(g, m)[2] = Clean(ModelPart(all[i]))
  BY Zenon DEF Leads
<1>1. all \in Seq(Ids(W))
  BY InventoryType
<1>2. Accepted(g, m) <=>
          \/ ~\E i \in DOMAIN all : Slashed(all[i])
          \/ m \in ToSet(all)
          \/ Available(all, Qualify(Resolve(g, m)[1], Resolve(g, m)[2]))
  BY DEF Accepted
<1>3. ShownAs(g, m) = having
  BY DEF ShownAs, Matches, Alias
<1>4. having # {} => Resolve(g, m) = <<first.path[1], Clean(ModelPart(first))>>
  BY <1>3 DEF Resolve
<1>5. all # <<>> => ModelsForList(g, cached) = all
  BY DEF ModelsForList
<1>6. all # <<>> => \E i \in DOMAIN all : m \in Public(all[i])
  BY <1>5 DEF Listed, ToSet
<1> HIDE DEF all
<1>7. CASE all = <<>>
  <2>1. DOMAIN all = {}
    BY <1>7
  <2> QED BY <1>2, <2>1 DEF all
<1>8. CASE all # <<>> /\ having # {}
  <2>1. DOMAIN all = 1..Len(all) /\ Len(all) \in Nat /\ \A i \in DOMAIN all : all[i] \in Ids(W)
    BY <1>1
  <2>2. Min(having) \in having
    <3> HIDE DEF having
    <3>1. having \subseteq 1..Len(all)
      BY <2>1 DEF having
    <3> QED BY <1>8, <2>1, <3>1, LeastPosition
  <2>3. first \in Ids(W) /\ Internal(first) /\ Min(having) \in DOMAIN all
    BY <2>1, <2>2
  <2>4. Resolve(g, m)[1] = first.path[1] /\ Resolve(g, m)[2] = Clean(ModelPart(first))
    BY <1>4, <1>8
  <2>5. Qualify(Resolve(g, m)[1], Resolve(g, m)[2]) = Clean(first)
    BY <2>3, <2>4, Requalified
  <2>6. Available(all, Clean(first))
    <3>1. Internal(Clean(first)) /\ Clean(Clean(first)) = Clean(first)
      BY <2>3, CleanIsId
    <3> QED BY <2>3, <3>1 DEF Available
  <2>7. Accepted(g, m)
    BY <1>2, <2>5, <2>6
  <2> QED BY <2>2, <2>4, <2>7 DEF all
<1>9. CASE all # <<>> /\ having = {}
  <2>1. PICK i \in DOMAIN all : m \in Public(all[i])
    BY <1>6, <1>9
  <2>2. all[i] \in Ids(W) /\ ~Internal(all[i])
    BY <1>1, <1>9, <2>1
  <2>3. m = Clean(all[i]) /\ ~Slashed(all[i])
    BY <2>1, <2>2, PublicOfBare, CleanIsId DEF Slashed
  <2>4. ~bare => m \in ToSet(all)
    BY <2>1, <2>3 DEF ToSet
  <2>5. ~bare => Accepted(g, m)
    BY <1>2, <2>4
  <2> QED BY <1>9, <2>5 DEF all
<1> QED BY <1>7, <1>8, <1>9

\* An id of the inventory is accepted, and the agent it names gets its model.
LEMMA InternalRoutes ==
    ASSUME NEW W, NEW g, IsGateway(g, Ids(W)), NEW m \in ToSet(ModelsForList(g, TRUE))
    PROVE  LeadsByName(g, m)
<1> SUFFICES ASSUME Internal(m)
             PROVE  Accepted(g, m) /\ Resolve(g, m) = <<m.path[1], ModelPart(m)>>
  BY DEF LeadsByName
<1> DEFINE all == ModelsForList(g, TRUE)
<1>1. m \in Ids(W)
  <2>1. all \in Seq(Ids(W)) /\ m \in ToSet(all)
    BY InventoryType
  <2> HIDE DEF all
  <2> QED BY <2>1 DEF ToSet
<1>2. Accepted(g, m)
  BY DEF Accepted
<1>3. Slashed(m) /\ ModelPart(m) = [m EXCEPT !.path = Tail(@)]
  BY <1>1, Requalified
<1>4. Resolve(g, m) = <<m.path[1], [m EXCEPT !.path = Tail(@)]>>
  BY <1>3 DEF Resolve
<1> QED BY <1>2, <1>3, <1>4

-----------------------------------------------------------------------------
(* The gateways a line of model units stands for.                            *)

\* A line is a sequence of units of its kind.
LineOK == kind \in DOMAIN Alphabet /\ line \in Seq(Alphabet[kind])

LEMMA LineCorrect == Spec => []LineOK
<1>1. Init => LineOK
  BY DEF Init, LineOK
<1>2. LineOK /\ [Extend]_<<kind, line>> => LineOK'
  BY Appending DEF LineOK, Extend
<1> QED BY <1>1, <1>2, PTL DEF Spec

LEMMA OfferType ==
    ASSUME NEW U, line \in Seq(U), NEW what, NEW X,
           \A u \in U, r \in Seq(X) : Take(what, r, u) \in Seq(X)
    PROVE  Offer(what) \in Seq(X)
<1> DEFINE N == Len(line)
           T == Seq(X)
           taken == CHOOSE g : g = [n \in 0..N |-> IF n = 0 THEN <<>> ELSE Take(what, g[n - 1], line[n])]
           step == [n \in 1..N |-> [r \in T |-> Take(what, r, line[n])]]
<1>1. N \in Nat /\ <<>> \in T
  OBVIOUS
<1>2. \A r \in T, n \in 1..N : Take(what, r, line[n]) \in T
  OBVIOUS
<1>3. PICK g : IsFold(g, T, <<>>, N, step)
  <2>1. step \in Steps(T, N)
    BY <1>2 DEF Steps
  <2> HIDE DEF T, N, step
  <2> QED BY <1>1, <2>1, FoldExists
<1>4. g = [n \in 0..N |-> IF n = 0 THEN <<>> ELSE Take(what, g[n - 1], line[n])]
  <2> HIDE DEF T, N
  <2>1. ASSUME NEW n \in 1..N PROVE g[n] = Take(what, g[n - 1], line[n])
    <3>1. g[n - 1] \in T /\ g[n] = step[n][g[n - 1]]
      BY <1>1, <1>3 DEF IsFold
    <3> QED BY <3>1
  <2>2. g = [n \in 0..N |-> g[n]] /\ g[0] = <<>>
    BY <1>3 DEF IsFold
  <2>3. \A n \in 0..N : g[n] = IF n = 0 THEN <<>> ELSE Take(what, g[n - 1], line[n])
    BY <1>1, <2>1, <2>2
  <2> QED BY <2>2, <2>3
<1>5. taken = [n \in 0..N |-> IF n = 0 THEN <<>> ELSE Take(what, taken[n - 1], line[n])]
  BY <1>4
<1>6. Offer(what) = taken[N]
  BY DEF Offer
<1> HIDE DEF taken, T, N, step
<1>7. taken[N] \in T
  <2> DEFINE S == {n \in Nat : taken[n] \in T}
  <2>1. 0 \in S
    BY <1>1, <1>5
  <2>2. ASSUME NEW n \in 1..N, n - 1 \in S PROVE n \in S
    BY <1>1, <1>2, <1>5, <2>2
  <2> HIDE DEF S
  <2>3. N \in S
    BY <1>1, <2>1, <2>2, FoldKeeps
  <2> QED BY <2>3 DEF S
<1> QED BY <1>6, <1>7 DEF T

Words == {"claude", "codex", "other", "org", "gpt", "opus", "haiku", "claude-next", "default", ""}

\* The ids whose model is not the one that another id stands for as well.
Plain == {x \in Ids(Words) : Clean(ModelPart(x)) # Alias}

LEMMA Singles ==
    ASSUME NEW W, NEW a \in W
    PROVE  <<a>> \in Seq(W) /\ <<a>> # <<>> /\ <<a>>[1] = a /\ Len(<<a>>) = 1
  OBVIOUS

\* An id under its agent's name.
LEMMA Qualified ==
    ASSUME NEW W, NEW m \in Ids(W), NEW a \in W
    PROVE  /\ Qualify(a, m) \in Ids(W)
           /\ Qualify(a, m).path[1] = a /\ Tail(Qualify(a, m).path)[1] = m.path[1]
<1> DEFINE p == m.path
<1>1. p \in Seq(W) /\ p # <<>> /\ m.mark \in BOOLEAN
  BY DEF Ids
<1>2. Qualify(a, m) = [m EXCEPT !.path = <<a>> \o p]
  BY DEF Qualify
<1> HIDE DEF p
<1>3. <<a>> \o p \in Seq(W) /\ <<a>> \o p # <<>> /\ (<<a>> \o p)[1] = a /\ Tail(<<a>> \o p) = p
  BY <1>1
<1>4. [m EXCEPT !.path = <<a>> \o p].path = <<a>> \o p
  BY DEF Ids
<1>5. [m EXCEPT !.path = <<a>> \o p] \in Ids(W)
  <2> DEFINE q == <<a>> \o p
  <2>1. q \in Seq(W) /\ q # <<>>
    BY <1>3
  <2> HIDE DEF q
  <2>2. [m EXCEPT !.path = q] \in Ids(W)
    BY <2>1 DEF Ids
  <2> QED BY <2>2 DEF q
<1> QED BY <1>2, <1>3, <1>4, <1>5 DEF p

\* An id is plain that has the other name for haiku nowhere.
LEMMA PlainIds ==
    ASSUME NEW y \in Ids(Words), y.path[1] # "claude-haiku-4-5",
           Internal(y) => Tail(y.path)[1] # "claude-haiku-4-5"
    PROVE  y \in Plain
<1>1. ModelPart(y).path[1] # "claude-haiku-4-5"
  BY DEF ModelPart, Ids
<1>2. Clean(ModelPart(y)).path = ModelPart(y).path
  <2>1. CASE Internal(y)
    BY <2>1, Requalified, CleanIsId
  <2>2. CASE ~Internal(y)
    BY <2>2, CleanIsId DEF ModelPart
  <2> QED BY <2>1, <2>2
<1>3. Alias.path[1] = "claude-haiku-4-5"
  BY DEF Alias, Id
<1> QED BY <1>1, <1>2, <1>3 DEF Plain

LEMMA ListedPlain ==
    ASSUME NEW x \in Plain, NEW m \in Public(x)
    PROVE  m # Alias
<1> DEFINE name == Clean(ModelPart(x))
<1>1. name # Alias
  BY DEF Plain
<1>2. m = name \/ m \in ClaudePublic(name)
  BY DEF Public
<1> HIDE DEF name
<1>3. ASSUME m \in ClaudePublic(name), m # name PROVE m # Alias
  <2>1. PICK f \in {"opus", "sonnet", "haiku"} : m = Id(<<Family[f]>>, FALSE)
    BY <1>3 DEF ClaudePublic, Family
  <2>2. Family[f] # "claude-haiku-4-5"
    BY DEF Family
  <2>3. m.path = <<Family[f]>> /\ Alias.path = <<"claude-haiku-4-5">>
    BY <2>1, <2>2 DEF Id, Alias
  <2> QED BY <2>2, <2>3
<1> QED BY <1>1, <1>2, <1>3

LEMMA NamesAreIds ==
    ASSUME NEW m \in Names \cup Configurable
    PROVE  /\ m \in Ids(Words) /\ m.path[1] # "claude-haiku-4-5"
           /\ Internal(m) /\ m \in Configurable => Tail(m.path)[1] # "claude-haiku-4-5"
<1>1. ASSUME NEW p, p \in Seq(Words), p # <<>>, m.path = p, m = [path |-> p, mark |-> m.mark],
             m.mark \in BOOLEAN
      PROVE  m \in Ids(Words)
  BY <1>1 DEF Ids
<1>2. m.mark \in BOOLEAN /\ m = [path |-> m.path, mark |-> m.mark]
  BY DEF Names, Bare, Configurable
<1>3. ASSUME NEW a \in {"default", "claude-next", "haiku", "gpt", "opus"}, m.path = <<a>>
      PROVE  /\ m \in Ids(Words) /\ m.path[1] # "claude-haiku-4-5" /\ ~Internal(m)
  <2>1. a \in Words /\ a # "claude-haiku-4-5"
    BY DEF Words
  <2>2. <<a>> \in Seq(Words) /\ <<a>> # <<>> /\ <<a>>[1] = a /\ Len(<<a>>) = 1
    BY <2>1, Singles
  <2>3. ~Internal(m)
    BY <1>3, <2>2 DEF Internal, Slashed
  <2> QED BY <1>1, <1>2, <1>3, <2>1, <2>2, <2>3
<1> DEFINE Others == Words \ {"claude-haiku-4-5"}
<1>4. ASSUME NEW a \in Others, NEW b \in Others, m.path = <<a, b>>
      PROVE  /\ m \in Ids(Words) /\ m.path[1] # "claude-haiku-4-5"
             /\ Tail(m.path)[1] # "claude-haiku-4-5"
  <2>1. Others \subseteq Words /\ "claude-haiku-4-5" \notin Others
    OBVIOUS
  <2> HIDE DEF Others
  <2>2. <<a, b>> \in Seq(Words) /\ <<a, b>> # <<>> /\ <<a, b>>[1] = a /\ Tail(<<a, b>>)[1] = b
    BY <2>1
  <2> QED BY <1>1, <1>2, <1>4, <2>1, <2>2
<1>5. \/ \E a \in {"default", "claude-next", "haiku", "gpt", "opus"} : m.path = <<a>>
      \/ \E a \in Others, b \in Others : m.path = <<a, b>>
  BY DEF Names, Bare, Configurable, Words
<1> QED BY <1>3, <1>4, <1>5

LEMMA QualifiedPlain ==
    ASSUME NEW agent \in {"claude", "codex", "other"}, NEW m \in Names
    PROVE  Qualify(agent, m) \in Plain
<1>1. agent \in Words /\ agent # "claude-haiku-4-5"
  BY DEF Words
<1>2. m \in Ids(Words) /\ m.path[1] # "claude-haiku-4-5"
  BY NamesAreIds
<1>3. Qualify(agent, m) \in Ids(Words)
  BY <1>1, <1>2, Qualified
<1>4. Qualify(agent, m).path[1] = agent
  BY <1>1, <1>2, Qualified
<1>5. Tail(Qualify(agent, m).path)[1] = m.path[1]
  BY <1>1, <1>2, Qualified, ZenonT(60)
<1> QED BY <1>1, <1>2, <1>3, <1>4, <1>5, PlainIds

LEMMA ConfiguredPlain ==
    ASSUME NEW m \in Configurable
    PROVE  m \in Plain
  BY NamesAreIds, PlainIds

\* What a unit of the line adds to an offer.
LEMMA TakeType ==
    ASSUME NEW u \in ModelUnits, NEW id, NEW r
    PROVE  /\ r \in Seq(Configurable) => Take(<<"configured">>, r, u) \in Seq(Configurable)
           /\ r \in Seq(Names) => Take(<<"models", id>>, r, u) \in Seq(Names)
           /\ r \in Seq(Names) => Take(<<"choices", id>>, r, u) \in Seq(Names)
<1>1. \/ u[1] = "configured" /\ u[2] \in Configurable
      \/ u[1] = "models" /\ u[3] \in Names
      \/ u[1] = "choices" /\ u[3] \in Names
  BY DEF ModelUnits, Names
<1>2. Take(<<"configured">>, r, u) = IF u[1] = "configured" THEN Append(r, u[2]) ELSE r
  BY DEF Take
<1>3. ASSUME NEW w, u[1] # w PROVE Take(<<w, id>>, r, u) = r
  BY <1>3 DEF Take
<1>4. ASSUME NEW w PROVE Take(<<w, id>>, r, u) = r \/ Take(<<w, id>>, r, u) = Append(r, u[3])
  BY DEF Take
<1>5. r \in Seq(Configurable) => Take(<<"configured">>, r, u) \in Seq(Configurable)
  BY <1>1, <1>2, SMTT(60)
<1>6. ASSUME NEW w \in {"models", "choices"}, r \in Seq(Names)
      PROVE  Take(<<w, id>>, r, u) \in Seq(Names)
  <2>1. CASE u[1] # w
    BY <1>3, <1>6, <2>1
  <2>2. CASE u[1] = w
    <3>1. u[3] \in Names
      BY <1>1, <1>6, <2>2
    <3>2. Append(r, u[3]) \in Seq(Names)
      BY <1>6, <3>1, Appending
    <3> QED BY <1>4, <1>6, <3>2
  <2> QED BY <2>1, <2>2
<1> QED BY <1>5, <1>6

\* The gateway a line stands for is one of plain ids.
LEMMA GatewaysPlain ==
    ASSUME LineOK, kind = "models", NEW g \in Gateways
    PROVE  IsGateway(g, Plain)
<1>1. line \in Seq(ModelUnits)
  BY DEF LineOK, Alphabet
<1>2. Offer(<<"configured">>) \in Seq(Configurable)
  BY <1>1, TakeType, OfferType
<1>3. \A id : Offer(<<"models", id>>) \in Seq(Names) /\ Offer(<<"choices", id>>) \in Seq(Names)
  BY <1>1, TakeType, OfferType
<1>4. /\ g.discovers \in BOOLEAN /\ g.models = Offer(<<"configured">>) /\ g.agents = AgentsOf
  BY DEF Gateways
<1>5. Offer(<<"configured">>) \in Seq(Plain)
  <2>1. Configurable \subseteq Plain
    BY ConfiguredPlain
  <2> QED BY <1>2, <2>1
<1>6. ASSUME NEW a \in 1..3
      PROVE  /\ AgentsOf[a].id \in {"claude", "codex", "other"}
             /\ AgentsOf[a].models \in Seq(Names) /\ AgentsOf[a].choices \in Seq(Names)
  <2> DEFINE id == <<"claude", "codex", "other">>[a]
  <2>1. AgentsOf[a] = [id |-> id, models |-> Offer(<<"models", id>>), choices |-> Offer(<<"choices", id>>)]
    BY DEF AgentsOf
  <2>2. id \in {"claude", "codex", "other"}
    BY <1>6
  <2> HIDE DEF id
  <2> QED BY <1>3, <2>1, <2>2
<1>7. Len(AgentsOf) = 3 /\ AgentsOf[1].id = "claude"
  BY DEF AgentsOf
<1>8. \A a \in 1..3 : IsAgent(AgentsOf[a], Plain)
  BY <1>6, QualifiedPlain DEF IsAgent
<1>9. Id(<<"claude">>, FALSE) \in Plain
  <2> DEFINE p == <<"claude">>
             x == Id(p, FALSE)
  <2>1. p \in Seq(Words) /\ p # <<>> /\ Len(p) = 1 /\ p[1] # "claude-haiku-4-5"
    BY Singles DEF Words
  <2>2. x.path = p
    BY DEF Id
  <2> HIDE DEF p
  <2>3. x \in Ids(Words)
    BY <2>1 DEF Id, Ids
  <2> HIDE DEF x
  <2>4. Len(x.path) = 1
    BY <2>1, <2>2
  <2>5. ~Slashed(x)
    BY <2>4 DEF Slashed
  <2>6. ~Internal(x)
    BY <2>5 DEF Internal
  <2>7. x \in Plain
    BY <2>1, <2>2, <2>3, <2>6, PlainIds
  <2> QED BY <2>7 DEF x, p
<1>10. Default(g) = "claude"
  BY <1>4, <1>7 DEF Default
<1>11. Len(g.agents) = 3 /\ \A a \in 1..3 : IsAgent(g.agents[a], Plain)
  BY <1>4, <1>7, <1>8
<1>12. g.discovers \in BOOLEAN /\ g.models \in Seq(Plain)
  BY <1>4, <1>5
<1>13. Len(g.agents) \in Nat /\ \A a \in 1..Len(g.agents) : IsAgent(g.agents[a], Plain)
  BY <1>11
<1>14. Id(<<Default(g)>>, FALSE) \in Plain
  BY <1>9, <1>10
<1> QED BY <1>12, <1>13, <1>14, Zenon DEF IsGateway

\* What is listed can be asked for, and reaches the agent it was listed for, with
\* the model it was listed for: ListedIsRoutable of gateways configured with,
\* and offered, any number of models.
THEOREM ListedIsRoutableHolds == Spec => []ListedIsRoutable
<1>1. LineOK => ListedIsRoutable
  <2> SUFFICES ASSUME LineOK, kind = "models", NEW g \in Gateways, NEW cached \in BOOLEAN
               PROVE  /\ \A m \in Listed(g, cached) : Leads(g, m)
                      /\ \A id \in ToSet(ModelsForList(g, TRUE)) : LeadsByName(g, id)
    BY DEF ListedIsRoutable
  <2>1. IsGateway(g, Plain)
    BY GatewaysPlain
  <2>2. IsGateway(g, Ids(Words))
    <3>1. Plain \subseteq Ids(Words)
      BY DEF Plain
    <3> QED BY <2>1, <3>1, WiderGateway
  <2>3. ASSUME NEW m \in Listed(g, cached) PROVE m # Alias
    <3>1. PICK x \in ToSet(ModelsForList(g, cached)) : m \in Public(x)
      BY <2>3 DEF Listed
    <3>2. x \in Plain
      BY <2>1, <3>1, InventoryType DEF ToSet
    <3> QED BY <3>1, <3>2, ListedPlain
  <2> QED BY <2>2, <2>3, ListedRoutes, InternalRoutes
<1> QED BY <1>1, LineCorrect, PTL

-----------------------------------------------------------------------------
(* The launch of a claude process: the options that were acknowledged.       *)

\* A launch is a making and then steps.
Launch == kind = "spawn" => \A i \in DOMAIN line : line[i] \in Makings <=> i = 1

LEMMA LaunchCorrect == Spec => [](LineOK /\ Launch)
<1>1. Init => LineOK /\ Launch
  BY DEF Init, LineOK, Launch
<1>2. LineOK /\ Launch /\ [Extend]_<<kind, line>> => (LineOK /\ Launch)'
  <2> SUFFICES ASSUME LineOK, Launch, Extend PROVE (LineOK /\ Launch)'
    BY DEF LineOK, Launch
  <2>1. PICK u \in Alphabet[kind] : Follows(u) /\ line' = Append(line, u)
    BY DEF Extend
  <2>2. kind' = kind /\ line \in Seq(Alphabet[kind]) /\ kind \in DOMAIN Alphabet
    BY DEF Extend, LineOK
  <2>3. line' \in Seq(Alphabet[kind])
    BY <2>1, <2>2, Appending
  <2>4. ASSUME kind = "spawn" PROVE u \in Makings <=> line = <<>>
    BY <2>1, <2>4 DEF Follows
  <2> DEFINE A == Alphabet[kind]
  <2> HIDE DEF A
  <2>5. line \in Seq(A) /\ line' = Append(line, u)
    BY <2>1, <2>2 DEF A
  <2>6. Launch'
    BY <2>2, <2>4, <2>5 DEF Launch
  <2> QED BY <2>2, <2>3, <2>6 DEF LineOK, A
<1> QED BY <1>1, <1>2, PTL DEF Spec

LEMMA StepsAre ==
    ASSUME NEW w \in SpawnSteps
    PROVE  \/ w[1] = "set" /\ w[2] \in {"model", "mode", "effort"} /\ w[3] # ""
           \/ w[1] \in {"build", "spawned", "fails"}
<1>1. ASSUME NEW key \in {"model", "mode", "effort"},
             NEW v \in {"m1", "m2", "plan", "bypassPermissions", "high"}, w = <<"set", key, v>>
      PROVE  w[1] = "set" /\ w[2] \in {"model", "mode", "effort"} /\ w[3] # ""
  BY <1>1
<1>2. ASSUME NEW step \in {"build", "spawned", "fails"}, w = <<step>>
      PROVE  w[1] \in {"build", "spawned", "fails"}
  BY <1>2
<1>3. \/ \E key \in {"model", "mode", "effort"},
           v \in {"m1", "m2", "plan", "bypassPermissions", "high"} : w = <<"set", key, v>>
      \/ \E step \in {"build", "spawned", "fails"} : w = <<step>>
  BY DEF SpawnSteps
<1> QED BY <1>1, <1>2, <1>3

\* The process made by u, and its flags for a model and a mode.
Given(u) == IF u = <<"new", "meta">> THEN "meta" ELSE ""
Chosen(u, model) == IF model # "" THEN model ELSE Given(u)
MetaOf(u) == When(u = <<"new", "meta">>, "model", Val("meta"))
IsFlag(f, name, v) == f = <<name, v>>
HasFlag(u, model, mode, f) ==
    \/ model # "" /\ IsFlag(f, "--model", model)
    \/ mode # "" /\ IsFlag(f, "--permission-mode", mode)
    \/ mode = "bypassPermissions" /\ IsFlag(f, "--allow-dangerously-skip-permissions", "")
    \/ u[1] # "load" /\ IsFlag(f, "--session-id", "own")
    \/ u[1] # "new" /\ IsFlag(f, "--resume", "previous")
    \/ u[1] = "fork" /\ IsFlag(f, "--fork-session", "")
IsArgv(u, model, mode, argv) == \A f : f \in argv <=> HasFlag(u, model, mode, f)
IsProc(u, p) ==
    /\ DOMAIN p = {"how", "meta", "servers", "model", "mode", "phase", "argv"}
    /\ p.how = u[1] /\ p.meta = MetaOf(u) /\ p.servers = <<>>
    /\ p.phase \in {"idle", "building", "up"}
    /\ p.phase # "idle" => \E model, mode : IsArgv(u, model, mode, p.argv)

\* What the metadata says of a process.
LEMMA MetaSays ==
    ASSUME NEW u \in Makings
    PROVE  /\ MetaString(MetaOf(u), "model") = Given(u) /\ MetaString(MetaOf(u), "mode") = ""
           /\ PromptArgs(MetaOf(u)) = {} /\ OptionArgs(MetaOf(u)) = {}
<1>1. DOMAIN MetaOf(u) \subseteq {"model"}
  BY DEF MetaOf, When, Put, NoKeys
<1>2. MetaString(MetaOf(u), "model") = Given(u)
  BY DEF MetaString, MetaOf, When, Put, NoKeys, Given, IsVal, Val
<1>3. MetaString(MetaOf(u), "mode") = ""
  BY <1>1 DEF MetaString
<1>4. PromptArgs(MetaOf(u)) = {}
  BY <1>1 DEF PromptArgs, Reserved
<1>5. OptionArgs(MetaOf(u)) = {}
  <2>1. DOMAIN NoKeys = {}
    BY DEF NoKeys
  <2>2. \A key : Under(NoKeys, key) = NoKeys
    BY <2>1 DEF Under
  <2>3. Under(MetaOf(u), "claudeCode") = NoKeys
    BY <1>1 DEF Under
  <2> QED BY <2>1, <2>2, <2>3 DEF OptionArgs
<1> QED BY <1>2, <1>3, <1>4, <1>5

\* The flags a process is launched with.
LEMMA BuiltArgs ==
    ASSUME NEW u \in Makings, NEW p, IsProc(u, p)
    PROVE  /\ Model(p) = Chosen(u, p.model) /\ Mode(p) = p.mode
           /\ IsArgv(u, Chosen(u, p.model), p.mode, BuildArgs(p))
<1>1. Model(p) = Chosen(u, p.model) /\ Mode(p) = p.mode
  BY MetaSays DEF Model, Mode, Chosen, IsProc
<1> DEFINE model == Chosen(u, p.model)
<1> HIDE DEF model
<1>2. PromptArgs(p.meta) = {} /\ OptionArgs(p.meta) = {} /\ p.servers = <<>> /\ p.how = u[1]
  BY MetaSays DEF IsProc
<1>3. ASSUME NEW f
      PROVE  f \in SessionArgs(p) <=> \/ u[1] # "load" /\ f = <<"--session-id", "own">>
                                      \/ u[1] # "new" /\ f = <<"--resume", "previous">>
                                      \/ u[1] = "fork" /\ f = <<"--fork-session", "">>
  BY <1>2 DEF SessionArgs, Flag
<1>4. ASSUME NEW f
      PROVE  f \in OptionFlags(p) <=> \/ model # "" /\ f = <<"--model", model>>
                                      \/ p.mode # "" /\ f = <<"--permission-mode", p.mode>>
  BY <1>1 DEF OptionFlags, IfSet, Flag, model
<1>5. ASSUME NEW f
      PROVE  f \in BuildArgs(p)
               <=> \/ f \in OptionFlags(p) \/ f \in SessionArgs(p)
                   \/ p.mode = "bypassPermissions" /\ f = <<"--allow-dangerously-skip-permissions", "">>
  BY <1>1, <1>2 DEF BuildArgs, Flag
<1>6. IsArgv(u, model, p.mode, BuildArgs(p))
  BY <1>3, <1>4, <1>5, Zenon DEF IsArgv, HasFlag, IsFlag
<1> QED BY <1>1, <1>6 DEF model

\* What a step may do to a process.
LEMMA Effects ==
    ASSUME NEW p, NEW w \in SpawnSteps
    PROVE  \/ Step(p, w) = p
           \/ w[1] = "set" /\ w[2] = "model" /\ MaySet(p) /\ Step(p, w) = [p EXCEPT !.model = w[3]]
           \/ w[1] = "set" /\ w[2] = "mode" /\ MaySet(p) /\ Step(p, w) = [p EXCEPT !.mode = w[3]]
           \/ p.phase = "idle" /\ Step(p, w) = [p EXCEPT !.argv = BuildArgs(p), !.phase = "building"]
           \/ p.phase = "building" /\ Step(p, w) = [p EXCEPT !.phase = "up"]
           \/ p.phase = "building" /\ Step(p, w) = [p EXCEPT !.argv = {}, !.phase = "idle"]
<1>1. CASE w[1] = "set"
  <2>1. Step(p, w) = SetSpawnOption(p, w[2], w[3])
    BY <1>1 DEF Step
  <2>2. w[2] \in {"model", "mode", "effort"}
    BY <1>1, StepsAre
  <2> QED BY <1>1, <2>1, <2>2 DEF SetSpawnOption
<1>2. CASE w[1] = "build"
  <2>1. Step(p, w) = Build(p)
    BY <1>2 DEF Step
  <2> QED BY <2>1 DEF Build
<1>3. CASE w[1] = "spawned"
  <2>1. Step(p, w) = Spawned(p)
    BY <1>3 DEF Step
  <2> QED BY <2>1 DEF Spawned
<1>4. CASE w[1] = "fails"
  <2>1. Step(p, w) = SpawnFails(p)
    BY <1>4 DEF Step
  <2> QED BY <2>1 DEF SpawnFails
<1> QED BY <1>1, <1>2, <1>3, <1>4, StepsAre

\* A process stays one, and its flags those of a model and a mode.
LEMMA BuildIsProc ==
    ASSUME NEW u \in Makings, NEW p, IsProc(u, p)
    PROVE  IsProc(u, [p EXCEPT !.argv = BuildArgs(p), !.phase = "building"])
<1> DEFINE argv == BuildArgs(p)
<1>1. IsArgv(u, Chosen(u, p.model), p.mode, argv)
  BY BuiltArgs
<1> HIDE DEF argv
<1> DEFINE t == [p EXCEPT !.argv = argv, !.phase = "building"]
<1>2. /\ DOMAIN t = DOMAIN p /\ t.how = p.how /\ t.meta = p.meta /\ t.servers = p.servers
      /\ t.phase = "building" /\ t.argv = argv
  BY DEF IsProc
<1>3. \E model, mode : IsArgv(u, model, mode, argv)
  BY <1>1
<1> HIDE DEF t
<1>4. IsProc(u, t)
  BY <1>2, <1>3 DEF IsProc
<1> QED BY <1>4 DEF t, argv

LEMMA StepIsProc ==
    ASSUME NEW u \in Makings, NEW p, IsProc(u, p), NEW w \in SpawnSteps
    PROVE  IsProc(u, Step(p, w))
<1>1. ASSUME NEW x PROVE IsProc(u, [p EXCEPT !.model = x]) /\ IsProc(u, [p EXCEPT !.mode = x])
  BY DEF IsProc
<1>2. p.phase = "building" => /\ IsProc(u, [p EXCEPT !.phase = "up"])
                              /\ IsProc(u, [p EXCEPT !.argv = {}, !.phase = "idle"])
  BY DEF IsProc
<1>3. IsProc(u, [p EXCEPT !.argv = BuildArgs(p), !.phase = "building"])
  BY BuildIsProc
<1>4. CASE \/ Step(p, w) = p
           \/ Step(p, w) = [p EXCEPT !.argv = BuildArgs(p), !.phase = "building"]
  BY <1>3, <1>4, Zenon
<1>5. CASE p.phase = "building" /\ (\/ Step(p, w) = [p EXCEPT !.phase = "up"]
                                    \/ Step(p, w) = [p EXCEPT !.argv = {}, !.phase = "idle"])
  BY <1>2, <1>5, Zenon
<1>6. CASE \/ Step(p, w) = [p EXCEPT !.model = w[3]]
           \/ Step(p, w) = [p EXCEPT !.mode = w[3]]
  BY <1>1, <1>6, Zenon
<1> QED BY <1>4, <1>5, <1>6, Effects, Zenon

\* A process whose option of the key is x, and which, if that was so before it
\* was launched, runs with its flag.
Wanted(u, key, x) == IF key = "model" THEN Chosen(u, x) ELSE x
IsWanted(u, key, x) == Wanted(u, key, x) # ""
FlagOf(key, y) == <<IF key = "model" THEN "--model" ELSE "--permission-mode", y>>
Carries(u, key, x, early, p) ==
    /\ p[key] = x
    /\ early /\ p.phase # "idle" => FlagOf(key, Wanted(u, key, x)) \in p.argv

\* The flag stays until the option is set again.
LEMMA StepCarries ==
    ASSUME NEW u \in Makings, NEW p, IsProc(u, p), NEW w \in SpawnSteps,
           NEW key \in {"model", "mode"}, NEW x, IsWanted(u, key, x), NEW early \in BOOLEAN,
           Carries(u, key, x, early, p), ~(w[1] = "set" /\ w[2] = key /\ Acknowledged(p, key))
    PROVE  Carries(u, key, x, early, Step(p, w))
<1> DEFINE flag == FlagOf(key, Wanted(u, key, x))
<1>1. MaySet(p) => ~(w[1] = "set" /\ w[2] = key)
  BY DEF Acknowledged
<1>2. flag \in BuildArgs(p)
  <2>1. IsArgv(u, Chosen(u, p.model), p.mode, BuildArgs(p))
    BY BuiltArgs
  <2>2. HasFlag(u, Chosen(u, p.model), p.mode, flag)
    BY DEF HasFlag, IsFlag, FlagOf, IsWanted, Wanted, Carries
  <2> QED BY <2>1, <2>2, Zenon DEF IsArgv
<1> HIDE DEF flag
<1>3. p[key] = x /\ (early /\ p.phase # "idle" => flag \in p.argv)
  BY DEF Carries, flag
<1>4. ASSUME NEW t, t[key] = x /\ (early /\ t.phase # "idle" => flag \in t.argv)
      PROVE  Carries(u, key, x, early, t)
  BY <1>4 DEF Carries, flag
<1>5. CASE w[1] = "set" /\ w[2] = "model" /\ MaySet(p) /\ Step(p, w) = [p EXCEPT !.model = w[3]]
  BY <1>1, <1>3, <1>4, <1>5 DEF IsProc
<1>6. CASE w[1] = "set" /\ w[2] = "mode" /\ MaySet(p) /\ Step(p, w) = [p EXCEPT !.mode = w[3]]
  BY <1>1, <1>3, <1>4, <1>6 DEF IsProc
<1>7. CASE Step(p, w) = [p EXCEPT !.argv = BuildArgs(p), !.phase = "building"]
  <2> DEFINE argv == BuildArgs(p)
  <2>1. flag \in argv /\ Step(p, w) = [p EXCEPT !.argv = argv, !.phase = "building"]
    BY <1>2, <1>7
  <2> HIDE DEF argv
  <2> QED BY <1>3, <1>4, <2>1 DEF IsProc
<1>8. CASE p.phase = "building" /\ Step(p, w) = [p EXCEPT !.phase = "up"]
  BY <1>3, <1>4, <1>8 DEF IsProc
<1>9. CASE Step(p, w) = [p EXCEPT !.argv = {}, !.phase = "idle"]
  BY <1>3, <1>4, <1>9 DEF IsProc
<1>10. CASE Step(p, w) = p
  BY <1>10
<1> QED BY <1>5, <1>6, <1>7, <1>8, <1>9, <1>10, Effects

\* Set, it is the session's.
LEMMA SetCarries ==
    ASSUME NEW u \in Makings, NEW p, IsProc(u, p), NEW w \in SpawnSteps,
           NEW key \in {"model", "mode"}, w[1] = "set", w[2] = key, Acknowledged(p, key)
    PROVE  Carries(u, key, w[3], p.phase = "idle", Step(p, w))
<1>1. MaySet(p) /\ Step(p, w) = SetSpawnOption(p, key, w[3])
  BY DEF Acknowledged, Step
<1>2. CASE key = "model"
  <2>1. Step(p, w) = [p EXCEPT !.model = w[3]]
    BY <1>1, <1>2 DEF SetSpawnOption
  <2>2. Step(p, w).model = w[3] /\ Step(p, w).phase = p.phase
    BY <2>1 DEF IsProc
  <2> QED BY <1>2, <2>2 DEF Carries
<1>3. CASE key = "mode"
  <2>1. Step(p, w) = [p EXCEPT !.mode = w[3]]
    BY <1>1, <1>3 DEF SetSpawnOption
  <2>2. Step(p, w).mode = w[3] /\ Step(p, w).phase = p.phase
    BY <2>1 DEF IsProc
  <2> QED BY <1>3, <2>2 DEF Carries
<1> QED BY <1>2, <1>3

\* The processes along a launch are well defined, ...
LEMMA ProcessesExist ==
    ASSUME NEW N \in Nat, NEW s
    PROVE  \E g : g = [i \in 1..N |-> IF i = 1 THEN Made(s[1]) ELSE Step(g[i - 1], s[i])]
<1> DEFINE First(m, g) == g = [i \in 1..m |-> IF i = 1 THEN Made(s[1]) ELSE Step(g[i - 1], s[i])]
           S == {m \in Nat : \E g : First(m, g)}
<1>1. 0 \in S
  <2> DEFINE g == [i \in 1..0 |-> 0]
  <2>1. First(0, g)
    OBVIOUS
  <2> HIDE DEF First, g
  <2> QED BY <2>1
<1>2. ASSUME NEW m \in Nat, m \in S PROVE m + 1 \in S
  <2>1. PICK g : First(m, g)
    BY <1>2
  <2> DEFINE last == IF m = 0 THEN Made(s[1]) ELSE Step(g[m], s[m + 1])
             h == [i \in 1..(m + 1) |-> IF i = m + 1 THEN last ELSE g[i]]
  <2>2. \A i \in 1..(m + 1) : h[i] = IF i = 1 THEN Made(s[1]) ELSE Step(h[i - 1], s[i])
    BY <2>1
  <2>3. First(m + 1, h)
    BY <2>2
  <2> HIDE DEF First, h
  <2> QED BY <2>3
<1>3. N \in S
  <2> HIDE DEF S
  <2> QED BY <1>1, <1>2, Induction
<1> QED BY <1>3

\* ... each the one before after one more step.
LEMMA AfterEach ==
    ASSUME Len(line) \in Nat
    PROVE  /\ Len(line) > 0 => After(1) = Made(line[1])
           /\ \A n \in 2..Len(line) : After(n) = Step(After(n - 1), line[n])
<1> DEFINE N == Len(line)
           after == CHOOSE g : g = [i \in 1..N |-> IF i = 1 THEN Made(line[1]) ELSE Step(g[i - 1], line[i])]
<1>1. after = [i \in 1..N |-> IF i = 1 THEN Made(line[1]) ELSE Step(after[i - 1], line[i])]
  <2> HIDE DEF N
  <2>1. N \in Nat
    BY DEF N
  <2> QED BY <2>1, ProcessesExist
<1>2. \A n : After(n) = after[n]
  BY DEF After
<1> HIDE DEF after
<1>3. \A n \in 1..N : after[n] = IF n = 1 THEN Made(line[1]) ELSE Step(after[n - 1], line[n])
  BY <1>1
<1> QED BY <1>2, <1>3

LEMMA MadeIsProc ==
    ASSUME NEW u \in Makings
    PROVE  /\ IsProc(u, Made(u))
           /\ u = <<"new", "meta">> => Carries(u, "model", "", TRUE, Made(u))
<1> DEFINE p == Proc(u[1], MetaOf(u), <<>>)
<1>1. IsProc(u, p) /\ p.phase = "idle" /\ p.model = ""
  BY DEF IsProc, Proc
<1>2. Made(u) = IF u[1] = "load" THEN Spawned(Build(p)) ELSE p
  <2>1. u[1] = "load" => p = Proc("load", MetaOf(u), <<>>)
    OBVIOUS
  <2> QED BY <2>1 DEF Made, MetaOf
<1> HIDE DEF p
<1>3. "build" = <<"build">>[1] /\ "spawned" = <<"spawned">>[1] /\ <<"build">> \in SpawnSteps /\ <<"spawned">> \in SpawnSteps
  BY DEF SpawnSteps
<1>4. Step(p, <<"build">>) = Build(p)
  BY DEF Step
<1>5. IsProc(u, Build(p))
  BY <1>1, <1>3, <1>4, StepIsProc
<1>6. Step(Build(p), <<"spawned">>) = Spawned(Build(p))
  BY DEF Step
<1>7. IsProc(u, Spawned(Build(p)))
  BY <1>3, <1>5, <1>6, StepIsProc
<1>8. u = <<"new", "meta">> => Made(u) = p
  BY <1>2
<1> QED BY <1>1, <1>2, <1>7, <1>8 DEF Carries

\* The process a launch has made so far.
LEMMA AfterIsProc ==
    ASSUME LineOK, Launch, kind = "spawn"
    PROVE  /\ Len(line) \in Nat /\ (Len(line) > 0 => line[1] \in Makings)
           /\ \A n \in 2..Len(line) : line[n] \in SpawnSteps
           /\ \A n \in 1..Len(line) : IsProc(line[1], After(n))
<1> DEFINE u == line[1]
           N == Len(line)
<1>1. line \in Seq(Makings \cup SpawnSteps)
  BY DEF LineOK, Alphabet
<1>2. N \in Nat /\ (N > 0 => u \in Makings)
  BY <1>1 DEF Launch
<1>3. \A n \in 2..N : line[n] \in SpawnSteps
  BY <1>1 DEF Launch
<1>4. \A n \in 0..N : n > 0 => IsProc(u, After(n))
  <2> DEFINE S == {n \in Nat : n > 0 => IsProc(u, After(n))}
  <2>1. 0 \in S
    OBVIOUS
  <2>2. ASSUME NEW n \in 1..N, n - 1 \in S PROVE n \in S
    <3>1. CASE n = 1
      <4>1. After(1) = Made(u)
        BY <1>2, <3>1, AfterEach
      <4>2. u \in Makings
        BY <1>2, <3>1
      <4>3. IsProc(u, Made(u))
        BY <4>2, MadeIsProc
      <4> QED BY <3>1, <4>1, <4>3
    <3>2. CASE n # 1
      <4>1. IsProc(u, After(n - 1)) /\ n \in 2..N
        BY <2>2, <3>2
      <4>2. IsProc(u, Step(After(n - 1), line[n]))
        BY <1>2, <1>3, <4>1, StepIsProc
      <4>3. After(n) = Step(After(n - 1), line[n])
        BY <1>2, <4>1, AfterEach
      <4> QED BY <4>2, <4>3
    <3> QED BY <3>1, <3>2
  <2> HIDE DEF S
  <2>3. \A n \in 0..N : n \in S
    BY <1>2, <2>1, <2>2, FoldKeeps
  <2> QED BY <2>3 DEF S
<1> QED BY <1>2, <1>3, <1>4

\* What is carried at one position, and not set after it, is carried to the end.
LEMMA CarriedOn ==
    ASSUME LineOK, Launch, kind = "spawn", NEW i \in 1..Len(line), NEW key \in {"model", "mode"},
           NEW x, IsWanted(line[1], key, x), NEW early \in BOOLEAN,
           Carries(line[1], key, x, early, After(i)), \A j \in 2..Len(line) : Sets(j, key) => j <= i
    PROVE  Carries(line[1], key, x, early, After(Len(line)))
<1> DEFINE u == line[1]
           N == Len(line)
           S == {n \in Nat : n >= i => Carries(u, key, x, early, After(n))}
<1>1. N \in Nat /\ i \in Nat /\ i > 0 /\ u \in Makings
  <2>1. N \in Nat
    BY AfterIsProc
  <2>2. i \in Nat /\ i > 0 /\ N > 0
    BY <2>1
  <2>3. u \in Makings
    BY <2>2, AfterIsProc
  <2> QED BY <2>1, <2>2, <2>3
<1>2. 0 \in S
  BY <1>1
<1>3. ASSUME NEW n \in 1..N, n - 1 \in S PROVE n \in S
  <2>1. CASE n < i
    BY <1>1, <2>1
  <2>2. CASE n = i
    BY <1>1, <2>2
  <2>3. CASE n > i
    <3>1. n \in 2..N /\ n - 1 \in 1..N /\ n - 1 >= i
      BY <1>1, <2>3
    <3>2. ~Sets(n, key)
      BY <1>1, <2>3, <3>1
    <3>3. ~(line[n][1] = "set" /\ line[n][2] = key /\ Acknowledged(After(n - 1), key))
      BY <3>2 DEF Sets
    <3>4. IsProc(u, After(n - 1)) /\ line[n] \in SpawnSteps
      BY <3>1, AfterIsProc
    <3>5. Carries(u, key, x, early, After(n - 1))
      BY <1>3, <3>1
    <3>6. Carries(u, key, x, early, Step(After(n - 1), line[n]))
      BY <1>1, <3>3, <3>4, <3>5, StepCarries
    <3>7. After(n) = Step(After(n - 1), line[n])
      BY <1>1, <3>1, AfterEach
    <3> QED BY <1>1, <3>6, <3>7
  <2> QED BY <1>1, <2>1, <2>2, <2>3
<1>4. \A n \in 0..N : n \in S
  <2> HIDE DEF S
  <2> QED BY <1>1, <1>2, <1>3, FoldKeeps
<1> QED BY <1>1, <1>4

LEMMA LastSetIs ==
    ASSUME LineOK, Launch, kind = "spawn", NEW key
    PROVE  /\ LastSet(key) # 0 =>
                /\ LastSet(key) \in 2..Len(line) /\ Sets(LastSet(key), key)
                /\ \A j \in 2..Len(line) : Sets(j, key) => j <= LastSet(key)
           /\ LastSet(key) = 0 => \A j \in 2..Len(line) : ~Sets(j, key)
<1> DEFINE s == {i \in 2..Len(line) : Sets(i, key)}
<1>1. Len(line) \in Nat /\ LastSet(key) = Latest(s)
  BY AfterIsProc DEF LastSet
<1>2. s \subseteq 1..Len(line)
  BY <1>1
<1>3. \A i \in s : i # 0
  BY <1>1
<1>4. /\ s = {} => Latest(s) = 0
      /\ s # {} => Latest(s) \in s /\ \A j \in s : j <= Latest(s)
  <2> HIDE DEF s
  <2> QED BY <1>1, <1>2, LatestIs
<1> QED BY <1>1, <1>3, <1>4

LEMMA LastSetValue ==
    ASSUME LineOK, Launch, kind = "spawn", NEW key, LastSet(key) # 0
    PROVE  line[LastSet(key)][3] # ""
<1> DEFINE i == LastSet(key)
<1>1. i \in 2..Len(line) /\ Sets(i, key)
  BY LastSetIs
<1> HIDE DEF i
<1>2. line[i] \in SpawnSteps /\ line[i][1] = "set"
  BY <1>1, AfterIsProc DEF Sets
<1> QED BY <1>2, StepsAre DEF i

LEMMA LastCarried ==
    ASSUME LineOK, Launch, kind = "spawn", NEW key \in {"model", "mode"}, LastSet(key) # 0
    PROVE  LET i == LastSet(key) IN
           /\ After(i - 1).phase # "up"
           /\ Carries(line[1], key, line[i][3], After(i - 1).phase = "idle", After(Len(line)))
           /\ Wanted(line[1], key, line[i][3]) = line[i][3]
<1> DEFINE i == LastSet(key)
           u == line[1]
<1>1. i \in 2..Len(line) /\ Sets(i, key) /\ \A j \in 2..Len(line) : Sets(j, key) => j <= i
  BY LastSetIs
<1> HIDE DEF i
<1>2. Len(line) \in Nat
  BY AfterIsProc
<1>3. u \in Makings
  BY <1>1, <1>2, AfterIsProc
<1>4. i - 1 \in 1..Len(line) /\ i \in 1..Len(line)
  BY <1>1, <1>2
<1>5. IsProc(u, After(i - 1)) /\ line[i] \in SpawnSteps /\ After(i) = Step(After(i - 1), line[i])
  BY <1>1, <1>2, <1>4, AfterIsProc, AfterEach
<1>6. line[i][1] = "set" /\ line[i][2] = key /\ Acknowledged(After(i - 1), key)
  BY <1>1 DEF Sets
<1>7. After(i - 1).phase # "up"
  BY <1>6 DEF Acknowledged, MaySet
<1>8. Carries(u, key, line[i][3], After(i - 1).phase = "idle", After(i))
  BY <1>3, <1>5, <1>6, SetCarries
<1>9. Wanted(u, key, line[i][3]) = line[i][3] /\ IsWanted(u, key, line[i][3])
  <2>1. line[i][3] # ""
    BY <1>5, <1>6, StepsAre
  <2> QED BY <2>1 DEF IsWanted, Wanted, Chosen
<1>10. Carries(u, key, line[i][3], After(i - 1).phase = "idle", After(Len(line)))
  <2> DEFINE early == After(i - 1).phase = "idle"
  <2>1. early \in BOOLEAN /\ Carries(u, key, line[i][3], early, After(i))
    BY <1>8
  <2> HIDE DEF early
  <2>2. Carries(u, key, line[i][3], early, After(Len(line)))
    BY <1>1, <1>4, <1>9, <2>1, CarriedOn
  <2> QED BY <2>2 DEF early
<1> QED BY <1>7, <1>9, <1>10 DEF i

\* A model of the metadata is carried, unless an option took its place.
LEMMA MetaCarried ==
    ASSUME LineOK, Launch, kind = "spawn", line # <<>>, line[1] = <<"new", "meta">>, LastSet("model") = 0,
           After(Len(line)).phase = "up"
    PROVE  <<"--model", "meta">> \in After(Len(line)).argv
<1> DEFINE u == line[1]
<1>1. Len(line) \in Nat /\ Len(line) > 0
  BY AfterIsProc DEF LineOK
<1>2. u \in Makings /\ 1 \in 1..Len(line) /\ After(1) = Made(u)
  BY <1>1, AfterIsProc, AfterEach
<1>3. Carries(u, "model", "", TRUE, After(1))
  BY <1>2, MadeIsProc
<1>4. Wanted(u, "model", "") = "meta" /\ IsWanted(u, "model", "")
  BY DEF IsWanted, Wanted, Chosen, Given
<1>5. \A j \in 2..Len(line) : Sets(j, "model") => j <= 1
  BY LastSetIs
<1>6. Carries(u, "model", "", TRUE, After(Len(line)))
  <2>1. "model" \in {"model", "mode"} /\ TRUE \in BOOLEAN
    OBVIOUS
  <2> QED BY <1>2, <1>3, <1>4, <1>5, <2>1, CarriedOn
<1> QED BY <1>4, <1>6 DEF Carries, FlagOf

LEMMA FlagName ==
    ASSUME NEW f, NEW name, NEW v, IsFlag(f, name, v)
    PROVE  f[1] = name /\ f = <<name, v>>
  BY DEF IsFlag

\* A flag tells by its name why it is there.
LEMMA HasFlagOf ==
    ASSUME NEW u, NEW model, NEW mode, NEW f, HasFlag(u, model, mode, f)
    PROVE  \/ f[1] = "--model" /\ f = <<"--model", model>>
           \/ f[1] = "--permission-mode" /\ f = <<"--permission-mode", mode>>
           \/ f[1] = "--allow-dangerously-skip-permissions" /\ mode = "bypassPermissions"
           \/ f[1] = "--session-id" /\ u[1] # "load"
           \/ f[1] = "--resume" /\ u[1] # "new"
           \/ f[1] = "--fork-session"
  BY FlagName, Zenon DEF HasFlag

\* The flags of a launched process.
LEMMA ArgvSays ==
    ASSUME NEW u \in Makings, NEW p, IsProc(u, p), p.phase = "up"
    PROVE  /\ Cardinality({f \in p.argv : f[1] = "--model"}) <= 1
           /\ (\E f \in p.argv : f[1] = "--resume") <=> u[1] \in {"load", "fork"}
           /\ (\E f \in p.argv : f[1] = "--session-id") <=> u[1] \in {"new", "fork"}
           /\ (\E f \in p.argv : f[1] = "--allow-dangerously-skip-permissions")
                <=> <<"--permission-mode", "bypassPermissions">> \in p.argv
<1>1. PICK model, mode : \A f : f \in p.argv <=> HasFlag(u, model, mode, f)
  BY DEF IsProc, IsArgv
<1> DEFINE Name(f) == f[1]
<1>2. ASSUME NEW f \in p.argv
      PROVE  /\ Name(f) = "--model" => f = <<"--model", model>>
             /\ Name(f) = "--resume" => u[1] # "new"
             /\ Name(f) = "--session-id" => u[1] # "load"
             /\ Name(f) = "--allow-dangerously-skip-permissions" => mode = "bypassPermissions"
             /\ Name(f) = "--permission-mode" => f = <<"--permission-mode", mode>>
  <2>1. HasFlag(u, model, mode, f)
    BY <1>1
  <2>2. \/ Name(f) = "--model" /\ f = <<"--model", model>>
        \/ Name(f) = "--permission-mode" /\ f = <<"--permission-mode", mode>>
        \/ Name(f) = "--allow-dangerously-skip-permissions" /\ mode = "bypassPermissions"
        \/ Name(f) = "--session-id" /\ u[1] # "load"
        \/ Name(f) = "--resume" /\ u[1] # "new"
        \/ Name(f) = "--fork-session"
    BY <2>1, HasFlagOf, Zenon
  <2> DEFINE n == Name(f)
  <2>3. n = Name(f)
    OBVIOUS
  <2> HIDE DEF n, Name
  <2>4. /\ n = "--model" => f = <<"--model", model>>
        /\ n = "--resume" => u[1] # "new"
        /\ n = "--session-id" => u[1] # "load"
        /\ n = "--allow-dangerously-skip-permissions" => mode = "bypassPermissions"
        /\ n = "--permission-mode" => f = <<"--permission-mode", mode>>
    BY <2>2, <2>3, SMT
  <2> QED BY <2>3, <2>4
<1>3. /\ u[1] # "new" => <<"--resume", "previous">> \in p.argv
      /\ u[1] # "load" => <<"--session-id", "own">> \in p.argv
      /\ mode = "bypassPermissions" =>
            /\ <<"--allow-dangerously-skip-permissions", "">> \in p.argv
            /\ <<"--permission-mode", "bypassPermissions">> \in p.argv
  <2>1. u[1] # "new" => HasFlag(u, model, mode, <<"--resume", "previous">>)
    BY Zenon DEF HasFlag, IsFlag
  <2>2. u[1] # "load" => HasFlag(u, model, mode, <<"--session-id", "own">>)
    BY Zenon DEF HasFlag, IsFlag
  <2>3. mode = "bypassPermissions" =>
          /\ HasFlag(u, model, mode, <<"--allow-dangerously-skip-permissions", "">>)
          /\ HasFlag(u, model, mode, <<"--permission-mode", "bypassPermissions">>)
    <3>1. "bypassPermissions" # ""
      OBVIOUS
    <3> QED BY <3>1, Zenon DEF HasFlag, IsFlag
  <2> QED BY <1>1, <2>1, <2>2, <2>3, Zenon
<1>4. u[1] \in {"new", "load", "fork"}
  BY DEF Makings
<1>5. Cardinality({f \in p.argv : f[1] = "--model"}) <= 1
  <2> DEFINE A == {f \in p.argv : f[1] = "--model"}
             B == {<<"--model", model>>}
  <2>1. A \subseteq B
    BY <1>2
  <2>2. IsFiniteSet(B) /\ Cardinality(B) = 1
    BY FS_Singleton
  <2> HIDE DEF A, B
  <2>3. Cardinality(A) <= 1
    BY <2>1, <2>2, FS_Subset
  <2> QED BY <2>3 DEF A
<1>6. (\E f \in p.argv : f[1] = "--resume") <=> u[1] \in {"load", "fork"}
  <2>1. <<"--resume", "previous">>[1] = "--resume"
    OBVIOUS
  <2>2. (\E f \in p.argv : f[1] = "--resume") <=> u[1] # "new"
    BY <1>2, <1>3, <2>1, Zenon
  <2> QED BY <1>4, <2>2
<1>7. (\E f \in p.argv : f[1] = "--session-id") <=> u[1] \in {"new", "fork"}
  <2>1. <<"--session-id", "own">>[1] = "--session-id"
    OBVIOUS
  <2>2. (\E f \in p.argv : f[1] = "--session-id") <=> u[1] # "load"
    BY <1>2, <1>3, <2>1, Zenon
  <2> QED BY <1>4, <2>2
<1>8. (\E f \in p.argv : f[1] = "--allow-dangerously-skip-permissions")
         <=> <<"--permission-mode", "bypassPermissions">> \in p.argv
  <2>1. <<"--allow-dangerously-skip-permissions", "">>[1] = "--allow-dangerously-skip-permissions"
    OBVIOUS
  <2>2. (\E f \in p.argv : f[1] = "--allow-dangerously-skip-permissions") <=> mode = "bypassPermissions"
    BY <1>2, <1>3, <2>1, Zenon
  <2>3. <<"--permission-mode", "bypassPermissions">>[1] = "--permission-mode"
    OBVIOUS
  <2>4. <<"--permission-mode", "bypassPermissions">> = <<"--permission-mode", mode>> => mode = "bypassPermissions"
    OBVIOUS
  <2>5. <<"--permission-mode", "bypassPermissions">> \in p.argv <=> mode = "bypassPermissions"
    BY <1>2, <1>3, <2>3, <2>4, Zenon
  <2> QED BY <2>2, <2>5
<1> QED BY <1>5, <1>6, <1>7, <1>8

\* What a session reports of a key that is set.
LEMMA StateShows ==
    ASSUME NEW p, NEW key \in {"model", "mode"}, NEW x, p[key] = x, x # ""
    PROVE  SessionState(p, "env")[key] = x
<1>1. CASE key = "model"
  <2>1. Model(p) = x
    BY <1>1 DEF Model
  <2> QED BY <1>1, <2>1 DEF SessionState
<1>2. CASE key = "mode"
  <2>1. Mode(p) = x
    BY <1>2 DEF Mode
  <2> QED BY <1>2, <2>1 DEF SessionState
<1> QED BY <1>1, <1>2

\* An option the host was told is set is in the flags of the process that runs,
\* unless it was set while that process was being launched, after any number of
\* options, launches and failed launches.
THEOREM SpawnCarriesOptionsHolds == Spec => []SpawnCarriesOptions
<1>1. LineOK /\ Launch => SpawnCarriesOptions
  <2> DEFINE p == After(Len(line))
             flag == [model |-> "--model", mode |-> "--permission-mode"]
  <2> SUFFICES ASSUME LineOK, Launch, kind = "spawn", line # <<>>, p.phase = "up"
               PROVE
            /\ \A key \in {"model", "mode"} :
                LET i == LastSet(key) IN
                i # 0 =>
                    /\ After(i - 1).phase # "up"
                    /\ After(i - 1).phase = "idle" =>
                        <<flag[key], line[i][3]>> \in p.argv /\ SessionState(p, "env")[key] = line[i][3]
            /\ line[1] = <<"new", "meta">> /\ LastSet("model") = 0 => <<"--model", "meta">> \in p.argv
            /\ Cardinality({f \in p.argv : f[1] = "--model"}) <= 1
            /\ (\E f \in p.argv : f[1] = "--resume") <=> line[1][1] \in {"load", "fork"}
            /\ (\E f \in p.argv : f[1] = "--session-id") <=> line[1][1] \in {"new", "fork"}
            /\ (\E f \in p.argv : f[1] = "--allow-dangerously-skip-permissions")
                 <=> <<"--permission-mode", "bypassPermissions">> \in p.argv
    BY Zenon DEF SpawnCarriesOptions
  <2>1. line[1] \in Makings /\ IsProc(line[1], p)
    <3>1. Len(line) \in Nat /\ Len(line) > 0
      BY AfterIsProc DEF LineOK
    <3> QED BY <3>1, AfterIsProc
  <2>2. ASSUME NEW key \in {"model", "mode"}, NEW i, i = LastSet(key), i # 0
        PROVE  /\ After(i - 1).phase # "up"
               /\ After(i - 1).phase = "idle" =>
                    <<flag[key], line[i][3]>> \in p.argv /\ SessionState(p, "env")[key] = line[i][3]
    <3>1. /\ After(i - 1).phase # "up"
          /\ Carries(line[1], key, line[i][3], After(i - 1).phase = "idle", p)
          /\ Wanted(line[1], key, line[i][3]) = line[i][3]
      BY <2>2, LastCarried
    <3>2. FlagOf(key, line[i][3]) = <<flag[key], line[i][3]>>
      BY DEF FlagOf
    <3>3. After(i - 1).phase = "idle" => <<flag[key], line[i][3]>> \in p.argv
      BY <3>1, <3>2 DEF Carries
    <3>4. p[key] = line[i][3] /\ line[i][3] # ""
      BY <2>2, <3>1, LastSetValue DEF Carries
    <3>5. SessionState(p, "env")[key] = line[i][3]
      <4> DEFINE x == line[i][3]
      <4>1. p[key] = x /\ x # ""
        BY <3>4
      <4> HIDE DEF x, p
      <4>2. SessionState(p, "env")[key] = x
        BY <4>1, StateShows
      <4> QED BY <4>2 DEF x
    <3> QED BY <3>1, <3>3, <3>5
  <2>3. line[1] = <<"new", "meta">> /\ LastSet("model") = 0 => <<"--model", "meta">> \in p.argv
    BY MetaCarried
  <2> HIDE DEF p, flag
  <2>4. /\ Cardinality({f \in p.argv : f[1] = "--model"}) <= 1
        /\ (\E f \in p.argv : f[1] = "--resume") <=> line[1][1] \in {"load", "fork"}
        /\ (\E f \in p.argv : f[1] = "--session-id") <=> line[1][1] \in {"new", "fork"}
        /\ (\E f \in p.argv : f[1] = "--allow-dangerously-skip-permissions")
             <=> <<"--permission-mode", "bypassPermissions">> \in p.argv
    BY <2>1, ArgvSays, Zenon
  <2> QED BY <2>2, <2>3, <2>4, Zenon
<1> QED BY <1>1, LaunchCorrect, PTL

-----------------------------------------------------------------------------
(* The content of a prompt: both engines are given the same.                 *)

\* What an engine is given of a block, and that it is the same of both.
Items == [as : {"text", "input_image", "base64", "url"}, of : {"text", "link", "data", "uri"},
          mime : {"none", "given", "image/png"}]
Alike(x, y, b) ==
    /\ Modality(x) = Modality(y) /\ x.mime = y.mime
    /\ x.of = Richest(b) /\ y.of = Richest(b)

LEMMA BlockItems ==
    ASSUME NEW b \in Blocks
    PROVE  /\ Carried(b) => \E x, y \in Items :
                  CodexItems(b) = <<x>> /\ ClaudeItems(b) = <<y>> /\ Alike(x, y, b)
           /\ ~Carried(b) => CodexItems(b) = <<>> /\ ClaudeItems(b) = <<>>
<1>1. b.type \in {"text", "resource_link", "audio", "image", "resource"}
  BY DEF Blocks, Block
<1>2. b.type = "resource" /\ ("text" \in b.has \/ "uri" \in b.has) => "json" \in b.has
  BY DEF Blocks, Block
<1>3. CASE b.type = "text"
  <2>1. CASE "text" \in b.has
    <3> DEFINE x == Item("text", "text", "none")
    <3>1. x \in Items /\ Alike(x, x, b) /\ Carried(b)
      BY <1>3, <2>1 DEF Item, Items, Alike, Modality, Richest, Carried
    <3>2. CodexItems(b) = <<x>> /\ ClaudeItems(b) = <<x>>
      BY <1>3, <2>1 DEF CodexItems, ClaudeItems, Text
    <3> QED BY <3>1, <3>2
  <2>2. CASE "text" \notin b.has
    BY <1>3, <2>2 DEF CodexItems, ClaudeItems, Carried
  <2> QED BY <2>1, <2>2
<1>4. CASE b.type = "resource_link"
  <2> DEFINE x == Item("text", "link", "none")
  <2>1. x \in Items /\ Alike(x, x, b) /\ Carried(b)
    BY <1>4 DEF Item, Items, Alike, Modality, Richest, Carried
  <2>2. CodexItems(b) = <<x>> /\ ClaudeItems(b) = <<x>>
    BY <1>4 DEF CodexItems, ClaudeItems, Text
  <2> QED BY <2>1, <2>2
<1>5. CASE b.type = "audio"
  BY <1>5 DEF CodexItems, ClaudeItems, Carried
<1>6. CASE b.type = "image"
  <2>1. CASE "data" \in b.has
    <3> DEFINE x == Item("input_image", "data", Mime(b))
               y == Item("base64", "data", Mime(b))
    <3>1. x \in Items /\ y \in Items /\ Alike(x, y, b) /\ Carried(b)
      <4>1. Mime(b) \in {"given", "image/png"}
        BY DEF Mime
      <4>2. x \in Items /\ y \in Items
        BY <4>1 DEF Item, Items
      <4>3. Richest(b) = "data" /\ Carried(b)
        BY <1>6, <2>1 DEF Richest, Carried
      <4>4. /\ x.as = "input_image" /\ x.of = "data" /\ x.mime = Mime(b)
            /\ y.as = "base64" /\ y.of = "data" /\ y.mime = Mime(b)
        BY DEF Item
      <4> QED BY <4>2, <4>3, <4>4 DEF Alike, Modality
    <3>2. CodexItems(b) = <<x>> /\ ClaudeItems(b) = <<y>>
      BY <1>6, <2>1 DEF CodexItems, ClaudeItems
    <3> QED BY <3>1, <3>2
  <2>2. CASE "data" \notin b.has /\ "uri" \in b.has
    <3> DEFINE x == Item("input_image", "uri", "none")
               y == Item("url", "uri", "none")
    <3>1. x \in Items /\ y \in Items /\ Alike(x, y, b) /\ Carried(b)
      BY <1>6, <2>2 DEF Item, Items, Alike, Modality, Richest, Carried
    <3>2. CodexItems(b) = <<x>> /\ ClaudeItems(b) = <<y>>
      BY <1>6, <2>2 DEF CodexItems, ClaudeItems
    <3> QED BY <3>1, <3>2
  <2>3. CASE "data" \notin b.has /\ "uri" \notin b.has
    BY <1>6, <2>3 DEF CodexItems, ClaudeItems, Carried
  <2> QED BY <2>1, <2>2, <2>3
<1>7. CASE b.type = "resource"
  <2>1. CASE "text" \in b.has
    <3> DEFINE x == Item("text", "text", "none")
    <3>1. x \in Items /\ Alike(x, x, b) /\ Carried(b)
      BY <1>7, <2>1 DEF Item, Items, Alike, Modality, Richest, Carried
    <3>2. CodexItems(b) = <<x>> /\ ClaudeItems(b) = <<x>>
      BY <1>2, <1>7, <2>1 DEF CodexItems, CodexResource, ClaudeItems, Text
    <3> QED BY <3>1, <3>2
  <2>2. CASE "text" \notin b.has /\ "uri" \in b.has
    <3> DEFINE x == Item("text", "link", "none")
    <3>1. x \in Items /\ Alike(x, x, b) /\ Carried(b)
      BY <1>7, <2>2 DEF Item, Items, Alike, Modality, Richest, Carried
    <3>2. CodexItems(b) = <<x>> /\ ClaudeItems(b) = <<x>>
      BY <1>2, <1>7, <2>2 DEF CodexItems, CodexResource, ClaudeItems, Text
    <3> QED BY <3>1, <3>2
  <2>3. CASE "text" \notin b.has /\ "uri" \notin b.has
    BY <1>7, <2>3 DEF CodexItems, CodexResource, ClaudeItems, Carried
  <2> QED BY <2>1, <2>2, <2>3
<1> QED BY <1>1, <1>3, <1>4, <1>5, <1>6, <1>7

\* The inputs of both engines so far, and the blocks they are for.
Agree(x, y, kept) ==
    /\ x \in Seq(Items) /\ y \in Seq(Items) /\ kept \in Seq(Blocks)
    /\ Len(x) = Len(kept) /\ Len(y) = Len(kept)
    /\ \A i \in 1..Len(kept) : Alike(x[i], y[i], kept[i])

LEMMA BlockAgrees ==
    ASSUME NEW x, NEW y, NEW kept, Agree(x, y, kept), NEW b \in Blocks
    PROVE  Agree(AddCodex(x, b), AddClaude(y, b), Carry(kept, b))
<1>1. CASE ~Carried(b)
  <2>1. x \o <<>> = x /\ y \o <<>> = y
    BY DEF Agree
  <2>2. AddCodex(x, b) = x /\ AddClaude(y, b) = y /\ Carry(kept, b) = kept
    BY <1>1, <2>1, BlockItems DEF AddCodex, AddClaude, Carry
  <2> QED BY <2>2
<1>2. CASE Carried(b)
  <2>1. PICK u \in Items, v \in Items :
           CodexItems(b) = <<u>> /\ ClaudeItems(b) = <<v>> /\ Alike(u, v, b)
    BY <1>2, BlockItems
  <2> DEFINE x1 == x \o <<u>>
             y1 == y \o <<v>>
             k1 == Append(kept, b)
  <2>2. AddCodex(x, b) = x1 /\ AddClaude(y, b) = y1 /\ Carry(kept, b) = k1
    BY <1>2, <2>1 DEF AddCodex, AddClaude, Carry
  <2>3. x \in Seq(Items) /\ y \in Seq(Items) /\ kept \in Seq(Blocks)
        /\ Len(x) = Len(kept) /\ Len(y) = Len(kept)
    BY DEF Agree
  <2> HIDE DEF Blocks, Items
  <2>4. /\ x1 \in Seq(Items) /\ Len(x1) = Len(x) + 1
        /\ \A i \in 1..(Len(x) + 1) : x1[i] = IF i = Len(x) + 1 THEN u ELSE x[i]
    BY <2>3
  <2>5. /\ y1 \in Seq(Items) /\ Len(y1) = Len(y) + 1
        /\ \A i \in 1..(Len(y) + 1) : y1[i] = IF i = Len(y) + 1 THEN v ELSE y[i]
    BY <2>3
  <2>6. /\ k1 \in Seq(Blocks) /\ Len(k1) = Len(kept) + 1
        /\ \A i \in 1..(Len(kept) + 1) : k1[i] = IF i = Len(kept) + 1 THEN b ELSE kept[i]
    BY <2>3
  <2> HIDE DEF x1, y1, k1
  <2>7. ASSUME NEW i \in 1..Len(k1) PROVE Alike(x1[i], y1[i], k1[i])
    <3>1. Len(kept) \in Nat /\ i \in 1..(Len(kept) + 1)
      BY <2>3, <2>6
    <3>2. CASE i = Len(kept) + 1
      <4>1. x1[i] = u /\ y1[i] = v /\ k1[i] = b
        BY <2>3, <2>4, <2>5, <2>6, <3>1, <3>2
      <4> QED BY <2>1, <4>1
    <3>3. CASE i # Len(kept) + 1
      <4>1. i \in 1..Len(kept)
        BY <3>1, <3>3
      <4>2. x1[i] = x[i] /\ y1[i] = y[i] /\ k1[i] = kept[i]
        BY <2>3, <2>4, <2>5, <2>6, <3>1, <3>3
      <4>3. Alike(x[i], y[i], kept[i])
        BY <4>1 DEF Agree
      <4> QED BY <4>2, <4>3
    <3> QED BY <3>2, <3>3
  <2>8. Agree(x1, y1, k1)
    BY <2>3, <2>4, <2>5, <2>6, <2>7 DEF Agree
  <2> QED BY <2>2, <2>8
<1> QED BY <1>1, <1>2

LEMMA ItemsType ==
    ASSUME NEW r, NEW b \in Blocks
    PROVE  /\ r \in Seq(Items) => AddCodex(r, b) \in Seq(Items) /\ AddClaude(r, b) \in Seq(Items)
           /\ r \in Seq(Blocks) => Carry(r, b) \in Seq(Blocks)
<1>1. CodexItems(b) \in Seq(Items) /\ ClaudeItems(b) \in Seq(Items)
  <2>1. CASE Carried(b)
    <3>1. PICK x \in Items, y \in Items : CodexItems(b) = <<x>> /\ ClaudeItems(b) = <<y>>
      BY <2>1, BlockItems
    <3>2. <<x>> \in Seq(Items) /\ <<y>> \in Seq(Items)
      OBVIOUS
    <3> QED BY <3>1, <3>2, Zenon
  <2>2. CASE ~Carried(b)
    <3>1. CodexItems(b) = <<>> /\ ClaudeItems(b) = <<>>
      BY <2>2, BlockItems
    <3>2. <<>> \in Seq(Items)
      OBVIOUS
    <3> QED BY <3>1, <3>2, Zenon
  <2> QED BY <2>1, <2>2, Zenon
<1>2. r \in Seq(Blocks) => Append(r, b) \in Seq(Blocks)
  BY Appending
<1> QED BY <1>1, <1>2 DEF AddCodex, AddClaude, Carry

\* What each engine is given is a run over the blocks, ...
LEMMA CodexInputRuns ==
    ASSUME line \in Seq(Blocks)
    PROVE  \E g : /\ CodexInput(line) = g[Len(line)] /\ g[0] = <<>>
                  /\ \A n \in 1..Len(line) : g[n] = AddCodex(g[n - 1], line[n])
<1> DEFINE N == Len(line)
           T == Seq(Items)
           input == CHOOSE g : g = [n \in 0..N |-> IF n = 0 THEN <<>> ELSE AddCodex(g[n - 1], line[n])]
           step == [n \in 1..N |-> [r \in T |-> AddCodex(r, line[n])]]
<1>1. N \in Nat /\ <<>> \in T
  OBVIOUS
<1>2. ASSUME NEW r \in T, NEW n \in 1..N PROVE AddCodex(r, line[n]) \in T
  <2>1. line[n] \in Blocks
    OBVIOUS
  <2> QED BY <2>1, ItemsType
<1>3. PICK g : IsFold(g, T, <<>>, N, step)
  <2>1. step \in Steps(T, N)
    BY <1>2 DEF Steps
  <2> HIDE DEF T, N, step
  <2> QED BY <1>1, <2>1, FoldExists
<1>4. g = [n \in 0..N |-> IF n = 0 THEN <<>> ELSE AddCodex(g[n - 1], line[n])]
  <2>1. \A n \in 1..N : g[n] = AddCodex(g[n - 1], line[n])
    <3> HIDE DEF T, N
    <3> QED BY <1>1, <1>3 DEF IsFold
  <2> HIDE DEF T, N, step
  <2>2. \A n \in 0..N : g[n] = IF n = 0 THEN <<>> ELSE AddCodex(g[n - 1], line[n])
    BY <1>1, <1>3, <2>1 DEF IsFold
  <2> QED BY <1>3, <2>2 DEF IsFold
<1>5. input = [n \in 0..N |-> IF n = 0 THEN <<>> ELSE AddCodex(input[n - 1], line[n])]
  BY <1>4
<1>6. CodexInput(line) = input[N]
  BY DEF CodexInput
<1> HIDE DEF input
<1>7. input[0] = <<>> /\ \A n \in 1..N : input[n] = AddCodex(input[n - 1], line[n])
  BY <1>1, <1>5
<1> QED BY <1>6, <1>7

LEMMA ClaudeContentRuns ==
    ASSUME line \in Seq(Blocks)
    PROVE  \E g : /\ ClaudeContent(line) = g[Len(line)] /\ g[0] = <<>>
                  /\ \A n \in 1..Len(line) : g[n] = AddClaude(g[n - 1], line[n])
<1> DEFINE N == Len(line)
           T == Seq(Items)
           content == CHOOSE g : g = [n \in 0..N |-> IF n = 0 THEN <<>> ELSE AddClaude(g[n - 1], line[n])]
           step == [n \in 1..N |-> [r \in T |-> AddClaude(r, line[n])]]
<1>1. N \in Nat /\ <<>> \in T
  OBVIOUS
<1>2. ASSUME NEW r \in T, NEW n \in 1..N PROVE AddClaude(r, line[n]) \in T
  <2>1. line[n] \in Blocks
    OBVIOUS
  <2> QED BY <2>1, ItemsType
<1>3. PICK g : IsFold(g, T, <<>>, N, step)
  <2>1. step \in Steps(T, N)
    BY <1>2 DEF Steps
  <2> HIDE DEF T, N, step
  <2> QED BY <1>1, <2>1, FoldExists
<1>4. g = [n \in 0..N |-> IF n = 0 THEN <<>> ELSE AddClaude(g[n - 1], line[n])]
  <2>1. \A n \in 1..N : g[n] = AddClaude(g[n - 1], line[n])
    <3> HIDE DEF T, N
    <3> QED BY <1>1, <1>3 DEF IsFold
  <2> HIDE DEF T, N, step
  <2>2. \A n \in 0..N : g[n] = IF n = 0 THEN <<>> ELSE AddClaude(g[n - 1], line[n])
    BY <1>1, <1>3, <2>1 DEF IsFold
  <2> QED BY <1>3, <2>2 DEF IsFold
<1>5. content = [n \in 0..N |-> IF n = 0 THEN <<>> ELSE AddClaude(content[n - 1], line[n])]
  BY <1>4
<1>6. ClaudeContent(line) = content[N]
  BY DEF ClaudeContent
<1> HIDE DEF content
<1>7. content[0] = <<>> /\ \A n \in 1..N : content[n] = AddClaude(content[n - 1], line[n])
  BY <1>1, <1>5
<1> QED BY <1>6, <1>7

LEMMA CarriedRuns ==
    ASSUME line \in Seq(Blocks)
    PROVE  \E g : /\ CarriedBlocks = g[Len(line)] /\ g[0] = <<>>
                  /\ \A n \in 1..Len(line) : g[n] = Carry(g[n - 1], line[n])
<1> DEFINE N == Len(line)
           T == Seq(Blocks)
           kept == CHOOSE g : g = [n \in 0..N |-> IF n = 0 THEN <<>> ELSE Carry(g[n - 1], line[n])]
           step == [n \in 1..N |-> [r \in T |-> Carry(r, line[n])]]
<1>1. N \in Nat /\ <<>> \in T
  OBVIOUS
<1>2. ASSUME NEW r \in T, NEW n \in 1..N PROVE Carry(r, line[n]) \in T
  <2>1. line[n] \in Blocks
    OBVIOUS
  <2> QED BY <2>1, ItemsType
<1>3. PICK g : IsFold(g, T, <<>>, N, step)
  <2>1. step \in Steps(T, N)
    BY <1>2 DEF Steps
  <2> HIDE DEF T, N, step
  <2> QED BY <1>1, <2>1, FoldExists
<1>4. g = [n \in 0..N |-> IF n = 0 THEN <<>> ELSE Carry(g[n - 1], line[n])]
  <2>1. \A n \in 1..N : g[n] = Carry(g[n - 1], line[n])
    <3> HIDE DEF T, N
    <3> QED BY <1>1, <1>3 DEF IsFold
  <2> HIDE DEF T, N, step
  <2>2. \A n \in 0..N : g[n] = IF n = 0 THEN <<>> ELSE Carry(g[n - 1], line[n])
    BY <1>1, <1>3, <2>1 DEF IsFold
  <2> QED BY <1>3, <2>2 DEF IsFold
<1>5. kept = [n \in 0..N |-> IF n = 0 THEN <<>> ELSE Carry(kept[n - 1], line[n])]
  BY <1>4
<1>6. CarriedBlocks = kept[N]
  BY DEF CarriedBlocks
<1> HIDE DEF kept
<1>7. kept[0] = <<>> /\ \A n \in 1..N : kept[n] = Carry(kept[n - 1], line[n])
  BY <1>1, <1>5
<1> QED BY <1>6, <1>7

\* ... so they stay alike.
LEMMA PromptsAgreeOnBlocks ==
    ASSUME LineOK
    PROVE  PromptsAgree
<1> SUFFICES ASSUME kind = "blocks" PROVE PromptsAgree
  BY DEF PromptsAgree
<1>1. line \in Seq(Blocks)
  BY DEF LineOK, Alphabet
<1> DEFINE N == Len(line)
<1>2. PICK x : /\ CodexInput(line) = x[N] /\ x[0] = <<>>
               /\ \A n \in 1..N : x[n] = AddCodex(x[n - 1], line[n])
  BY <1>1, CodexInputRuns
<1>3. PICK y : /\ ClaudeContent(line) = y[N] /\ y[0] = <<>>
               /\ \A n \in 1..N : y[n] = AddClaude(y[n - 1], line[n])
  BY <1>1, ClaudeContentRuns
<1>4. PICK k : /\ CarriedBlocks = k[N] /\ k[0] = <<>>
               /\ \A n \in 1..N : k[n] = Carry(k[n - 1], line[n])
  BY <1>1, CarriedRuns
<1> DEFINE S == {n \in Nat : Agree(x[n], y[n], k[n])}
<1>5. 0 \in S
  <2>1. Agree(<<>>, <<>>, <<>>)
    <3>1. <<>> \in Seq(Items) /\ <<>> \in Seq(Blocks) /\ Len(<<>>) = 0 /\ 1..0 = {}
      OBVIOUS
    <3> QED BY <3>1 DEF Agree
  <2>2. Agree(x[0], y[0], k[0])
    BY <1>2, <1>3, <1>4, <2>1
  <2> QED BY <2>2
<1>6. N \in Nat /\ \A n \in 1..N : line[n] \in Blocks
  BY <1>1
<1>7. ASSUME NEW n \in 1..N, n - 1 \in S PROVE n \in S
  <2> HIDE DEF N
  <2>1. Agree(x[n - 1], y[n - 1], k[n - 1])
    BY <1>7
  <2>2. Agree(AddCodex(x[n - 1], line[n]), AddClaude(y[n - 1], line[n]), Carry(k[n - 1], line[n]))
    BY <1>6, <2>1, BlockAgrees
  <2>3. Agree(x[n], y[n], k[n])
    BY <1>2, <1>3, <1>4, <2>2
  <2> QED BY <1>6, <2>3
<1>8. \A n \in 0..N : n \in S
  <2> HIDE DEF S, N
  <2> QED BY <1>5, <1>6, <1>7, FoldKeeps
<1>9. Agree(x[N], y[N], k[N])
  BY <1>6, <1>8
<1>10. Agree(CodexInput(line), ClaudeContent(line), CarriedBlocks)
  BY <1>2, <1>3, <1>4, <1>9
<1> QED BY <1>10 DEF PromptsAgree, Agree, Alike

-----------------------------------------------------------------------------
(* The notifications of the engines.                                         *)

\* Positions are finitely many.
LEMMA FinitePositions ==
    ASSUME NEW n \in Nat, NEW P, P \subseteq 1..n
    PROVE  IsFiniteSet(P) /\ Cardinality(P) \in Nat
<1>1. IsFiniteSet(1..n)
  BY FS_Interval
<1>2. IsFiniteSet(P)
  BY <1>1, FS_Subset
<1> QED BY <1>2, FS_CardinalityType

\* The elements of a set of positions up to one of them.
UpTo(E, n) == {r \in E : r <= n}
Grows(E, n) ==
    /\ Cardinality(UpTo(E, n)) = Cardinality(UpTo(E, n - 1)) + (IF n \in E THEN 1 ELSE 0)
    /\ Cardinality(UpTo(E, n - 1)) \in Nat

LEMMA Upto ==
    ASSUME NEW N \in Nat, NEW E, E \subseteq 1..N, NEW n \in 1..N
    PROVE  Grows(E, n)
<1> DEFINE A == {r \in E : r <= n - 1}
           B == {r \in E : r <= n}
<1>1. n \in Nat /\ \A r \in E : r \in Nat /\ r \in 1..N
  OBVIOUS
<1>2. A \subseteq 1..N /\ n \notin A
  <2>1. ~(n <= n - 1)
    BY <1>1
  <2> QED BY <1>1, <2>1, Zenon
<1>3. B = IF n \in E THEN A \cup {n} ELSE A
  <2>1. \A r \in E : r <= n <=> r <= n - 1 \/ r = n
    BY <1>1
  <2>2. B = {r \in E : r <= n - 1 \/ r = n}
    BY <2>1
  <2> QED BY <2>2
<1> HIDE DEF A, B
<1>4. IsFiniteSet(A) /\ Cardinality(A) \in Nat
  BY <1>2, FinitePositions
<1>5. Cardinality(A \cup {n}) = Cardinality(A) + 1
  BY <1>2, <1>4, FS_AddElement
<1> QED BY <1>3, <1>4, <1>5 DEF A, B, UpTo, Grows

LEMMA UptoEnds ==
    ASSUME NEW N \in Nat, NEW E, E \subseteq 1..N
    PROVE  Cardinality(UpTo(E, 0)) = 0 /\ UpTo(E, N) = E
<1>1. \A r \in E : r \in Nat /\ ~(r <= 0) /\ r <= N
  OBVIOUS
<1>2. UpTo(E, 0) = {} /\ UpTo(E, N) = E
  BY <1>1 DEF UpTo
<1> QED BY <1>2, FS_EmptySet

LEMMA AtMostOne ==
    ASSUME NEW S, IsFiniteSet(S), Cardinality(S) <= 1, NEW i \in S, NEW j \in S
    PROVE  i = j
<1> SUFFICES ASSUME i # j PROVE FALSE
  OBVIOUS
<1>1. IsFiniteSet({i}) /\ Cardinality({i}) = 1
  BY FS_Singleton
<1>2. Cardinality({i} \cup {j}) = 2
  <2> DEFINE A == {i}
  <2>1. j \notin A /\ IsFiniteSet(A) /\ Cardinality(A) = 1
    BY <1>1
  <2> HIDE DEF A
  <2>2. Cardinality(A \cup {j}) = 2
    BY <2>1, FS_AddElement
  <2> QED BY <2>2 DEF A
<1>3. {i} \cup {j} \subseteq S
  OBVIOUS
<1>4. Cardinality({i} \cup {j}) <= Cardinality(S) /\ Cardinality(S) \in Nat
  BY <1>3, FS_Subset, FS_CardinalityType
<1> QED BY <1>2, <1>4

\* How often an update has been sent.
LEMMA CountAppend ==
    ASSUME NEW U, NEW out \in Seq(U), NEW v \in U, NEW u
    PROVE  /\ Count(out, u) \in Nat
           /\ Count(Append(out, v), u) = Count(out, u) + (IF v = u THEN 1 ELSE 0)
<1> DEFINE n == Len(out)
           A == {i \in DOMAIN out : out[i] = u}
           B == {i \in DOMAIN Append(out, v) : Append(out, v)[i] = u}
<1>1. n \in Nat /\ A \subseteq 1..n /\ n + 1 \notin A
  OBVIOUS
<1>2. B = IF v = u THEN A \cup {n + 1} ELSE A
  OBVIOUS
<1> HIDE DEF A, B, n
<1>3. IsFiniteSet(A) /\ Cardinality(A) \in Nat
  BY <1>1, FinitePositions
<1>4. Cardinality(A \cup {n + 1}) = Cardinality(A) + 1
  BY <1>1, <1>3, FS_AddElement
<1>5. Count(out, u) = Cardinality(A) /\ Count(Append(out, v), u) = Cardinality(B)
  BY DEF Count, A, B
<1> QED BY <1>2, <1>3, <1>4, <1>5

\* A tool call is told before its updates.
Told(out, id) == \E j \in DOMAIN out : out[j] = Update("tool_call", id)
CallFirst(out, id) ==
    \A i \in DOMAIN out : out[i] = Update("tool_call_update", id) =>
        \E j \in 1..(i - 1) : out[j] = Update("tool_call", id)

LEMMA AppendTold ==
    ASSUME NEW U, NEW out \in Seq(U), NEW v \in U, NEW id
    PROVE  /\ Told(out, id) \/ v = Update("tool_call", id) => Told(Append(out, v), id)
           /\ CallFirst(out, id) /\ (v = Update("tool_call_update", id) => Told(out, id))
                => CallFirst(Append(out, v), id)
<1> DEFINE n == Len(out)
           out1 == Append(out, v)
           call == Update("tool_call", id)
           change == Update("tool_call_update", id)
<1>1. /\ n \in Nat /\ DOMAIN out = 1..n /\ DOMAIN out1 = 1..(n + 1)
      /\ \A i \in 1..n : out1[i] = out[i]
      /\ out1[n + 1] = v
  OBVIOUS
<1> HIDE DEF n, out1, call, change
<1>2. Told(out, id) \/ v = call => Told(out1, id)
  BY <1>1 DEF Told, call
<1>3. ASSUME CallFirst(out, id), v = change => Told(out, id) PROVE CallFirst(out1, id)
  <2> SUFFICES ASSUME NEW i \in 1..(n + 1), out1[i] = change
               PROVE  \E j \in 1..(i - 1) : out1[j] = call
    BY <1>1 DEF CallFirst, change, call
  <2>1. CASE i = n + 1
    <3>1. PICK j \in 1..n : out[j] = call
      BY <1>1, <1>3, <2>1 DEF Told, call
    <3> QED BY <1>1, <2>1, <3>1
  <2>2. CASE i # n + 1
    <3>1. i \in 1..n /\ out[i] = change
      BY <1>1, <2>2
    <3>2. PICK j \in 1..(i - 1) : out[j] = call
      BY <1>1, <1>3, <3>1 DEF CallFirst, change, call
    <3>3. j \in 1..n /\ out1[j] = call
      BY <1>1, <3>1, <3>2
    <3> QED BY <3>3
  <2> QED BY <2>1, <2>2
<1> QED BY <1>2, <1>3 DEF out1, call, change

\* The updates the engines send, and what an engine has sent of a claude session.
UpdateIds == {"none", "a", "b", "t", "u", ""}
Updates == [kind : {"available_commands_update", "current_mode_update", "agent_message_chunk",
                    "agent_thought_chunk", "tool_call", "tool_call_update", "plan"},
            id : UpdateIds]
ClaudeStates == [plans : SUBSET UpdateIds, out : Seq(Updates)]

LEMMA OutIs ==
    ASSUME NEW s \in ClaudeStates, NEW v \in Updates, NEW w, s = w,
           NEW t, t = [s EXCEPT !.out = Append(@, v)]
    PROVE  t \in ClaudeStates /\ t.plans = s.plans /\ t.out = Append(s.out, v)
<1>1. s.out \in Seq(Updates)
  BY DEF ClaudeStates
<1>2. Append(s.out, v) \in Seq(Updates)
  BY <1>1, Appending
<1> QED BY <1>2 DEF ClaudeStates

\* What an event does: nothing, or one or two updates; only a TodoWrite makes a
\* plan, and only the result of another tool updates a tool call.
ClaudeEffect(s, e, t) ==
    \/ /\ t = s
       /\ e[1] = "tool_result" => e[2] = "" \/ e[2] \in s.plans
       /\ e[1] \in {"tool_use", "TodoWrite"} => e[2] = ""
    \/ /\ e[1] = "init" /\ t.plans = s.plans
       /\ t.out = Append(Append(s.out, Update("available_commands_update", "none")),
                         Update("current_mode_update", "none"))
    \/ /\ e[1] \in {"text", "thinking", "tool_use", "tool_result"}
       /\ t.plans = s.plans
       /\ \E v \in Updates :
            /\ t.out = Append(s.out, v)
            /\ e[1] = "tool_use" => v = Update("tool_call", e[2])
            /\ e[1] = "tool_result" => v = Update("tool_call_update", e[2]) /\ e[2] \notin s.plans
            /\ e[1] \in {"text", "thinking"} => v.kind \notin {"tool_call", "tool_call_update"}
    \/ /\ e[1] = "TodoWrite"
       /\ t.plans = s.plans \cup {e[2]} /\ t.out = Append(s.out, Update("plan", "none"))

AClaudeEvent(e) ==
    /\ e[1] \in {"init", "text", "thinking", "tool_use", "tool_result", "TodoWrite",
                 "TodoWrite undecodable"}
    /\ e[1] \notin {"init", "text", "thinking"} => e[2] \in {"", "t", "u"}
IsPair(e) == e = <<e[1], e[2]>>

LEMMA ClaudeEventsAre ==
    ASSUME NEW e \in ClaudeEvents
    PROVE  AClaudeEvent(e) /\ (e[1] \notin {"init", "text", "thinking"} => IsPair(e))
<1> DEFINE ToolEvents == {"tool_use", "TodoWrite", "TodoWrite undecodable", "tool_result"}
           ToolIds == {"t", "u"}
<1>1. ASSUME NEW w \in ToolEvents, NEW x \in {"t", "u", ""}, e = <<w, x>>
      PROVE  AClaudeEvent(e) /\ IsPair(e)
  <2>1. e[1] = w /\ e[2] = x
    <3> HIDE DEF ToolEvents
    <3> QED BY <1>1
  <2>2. AClaudeEvent(e)
    BY <2>1, Zenon DEF AClaudeEvent
  <2> QED BY <1>1, <2>1, <2>2, Zenon DEF IsPair
<1>2. ASSUME NEW w \in {"init", "text", "thinking"}, e = <<w>>
      PROVE  AClaudeEvent(e) /\ e[1] \in {"init", "text", "thinking"}
  <2>1. e[1] = w
    BY <1>2
  <2> QED BY <2>1 DEF AClaudeEvent
<1>3. CASE e \in ToolEvents \X ToolIds
  <2>1. e[1] \in ToolEvents /\ e[2] \in ToolIds /\ e = <<e[1], e[2]>>
    <3> HIDE DEF ToolEvents, ToolIds
    <3> QED BY <1>3
  <2>2. e[2] \in {"t", "u", ""}
    BY <2>1, Zenon
  <2> HIDE DEF ToolEvents
  <2> QED BY <1>1, <2>1, <2>2, Zenon
<1>4. \/ e \in ToolEvents \X ToolIds
      \/ \E w \in {"init", "text", "thinking"} : e = <<w>>
      \/ \E w \in ToolEvents : e = <<w, "">>
  BY DEF ClaudeEvents
<1> HIDE DEF ToolEvents, ToolIds
<1>5. \A w \in ToolEvents : e = <<w, "">> => AClaudeEvent(e) /\ IsPair(e)
  BY <1>1, Zenon
<1> QED BY <1>2, <1>3, <1>4, <1>5, Zenon

LEMMA ClaudeSteps ==
    ASSUME NEW s \in ClaudeStates, NEW e \in ClaudeEvents
    PROVE  ClaudeStep(s, e) \in ClaudeStates /\ ClaudeEffect(s, e, ClaudeStep(s, e))
<1> DEFINE t == ClaudeStep(s, e)
<1>0. /\ e[1] \in {"init", "text", "thinking", "tool_use", "tool_result", "TodoWrite",
                   "TodoWrite undecodable"}
      /\ e[1] \notin {"init", "text", "thinking"} => e[2] \in {"", "t", "u"}
  BY ClaudeEventsAre, Zenon DEF AClaudeEvent
<1>1. CASE e[1] = "init"
  <2> DEFINE v == Update("available_commands_update", "none")
             w == Update("current_mode_update", "none")
             s1 == [s EXCEPT !.out = Append(@, v)]
  <2>1. v \in Updates /\ w \in Updates
    BY DEF Update, Updates, UpdateIds
  <2>2. t = [s1 EXCEPT !.out = Append(@, w)]
    BY <1>1 DEF ClaudeStep, Out
  <2> HIDE DEF v, w, s1, t
  <2>3. s1 \in ClaudeStates /\ s1.plans = s.plans /\ s1.out = Append(s.out, v)
    BY <2>1, OutIs DEF s1
  <2>4. t \in ClaudeStates /\ t.plans = s1.plans /\ t.out = Append(s1.out, w)
    BY <2>1, <2>2, <2>3, OutIs
  <2> QED BY <1>1, <2>3, <2>4 DEF ClaudeEffect, v, w, t
<1>2. ASSUME NEW v \in Updates, e[1] \in {"text", "thinking", "tool_use", "tool_result"},
             t = [s EXCEPT !.out = Append(@, v)],
             e[1] = "tool_use" => v = Update("tool_call", e[2]),
             e[1] = "tool_result" => v = Update("tool_call_update", e[2]) /\ e[2] \notin s.plans,
             e[1] \in {"text", "thinking"} => v.kind \notin {"tool_call", "tool_call_update"}
      PROVE  t \in ClaudeStates /\ ClaudeEffect(s, e, t)
  <2> HIDE DEF t
  <2>1. t \in ClaudeStates /\ t.plans = s.plans /\ t.out = Append(s.out, v)
    BY <1>2, OutIs
  <2> QED BY <1>2, <2>1 DEF ClaudeEffect
<1>3. CASE e[1] \in {"text", "thinking"}
  <2> DEFINE v == Update(IF e[1] = "text" THEN "agent_message_chunk" ELSE "agent_thought_chunk", "none")
  <2>1. v \in Updates /\ v.kind \notin {"tool_call", "tool_call_update"}
    BY DEF Update, Updates, UpdateIds
  <2>2. t = [s EXCEPT !.out = Append(@, v)]
    BY <1>3 DEF ClaudeStep, Out
  <2> QED BY <1>2, <1>3, <2>1, <2>2
<1>4. CASE e[1] = "tool_use" /\ e[2] # ""
  <2> DEFINE v == Update("tool_call", e[2])
  <2>1. v \in Updates
    BY <1>0, <1>4 DEF Update, Updates, UpdateIds
  <2>2. t = [s EXCEPT !.out = Append(@, v)]
    BY <1>4 DEF ClaudeStep, Out
  <2> QED BY <1>2, <1>4, <2>1, <2>2
<1>5. CASE e[1] = "tool_result" /\ e[2] # "" /\ e[2] \notin s.plans
  <2> DEFINE v == Update("tool_call_update", e[2])
  <2>1. v \in Updates
    BY <1>0, <1>5 DEF Update, Updates, UpdateIds
  <2>2. t = [s EXCEPT !.out = Append(@, v)]
    BY <1>5 DEF ClaudeStep, Out
  <2> QED BY <1>2, <1>5, <2>1, <2>2
<1>6. CASE e[1] = "TodoWrite" /\ e[2] # ""
  <2> DEFINE v == Update("plan", "none")
             s1 == [s EXCEPT !.out = Append(@, v)]
  <2>1. v \in Updates /\ e[2] \in UpdateIds
    BY <1>0, <1>6 DEF Update, Updates, UpdateIds
  <2>2. t = [s1 EXCEPT !.plans = @ \cup {e[2]}]
    BY <1>6 DEF ClaudeStep, Plan, Out
  <2> HIDE DEF v, s1, t
  <2>3. s1 \in ClaudeStates /\ s1.plans = s.plans /\ s1.out = Append(s.out, v)
    BY <2>1, OutIs DEF s1
  <2>4. t \in ClaudeStates /\ t.plans = s.plans \cup {e[2]} /\ t.out = Append(s.out, v)
    BY <2>1, <2>2, <2>3 DEF ClaudeStates
  <2> QED BY <1>6, <2>4 DEF ClaudeEffect, v, t
<1>7. CASE \/ e[1] \in {"tool_use", "TodoWrite"} /\ e[2] = ""
           \/ e[1] = "tool_result" /\ (e[2] = "" \/ e[2] \in s.plans)
           \/ e[1] = "TodoWrite undecodable"
  <2>1. t = s
    BY <1>7 DEF ClaudeStep
  <2> QED BY <1>7, <2>1 DEF ClaudeEffect
<1> HIDE DEF t
<1> QED BY <1>0, <1>1, <1>3, <1>4, <1>5, <1>6, <1>7, Zenon DEF t

\* An event of a tool or of an item, by its id.
EventOf(e, what, id) == e[1] = what /\ e[2] = id

LEMMA ToolEventIs ==
    ASSUME NEW e \in ClaudeEvents, NEW id,
           NEW what \in {"tool_use", "TodoWrite", "TodoWrite undecodable", "tool_result"}
    PROVE  e = <<what, id>> <=> EventOf(e, what, id)
<1>1. e = <<what, id>> => e[1] = what /\ e[2] = id
  <2> SUFFICES ASSUME e = <<what, id>> PROVE <<what, id>>[1] = what /\ <<what, id>>[2] = id
    BY Zenon
  <2> QED OBVIOUS
<1>2. what \notin {"init", "text", "thinking"}
  OBVIOUS
<1>3. e[1] = what /\ e[2] = id => e = <<what, id>>
  BY <1>2, ClaudeEventsAre, Zenon DEF IsPair
<1> QED BY <1>1, <1>3, Zenon DEF EventOf

\* What an event changes for the tool of an id: whether its call has been told,
\* whether it is a plan, how many of its updates went out.
Updated(s, e, id) == EventOf(e, "tool_result", id) /\ id \notin s.plans
KeepsTool(s, e, t, id) ==
    LET change == Update("tool_call_update", id)
        updated == Updated(s, e, id)
    IN  /\ Told(s.out, id) \/ EventOf(e, "tool_use", id) => Told(t.out, id)
        /\ CallFirst(s.out, id) /\ (updated => Told(s.out, id)) => CallFirst(t.out, id)
        /\ id \in t.plans <=> id \in s.plans \/ EventOf(e, "TodoWrite", id)
        /\ Count(s.out, change) \in Nat
        /\ Count(t.out, change) = Count(s.out, change) + (IF updated THEN 1 ELSE 0)

LEMMA ClaudeKeeps ==
    ASSUME NEW s \in ClaudeStates, NEW t \in ClaudeStates, NEW e \in ClaudeEvents,
           ClaudeEffect(s, e, t), NEW id \in {"t", "u"}
    PROVE  KeepsTool(s, e, t, id)
<1> DEFINE updated == Updated(s, e, id)
           call == Update("tool_call", id)
           change == Update("tool_call_update", id)
<1>1. s.out \in Seq(Updates)
  BY DEF ClaudeStates
<1>2. \A w \in UpdateIds : Update("plan", w) \in Updates
  BY DEF Update, Updates
<1>3. Count(s.out, change) \in Nat
  <2>1. Update("plan", "none") \in Updates
    BY <1>2 DEF UpdateIds
  <2> HIDE DEF change
  <2> QED BY <1>1, <2>1, CountAppend
<1>4. ASSUME NEW v \in Updates, t.out = Append(s.out, v),
             v = change <=> updated, EventOf(e, "tool_use", id) => v = call,
             id \in t.plans <=> id \in s.plans \/ EventOf(e, "TodoWrite", id)
      PROVE  KeepsTool(s, e, t, id)
  <2>1. Told(s.out, id) \/ v = call => Told(t.out, id)
    BY <1>1, <1>4, AppendTold
  <2>2. CallFirst(s.out, id) /\ (v = change => Told(s.out, id)) => CallFirst(t.out, id)
    BY <1>1, <1>4, AppendTold
  <2> HIDE DEF change, call, updated
  <2>3. Count(t.out, change) = Count(s.out, change) + (IF v = change THEN 1 ELSE 0)
    BY <1>1, <1>4, CountAppend
  <2> QED BY <1>3, <1>4, <2>1, <2>2, <2>3 DEF KeepsTool, change, call, updated
<1>5. CASE t = s /\ (e[1] = "tool_result" => e[2] = "" \/ e[2] \in s.plans)
           /\ (e[1] \in {"tool_use", "TodoWrite"} => e[2] = "")
  <2>1. ~EventOf(e, "tool_use", id) /\ ~EventOf(e, "TodoWrite", id) /\ ~updated
    BY <1>5 DEF EventOf, Updated
  <2>2. t = s
    BY <1>5
  <2> HIDE DEF change, call, updated
  <2>3. Count(t.out, change) = Count(s.out, change) + 0
    BY <1>3, <2>2
  <2> QED BY <1>3, <2>1, <2>2, <2>3 DEF KeepsTool, change, updated
<1>6. CASE /\ e[1] = "init" /\ t.plans = s.plans
           /\ t.out = Append(Append(s.out, Update("available_commands_update", "none")),
                             Update("current_mode_update", "none"))
  <2> DEFINE v == Update("available_commands_update", "none")
             w == Update("current_mode_update", "none")
             out == Append(s.out, v)
  <2>1. v \in Updates /\ w \in Updates /\ v # change /\ w # change
    BY DEF Update, Updates, UpdateIds
  <2>2. ~EventOf(e, "tool_use", id) /\ ~EventOf(e, "TodoWrite", id) /\ ~updated
    BY <1>6 DEF EventOf, Updated
  <2>3. t.out = Append(out, w)
    BY <1>6
  <2> HIDE DEF v, w
  <2>4. out \in Seq(Updates)
    BY <1>1, <2>1, Appending
  <2>5. /\ Told(s.out, id) => Told(out, id)
        /\ CallFirst(s.out, id) => CallFirst(out, id)
    BY <1>1, <2>1, AppendTold
  <2>6. Count(out, change) = Count(s.out, change)
    <3> HIDE DEF change, out
    <3>1. Count(out, change) = Count(s.out, change) + 0
      BY <1>1, <2>1, CountAppend DEF out
    <3> QED BY <1>3, <3>1
  <2> HIDE DEF out
  <2>7. /\ Told(out, id) => Told(t.out, id)
        /\ CallFirst(out, id) => CallFirst(t.out, id)
    BY <2>1, <2>3, <2>4, AppendTold
  <2>8. Count(t.out, change) = Count(out, change)
    <3> HIDE DEF change
    <3>1. Count(t.out, change) = Count(out, change) + 0
      BY <2>1, <2>3, <2>4, CountAppend
    <3> QED BY <1>3, <2>6, <3>1
  <2> HIDE DEF change, call, updated
  <2> QED BY <1>3, <1>6, <2>2, <2>5, <2>6, <2>7, <2>8 DEF KeepsTool, change, updated
<1>7. ASSUME e[1] \in {"text", "thinking", "tool_use", "tool_result"}, t.plans = s.plans,
             NEW v \in Updates, t.out = Append(s.out, v),
             e[1] = "tool_use" => v = Update("tool_call", e[2]),
             e[1] = "tool_result" => v = Update("tool_call_update", e[2]) /\ e[2] \notin s.plans,
             e[1] \in {"text", "thinking"} => v.kind \notin {"tool_call", "tool_call_update"}
      PROVE  KeepsTool(s, e, t, id)
  <2>1. v = change <=> updated
    BY <1>7 DEF EventOf, Updated, Update
  <2>2. EventOf(e, "tool_use", id) => v = call
    BY <1>7 DEF EventOf, Updated
  <2>3. ~EventOf(e, "TodoWrite", id)
    BY <1>7 DEF EventOf, Updated
  <2> HIDE DEF change, call, updated
  <2> QED BY <1>4, <1>7, <2>1, <2>2, <2>3
<1>8. CASE /\ e[1] = "TodoWrite"
           /\ t.plans = s.plans \cup {e[2]} /\ t.out = Append(s.out, Update("plan", "none"))
  <2> DEFINE v == Update("plan", "none")
  <2>1. v \in Updates /\ v # change
    BY DEF Update, Updates, UpdateIds
  <2>2. ~EventOf(e, "tool_use", id) /\ ~updated
    BY <1>8 DEF EventOf, Updated
  <2>3. id \in t.plans <=> id \in s.plans \/ EventOf(e, "TodoWrite", id)
    BY <1>8 DEF EventOf, Updated
  <2>4. t.out = Append(s.out, v)
    BY <1>8
  <2> HIDE DEF change, call, updated, v
  <2> QED BY <1>4, <2>1, <2>2, <2>3, <2>4
<1> QED BY <1>5, <1>6, <1>7, <1>8 DEF ClaudeEffect

\* The translation of a claude session is a run over its events.
LEMMA ClaudeStreamRuns ==
    ASSUME line \in Seq(ClaudeEvents)
    PROVE  \E g : /\ ClaudeStream(line) = g[Len(line)] /\ g[0] = ClaudeStart
                  /\ \A n \in 0..Len(line) : g[n] \in ClaudeStates
                  /\ \A n \in 1..Len(line) : ClaudeEffect(g[n - 1], line[n], g[n])
<1> DEFINE N == Len(line)
           T == ClaudeStates
           after == CHOOSE g : g = [n \in 0..N |-> IF n = 0 THEN ClaudeStart ELSE ClaudeStep(g[n - 1], line[n])]
           step == [n \in 1..N |-> [r \in T |-> ClaudeStep(r, line[n])]]
<1>1. N \in Nat /\ ClaudeStart \in T
  <2>1. <<>> \in Seq(Updates)
    OBVIOUS
  <2> QED BY <2>1 DEF ClaudeStart, ClaudeStates
<1>2. ASSUME NEW r \in T, NEW n \in 1..N
      PROVE  ClaudeStep(r, line[n]) \in T /\ ClaudeEffect(r, line[n], ClaudeStep(r, line[n]))
  <2>1. line[n] \in ClaudeEvents
    OBVIOUS
  <2> QED BY <2>1, ClaudeSteps
<1>3. PICK g : IsFold(g, T, ClaudeStart, N, step)
  <2>1. step \in Steps(T, N)
    BY <1>2 DEF Steps
  <2> HIDE DEF T, N, step
  <2> QED BY <1>1, <2>1, FoldExists
<1>4. g = [n \in 0..N |-> IF n = 0 THEN ClaudeStart ELSE ClaudeStep(g[n - 1], line[n])]
  <2>1. \A n \in 1..N : g[n] = ClaudeStep(g[n - 1], line[n])
    <3> HIDE DEF T, N
    <3> QED BY <1>1, <1>3 DEF IsFold
  <2> HIDE DEF T, N, step
  <2>2. \A n \in 0..N : g[n] = IF n = 0 THEN ClaudeStart ELSE ClaudeStep(g[n - 1], line[n])
    BY <1>1, <1>3, <2>1 DEF IsFold
  <2> QED BY <1>3, <2>2 DEF IsFold
<1>5. after = [n \in 0..N |-> IF n = 0 THEN ClaudeStart ELSE ClaudeStep(after[n - 1], line[n])]
  BY <1>4
<1>6. ClaudeStream(line) = after[N]
  BY DEF ClaudeStream
<1> HIDE DEF after
<1>7. after[0] = ClaudeStart /\ \A n \in 1..N : after[n] = ClaudeStep(after[n - 1], line[n])
  BY <1>1, <1>5
<1>8. \A n \in 0..N : after[n] \in T
  <2> DEFINE S == {n \in 0..N : after[n] \in T}
  <2>1. 0 \in S
    BY <1>1, <1>7
  <2>2. ASSUME NEW n \in 1..N, n - 1 \in S PROVE n \in S
    <3> HIDE DEF T
    <3> QED BY <1>2, <1>7, <2>2
  <2> HIDE DEF S, N
  <2>3. \A n \in 0..N : n \in S
    BY <1>1, <2>1, <2>2, FoldKeeps
  <2> QED BY <2>3 DEF S
<1>9. \A n \in 1..N : ClaudeEffect(after[n - 1], line[n], after[n])
  <2> SUFFICES ASSUME NEW n \in 1..N PROVE ClaudeEffect(after[n - 1], line[n], after[n])
    OBVIOUS
  <2>1. after[n - 1] \in T
    BY <1>1, <1>8
  <2> HIDE DEF T, N
  <2> QED BY <1>2, <1>7, <2>1
<1> QED BY <1>6, <1>7, <1>8, <1>9

\* An event of the tool of an id, before or at a position.
Seen(what, id, n) == \E i \in DOMAIN line : i <= n /\ EventOf(line[i], what, id)

LEMMA SeenAt ==
    ASSUME line \in Seq(ClaudeEvents), NEW n \in 1..Len(line), NEW what, NEW id
    PROVE  Seen(what, id, n) <=> Seen(what, id, n - 1) \/ EventOf(line[n], what, id)
<1>1. \A i \in DOMAIN line : i <= n <=> i <= n - 1 \/ i = n
  OBVIOUS
<1>2. n \in DOMAIN line
  OBVIOUS
<1> QED BY <1>1, <1>2, Zenon DEF Seen

Decodes(id) == Events(<<"TodoWrite undecodable", id>>) = {}
IsUsed(id) == Events(<<"tool_use", id>>) # {}

\* The uses of a tool: the result of each comes after one of them.
UsesOf(id) == {i \in DOMAIN line : line[i][1] \in {"tool_use", "TodoWrite", "TodoWrite undecodable"}
                                   /\ line[i][2] = id}

LEMMA ResultSeen ==
    ASSUME line \in Seq(ClaudeEvents), ResultsFollow, NEW id \in {"t", "u"},
           NEW n \in 1..Len(line), EventOf(line[n], "tool_result", id)
    PROVE  \/ Seen("tool_use", id, n - 1) \/ Seen("TodoWrite", id, n - 1)
           \/ ~Decodes(id)
<1>1. n \in Events(<<"tool_result", id>>)
  <2>1. line[n] \in ClaudeEvents /\ n \in DOMAIN line
    OBVIOUS
  <2>2. line[n] = <<"tool_result", id>>
    BY <2>1, ToolEventIs
  <2> QED BY <2>1, <2>2, Zenon DEF Events
<1>2. PICK i \in UsesOf(id) : i < n
  BY <1>1 DEF ResultsFollow, UsesOf
<1>3. i \in DOMAIN line /\ line[i] \in ClaudeEvents /\ i <= n - 1
  <2>1. i \in DOMAIN line
    BY <1>2, Zenon DEF UsesOf
  <2> QED BY <1>2, <2>1
<1>4. \/ EventOf(line[i], "tool_use", id) \/ EventOf(line[i], "TodoWrite", id)
      \/ EventOf(line[i], "TodoWrite undecodable", id)
  BY <1>2, Zenon DEF UsesOf, EventOf
<1>5. CASE EventOf(line[i], "TodoWrite undecodable", id)
  <2>1. line[i] = <<"TodoWrite undecodable", id>>
    BY <1>3, <1>5, ToolEventIs
  <2>2. i \in Events(<<"TodoWrite undecodable", id>>)
    BY <1>3, <2>1, Zenon DEF Events
  <2> QED BY <2>2, Zenon DEF Decodes
<1> QED BY <1>3, <1>4, <1>5, Zenon DEF Seen

\* An id is used for one tool.
LEMMA UsedOnce ==
    ASSUME line \in Seq(ClaudeEvents), ResultsFollow, NEW id \in {"t", "u"},
           IsUsed(id), NEW n \in 1..Len(line)
    PROVE  ~EventOf(line[n], "TodoWrite", id)
<1> SUFFICES ASSUME EventOf(line[n], "TodoWrite", id) PROVE FALSE
  OBVIOUS
<1>1. PICK i \in DOMAIN line : line[i] = <<"tool_use", id>>
  BY Zenon DEF Events, IsUsed
<1>2. EventOf(line[i], "tool_use", id)
  <2>1. line[i] \in ClaudeEvents
    OBVIOUS
  <2> QED BY <1>1, <2>1, ToolEventIs
<1>3. i \in UsesOf(id) /\ n \in UsesOf(id)
  <2>1. n \in DOMAIN line
    OBVIOUS
  <2> QED BY <1>1, <1>2, <2>1, Zenon DEF UsesOf, EventOf
<1>4. i = n
  <2>1. UsesOf(id) \subseteq 1..Len(line) /\ Len(line) \in Nat
    <3>1. UsesOf(id) \subseteq DOMAIN line
      BY Zenon DEF UsesOf
    <3> QED BY <3>1
  <2>2. IsFiniteSet(UsesOf(id))
    BY <2>1, FinitePositions
  <2>3. Cardinality(UsesOf(id)) <= 1
    BY DEF ResultsFollow, UsesOf
  <2> QED BY <1>3, <2>2, <2>3, AtMostOne
<1> QED BY <1>2, <1>4 DEF EventOf

\* What the host has been told of a tool so far: whose TodoWrite decodes, ...
ToldInOrder(s, id, n) ==
    /\ CallFirst(s.out, id)
    /\ Seen("tool_use", id, n) => Told(s.out, id)
    /\ Seen("TodoWrite", id, n) => id \in s.plans

LEMMA NoPhantomUpdate ==
    ASSUME line \in Seq(ClaudeEvents), ResultsFollow, NEW id \in {"t", "u"},
           Decodes(id)
    PROVE  CallFirst(ClaudeStream(line).out, id)
<1> DEFINE N == Len(line)
<1>1. PICK g : /\ ClaudeStream(line) = g[N] /\ g[0] = ClaudeStart
               /\ \A n \in 0..N : g[n] \in ClaudeStates
               /\ \A n \in 1..N : ClaudeEffect(g[n - 1], line[n], g[n])
  BY ClaudeStreamRuns
<1> DEFINE S == {n \in 0..N : ToldInOrder(g[n], id, n)}
<1>2. N \in Nat
  OBVIOUS
<1>3. 0 \in S
  <2>1. \A i \in DOMAIN line : ~(i <= 0)
    OBVIOUS
  <2>2. ~Seen("tool_use", id, 0) /\ ~Seen("TodoWrite", id, 0)
    BY <2>1, Zenon DEF Seen
  <2>3. CallFirst(<<>>, id) /\ ClaudeStart.out = <<>>
    BY DEF CallFirst, ClaudeStart
  <2>4. ToldInOrder(g[0], id, 0)
    BY <1>1, <2>2, <2>3 DEF ToldInOrder
  <2> QED BY <1>2, <2>4
<1>4. ASSUME NEW n \in 1..N, n - 1 \in S PROVE n \in S
  <2>1. n \in 0..N /\ line[n] \in ClaudeEvents /\ g[n - 1] \in ClaudeStates /\ g[n] \in ClaudeStates
    BY <1>1, <1>2
  <2>2. ToldInOrder(g[n - 1], id, n - 1)
    BY <1>4
  <2>3. KeepsTool(g[n - 1], line[n], g[n], id)
    <3>1. ClaudeEffect(g[n - 1], line[n], g[n])
      BY <1>1
    <3> HIDE DEF N
    <3> QED BY <2>1, <3>1, ClaudeKeeps
  <2>4. ASSUME Updated(g[n - 1], line[n], id) PROVE Told(g[n - 1].out, id)
    <3>1. EventOf(line[n], "tool_result", id) /\ id \notin g[n - 1].plans
      BY <2>4 DEF Updated
    <3>2. Seen("tool_use", id, n - 1) \/ Seen("TodoWrite", id, n - 1)
      BY <3>1, ResultSeen
    <3> QED BY <2>2, <3>1, <3>2 DEF ToldInOrder
  <2>5. /\ Seen("tool_use", id, n) <=> Seen("tool_use", id, n - 1) \/ EventOf(line[n], "tool_use", id)
        /\ Seen("TodoWrite", id, n) <=> Seen("TodoWrite", id, n - 1) \/ EventOf(line[n], "TodoWrite", id)
    BY SeenAt
  <2>6. ToldInOrder(g[n], id, n)
    <3>1. /\ Told(g[n - 1].out, id) \/ EventOf(line[n], "tool_use", id) => Told(g[n].out, id)
          /\ CallFirst(g[n].out, id)
          /\ id \in g[n].plans <=> id \in g[n - 1].plans \/ EventOf(line[n], "TodoWrite", id)
      <4>1. CallFirst(g[n - 1].out, id)
        BY <2>2 DEF ToldInOrder
      <4> QED BY <2>3, <2>4, <4>1 DEF KeepsTool
    <3> QED BY <2>2, <2>5, <3>1 DEF ToldInOrder
  <2> QED BY <2>1, <2>6
<1>5. N \in S
  <2>1. \A n \in 0..N : n \in S
    <3> HIDE DEF S, N
    <3> QED BY <1>2, <1>3, <1>4, FoldKeeps
  <2>2. N \in 0..N
    BY <1>2
  <2> QED BY <2>1, <2>2
<1> QED BY <1>1, <1>5 DEF ToldInOrder

\* ... and how often of one that is used.
LEMMA EveryResultOnce ==
    ASSUME line \in Seq(ClaudeEvents), ResultsFollow, NEW id \in {"t", "u"},
           IsUsed(id)
    PROVE  Count(ClaudeStream(line).out, Update("tool_call_update", id))
             = Cardinality(Events(<<"tool_result", id>>))
<1> DEFINE N == Len(line)
           E == Events(<<"tool_result", id>>)
           change == Update("tool_call_update", id)
<1>1. PICK g : /\ ClaudeStream(line) = g[N] /\ g[0] = ClaudeStart
               /\ \A n \in 0..N : g[n] \in ClaudeStates
               /\ \A n \in 1..N : ClaudeEffect(g[n - 1], line[n], g[n])
  BY ClaudeStreamRuns
<1> DEFINE S == {n \in 0..N : /\ id \notin g[n].plans
                             /\ Count(g[n].out, change) = Cardinality(UpTo(E, n))}
<1>2. N \in Nat /\ E \subseteq 1..N
  BY DEF Events
<1>3. 0 \in S
  <2>1. id \notin ClaudeStart.plans /\ ClaudeStart.out = <<>>
    BY DEF ClaudeStart
  <2>2. Count(<<>>, change) = 0
    <3>1. {i \in DOMAIN <<>> : <<>>[i] = change} = {}
      OBVIOUS
    <3> QED BY <3>1, FS_EmptySet DEF Count
  <2>3. Cardinality(UpTo(E, 0)) = 0
    <3> HIDE DEF E, N
    <3> QED BY <1>2, UptoEnds
  <2>4. 0 \in 0..N
    BY <1>2
  <2> HIDE DEF E, N, change
  <2> QED BY <1>1, <2>1, <2>2, <2>3, <2>4
<1>4. ASSUME NEW n \in 1..N, n - 1 \in S PROVE n \in S
  <2>1. n \in 0..N /\ line[n] \in ClaudeEvents /\ g[n - 1] \in ClaudeStates /\ g[n] \in ClaudeStates
    BY <1>1, <1>2
  <2>2. id \notin g[n - 1].plans /\ Count(g[n - 1].out, change) = Cardinality(UpTo(E, n - 1))
    BY <1>4
  <2>3. KeepsTool(g[n - 1], line[n], g[n], id)
    <3>1. ClaudeEffect(g[n - 1], line[n], g[n])
      BY <1>1
    <3> HIDE DEF N
    <3> QED BY <2>1, <3>1, ClaudeKeeps
  <2>4. ~EventOf(line[n], "TodoWrite", id)
    BY UsedOnce
  <2>5. n \in E <=> EventOf(line[n], "tool_result", id)
    <3>1. line[n] = <<"tool_result", id>> <=> EventOf(line[n], "tool_result", id)
      BY <2>1, ToolEventIs
    <3>2. n \in DOMAIN line
      OBVIOUS
    <3> QED BY <3>1, <3>2, Zenon DEF Events
  <2>6. Updated(g[n - 1], line[n], id) <=> n \in E
    BY <2>2, <2>5, Zenon DEF Updated
  <2> HIDE DEF E, N, change
  <2>7. id \notin g[n].plans
    BY <2>2, <2>3, <2>4, Zenon DEF KeepsTool
  <2>8. Count(g[n].out, change) = Count(g[n - 1].out, change) + (IF n \in E THEN 1 ELSE 0)
    BY <2>3, <2>6, Zenon DEF KeepsTool, change
  <2>9. Cardinality(UpTo(E, n)) = Cardinality(UpTo(E, n - 1)) + (IF n \in E THEN 1 ELSE 0)
    <3> HIDE DEF S
    <3>1. Grows(E, n)
      BY <1>2, Upto, Zenon
    <3> QED BY <3>1, Zenon DEF Grows
  <2> QED BY <2>1, <2>2, <2>7, <2>8, <2>9, Zenon
<1>5. N \in S
  <2>1. \A n \in 0..N : n \in S
    <3> HIDE DEF S, N
    <3> QED BY <1>2, <1>3, <1>4, FoldKeeps
  <2>2. N \in 0..N
    BY <1>2
  <2> QED BY <2>1, <2>2
<1>6. UpTo(E, N) = E
  <2> HIDE DEF E, N
  <2> QED BY <1>2, UptoEnds
<1> HIDE DEF E, N, change
<1>7. Count(g[N].out, change) = Cardinality(E)
  BY <1>5, <1>6, Zenon
<1> QED BY <1>1, <1>7, Zenon DEF E, N, change

LEMMA NoPhantomTools ==
    ASSUME LineOK
    PROVE  NoPhantomTool
<1> SUFFICES ASSUME kind = "claude", ResultsFollow, NEW id \in {"t", "u"}
             PROVE  /\ Events(<<"TodoWrite undecodable", id>>) = {} => CallFirst(ClaudeStream(line).out, id)
                    /\ Events(<<"tool_use", id>>) # {} =>
                         Count(ClaudeStream(line).out, Update("tool_call_update", id))
                           = Cardinality(Events(<<"tool_result", id>>))
  BY Zenon DEF NoPhantomTool, CallFirst
<1>1. line \in Seq(ClaudeEvents)
  BY DEF LineOK, Alphabet
<1> QED BY <1>1, NoPhantomUpdate, EveryResultOnce, Zenon DEF Decodes, IsUsed

\* What an engine has sent, and what it knows, of a codex thread.
CodexStates == [turn : [known : BOOLEAN, live : BOOLEAN, deltas : SUBSET UpdateIds, usage : Nat],
                out : Seq(Updates), returned : Seq(Nat)]

ACodexEvent(e) ==
    /\ e[1] \in {"begin", "end", "reasoning", "usage", "delta", "message", "started", "completed"}
    /\ e[1] \in {"delta", "message", "started", "completed"} => e[2] \in {"a", "b"}
IsAlone(e) == e = <<e[1]>>

LEMMA CodexEventsAre ==
    ASSUME NEW e \in CodexEvents
    PROVE  /\ ACodexEvent(e)
           /\ IF e[1] \in {"delta", "message", "started", "completed"} THEN IsPair(e) ELSE IsAlone(e)
<1> DEFINE ItemEvents == {"delta", "message", "started", "completed"}
           ItemIds == {"a", "b"}
<1>1. CASE e \in ItemEvents \X ItemIds
  <2>1. e[1] \in ItemEvents /\ e[2] \in ItemIds /\ e = <<e[1], e[2]>>
    <3> HIDE DEF ItemEvents, ItemIds
    <3> QED BY <1>1
  <2> QED BY <2>1, Zenon DEF IsPair, ACodexEvent
<1>2. ASSUME NEW w \in {"begin", "end", "reasoning", "usage"}, e = <<w>>
      PROVE  ACodexEvent(e) /\ IsAlone(e) /\ e[1] \notin ItemEvents
  <2>1. e[1] = w
    BY <1>2
  <2>2. ACodexEvent(e) /\ e[1] \notin ItemEvents
    BY <2>1, Zenon DEF ACodexEvent
  <2>3. IsAlone(e)
    BY <1>2, <2>1, Zenon DEF IsAlone
  <2> QED BY <2>2, <2>3
<1>3. \/ e \in ItemEvents \X ItemIds
      \/ \E w \in {"begin", "end", "reasoning", "usage"} : e = <<w>>
  BY DEF CodexEvents
<1> QED BY <1>1, <1>2, <1>3, Zenon

LEMMA CodexEventIs ==
    ASSUME NEW e \in CodexEvents, NEW id
    PROVE  /\ e = <<"begin">> <=> e[1] = "begin"
           /\ e = <<"end">> <=> e[1] = "end"
           /\ e = <<"usage">> <=> e[1] = "usage"
           /\ e = <<"delta", id>> <=> EventOf(e, "delta", id)
           /\ e = <<"message", id>> <=> EventOf(e, "message", id)
<1>1. ASSUME NEW w, e = <<w>> PROVE e[1] = w
  BY <1>1
<1>2. ASSUME NEW w, e = <<w, id>> PROVE e[1] = w /\ e[2] = id
  BY <1>2
<1>3. e[1] \in {"begin", "end", "usage"} => e = <<e[1]>>
  BY CodexEventsAre, Zenon DEF IsAlone
<1>4. e[1] \in {"delta", "message"} => e = <<e[1], e[2]>>
  BY CodexEventsAre, Zenon DEF IsPair
<1> QED BY <1>1, <1>2, <1>3, <1>4, Zenon DEF EventOf

\* What an event does to the turn and to the updates of an item.
TurnEffect(s, e, n, t) ==
    \/ /\ e[1] = "begin" /\ ~s.turn.live /\ t.returned = s.returned
       /\ t.turn.known /\ t.turn.live /\ t.turn.deltas = {} /\ t.turn.usage = 0
    \/ e[1] = "begin" /\ s.turn.live /\ t.returned = s.returned /\ t.turn = s.turn
    \/ /\ e[1] = "end" /\ ~t.turn.live
       /\ t.turn.known = s.turn.known /\ t.turn.deltas = s.turn.deltas
       /\ t.returned = IF s.turn.live THEN Append(s.returned, s.turn.usage) ELSE s.returned
    \/ /\ e[1] \notin {"begin", "end"} /\ t.returned = s.returned
       /\ t.turn.known = s.turn.known /\ t.turn.live = s.turn.live
       /\ t.turn.usage = IF e[1] = "usage" /\ s.turn.known THEN n ELSE s.turn.usage
       /\ t.turn.deltas = IF e[1] = "delta" /\ s.turn.known THEN s.turn.deltas \cup {e[2]} ELSE s.turn.deltas
Streams(s, e) ==
    \/ e[1] = "delta" /\ s.turn.known
    \/ e[1] = "message" /\ e[2] \notin s.turn.deltas
OutEffect(s, e, t) ==
    \/ t.out = s.out /\ ~Streams(s, e)
    \/ /\ Streams(s, e)
       /\ t.out = Append(s.out, Update("agent_message_chunk", e[2]))
    \/ /\ ~Streams(s, e)
       /\ \E v \in Updates : v.kind # "agent_message_chunk" /\ t.out = Append(s.out, v)
CodexEffect(s, e, n, t) == TurnEffect(s, e, n, t) /\ OutEffect(s, e, t)

LEMMA CodexOutIs ==
    ASSUME NEW s \in CodexStates, NEW v \in Updates, NEW t, t = [s EXCEPT !.out = Append(@, v)]
    PROVE  /\ t \in CodexStates /\ t.turn = s.turn /\ t.returned = s.returned
           /\ t.out = Append(s.out, v)
<1>1. s.out \in Seq(Updates)
  BY DEF CodexStates
<1>2. Append(s.out, v) \in Seq(Updates)
  BY <1>1, Appending
<1> QED BY <1>2 DEF CodexStates

LEMMA CodexSteps ==
    ASSUME NEW s \in CodexStates, NEW e \in CodexEvents, NEW n \in Nat
    PROVE  CodexStep(s, e, n) \in CodexStates /\ CodexEffect(s, e, n, CodexStep(s, e, n))
<1> DEFINE t == CodexStep(s, e, n)
           chunk == Update("agent_message_chunk", e[2])
<1>0. ACodexEvent(e)
  BY CodexEventsAre
<1>1. CASE e[1] = "begin"
  <2>1. t = IF s.turn.live THEN s ELSE [s EXCEPT !.turn = [NoTurn EXCEPT !.known = TRUE, !.live = TRUE]]
    BY <1>1 DEF CodexStep, TurnBegins
  <2> HIDE DEF t
  <2>2. /\ t \in CodexStates /\ t.out = s.out /\ t.returned = s.returned
        /\ s.turn.live => t.turn = s.turn
        /\ ~s.turn.live => t.turn.known /\ t.turn.live /\ t.turn.deltas = {} /\ t.turn.usage = 0
    BY <2>1 DEF CodexStates, NoTurn
  <2>3. ~Streams(s, e)
    BY <1>1 DEF Streams
  <2> QED BY <1>1, <2>2, <2>3, Zenon DEF CodexEffect, TurnEffect, OutEffect, t
<1>2. CASE e[1] = "end"
  <2>1. t = IF s.turn.live THEN [s EXCEPT !.turn.live = FALSE, !.returned = Append(@, s.turn.usage)] ELSE s
    BY <1>2 DEF CodexStep, TurnSettles
  <2> HIDE DEF t
  <2>2. s.returned \in Seq(Nat) /\ s.turn.usage \in Nat
    BY DEF CodexStates
  <2>3. Append(s.returned, s.turn.usage) \in Seq(Nat)
    BY <2>2, Appending
  <2>4. /\ t \in CodexStates /\ t.out = s.out /\ ~t.turn.live
        /\ t.turn.known = s.turn.known /\ t.turn.deltas = s.turn.deltas
        /\ t.returned = IF s.turn.live THEN Append(s.returned, s.turn.usage) ELSE s.returned
    BY <2>1, <2>3 DEF CodexStates
  <2>5. ~Streams(s, e)
    BY <1>2 DEF Streams
  <2> QED BY <1>2, <2>4, <2>5, Zenon DEF CodexEffect, TurnEffect, OutEffect, t
<1>3. CASE e[1] = "usage"
  <2>1. t = IF s.turn.known THEN [s EXCEPT !.turn.usage = n] ELSE s
    BY <1>3 DEF CodexStep
  <2> HIDE DEF t
  <2>2. /\ t \in CodexStates /\ t.out = s.out /\ t.returned = s.returned
        /\ t.turn.known = s.turn.known /\ t.turn.live = s.turn.live /\ t.turn.deltas = s.turn.deltas
        /\ t.turn.usage = IF s.turn.known THEN n ELSE s.turn.usage
    BY <2>1 DEF CodexStates
  <2>3. ~Streams(s, e) /\ e[1] \notin {"begin", "end"} /\ e[1] # "delta"
    BY <1>3 DEF Streams
  <2> QED BY <1>3, <2>2, <2>3, Zenon DEF CodexEffect, TurnEffect, OutEffect, t
<1>4. CASE e[1] = "delta" /\ s.turn.known
  <2> DEFINE s1 == [s EXCEPT !.out = Append(@, chunk)]
  <2>1. chunk \in Updates /\ e[2] \in UpdateIds
    BY <1>0, <1>4 DEF ACodexEvent, Update, Updates, UpdateIds
  <2>2. t = [s1 EXCEPT !.turn.deltas = @ \cup {e[2]}]
    BY <1>4 DEF CodexStep, Delta, Out
  <2> HIDE DEF chunk, s1, t
  <2>3. /\ s1 \in CodexStates /\ s1.turn = s.turn /\ s1.returned = s.returned
        /\ s1.out = Append(s.out, chunk)
    BY <2>1, CodexOutIs DEF s1
  <2>4. /\ t \in CodexStates /\ t.out = Append(s.out, chunk) /\ t.returned = s.returned
        /\ t.turn.known = s.turn.known /\ t.turn.live = s.turn.live
        /\ t.turn.deltas = s.turn.deltas \cup {e[2]} /\ t.turn.usage = s.turn.usage
    BY <2>1, <2>2, <2>3 DEF CodexStates
  <2>5. e[1] \notin {"begin", "end"} /\ e[1] # "usage"
    BY <1>4
  <2>6. Streams(s, e)
    BY <1>4, Zenon DEF Streams
  <2> QED BY <1>4, <2>4, <2>5, <2>6, Zenon DEF CodexEffect, TurnEffect, OutEffect, t, chunk
<1>5. ASSUME e[1] \in {"delta", "reasoning", "started", "completed", "message"},
             ~(e[1] = "delta" /\ s.turn.known), t \in CodexStates,
             t.turn = s.turn, t.returned = s.returned
      PROVE  TurnEffect(s, e, n, t)
  <2>1. e[1] \notin {"begin", "end"} /\ e[1] # "usage"
    BY <1>5
  <2> HIDE DEF t
  <2> QED BY <1>5, <2>1, Zenon DEF TurnEffect
<1>6. CASE e[1] = "message" /\ e[2] \notin s.turn.deltas
  <2>1. chunk \in Updates
    BY <1>0, <1>6 DEF ACodexEvent, Update, Updates, UpdateIds
  <2>2. t = [s EXCEPT !.out = Append(@, chunk)]
    BY <1>6 DEF CodexStep, Completed, Out
  <2> HIDE DEF chunk, t
  <2>3. /\ t \in CodexStates /\ t.turn = s.turn /\ t.returned = s.returned
        /\ t.out = Append(s.out, chunk)
    BY <2>1, <2>2, CodexOutIs
  <2>4. TurnEffect(s, e, n, t)
    BY <1>5, <1>6, <2>3
  <2>5. Streams(s, e)
    BY <1>6 DEF Streams
  <2> QED BY <2>3, <2>4, <2>5, Zenon DEF CodexEffect, OutEffect, t, chunk
<1>7. CASE e[1] \in {"reasoning", "started", "completed"}
  <2> DEFINE v == CASE e[1] = "reasoning" -> Update("agent_thought_chunk", "none")
                    [] e[1] = "started" -> Update("tool_call", e[2])
                    [] e[1] = "completed" -> Update("tool_call_update", e[2])
  <2>1. v \in Updates /\ v.kind # "agent_message_chunk"
    <3>1. CASE e[1] = "reasoning"
      BY <3>1 DEF Update, Updates, UpdateIds
    <3>2. CASE e[1] \in {"started", "completed"}
      BY <1>0, <3>2 DEF ACodexEvent, Update, Updates, UpdateIds
    <3> QED BY <1>7, <3>1, <3>2
  <2>2. t = [s EXCEPT !.out = Append(@, v)]
    BY <1>7 DEF CodexStep, Completed, Out
  <2> HIDE DEF v, t
  <2>3. /\ t \in CodexStates /\ t.turn = s.turn /\ t.returned = s.returned
        /\ t.out = Append(s.out, v)
    BY <2>1, <2>2, CodexOutIs
  <2>4. e[1] # "delta" /\ e[1] # "message"
    BY <1>7
  <2>5. TurnEffect(s, e, n, t)
    BY <1>5, <1>7, <2>3, <2>4
  <2>6. ~Streams(s, e)
    BY <2>4, Zenon DEF Streams
  <2> QED BY <2>1, <2>3, <2>5, <2>6, Zenon DEF CodexEffect, OutEffect, t
<1>8. CASE \/ e[1] = "delta" /\ ~s.turn.known
           \/ e[1] = "message" /\ e[2] \in s.turn.deltas
  <2>1. t = s
    BY <1>8 DEF CodexStep, Delta, Completed
  <2>2. ~Streams(s, e) /\ ~(e[1] = "delta" /\ s.turn.known) /\ e[1] \in {"delta", "message"}
    BY <1>8 DEF Streams
  <2> HIDE DEF t
  <2>3. TurnEffect(s, e, n, t)
    BY <1>5, <2>1, <2>2
  <2> QED BY <2>1, <2>2, <2>3, Zenon DEF CodexEffect, OutEffect, t
<1>9. \/ e[1] = "begin" \/ e[1] = "end" \/ e[1] = "usage" \/ e[1] = "delta" \/ e[1] = "message"
      \/ e[1] \in {"reasoning", "started", "completed"}
  BY <1>0, Zenon DEF ACodexEvent
<1> HIDE DEF t
<1>10. CASE e[1] = "delta"
  BY <1>4, <1>8, <1>10, Zenon DEF t
<1>11. CASE e[1] = "message"
  BY <1>6, <1>8, <1>11, Zenon DEF t
<1> QED BY <1>1, <1>2, <1>3, <1>7, <1>9, <1>10, <1>11, Zenon DEF t

\* The translation of a codex thread is a run over its events.
LEMMA CodexStreamRuns ==
    ASSUME line \in Seq(CodexEvents)
    PROVE  \E g : /\ CodexStream(line) = g[Len(line)] /\ g[0] = CodexStart
                  /\ \A n \in 0..Len(line) : g[n] \in CodexStates
                  /\ \A n \in 1..Len(line) : CodexEffect(g[n - 1], line[n], n, g[n])
<1> DEFINE N == Len(line)
           T == CodexStates
           after == CHOOSE g : g = [n \in 0..N |-> IF n = 0 THEN CodexStart ELSE CodexStep(g[n - 1], line[n], n)]
           step == [n \in 1..N |-> [r \in T |-> CodexStep(r, line[n], n)]]
<1>1. N \in Nat /\ CodexStart \in T
  <2>1. <<>> \in Seq(Updates) /\ <<>> \in Seq(Nat)
    OBVIOUS
  <2> QED BY <2>1 DEF CodexStart, CodexStates, NoTurn, UpdateIds
<1>2. ASSUME NEW r \in T, NEW n \in 1..N
      PROVE  CodexStep(r, line[n], n) \in T /\ CodexEffect(r, line[n], n, CodexStep(r, line[n], n))
  <2>1. line[n] \in CodexEvents /\ n \in Nat
    OBVIOUS
  <2> QED BY <2>1, CodexSteps
<1>3. PICK g : IsFold(g, T, CodexStart, N, step)
  <2>1. step \in Steps(T, N)
    BY <1>2 DEF Steps
  <2> HIDE DEF T, N, step
  <2> QED BY <1>1, <2>1, FoldExists
<1>4. g = [n \in 0..N |-> IF n = 0 THEN CodexStart ELSE CodexStep(g[n - 1], line[n], n)]
  <2>1. \A n \in 1..N : g[n] = CodexStep(g[n - 1], line[n], n)
    <3> HIDE DEF T, N
    <3> QED BY <1>1, <1>3 DEF IsFold
  <2> HIDE DEF T, N, step
  <2>2. \A n \in 0..N : g[n] = IF n = 0 THEN CodexStart ELSE CodexStep(g[n - 1], line[n], n)
    BY <1>1, <1>3, <2>1 DEF IsFold
  <2> QED BY <1>3, <2>2 DEF IsFold
<1>5. after = [n \in 0..N |-> IF n = 0 THEN CodexStart ELSE CodexStep(after[n - 1], line[n], n)]
  BY <1>4
<1>6. CodexStream(line) = after[N]
  BY DEF CodexStream
<1> HIDE DEF after
<1>7. after[0] = CodexStart /\ \A n \in 1..N : after[n] = CodexStep(after[n - 1], line[n], n)
  BY <1>1, <1>5
<1>8. \A n \in 0..N : after[n] \in T
  <2> DEFINE S == {n \in 0..N : after[n] \in T}
  <2>1. 0 \in S
    BY <1>1, <1>7
  <2>2. ASSUME NEW n \in 1..N, n - 1 \in S PROVE n \in S
    <3> HIDE DEF T
    <3> QED BY <1>2, <1>7, <2>2
  <2> HIDE DEF S, N
  <2>3. \A n \in 0..N : n \in S
    BY <1>1, <2>1, <2>2, FoldKeeps
  <2> QED BY <2>3 DEF S
<1>9. \A n \in 1..N : CodexEffect(after[n - 1], line[n], n, after[n])
  <2> SUFFICES ASSUME NEW n \in 1..N PROVE CodexEffect(after[n - 1], line[n], n, after[n])
    OBVIOUS
  <2>1. after[n - 1] \in T
    BY <1>1, <1>8
  <2> HIDE DEF T, N
  <2> QED BY <1>2, <1>7, <2>1
<1> QED BY <1>6, <1>7, <1>8, <1>9

\* The prompt that is live, and the last one that was not refused.
Began(n) == line[n] = <<"begin">>
Ended(n) == line[n] = <<"end">>
Reported(n) == line[n] = <<"usage">>
Taken(n) == {j \in Events(<<"begin">>) : j < n /\ PromptAt(j) = 0}

LEMMA EventsAre ==
    ASSUME NEW T, line \in Seq(T)
    PROVE  /\ Len(line) \in Nat
           /\ \A n : n \in Events(<<"begin">>) <=> n \in 1..Len(line) /\ Began(n)
           /\ \A n : n \in Events(<<"end">>) <=> n \in 1..Len(line) /\ Ended(n)
           /\ \A n : n \in Events(<<"usage">>) <=> n \in 1..Len(line) /\ Reported(n)
<1>1. Len(line) \in Nat /\ DOMAIN line = 1..Len(line)
  OBVIOUS
<1> QED BY <1>1, Zenon DEF Events, Began, Ended, Reported

LEMMA PromptMoves ==
    ASSUME line \in Seq(CodexEvents)
    PROVE  /\ PromptAt(1) = 0
           /\ \A n \in 1..(Len(line) + 1) :
                /\ PromptAt(n) \in Nat /\ PromptAt(n) < n
                /\ PromptAt(n) # 0 => PromptAt(n) \in Events(<<"begin">>)
           /\ \A n \in 1..Len(line) :
                PromptAt(n + 1) = IF Began(n) /\ PromptAt(n) = 0 THEN n
                                  ELSE IF Ended(n) THEN 0 ELSE PromptAt(n)
<1> DEFINE N == Len(line)
           B == Events(<<"begin">>)
           E == Events(<<"end">>)
<1>1. /\ N \in Nat
      /\ \A n : n \in B <=> n \in 1..N /\ Began(n)
      /\ \A n : n \in E <=> n \in 1..N /\ Ended(n)
  BY EventsAre
<1>2. \A n : PromptAt(n) = IF LiveAt(n) = {} THEN 0 ELSE Min(LiveAt(n))
  BY Zenon DEF PromptAt
<1>3. \A n, j : j \in LiveAt(n) <=> j \in B /\ j < n /\ ~\E k \in E : j < k /\ k < n
  BY Zenon DEF LiveAt
<1>4. \A n \in 1..N : ~(Began(n) /\ Ended(n))
  <2> SUFFICES ASSUME NEW n \in 1..N, Began(n), Ended(n) PROVE FALSE
    OBVIOUS
  <2>1. line[n] \in CodexEvents
    OBVIOUS
  <2>2. line[n][1] = "begin" /\ line[n][1] = "end"
    BY <2>1, CodexEventIs, Zenon DEF Began, Ended
  <2> QED BY <2>2
<1> HIDE DEF N, B, E
<1>5. ASSUME NEW n \in 1..(N + 1)
      PROVE  /\ LiveAt(n) \subseteq 1..(n - 1) /\ n - 1 \in Nat
             /\ LiveAt(n) = {} => PromptAt(n) = 0
             /\ LiveAt(n) # {} => PromptAt(n) \in LiveAt(n) /\ \A j \in LiveAt(n) : PromptAt(n) <= j
  <2>1. LiveAt(n) \subseteq 1..(n - 1) /\ n - 1 \in Nat
    BY <1>1, <1>3
  <2>2. LiveAt(n) # {} => Min(LiveAt(n)) \in LiveAt(n) /\ \A j \in LiveAt(n) : Min(LiveAt(n)) <= j
    BY <2>1, LeastPosition
  <2> QED BY <1>2, <2>1, <2>2, Zenon
<1>6. PromptAt(1) = 0
  <2>1. 1 \in 1..(N + 1)
    BY <1>1
  <2>2. LiveAt(1) = {}
    BY <1>5, <2>1
  <2> QED BY <1>5, <2>1, <2>2
<1>7. ASSUME NEW n \in 1..(N + 1)
      PROVE  /\ PromptAt(n) \in Nat /\ PromptAt(n) < n
             /\ PromptAt(n) # 0 => PromptAt(n) \in B
  <2>1. CASE LiveAt(n) = {}
    BY <1>1, <1>5, <2>1
  <2>2. CASE LiveAt(n) # {}
    <3>1. PromptAt(n) \in LiveAt(n) /\ PromptAt(n) \in 1..(n - 1)
      BY <1>5, <2>2
    <3>2. PromptAt(n) \in B
      BY <1>3, <3>1
    <3> QED BY <3>1, <3>2
  <2> QED BY <2>1, <2>2
<1>8. ASSUME NEW n \in 1..N
      PROVE  PromptAt(n + 1) = IF Began(n) /\ PromptAt(n) = 0 THEN n
                               ELSE IF Ended(n) THEN 0 ELSE PromptAt(n)
  <2>1. n + 1 \in 1..(N + 1) /\ n \in 1..(N + 1) /\ n \in Nat
    BY <1>1
  <2>2. CASE Began(n)
    <3>1. n \in LiveAt(n + 1) /\ \A j : j \in LiveAt(n + 1) <=> j \in LiveAt(n) \/ j = n
      <4>1. n \in B /\ n \notin E /\ ~(n < n)
        BY <1>1, <1>4, <2>1, <2>2
      <4>2. \A j \in B \cup E : j \in Nat /\ (j < n + 1 <=> j < n \/ j = n)
        BY <1>1, <2>1
      <4>3. \A k \in E : ~(n < k /\ k < n + 1)
        BY <1>1, <2>1
      <4>4. n < n + 1
        BY <2>1
      <4>5. \A j : (\E k \in E : j < k /\ k < n + 1) <=> \E k \in E : j < k /\ k < n
        BY <4>1, <4>2, Zenon
      <4>6. n \in LiveAt(n + 1)
        BY <1>3, <4>1, <4>3, <4>4, Zenon
      <4>7. \A j \in B : j \in LiveAt(n + 1) <=> j \in LiveAt(n) \/ j = n
        <5> TAKE j \in B
        <5>1. j \in LiveAt(n + 1) <=> j < n + 1 /\ ~\E k \in E : j < k /\ k < n + 1
          BY <1>3, Zenon
        <5>2. j \in LiveAt(n) <=> j < n /\ ~\E k \in E : j < k /\ k < n
          BY <1>3, Zenon
        <5>3. j < n + 1 <=> j < n \/ j = n
          BY <4>2
        <5> QED BY <4>5, <4>6, <5>1, <5>2, <5>3, Zenon
      <4> QED BY <1>3, <4>1, <4>6, <4>7, Zenon
    <3>2. CASE LiveAt(n) = {}
      <4>1. LiveAt(n + 1) # {} /\ \A j \in LiveAt(n + 1) : j = n
        BY <3>1, <3>2
      <4> QED BY <1>5, <2>1, <2>2, <3>2, <4>1, Zenon
    <3>3. CASE LiveAt(n) # {}
      <4>1. PromptAt(n) \in LiveAt(n) /\ PromptAt(n) \in 1..(n - 1) /\ \A j \in LiveAt(n) : PromptAt(n) <= j
        BY <1>5, <2>1, <3>3
      <4>2. PromptAt(n + 1) \in LiveAt(n + 1) /\ PromptAt(n + 1) <= PromptAt(n) /\ PromptAt(n + 1) \in Nat
        BY <1>5, <1>7, <2>1, <3>1, <4>1
      <4>3. PromptAt(n + 1) = PromptAt(n)
        BY <2>1, <3>1, <4>1, <4>2
      <4> QED BY <1>4, <2>2, <4>1, <4>3
    <3> QED BY <3>2, <3>3
  <2>3. CASE Ended(n)
    <3>1. LiveAt(n + 1) = {}
      <4> SUFFICES ASSUME NEW j \in LiveAt(n + 1) PROVE FALSE
        OBVIOUS
      <4>1. j \in B /\ j \in 1..n /\ ~(n \in E /\ j < n /\ n < n + 1)
        BY <1>3, <1>5, <2>1
      <4>2. j = n
        BY <1>1, <2>1, <2>3, <4>1
      <4> QED BY <1>1, <1>4, <2>3, <4>1, <4>2
    <3> QED BY <1>4, <1>5, <2>1, <2>3, <3>1
  <2>4. CASE ~Began(n) /\ ~Ended(n)
    <3>1. n \notin B /\ n \notin E
      BY <1>1, <2>4
    <3>2. \A j \in B \cup E : j \in Nat /\ (j < n + 1 <=> j < n)
      BY <1>1, <2>1, <3>1
    <3>3. \A j : j \in LiveAt(n + 1) <=> j \in LiveAt(n)
      BY <1>3, <3>2
    <3>4. LiveAt(n + 1) = LiveAt(n)
      BY <3>3
    <3> QED BY <1>2, <2>4, <3>4, Zenon
  <2> QED BY <2>2, <2>3, <2>4
<1> QED BY <1>6, <1>7, <1>8 DEF N, B

\* The usage reported last while the live prompt was.
UsagesOf(n) == {u \in Events(<<"usage">>) : u < n /\ PromptAt(u) = PromptAt(n)}

LEMMA EventsApart ==
    ASSUME line \in Seq(CodexEvents), NEW n \in 1..Len(line)
    PROVE  ~(Began(n) /\ Ended(n)) /\ ~(Began(n) /\ Reported(n)) /\ ~(Ended(n) /\ Reported(n))
<1>1. line[n] \in CodexEvents
  OBVIOUS
<1>2. /\ Began(n) <=> line[n][1] = "begin"
      /\ Ended(n) <=> line[n][1] = "end"
      /\ Reported(n) <=> line[n][1] = "usage"
  BY <1>1, CodexEventIs, Zenon DEF Began, Ended, Reported
<1> QED BY <1>2

LEMMA UsageMoves ==
    ASSUME line \in Seq(CodexEvents)
    PROVE  /\ \A n \in 1..(Len(line) + 1) : UsageOf(n) \in Nat
           /\ \A n \in 1..Len(line) : PromptAt(n + 1) # 0 =>
                UsageOf(n + 1) = IF Began(n) /\ PromptAt(n) = 0 THEN 0
                                 ELSE IF Reported(n) THEN n ELSE UsageOf(n)
<1> DEFINE N == Len(line)
           U == Events(<<"usage">>)
<1>1. N \in Nat /\ \A n : n \in U <=> n \in 1..N /\ Reported(n)
  BY EventsAre
<1>2. \A n : UsageOf(n) = Latest(UsagesOf(n))
  BY Zenon DEF UsageOf, UsagesOf
<1>3. \A n, u : u \in UsagesOf(n) <=> u \in U /\ u < n /\ PromptAt(u) = PromptAt(n)
  BY Zenon DEF UsagesOf
<1>4. /\ \A n \in 1..(N + 1) : PromptAt(n) \in Nat /\ PromptAt(n) < n
      /\ \A n \in 1..N :
           PromptAt(n + 1) = IF Began(n) /\ PromptAt(n) = 0 THEN n ELSE IF Ended(n) THEN 0 ELSE PromptAt(n)
  BY PromptMoves
<1>5. \A n \in 1..N : ~(Began(n) /\ Reported(n)) /\ ~(Ended(n) /\ Reported(n))
  BY EventsApart
<1> HIDE DEF N, U
<1>6. ASSUME NEW n \in 1..(N + 1)
      PROVE  /\ UsagesOf(n) \subseteq 1..(n - 1) /\ n - 1 \in Nat
             /\ UsagesOf(n) = {} => UsageOf(n) = 0
             /\ UsagesOf(n) # {} => UsageOf(n) \in UsagesOf(n) /\ \A j \in UsagesOf(n) : j <= UsageOf(n)
  <2>1. UsagesOf(n) \subseteq 1..(n - 1) /\ n - 1 \in Nat
    BY <1>1, <1>3
  <2> QED BY <1>2, <2>1, LatestIs
<1>7. ASSUME NEW n \in 1..(N + 1) PROVE UsageOf(n) \in Nat
  BY <1>1, <1>6
<1>8. ASSUME NEW n \in 1..N, PromptAt(n + 1) # 0
      PROVE  UsageOf(n + 1) = IF Began(n) /\ PromptAt(n) = 0 THEN 0
                              ELSE IF Reported(n) THEN n ELSE UsageOf(n)
  <2>1. n + 1 \in 1..(N + 1) /\ n \in 1..(N + 1) /\ n \in Nat
    BY <1>1
  <2>2. CASE Began(n) /\ PromptAt(n) = 0
    <3>1. UsagesOf(n + 1) = {}
      <4> SUFFICES ASSUME NEW u \in UsagesOf(n + 1) PROVE FALSE
        OBVIOUS
      <4>1. u \in 1..n /\ u \in U /\ PromptAt(u) = PromptAt(n + 1) /\ PromptAt(n + 1) = n
        BY <1>3, <1>4, <1>6, <2>1, <2>2
      <4>2. u # n
        BY <1>1, <1>5, <2>2, <4>1
      <4>3. u \in 1..(N + 1)
        BY <1>1, <4>1
      <4> QED BY <1>4, <2>1, <4>1, <4>2, <4>3
    <3> QED BY <1>6, <2>1, <2>2, <3>1
  <2>3. CASE Reported(n)
    <3>1. n \in UsagesOf(n + 1)
      BY <1>1, <1>3, <1>4, <1>5, <2>1, <2>3
    <3>2. UsageOf(n + 1) \in 1..n /\ n <= UsageOf(n + 1)
      BY <1>6, <2>1, <3>1
    <3> QED BY <1>5, <2>1, <2>3, <3>2
  <2>4. CASE ~(Began(n) /\ PromptAt(n) = 0) /\ ~Reported(n)
    <3>1. n \notin U /\ PromptAt(n + 1) = PromptAt(n)
      BY <1>1, <1>4, <1>8, <2>4
    <3>2. \A u \in U : u \in Nat /\ (u < n + 1 <=> u < n)
      BY <1>1, <2>1, <3>1
    <3>3. \A u : u \in UsagesOf(n + 1) <=> u \in UsagesOf(n)
      BY <1>3, <3>1, <3>2
    <3>4. UsagesOf(n + 1) = UsagesOf(n)
      BY <3>3
    <3> QED BY <1>2, <2>4, <3>4, Zenon
  <2> QED BY <2>2, <2>3, <2>4
<1> QED BY <1>7, <1>8 DEF N

LEMMA TakenMoves ==
    ASSUME line \in Seq(CodexEvents)
    PROVE  /\ PromptOf(1) = 0
           /\ \A n \in 1..(Len(line) + 1) : PromptOf(n) \in Nat /\ PromptOf(n) < n
           /\ \A n \in 1..Len(line) :
                PromptOf(n + 1) = IF Began(n) /\ PromptAt(n) = 0 THEN n ELSE PromptOf(n)
<1> DEFINE N == Len(line)
           B == Events(<<"begin">>)
<1>1. N \in Nat /\ \A n : n \in B <=> n \in 1..N /\ Began(n)
  BY EventsAre
<1>2. \A n : PromptOf(n) = Latest(Taken(n))
  BY Zenon DEF PromptOf, Taken
<1>3. \A n, j : j \in Taken(n) <=> j \in B /\ j < n /\ PromptAt(j) = 0
  BY Zenon DEF Taken
<1> HIDE DEF N, B
<1>4. ASSUME NEW n \in 1..(N + 1)
      PROVE  /\ Taken(n) \subseteq 1..(n - 1) /\ n - 1 \in Nat
             /\ Taken(n) = {} => PromptOf(n) = 0
             /\ Taken(n) # {} => PromptOf(n) \in Taken(n) /\ \A j \in Taken(n) : j <= PromptOf(n)
  <2>1. Taken(n) \subseteq 1..(n - 1) /\ n - 1 \in Nat
    BY <1>1, <1>3
  <2> QED BY <1>2, <2>1, LatestIs
<1>5. PromptOf(1) = 0
  <2>1. 1 \in 1..(N + 1)
    BY <1>1
  <2>2. Taken(1) = {}
    BY <1>4, <2>1
  <2> QED BY <1>4, <2>1, <2>2
<1>6. ASSUME NEW n \in 1..(N + 1) PROVE PromptOf(n) \in Nat /\ PromptOf(n) < n
  BY <1>1, <1>4
<1>7. ASSUME NEW n \in 1..N
      PROVE  PromptOf(n + 1) = IF Began(n) /\ PromptAt(n) = 0 THEN n ELSE PromptOf(n)
  <2>1. n + 1 \in 1..(N + 1) /\ n \in 1..(N + 1) /\ n \in Nat
    BY <1>1
  <2>2. CASE Began(n) /\ PromptAt(n) = 0
    <3>1. n \in Taken(n + 1)
      BY <1>1, <1>3, <2>1, <2>2
    <3>2. PromptOf(n + 1) \in 1..n /\ n <= PromptOf(n + 1)
      BY <1>4, <2>1, <3>1
    <3> QED BY <2>1, <2>2, <3>2
  <2>3. CASE ~(Began(n) /\ PromptAt(n) = 0)
    <3>1. \A j \in B : j \in Nat /\ (j < n + 1 <=> j < n \/ j = n)
      BY <1>1, <2>1
    <3>2. \A j : j \in Taken(n + 1) <=> j \in Taken(n)
      BY <1>1, <1>3, <2>3, <3>1, Zenon
    <3>3. Taken(n + 1) = Taken(n)
      BY <3>2
    <3> QED BY <1>2, <2>3, <3>3, Zenon
  <2> QED BY <2>2, <2>3
<1> QED BY <1>5, <1>6, <1>7 DEF N

\* What the prompts were to return is a run as well.
LEMMA DueRuns ==
    ASSUME line \in Seq(CodexEvents)
    PROVE  \E g : /\ Due = g[Len(line)] /\ g[0] = <<>>
                  /\ \A n \in 1..Len(line) : g[n] = Return(g[n - 1], n)
<1> DEFINE N == Len(line)
           T == Seq(Nat)
           due == CHOOSE g : g = [n \in 0..N |-> IF n = 0 THEN <<>> ELSE Return(g[n - 1], n)]
           step == [n \in 1..N |-> [r \in T |-> Return(r, n)]]
<1>1. N \in Nat /\ <<>> \in T
  OBVIOUS
<1>2. ASSUME NEW r \in T, NEW n \in 1..N PROVE Return(r, n) \in T
  <2>1. UsageOf(n) \in Nat
    <3>1. n \in 1..(N + 1)
      BY <1>1
    <3> QED BY <3>1, UsageMoves
  <2>2. Append(r, UsageOf(n)) \in T
    BY <2>1, Appending
  <2> HIDE DEF T
  <2> QED BY <2>2, Zenon DEF Return
<1>3. PICK g : IsFold(g, T, <<>>, N, step)
  <2>1. step \in Steps(T, N)
    BY <1>2 DEF Steps
  <2> HIDE DEF T, N, step
  <2> QED BY <1>1, <2>1, FoldExists
<1>4. g = [n \in 0..N |-> IF n = 0 THEN <<>> ELSE Return(g[n - 1], n)]
  <2>1. ASSUME NEW n \in 1..N PROVE g[n] = Return(g[n - 1], n)
    <3>1. g[n] = step[n][g[n - 1]] /\ g[n - 1] \in T
      <4> HIDE DEF T, N, step
      <4> QED BY <1>1, <1>3 DEF IsFold
    <3> HIDE DEF T, N
    <3>2. step[n] = [r \in T |-> Return(r, n)]
      OBVIOUS
    <3> HIDE DEF step
    <3> QED BY <3>1, <3>2
  <2> HIDE DEF T, N, step
  <2>2. \A n \in 0..N : g[n] = IF n = 0 THEN <<>> ELSE Return(g[n - 1], n)
    BY <1>1, <1>3, <2>1 DEF IsFold
  <2> QED BY <1>3, <2>2 DEF IsFold
<1>5. due = [n \in 0..N |-> IF n = 0 THEN <<>> ELSE Return(due[n - 1], n)]
  BY <1>4
<1>6. Due = due[N]
  BY DEF Due
<1> HIDE DEF due
<1>7. due[0] = <<>> /\ \A n \in 1..N : due[n] = Return(due[n - 1], n)
  BY <1>1, <1>5
<1> QED BY <1>6, <1>7

\* The turn an engine has on record after n events is that of the live prompt.
TurnIs(s, due, n) ==
    /\ s.turn.live <=> PromptAt(n + 1) # 0
    /\ s.turn.known <=> PromptOf(n + 1) # 0
    /\ s.turn.live => s.turn.known /\ s.turn.usage = UsageOf(n + 1)
    /\ s.returned = due

LEMMA TurnMoves ==
    ASSUME line \in Seq(CodexEvents), NEW n \in 1..Len(line), NEW s \in CodexStates,
           NEW t \in CodexStates, NEW due, TurnIs(s, due, n - 1), TurnEffect(s, line[n], n, t)
    PROVE  TurnIs(t, Return(due, n), n)
<1>1. n \in Nat /\ n # 0 /\ n - 1 + 1 = n /\ line[n] \in CodexEvents
  OBVIOUS
<1>2. /\ Began(n) <=> line[n][1] = "begin"
      /\ Ended(n) <=> line[n][1] = "end"
      /\ Reported(n) <=> line[n][1] = "usage"
  BY <1>1, CodexEventIs, Zenon DEF Began, Ended, Reported
<1>3. /\ PromptAt(n + 1) = IF Began(n) /\ PromptAt(n) = 0 THEN n ELSE IF Ended(n) THEN 0 ELSE PromptAt(n)
      /\ PromptOf(n + 1) = IF Began(n) /\ PromptAt(n) = 0 THEN n ELSE PromptOf(n)
      /\ PromptAt(n + 1) # 0 =>
           UsageOf(n + 1) = IF Began(n) /\ PromptAt(n) = 0 THEN 0
                            ELSE IF Reported(n) THEN n ELSE UsageOf(n)
  BY PromptMoves, TakenMoves, UsageMoves
<1>4. /\ s.turn.live <=> PromptAt(n) # 0
      /\ s.turn.known <=> PromptOf(n) # 0
      /\ s.turn.live => s.turn.known /\ s.turn.usage = UsageOf(n)
      /\ s.returned = due
  BY <1>1 DEF TurnIs
<1>5. Return(due, n) = IF Ended(n) /\ PromptAt(n) # 0 THEN Append(due, UsageOf(n)) ELSE due
  BY Zenon DEF Return, Ended
<1>6. ~(Began(n) /\ Ended(n)) /\ ~(Began(n) /\ Reported(n)) /\ ~(Ended(n) /\ Reported(n))
  BY EventsApart
<1>7. CASE Began(n)
  <2>1. /\ t.returned = s.returned
        /\ s.turn.live => t.turn = s.turn
        /\ ~s.turn.live => t.turn.known /\ t.turn.live /\ t.turn.usage = 0
    BY <1>2, <1>7, Zenon DEF TurnEffect
  <2> QED BY <1>1, <1>3, <1>4, <1>5, <1>6, <1>7, <2>1 DEF TurnIs
<1>8. CASE Ended(n)
  <2>1. ~t.turn.live /\ t.turn.known = s.turn.known
        /\ t.returned = IF s.turn.live THEN Append(s.returned, s.turn.usage) ELSE s.returned
    BY <1>2, <1>8, Zenon DEF TurnEffect
  <2>2. t.returned = Return(due, n)
    BY <1>4, <1>5, <1>8, <2>1
  <2> QED BY <1>3, <1>4, <1>6, <1>8, <2>1, <2>2 DEF TurnIs
<1>9. CASE ~Began(n) /\ ~Ended(n)
  <2>1. /\ t.returned = s.returned
        /\ t.turn.known = s.turn.known /\ t.turn.live = s.turn.live
        /\ t.turn.usage = IF Reported(n) /\ s.turn.known THEN n ELSE s.turn.usage
    BY <1>2, <1>9, Zenon DEF TurnEffect
  <2> QED BY <1>3, <1>4, <1>5, <1>9, <2>1 DEF TurnIs
<1> QED BY <1>7, <1>8, <1>9

\* The text of an item that has gone out after n events, when its events all come
\* after the prompt begun at p and before the next.
Deltas(id) == Events(<<"delta", id>>)
Whole(id) == Events(<<"message", id>>)
OfOnePrompt(id, p) ==
    /\ p \in Events(<<"begin">>)
    /\ \A i \in Deltas(id) \cup Whole(id) : PromptOf(i) = p
    /\ \A d \in Deltas(id), w \in Whole(id) : d < w
Chunks(out, id) == Count(out, Update("agent_message_chunk", id))
TextIs(s, id, p, n) ==
    /\ Chunks(s.out, id) = Cardinality(UpTo(Deltas(id), n))
                            + (IF Deltas(id) = {} THEN Cardinality(UpTo(Whole(id), n)) ELSE 0)
    /\ PromptOf(n + 1) = p => (id \in s.turn.deltas <=> UpTo(Deltas(id), n) # {})

LEMMA ChunksMove ==
    ASSUME NEW s \in CodexStates, NEW t, NEW e \in CodexEvents, OutEffect(s, e, t), NEW id \in {"a", "b"}
    PROVE  /\ Chunks(s.out, id) \in Nat
           /\ Chunks(t.out, id) = Chunks(s.out, id) + (IF Streams(s, e) /\ e[2] = id THEN 1 ELSE 0)
<1> DEFINE u == Update("agent_message_chunk", id)
<1>1. s.out \in Seq(Updates)
  BY DEF CodexStates
<1>2. u \in Updates
  BY DEF Update, Updates, UpdateIds
<1>3. Chunks(s.out, id) \in Nat
  <2> HIDE DEF u
  <2>1. Count(s.out, u) \in Nat
    BY <1>1, <1>2, CountAppend
  <2> QED BY <2>1 DEF Chunks, u
<1>4. ASSUME NEW v \in Updates, t.out = Append(s.out, v), v = u <=> Streams(s, e) /\ e[2] = id
      PROVE  Chunks(t.out, id) = Chunks(s.out, id) + (IF Streams(s, e) /\ e[2] = id THEN 1 ELSE 0)
  <2> HIDE DEF u
  <2>1. Count(t.out, u) = Count(s.out, u) + (IF v = u THEN 1 ELSE 0)
    BY <1>1, <1>4, CountAppend
  <2> QED BY <1>4, <2>1, Zenon DEF Chunks, u
<1>5. CASE t.out = s.out /\ ~Streams(s, e)
  <2>1. t.out = s.out
    BY <1>5
  <2> QED BY <1>3, <1>5, <2>1
<1>6. CASE Streams(s, e) /\ t.out = Append(s.out, Update("agent_message_chunk", e[2]))
  <2> DEFINE v == Update("agent_message_chunk", e[2])
  <2>1. e[1] \in {"delta", "message"}
    BY <1>6, Zenon DEF Streams
  <2>2. e[2] \in {"a", "b"}
    BY <2>1, CodexEventsAre, Zenon DEF ACodexEvent
  <2>3. v \in Updates /\ (v = u <=> e[2] = id)
    BY <2>2 DEF Update, Updates, UpdateIds
  <2>4. Streams(s, e) /\ t.out = Append(s.out, v)
    BY <1>6
  <2> HIDE DEF u, v
  <2>5. v = u <=> Streams(s, e) /\ e[2] = id
    BY <2>3, <2>4, Zenon
  <2> QED BY <1>3, <1>4, <2>3, <2>4, <2>5, Zenon
<1>7. ASSUME ~Streams(s, e), NEW v \in Updates, v.kind # "agent_message_chunk", t.out = Append(s.out, v)
      PROVE  Chunks(t.out, id) = Chunks(s.out, id) + (IF Streams(s, e) /\ e[2] = id THEN 1 ELSE 0)
  <2>1. v # u
    BY <1>7 DEF Update
  <2> HIDE DEF u
  <2>2. v = u <=> Streams(s, e) /\ e[2] = id
    BY <1>7, <2>1, Zenon
  <2> QED BY <1>4, <1>7, <2>2, Zenon
<1> HIDE DEF u
<1> QED BY <1>3, <1>5, <1>6, <1>7, Zenon DEF OutEffect

\* Which events of an item stream its text.
LEMMA WhichStream ==
    ASSUME line \in Seq(CodexEvents), NEW n \in 1..Len(line), NEW s \in CodexStates,
           s.turn.known <=> PromptOf(n) # 0,
           NEW id \in {"a", "b"}, NEW p, OfOnePrompt(id, p), TextIs(s, id, p, n - 1)
    PROVE  /\ Streams(s, line[n]) /\ line[n][2] = id
                <=> n \in Deltas(id) \/ (n \in Whole(id) /\ Deltas(id) = {})
           /\ n \in Deltas(id) => s.turn.known /\ n \notin Whole(id)
<1>1. line[n] \in CodexEvents /\ n \in DOMAIN line /\ n \in Nat /\ n - 1 + 1 = n
  OBVIOUS
<1>2. /\ n \in Deltas(id) <=> line[n][1] = "delta" /\ line[n][2] = id
      /\ n \in Whole(id) <=> line[n][1] = "message" /\ line[n][2] = id
  BY <1>1, CodexEventIs, ZenonT(60) DEF Deltas, Whole, Events, EventOf
<1>3. n \in Deltas(id) => s.turn.known
  <2>1. p # 0
    <3>1. p \in 1..Len(line)
      BY EventsAre DEF OfOnePrompt
    <3> QED BY <3>1
  <2> QED BY <2>1, Zenon DEF OfOnePrompt
<1>4. n \in Deltas(id) => n \notin Whole(id)
  <2>1. \A d \in Deltas(id), w \in Whole(id) : d < w
    BY Zenon DEF OfOnePrompt
  <2>2. ~(n < n)
    BY <1>1
  <2> QED BY <2>1, <2>2, Zenon
<1>5. n \in Whole(id) => (id \in s.turn.deltas <=> Deltas(id) # {})
  <2> SUFFICES ASSUME n \in Whole(id) PROVE id \in s.turn.deltas <=> Deltas(id) # {}
    OBVIOUS
  <2>1. PromptOf(n) = p /\ \A d \in Deltas(id) : d < n
    BY Zenon DEF OfOnePrompt
  <2>2. Deltas(id) \subseteq DOMAIN line
    BY Zenon DEF Deltas, Events
  <2>3. \A d \in Deltas(id) : d <= n - 1
    BY <1>1, <2>1, <2>2
  <2>4. UpTo(Deltas(id), n - 1) = Deltas(id)
    BY <2>3 DEF UpTo
  <2> QED BY <1>1, <2>1, <2>4 DEF TextIs
<1> QED BY <1>2, <1>3, <1>4, <1>5, Zenon DEF Streams

LEMMA TextMoves ==
    ASSUME line \in Seq(CodexEvents), NEW n \in 1..Len(line), NEW s \in CodexStates,
           NEW t \in CodexStates, CodexEffect(s, line[n], n, t),
           s.turn.known <=> PromptOf(n) # 0, s.turn.live <=> PromptAt(n) # 0,
           NEW id \in {"a", "b"}, NEW p, OfOnePrompt(id, p), TextIs(s, id, p, n - 1)
    PROVE  TextIs(t, id, p, n)
<1> DEFINE N == Len(line)
           D == Deltas(id)
           W == Whole(id)
<1>1. /\ N \in Nat /\ n \in Nat /\ n # 0 /\ n - 1 + 1 = n
      /\ line[n] \in CodexEvents /\ n \in DOMAIN line
  OBVIOUS
<1>2. D \subseteq 1..N /\ W \subseteq 1..N
  <2>1. D \subseteq DOMAIN line /\ W \subseteq DOMAIN line
    BY Zenon DEF Deltas, Whole, Events
  <2> QED BY <2>1
<1>3. Grows(D, n) /\ Grows(W, n)
  <2>1. n \in 1..N
    OBVIOUS
  <2> HIDE DEF D, W, N
  <2> QED BY <1>1, <1>2, <2>1, Upto, Zenon
<1>4. /\ Streams(s, line[n]) /\ line[n][2] = id <=> n \in D \/ (n \in W /\ D = {})
      /\ n \in D => s.turn.known /\ n \notin W
  BY WhichStream
<1>5. /\ Chunks(s.out, id) \in Nat
      /\ Chunks(t.out, id) = Chunks(s.out, id) + (IF Streams(s, line[n]) /\ line[n][2] = id THEN 1 ELSE 0)
  <2>1. OutEffect(s, line[n], t)
    BY Zenon DEF CodexEffect
  <2> QED BY <1>1, <2>1, ChunksMove
<1>6. Chunks(s.out, id) = Cardinality(UpTo(D, n - 1)) + (IF D = {} THEN Cardinality(UpTo(W, n - 1)) ELSE 0)
  BY Zenon DEF TextIs
<1>7. PromptOf(n) = p => (id \in s.turn.deltas <=> UpTo(D, n - 1) # {})
  <2>1. PromptOf(n - 1 + 1) = p => (id \in s.turn.deltas <=> UpTo(D, n - 1) # {})
    BY Zenon DEF TextIs
  <2> HIDE DEF D
  <2> QED BY <1>1, <2>1
<1>8. Chunks(t.out, id) = Cardinality(UpTo(D, n)) + (IF D = {} THEN Cardinality(UpTo(W, n)) ELSE 0)
  <2>1. Chunks(t.out, id) = Chunks(s.out, id) + (IF n \in D \/ (n \in W /\ D = {}) THEN 1 ELSE 0)
    BY <1>4, <1>5, Zenon
  <2> HIDE DEF D, W
  <2>2. CASE D = {}
    <3>1. n \notin D
      BY <2>2
    <3> QED BY <1>3, <1>6, <2>1, <2>2, <3>1 DEF Grows
  <2>3. CASE D # {}
    BY <1>3, <1>6, <2>1, <2>3 DEF Grows
  <2> QED BY <2>2, <2>3
<1>9. UpTo(D, n) # {} <=> UpTo(D, n - 1) # {} \/ n \in D
  <2>1. \A r \in D : r <= n <=> r <= n - 1 \/ r = n
    BY <1>1, <1>2
  <2> HIDE DEF D
  <2> QED BY <2>1, Zenon DEF UpTo
<1>10. PromptOf(n + 1) = p => (id \in t.turn.deltas <=> UpTo(D, n) # {})
  <2> SUFFICES ASSUME PromptOf(n + 1) = p PROVE id \in t.turn.deltas <=> UpTo(D, n) # {}
    OBVIOUS
  <2>1. PromptOf(n + 1) = IF Began(n) /\ PromptAt(n) = 0 THEN n ELSE PromptOf(n)
    BY TakenMoves
  <2>2. /\ Began(n) <=> line[n][1] = "begin"
        /\ n \in D <=> line[n][1] = "delta" /\ line[n][2] = id
    BY <1>1, CodexEventIs, Zenon DEF Began, Deltas, Events, EventOf
  <2>3. TurnEffect(s, line[n], n, t)
    BY Zenon DEF CodexEffect
  <2>4. CASE Began(n) /\ PromptAt(n) = 0
    <3>1. t.turn.deltas = {}
      BY <2>2, <2>3, <2>4, Zenon DEF TurnEffect
    <3>2. p = n
      BY <2>1, <2>4, Zenon
    <3>3. \A d \in D : ~(d <= n)
      <4>1. \A d \in D : PromptOf(d) = n
        BY <3>2, Zenon DEF OfOnePrompt
      <4>2. \A d \in 1..(N + 1) : PromptOf(d) < d
        BY TakenMoves
      <4> HIDE DEF D, N
      <4> QED BY <1>1, <1>2, <4>1, <4>2
    <3> HIDE DEF D
    <3> QED BY <3>1, <3>3, Zenon DEF UpTo
  <2>5. CASE ~(Began(n) /\ PromptAt(n) = 0)
    <3>1. t.turn.deltas = IF line[n][1] = "delta" /\ s.turn.known THEN s.turn.deltas \cup {line[n][2]} ELSE s.turn.deltas
      <4>1. line[n][1] = "begin" => s.turn.live
        BY <2>2, <2>5, Zenon
      <4>2. line[n][1] \in {"begin", "end"} => line[n][1] # "delta"
        OBVIOUS
      <4> QED BY <2>3, <4>1, <4>2, Zenon DEF TurnEffect
    <3>2. id \in t.turn.deltas <=> id \in s.turn.deltas \/ n \in D
      BY <1>4, <2>2, <3>1, Zenon
    <3>3. PromptOf(n) = p
      BY <2>1, <2>5, Zenon
    <3> HIDE DEF D
    <3> QED BY <1>7, <1>9, <3>2, <3>3, Zenon
  <2> QED BY <2>4, <2>5, Zenon
<1> QED BY <1>8, <1>10, Zenon DEF TextIs

LEMMA CodexStreams ==
    ASSUME line \in Seq(CodexEvents)
    PROVE  /\ CodexStream(line).returned = Due
           /\ \A id \in {"a", "b"} : StreamedOnce(id, CodexStream(line).out)
<1> DEFINE N == Len(line)
<1>1. PICK g : /\ CodexStream(line) = g[N] /\ g[0] = CodexStart
               /\ \A n \in 0..N : g[n] \in CodexStates
               /\ \A n \in 1..N : CodexEffect(g[n - 1], line[n], n, g[n])
  BY CodexStreamRuns
<1>2. PICK due : /\ Due = due[N] /\ due[0] = <<>>
                 /\ \A n \in 1..N : due[n] = Return(due[n - 1], n)
  BY DueRuns
<1>3. N \in Nat
  OBVIOUS
<1>4. \A n \in 1..N : n \in 0..N /\ n - 1 \in 0..N /\ n - 1 + 1 = n
  BY <1>3
<1>5. PromptAt(1) = 0 /\ PromptOf(1) = 0
  BY PromptMoves, TakenMoves
<1>6. ~CodexStart.turn.live /\ ~CodexStart.turn.known /\ CodexStart.turn.deltas = {} /\ CodexStart.out = <<>> /\ CodexStart.returned = <<>>
  BY DEF CodexStart, NoTurn
<1>7. \A n \in 0..N : TurnIs(g[n], due[n], n)
  <2> DEFINE S == {n \in 0..N : TurnIs(g[n], due[n], n)}
  <2>1. 0 \in S
    <3>1. TurnIs(g[0], due[0], 0)
      BY <1>1, <1>2, <1>5, <1>6 DEF TurnIs
    <3> QED BY <1>3, <3>1
  <2>2. ASSUME NEW n \in 1..N, n - 1 \in S PROVE n \in S
    <3>1. g[n - 1] \in CodexStates /\ g[n] \in CodexStates
      BY <1>1, <1>4
    <3>2. TurnIs(g[n - 1], due[n - 1], n - 1)
      BY <2>2
    <3>3. TurnEffect(g[n - 1], line[n], n, g[n])
      BY <1>1 DEF CodexEffect
    <3>4. TurnIs(g[n], Return(due[n - 1], n), n)
      <4> HIDE DEF S
      <4> QED BY <3>1, <3>2, <3>3, TurnMoves
    <3>5. TurnIs(g[n], due[n], n)
      BY <1>2, <3>4
    <3> QED BY <1>4, <3>5
  <2>3. \A n \in 0..N : n \in S
    <3> HIDE DEF S, N
    <3> QED BY <1>3, <2>1, <2>2, FoldKeeps
  <2> QED BY <2>3
<1>8. N \in 0..N
  BY <1>3
<1>9. CodexStream(line).returned = Due
  BY <1>1, <1>2, <1>7, <1>8 DEF TurnIs
<1>10. ASSUME NEW id \in {"a", "b"}, NEW p, OfOnePrompt(id, p)
       PROVE  Chunks(CodexStream(line).out, id)
                = IF Deltas(id) # {} THEN Cardinality(Deltas(id)) ELSE Cardinality(Whole(id))
  <2> DEFINE D == Deltas(id)
             W == Whole(id)
             S == {n \in 0..N : TextIs(g[n], id, p, n)}
  <2>1. D \subseteq 1..N /\ W \subseteq 1..N
    <3>1. D \subseteq DOMAIN line /\ W \subseteq DOMAIN line
      BY Zenon DEF Deltas, Whole, Events
    <3> QED BY <3>1
  <2>2. /\ Cardinality(UpTo(D, 0)) = 0 /\ UpTo(D, N) = D
        /\ Cardinality(UpTo(W, 0)) = 0 /\ UpTo(W, N) = W
    <3> HIDE DEF D, W, N, S
    <3> QED BY <1>3, <2>1, UptoEnds
  <2>3. 0 \in S
    <3>1. Chunks(<<>>, id) = 0
      <4>1. {i \in DOMAIN <<>> : <<>>[i] = Update("agent_message_chunk", id)} = {}
        OBVIOUS
      <4> QED BY <4>1, FS_EmptySet DEF Chunks, Count
    <3>2. 0 + 1 = 1 /\ PromptOf(1) # p
      <4>1. p \in 1..N
        BY <1>10, EventsAre DEF OfOnePrompt
      <4> QED BY <1>5, <4>1
    <3>3. Chunks(g[0].out, id) = 0
      BY <1>1, <1>6, <3>1
    <3>4. PromptOf(0 + 1) # p
      BY <3>2
    <3>5. TextIs(g[0], id, p, 0)
      <4> HIDE DEF D, W, S
      <4>1. Chunks(g[0].out, id) = Cardinality(UpTo(D, 0)) + (IF D = {} THEN Cardinality(UpTo(W, 0)) ELSE 0)
        BY <2>2, <3>3
      <4> QED BY <3>4, <4>1, Zenon DEF TextIs, D, W
    <3> QED BY <1>3, <3>5
  <2>4. ASSUME NEW n \in 1..N, n - 1 \in S PROVE n \in S
    <3>1. g[n - 1] \in CodexStates /\ g[n] \in CodexStates
      BY <1>1, <1>4
    <3>2. TextIs(g[n - 1], id, p, n - 1)
      BY <2>4
    <3>3. CodexEffect(g[n - 1], line[n], n, g[n])
      BY <1>1
    <3>4. (g[n - 1].turn.known <=> PromptOf(n) # 0) /\ (g[n - 1].turn.live <=> PromptAt(n) # 0)
      <4>1. TurnIs(g[n - 1], due[n - 1], n - 1)
        BY <1>4, <1>7
      <4> QED BY <1>4, <4>1 DEF TurnIs
    <3>5. TextIs(g[n], id, p, n)
      <4> HIDE DEF S
      <4> QED BY <1>10, <3>1, <3>2, <3>3, <3>4, TextMoves
    <3> QED BY <1>4, <3>5
  <2>5. TextIs(g[N], id, p, N)
    <3>1. \A n \in 0..N : n \in S
      <4> HIDE DEF S, N
      <4> QED BY <1>3, <2>3, <2>4, FoldKeeps
    <3> QED BY <1>8, <3>1
  <2>6. Chunks(g[N].out, id) = Cardinality(D) + (IF D = {} THEN Cardinality(W) ELSE 0)
    BY <2>2, <2>5, Zenon DEF TextIs
  <2>7. Cardinality(D) \in Nat /\ Cardinality(W) \in Nat
    <3> HIDE DEF D, W, N, S
    <3> QED BY <1>3, <2>1, FinitePositions
  <2>8. D = {} => Cardinality(D) = 0
    BY FS_EmptySet
  <2>9. CodexStream(line).out = g[N].out
    BY <1>1
  <2> HIDE DEF D, W, S, N
  <2>10. Chunks(g[N].out, id) = IF D # {} THEN Cardinality(D) ELSE Cardinality(W)
    BY <2>6, <2>7, <2>8
  <2> QED BY <2>9, <2>10, Zenon DEF D, W
<1>11. ASSUME NEW id \in {"a", "b"} PROVE StreamedOnce(id, CodexStream(line).out)
  BY <1>10, Zenon DEF StreamedOnce, OfOnePrompt, Deltas, Whole, Chunks
<1> QED BY <1>9, <1>11

\* A codex item is streamed once, a prompt returns its last usage, both engines
\* are given the same prompt and claude updates no tool the host was not told of,
\* for prompts and sessions of any length: what goes through a native engine
\* (native_codex.go, native_claude.go) is neither lost nor doubled on the way.
THEOREM TranslationFaithfulHolds == Spec => []TranslationFaithful
<1>1. LineOK => CodexTextOnce
  <2> SUFFICES ASSUME LineOK, kind = "codex"
               PROVE  /\ \A id \in {"a", "b"} : StreamedOnce(id, CodexStream(line).out)
                      /\ CodexStream(line).returned = Due
    BY Zenon DEF CodexTextOnce
  <2>1. line \in Seq(CodexEvents)
    BY DEF LineOK, Alphabet
  <2> QED BY <2>1, CodexStreams
<1>2. LineOK => TranslationFaithful
  BY <1>1, PromptsAgreeOnBlocks, NoPhantomTools DEF TranslationFaithful
<1> QED BY <1>2, LineCorrect, PTL

-----------------------------------------------------------------------------
(* The codec's ids.                                                          *)

\* A digit is worth less than ten, ...
LEMMA DigitType ==
    \A d \in DOMAIN Digit : Digit[d] \in 0..9
<1> DEFINE names == <<"0", "1", "2", "3", "4", "5", "6", "7", "8", "9">>
<1>1. ASSUME NEW d \in {"0", "1", "2", "7", "8", "9"} PROVE \E v \in 0..9 : d = names[v + 1]
  <2>1. /\ names[0 + 1] = "0" /\ names[1 + 1] = "1" /\ names[2 + 1] = "2"
        /\ names[7 + 1] = "7" /\ names[8 + 1] = "8" /\ names[9 + 1] = "9"
    OBVIOUS
  <2>2. 0 \in 0..9 /\ 1 \in 0..9 /\ 2 \in 0..9 /\ 7 \in 0..9 /\ 8 \in 0..9 /\ 9 \in 0..9
    OBVIOUS
  <2> HIDE DEF names
  <2> QED BY <2>1, <2>2, Zenon
<1> HIDE DEF names
<1>2. ASSUME NEW d \in {"0", "1", "2", "7", "8", "9"}
      PROVE  (CHOOSE v \in 0..9 : d = names[v + 1]) \in 0..9
  BY <1>1
<1> QED BY <1>2 DEF Digit, names

\* ... and the digit added is added, or refused just when the sum does not fit.
LEMMA AddDigitIs ==
    ASSUME NEW v \in 0..NotOk, NEW c
    PROVE  /\ AddDigit(v, c) \in 0..NotOk
           /\ v = NotOk \/ c \notin DOMAIN Digit => AddDigit(v, c) = NotOk
           /\ v # NotOk /\ c \in DOMAIN Digit =>
                AddDigit(v, c) = IF v * 10 + Digit[c] <= MaxInt THEN v * 10 + Digit[c] ELSE NotOk
<1> USE CodecAssumption
<1>1. NotOk = MaxInt + 1 /\ NotOk \in Nat
  BY DEF NotOk
<1>2. CASE v = NotOk \/ c \notin DOMAIN Digit
  BY <1>1, <1>2 DEF AddDigit
<1>3. ASSUME v # NotOk, NEW d \in 0..9
      PROVE  /\ Overflows(v, d) <=> v * 10 + d > MaxInt
             /\ v * 10 + d <= MaxInt => (v * 10 + d) % (MaxInt + 1) = v * 10 + d
  <2>1. Overflows(v, d) <=> v * 10 + d > MaxInt
    BY <1>1, <1>3 DEF Overflows
  <2> QED BY <1>1, <1>3, <2>1
<1>4. CASE v # NotOk /\ c \in DOMAIN Digit
  <2>1. Digit[c] \in 0..9
    BY <1>4, DigitType
  <2> DEFINE d == Digit[c]
  <2>2. AddDigit(v, c) = IF Overflows(v, d) THEN NotOk ELSE (v * 10 + d) % (MaxInt + 1)
    BY <1>4 DEF AddDigit
  <2> HIDE DEF d
  <2>3. d \in 0..9
    BY <2>1 DEF d
  <2>4. AddDigit(v, c) = IF v * 10 + d <= MaxInt THEN v * 10 + d ELSE NotOk
    BY <1>1, <1>3, <1>4, <2>2, <2>3
  <2> QED BY <1>1, <1>4, <2>3, <2>4 DEF d
<1> QED BY <1>2, <1>4

\* parsePositiveInt64Bytes is a run over the digits, ...
LEMMA ParseIntRuns ==
    ASSUME NEW X, NEW l \in Seq(X)
    PROVE  \E g : /\ g \in [0..Len(l) -> 0..NotOk] /\ g[0] = 0
                  /\ \A n \in 1..Len(l) : g[n] = AddDigit(g[n - 1], l[n])
                  /\ ParseInt(l) = IF l = <<>> THEN NotOk ELSE g[Len(l)]
<1> DEFINE N == Len(l)
           T == 0..NotOk
           value == CHOOSE g : g = [i \in 0..N |-> IF i = 0 THEN 0 ELSE AddDigit(g[i - 1], l[i])]
           step == [n \in 1..N |-> [r \in T |-> AddDigit(r, l[n])]]
<1>1. N \in Nat /\ 0 \in T
  BY CodecAssumption DEF NotOk
<1>2. ASSUME NEW r \in T, NEW n \in 1..N PROVE AddDigit(r, l[n]) \in T
  BY AddDigitIs
<1>3. PICK g : IsFold(g, T, 0, N, step)
  <2>1. step \in Steps(T, N)
    BY <1>2 DEF Steps
  <2> HIDE DEF T, N, step
  <2> QED BY <1>1, <2>1, FoldExists
<1>4. g = [i \in 0..N |-> IF i = 0 THEN 0 ELSE AddDigit(g[i - 1], l[i])]
  <2>1. ASSUME NEW n \in 1..N PROVE g[n] = AddDigit(g[n - 1], l[n])
    <3> HIDE DEF T, N
    <3>1. n - 1 \in 0..N
      BY <1>1
    <3>2. g[n - 1] \in T /\ g[n] = step[n][g[n - 1]]
      BY <1>3, <3>1 DEF IsFold
    <3> QED BY <3>2
  <2> HIDE DEF T, N, step
  <2>2. \A n \in 0..N : g[n] = IF n = 0 THEN 0 ELSE AddDigit(g[n - 1], l[n])
    BY <1>1, <1>3, <2>1 DEF IsFold
  <2> QED BY <1>3, <2>2 DEF IsFold
<1>5. value = [i \in 0..N |-> IF i = 0 THEN 0 ELSE AddDigit(value[i - 1], l[i])]
  BY <1>4
<1>6. ParseInt(l) = IF l = <<>> THEN NotOk ELSE value[N]
  BY DEF ParseInt
<1> HIDE DEF value
<1>7. value[0] = 0 /\ \A n \in 1..N : value[n] = AddDigit(value[n - 1], l[n])
  BY <1>1, <1>5
<1>8. value \in [0..N -> T]
  <2> DEFINE S == {n \in 0..N : value[n] \in T}
  <2>1. 0 \in S
    BY <1>1, <1>7
  <2>2. ASSUME NEW n \in 1..N, n - 1 \in S PROVE n \in S
    <3>1. value[n - 1] \in T /\ value[n] = AddDigit(value[n - 1], l[n])
      BY <1>7, <2>2
    <3> QED BY <1>2, <3>1
  <2>3. \A n \in 0..N : n \in S
    <3> HIDE DEF S
    <3> QED BY <1>1, <2>1, <2>2, FoldKeeps
  <2> QED BY <1>5, <2>3
<1> QED BY <1>6, <1>7, <1>8

\* ... and so is the number they name, without a bound.
LEMMA NumberRuns ==
    ASSUME NEW l \in Seq(DOMAIN Digit)
    PROVE  \E g : /\ g \in [0..Len(l) -> Nat] /\ g[0] = 0
                  /\ \A n \in 1..Len(l) : g[n] = g[n - 1] * 10 + Digit[l[n]]
                  /\ Number(l) = g[Len(l)]
<1> DEFINE N == Len(l)
           value == CHOOSE g : g = [i \in 0..N |-> IF i = 0 THEN 0 ELSE g[i - 1] * 10 + Digit[l[i]]]
           step == [n \in 1..N |-> [r \in Nat |-> r * 10 + Digit[l[n]]]]
<1>1. N \in Nat
  OBVIOUS
<1>2. ASSUME NEW n \in 1..N PROVE Digit[l[n]] \in 0..9
  <2>1. l[n] \in DOMAIN Digit
    OBVIOUS
  <2> QED BY <2>1, DigitType
<1>3. ASSUME NEW r \in Nat, NEW n \in 1..N PROVE r * 10 + Digit[l[n]] \in Nat
  <2> DEFINE d == Digit[l[n]]
  <2>1. d \in 0..9
    BY <1>2
  <2> HIDE DEF d
  <2>2. r * 10 + d \in Nat
    BY <2>1
  <2> QED BY <2>2 DEF d
<1>4. PICK g : IsFold(g, Nat, 0, N, step)
  <2>1. step \in Steps(Nat, N)
    BY <1>3 DEF Steps
  <2> HIDE DEF N, step
  <2> QED BY <1>1, <2>1, FoldExists
<1>5. g = [i \in 0..N |-> IF i = 0 THEN 0 ELSE g[i - 1] * 10 + Digit[l[i]]]
  <2>1. ASSUME NEW n \in 1..N PROVE g[n] = g[n - 1] * 10 + Digit[l[n]]
    <3> HIDE DEF N
    <3>1. n - 1 \in 0..N
      BY <1>1
    <3>2. g[n - 1] \in Nat /\ g[n] = step[n][g[n - 1]]
      BY <1>4, <3>1 DEF IsFold
    <3> QED BY <3>2
  <2> HIDE DEF N, step
  <2>2. ASSUME NEW n \in 0..N PROVE g[n] = IF n = 0 THEN 0 ELSE g[n - 1] * 10 + Digit[l[n]]
    <3>1. CASE n = 0
      BY <1>4, <3>1 DEF IsFold
    <3>2. CASE n # 0
      <4>1. n \in 1..N
        BY <1>1, <3>2
      <4>2. g[n] = g[n - 1] * 10 + Digit[l[n]]
        BY <2>1, <4>1
      <4> QED BY <3>2, <4>2, Zenon
    <3> QED BY <3>1, <3>2
  <2>3. g = [n \in 0..N |-> g[n]]
    BY <1>4 DEF IsFold
  <2> QED BY <2>2, <2>3, Zenon
<1>6. value = [i \in 0..N |-> IF i = 0 THEN 0 ELSE value[i - 1] * 10 + Digit[l[i]]]
  BY <1>5
<1>7. Number(l) = value[N]
  BY DEF Number
<1> HIDE DEF value
<1>8. value[0] = 0 /\ \A n \in 1..N : value[n] = value[n - 1] * 10 + Digit[l[n]]
  BY <1>1, <1>6
<1>9. value \in [0..N -> Nat]
  <2> DEFINE S == {n \in 0..N : value[n] \in Nat}
  <2>1. 0 \in S
    BY <1>1, <1>8
  <2>2. ASSUME NEW n \in 1..N, n - 1 \in S PROVE n \in S
    <3>1. value[n - 1] \in Nat /\ value[n] = value[n - 1] * 10 + Digit[l[n]]
      BY <1>8, <2>2
    <3> QED BY <1>3, <3>1
  <2>3. \A n \in 0..N : n \in S
    <3> HIDE DEF S
    <3> QED BY <1>1, <2>1, <2>2, FoldKeeps
  <2> QED BY <1>6, <2>3
<1> QED BY <1>7, <1>8, <1>9

\* A run of digits is read as its number when that fits, and as nothing else.
LEMMA ParseIntExact ==
    ASSUME NEW X, NEW l \in Seq(X)
    PROVE  /\ l = <<>> => ParseInt(l) = NotOk
           /\ (\E k \in DOMAIN l : l[k] \notin DOMAIN Digit) => ParseInt(l) = NotOk
           /\ l # <<>> /\ (\A k \in DOMAIN l : l[k] \in DOMAIN Digit) =>
                /\ Number(l) \in Nat
                /\ ParseInt(l) = IF Number(l) <= MaxInt THEN Number(l) ELSE NotOk
<1>1. PICK g : /\ g \in [0..Len(l) -> 0..NotOk] /\ g[0] = 0
               /\ \A n \in 1..Len(l) : g[n] = AddDigit(g[n - 1], l[n])
               /\ ParseInt(l) = IF l = <<>> THEN NotOk ELSE g[Len(l)]
  BY ParseIntRuns
<1> DEFINE N == Len(l)
<1>2. N \in Nat /\ DOMAIN l = 1..N /\ (l = <<>> <=> N = 0)
  OBVIOUS
<1>0. MaxInt \in Nat /\ NotOk = MaxInt + 1
  BY CodecAssumption DEF NotOk
<1>3. ASSUME NEW k \in DOMAIN l, l[k] \notin DOMAIN Digit PROVE ParseInt(l) = NotOk
  <2> DEFINE S == {n \in 0..N : n >= k => g[n] = NotOk}
  <2>1. 0 \in S
    BY <1>2
  <2>2. ASSUME NEW n \in 1..N, n - 1 \in S PROVE n \in S
    <3>1. g[n - 1] \in 0..NotOk /\ g[n] = AddDigit(g[n - 1], l[n])
      BY <1>1, <1>2
    <3>2. CASE n = k
      BY <1>3, <3>1, <3>2, AddDigitIs
    <3>3. CASE n > k
      <4>1. g[n - 1] = NotOk
        BY <1>2, <2>2, <3>3
      <4> QED BY <3>1, <4>1, AddDigitIs
    <3>4. CASE n < k
      BY <1>2, <3>4
    <3> QED BY <1>2, <3>2, <3>3, <3>4
  <2>3. \A n \in 0..N : n \in S
    <3> HIDE DEF S
    <3> QED BY <1>2, <2>1, <2>2, FoldKeeps
  <2>4. N >= k /\ N # 0
    BY <1>2, <1>3
  <2>5. g[N] = NotOk
    BY <1>2, <2>3, <2>4
  <2> QED BY <1>1, <1>2, <2>4, <2>5
<1>4. ASSUME l # <<>>, \A k \in DOMAIN l : l[k] \in DOMAIN Digit
      PROVE  /\ Number(l) \in Nat
             /\ ParseInt(l) = IF Number(l) <= MaxInt THEN Number(l) ELSE NotOk
  <2>1. l \in Seq(DOMAIN Digit)
    BY <1>4
  <2>2. PICK h : /\ h \in [0..Len(l) -> Nat] /\ h[0] = 0
                 /\ \A n \in 1..Len(l) : h[n] = h[n - 1] * 10 + Digit[l[n]]
                 /\ Number(l) = h[Len(l)]
    BY <2>1, NumberRuns
  <2> DEFINE S == {n \in 0..N : g[n] = IF h[n] <= MaxInt THEN h[n] ELSE NotOk}
  <2>3. 0 \in S
    BY <1>0, <1>1, <1>2, <2>2
  <2>4. ASSUME NEW n \in 1..N, n - 1 \in S PROVE n \in S
    <3> DEFINE d == Digit[l[n]]
    <3>1. /\ g[n - 1] \in 0..NotOk /\ g[n] = AddDigit(g[n - 1], l[n])
          /\ h[n - 1] \in Nat /\ h[n] = h[n - 1] * 10 + d
          /\ g[n - 1] = IF h[n - 1] <= MaxInt THEN h[n - 1] ELSE NotOk
      BY <1>1, <1>2, <2>2, <2>4
    <3>2. l[n] \in DOMAIN Digit /\ d \in 0..9
      BY <1>2, <1>4, DigitType
    <3>3. ASSUME h[n - 1] <= MaxInt PROVE g[n] = IF h[n] <= MaxInt THEN h[n] ELSE NotOk
      <4>1. g[n - 1] # NotOk
        BY <1>0, <3>1, <3>3
      <4>2. g[n] = IF g[n - 1] * 10 + d <= MaxInt THEN g[n - 1] * 10 + d ELSE NotOk
        BY <3>1, <3>2, <4>1, AddDigitIs
      <4> HIDE DEF d
      <4>3. g[n - 1] = h[n - 1]
        BY <3>1, <3>3
      <4> QED BY <3>1, <4>2, <4>3
    <3>4. ASSUME h[n - 1] > MaxInt PROVE g[n] = IF h[n] <= MaxInt THEN h[n] ELSE NotOk
      <4>1. g[n] = NotOk
        BY <1>0, <3>1, <3>4, AddDigitIs
      <4> HIDE DEF d
      <4>2. h[n - 1] * 10 + d > MaxInt
        BY <1>0, <3>1, <3>2, <3>4, SMTT(60)
      <4>3. h[n] > MaxInt /\ h[n] \in Nat
        BY <1>2, <2>2, <3>1, <4>2
      <4>4. ~(h[n] <= MaxInt)
        BY <1>0, <4>3
      <4> QED BY <4>1, <4>4
    <3>5. h[n - 1] <= MaxInt \/ h[n - 1] > MaxInt
      BY <1>0, <3>1
    <3> QED BY <3>3, <3>4, <3>5
  <2>5. \A n \in 0..N : n \in S
    <3> HIDE DEF S
    <3> QED BY <1>2, <2>3, <2>4, FoldKeeps
  <2> QED BY <1>1, <1>2, <1>4, <2>2, <2>5
<1>5. l = <<>> => ParseInt(l) = NotOk
  BY <1>1
<1> QED BY <1>3, <1>4, <1>5

\* parseRPCID reads an id as its value, quoted or not, whatever its length.
LEMMA ParseIDExact ==
    ASSUME NEW X, NEW l \in Seq(X)
    PROVE  ParseID(l) = IDValue(l)
<1> DEFINE quoted == Len(l) >= 2 /\ l[1] = "q" /\ l[Len(l)] = "q"
           Value(ds) == IF ds # <<>> /\ (\A i \in DOMAIN ds : ds[i] \in DOMAIN Digit) /\ Number(ds) <= MaxInt
                        THEN Number(ds) ELSE NotOk
<1>1. IDValue(l) = IF quoted THEN Value(Inside(l)) ELSE Value(l)
  BY DEF IDValue
<1>2. ASSUME NEW ds \in Seq(X) PROVE ParseInt(ds) = Value(ds)
  BY ParseIntExact, Zenon
<1>3. "q" \notin DOMAIN Digit
  BY DEF Digit
<1> HIDE DEF Value
<1>4. CASE quoted
  <2>1. Inside(l) \in Seq(X)
    BY <1>4 DEF Inside
  <2>2. ParseID(l) = ParseInt(Inside(l))
    BY <1>4 DEF ParseID, At
  <2> QED BY <1>1, <1>2, <1>4, <2>1, <2>2, Zenon
<1>5. CASE ~quoted /\ At(l, 1) = "q"
  <2>1. ParseID(l) = NotOk
    BY <1>5 DEF ParseID, At
  <2>2. 1 \in DOMAIN l /\ l[1] = "q"
    BY <1>5 DEF At
  <2>3. ParseInt(l) = NotOk
    BY <1>3, <2>2, ParseIntExact
  <2> QED BY <1>1, <1>2, <1>5, <2>1, <2>3
<1>6. CASE ~quoted /\ At(l, 1) # "q"
  <2>1. ParseID(l) = ParseInt(l)
    BY <1>6 DEF ParseID
  <2> QED BY <1>1, <1>2, <1>6, <2>1
<1> QED BY <1>4, <1>5, <1>6

(* Whatever the length of an id, parseRPCID reads it as the number it names,   *)
(* up to the largest int64, and refuses the rest: no id wraps into another's. *)
THEOREM IDsExactHolds == Spec => []IDsExact
<1>1. LineOK => IDsExact
  <2> SUFFICES ASSUME LineOK, kind = "id" PROVE ParseID(line) = IDValue(line)
    BY DEF IDsExact
  <2> QED BY ParseIDExact DEF LineOK
<1> QED BY <1>1, LineCorrect, PTL

-----------------------------------------------------------------------------
(* The codec's strings.                                                      *)

\* A run from the last of n positions down to the first, each step of which looks
\* at later positions only.
Later(T, n) == {step \in [1..n -> [[1..n -> T] -> T]] :
                    \A i \in 1..n : \A f, h \in [1..n -> T] :
                        (\A j \in (i + 1)..n : f[j] = h[j]) => step[i][f] = step[i][h]}

IsRun(g, T, n, step) == g \in [1..n -> T] /\ \A i \in 1..n : g[i] = step[i][g]

LEMMA BackwardExists ==
    ASSUME NEW T, NEW base \in T, NEW n \in Nat, NEW step \in Later(T, n)
    PROVE  \E g : IsRun(g, T, n, step)
<1> DEFINE F == [1..n -> T]
           From(m, g) == \A i \in (n - m + 1)..n : g[i] = step[i][g]
           S == {m \in Nat : m <= n => \E g \in F : From(m, g)}
<1>1. /\ \A i \in 1..n, f \in F : step[i][f] \in T
      /\ \A i \in 1..n : \A f, h \in F : (\A j \in (i + 1)..n : f[j] = h[j]) => step[i][f] = step[i][h]
  BY DEF Later
<1>2. 0 \in S
  <2>1. [i \in 1..n |-> base] \in F
    OBVIOUS
  <2>2. From(0, [i \in 1..n |-> base])
    OBVIOUS
  <2> HIDE DEF F, From
  <2> QED BY <2>1, <2>2
<1>3. ASSUME NEW m \in Nat, m \in S PROVE m + 1 \in S
  <2> SUFFICES ASSUME m + 1 <= n PROVE \E g \in F : From(m + 1, g)
    OBVIOUS
  <2>1. PICK g \in F : From(m, g)
    BY <1>3
  <2> DEFINE k == n - m
             h == [g EXCEPT ![k] = step[k][g]]
  <2>2. k \in 1..n
    OBVIOUS
  <2>3. step[k][g] \in T
    BY <1>1, <2>2
  <2> HIDE DEF k
  <2>4. h \in F /\ h[k] = step[k][g] /\ \A j \in (k + 1)..n : h[j] = g[j]
    BY <2>2, <2>3
  <2> HIDE DEF h
  <2>5. ASSUME NEW i \in k..n PROVE h[i] = step[i][h]
    <3>1. \A j \in (i + 1)..n : h[j] = g[j]
      BY <2>2, <2>4
    <3>2. i \in 1..n /\ step[i][h] = step[i][g]
      BY <1>1, <2>1, <2>2, <2>4, <3>1
    <3>3. CASE i = k
      BY <2>4, <3>2, <3>3
    <3>4. CASE i # k
      <4>1. i \in (k + 1)..n /\ i \in (n - m + 1)..n
        BY <2>2, <3>4 DEF k
      <4>2. g[i] = step[i][g]
        BY <2>1, <4>1
      <4> QED BY <2>4, <3>2, <4>1, <4>2
    <3> QED BY <3>3, <3>4
  <2>6. From(m + 1, h)
    <3>1. n - (m + 1) + 1 = k
      BY DEF k
    <3> QED BY <2>5, <3>1
  <2> HIDE DEF From, F
  <2> QED BY <2>4, <2>6
<1>4. n \in S
  <2> HIDE DEF S
  <2> QED BY <1>2, <1>3, Induction
<1>5. PICK g \in F : From(n, g)
  BY <1>4
<1> QED BY <1>5 DEF IsRun

\* What a unit of a string is, where it stands.
Reads(l, a, u) == a + Len(u) <= Len(l) /\ SubSeq(l, a, a + Len(u) - 1) = u
Hex == [k \in 1..HexDigits |-> "h"]

LEMMA SingleUnit ==
    ASSUME NEW X, NEW l \in Seq(X), NEW a \in 1..Len(l), NEW x
    PROVE  Reads(l, a, <<x>>) <=> a + 1 <= Len(l) /\ l[a] = x
<1>1. Len(<<x>>) = 1 /\ a + 1 - 1 = a
  OBVIOUS
<1>2. SubSeq(l, a, a) = <<l[a]>>
  <2> DEFINE s == SubSeq(l, a, a)
  <2>1. s \in Seq(X) /\ Len(s) = 1 /\ s[1] = l[a]
    <3>1. s \in Seq(X) /\ Len(s) = 1 /\ \A i \in 1..1 : s[i] = l[a + i - 1]
      OBVIOUS
    <3>2. s[1] = l[a + 1 - 1] /\ a + 1 - 1 = a
      BY <3>1
    <3> QED BY <3>1, <3>2
  <2> HIDE DEF s
  <2>2. s = <<l[a]>>
    BY <2>1
  <2> QED BY <2>2 DEF s
<1> QED BY <1>1, <1>2 DEF Reads

LEMMA PairUnit ==
    ASSUME NEW X, NEW l \in Seq(X), NEW a \in 1..Len(l), NEW y, NEW x
    PROVE  Reads(l, a, <<y, x>>) <=> a + 2 <= Len(l) /\ l[a] = y /\ l[a + 1] = x
<1>1. Len(<<y, x>>) = 2 /\ a + 2 - 1 = a + 1
  OBVIOUS
<1>2. ASSUME a + 2 <= Len(l) PROVE SubSeq(l, a, a + 1) = <<l[a], l[a + 1]>>
  <2> DEFINE s == SubSeq(l, a, a + 1)
  <2>1. s \in Seq(X) /\ Len(s) = 2 /\ s[1] = l[a] /\ s[2] = l[a + 1]
    <3>1. s \in Seq(X) /\ Len(s) = 2 /\ \A i \in 1..2 : s[i] = l[a + i - 1]
      <4> DEFINE b == a + 1
      <4>1. b \in 1..Len(l) /\ a <= b /\ b - a + 1 = 2
        BY <1>2
      <4> HIDE DEF b
      <4>2. /\ SubSeq(l, a, b) \in Seq(X) /\ Len(SubSeq(l, a, b)) = b - a + 1
            /\ \A i \in 1..(b - a + 1) : SubSeq(l, a, b)[i] = l[a + i - 1]
        BY <4>1
      <4> QED BY <4>1, <4>2 DEF b
    <3>2. s[1] = l[a + 1 - 1] /\ a + 1 - 1 = a /\ s[2] = l[a + 2 - 1] /\ a + 2 - 1 = a + 1
      BY <3>1
    <3> QED BY <3>1, <3>2
  <2> HIDE DEF s
  <2>2. s = <<l[a], l[a + 1]>>
    BY <2>1
  <2> QED BY <2>2 DEF s
<1> QED BY <1>1, <1>2 DEF Reads

LEMMA HexUnit ==
    ASSUME NEW X, NEW l \in Seq(X), NEW a \in 1..Len(l), NEW y, NEW x
    PROVE  Reads(l, a, <<y, x>> \o Hex) <=>
               /\ a + 2 + HexDigits <= Len(l) /\ l[a] = y /\ l[a + 1] = x
               /\ \A j \in (a + 2)..(a + 1 + HexDigits) : l[j] = "h"
<1> USE CodecAssumption
<1> DEFINE u == <<y, x>> \o Hex
<1>1. Hex \in Seq({"h"}) /\ Len(Hex) = HexDigits /\ \A k \in 1..HexDigits : Hex[k] = "h"
  BY DEF Hex
<1>2. /\ u \in Seq({"h", x, y}) /\ Len(u) = 2 + HexDigits /\ u[1] = y /\ u[2] = x
      /\ \A k \in 3..(2 + HexDigits) : u[k] = "h"
  BY <1>1
<1> HIDE DEF u
<1>3. ASSUME a + 2 + HexDigits <= Len(l)
      PROVE  /\ SubSeq(l, a, a + Len(u) - 1) \in Seq(X)
             /\ Len(SubSeq(l, a, a + Len(u) - 1)) = 2 + HexDigits
             /\ \A k \in 1..(2 + HexDigits) : SubSeq(l, a, a + Len(u) - 1)[k] = l[a + k - 1]
  BY <1>2, <1>3
<1>4. ASSUME a + 2 + HexDigits <= Len(l), l[a] = y, l[a + 1] = x,
             \A j \in (a + 2)..(a + 1 + HexDigits) : l[j] = "h"
      PROVE  SubSeq(l, a, a + Len(u) - 1) = u
  <2>1. ASSUME NEW k \in 1..(2 + HexDigits) PROVE l[a + k - 1] = u[k]
    <3>1. CASE k = 1
      BY <1>2, <1>4, <3>1
    <3>2. CASE k = 2
      <4>1. a + k - 1 = a + 1
        BY <3>2
      <4> QED BY <1>2, <1>4, <3>2, <4>1
    <3>3. CASE k >= 3
      <4>1. a + k - 1 \in (a + 2)..(a + 1 + HexDigits)
        BY <3>3
      <4> QED BY <1>2, <1>4, <3>3, <4>1
    <3> QED BY <3>1, <3>2, <3>3
  <2> QED BY <1>2, <1>3, <1>4, <2>1
<1>5. ASSUME a + 2 + HexDigits <= Len(l), SubSeq(l, a, a + Len(u) - 1) = u
      PROVE  l[a] = y /\ l[a + 1] = x /\ \A j \in (a + 2)..(a + 1 + HexDigits) : l[j] = "h"
  <2>1. \A k \in 1..(2 + HexDigits) : u[k] = l[a + k - 1]
    BY <1>3, <1>5
  <2>2. l[a] = y
    <3>1. 1 \in 1..(2 + HexDigits) /\ a + 1 - 1 = a
      OBVIOUS
    <3> QED BY <1>2, <2>1, <3>1
  <2>3. l[a + 1] = x
    <3>1. 2 \in 1..(2 + HexDigits) /\ a + 2 - 1 = a + 1
      OBVIOUS
    <3> QED BY <1>2, <2>1, <3>1
  <2>4. ASSUME NEW j \in (a + 2)..(a + 1 + HexDigits) PROVE l[j] = "h"
    <3>1. PICK k \in 3..(2 + HexDigits) : k = j - a + 1
      OBVIOUS
    <3>2. k \in 1..(2 + HexDigits) /\ a + k - 1 = j
      BY <3>1
    <3> QED BY <1>2, <2>1, <3>1, <3>2
  <2> QED BY <2>2, <2>3, <2>4
<1>6. a + Len(u) <= Len(l) <=> a + 2 + HexDigits <= Len(l)
  BY <1>2
<1> QED BY <1>4, <1>5, <1>6 DEF Reads, u

\* What scanJSONString does at a position, when f is what it does later.
Scanned(l, f, i) ==
    CASE i > Len(l) -> 0
      [] i <= Len(l) /\ l[i] = "q" -> i + 1
      [] i <= Len(l) /\ l[i] = "c" -> 0
      [] i <= Len(l) /\ l[i] = "b" ->
          (CASE At(l, i + 1) \in {"q", "b", "e", "/"} -> f[i + 2]
             [] At(l, i + 1) = "u" ->
                  IF i + 1 + HexDigits < Len(l) + 1
                     /\ \A j \in (i + 2)..(i + 1 + HexDigits) : At(l, j) = "h"
                  THEN f[i + 2 + HexDigits] ELSE 0
             [] OTHER -> 0)
      [] OTHER -> f[i + 1]

\* The four digits of an escape, as the scanner looks at them.
HexAt(l, i) == /\ i + 1 + HexDigits < Len(l) + 1
               /\ \A j \in (i + 2)..(i + 1 + HexDigits) : At(l, j) = "h"

LEMMA ScannedIs ==
    ASSUME NEW l, NEW f, NEW i \in Nat, Len(l) \in Nat
    PROVE  /\ i > Len(l) => Scanned(l, f, i) = 0
           /\ i <= Len(l) /\ l[i] = "q" => Scanned(l, f, i) = i + 1
           /\ i <= Len(l) /\ l[i] = "c" => Scanned(l, f, i) = 0
           /\ i <= Len(l) /\ l[i] = "b" /\ At(l, i + 1) \in {"q", "b", "e", "/"} =>
                  Scanned(l, f, i) = f[i + 2]
           /\ i <= Len(l) /\ l[i] = "b" /\ At(l, i + 1) = "u" /\ HexAt(l, i) =>
                  Scanned(l, f, i) = f[i + 2 + HexDigits]
           /\ i <= Len(l) /\ l[i] = "b" /\ At(l, i + 1) = "u" /\ ~HexAt(l, i) =>
                  Scanned(l, f, i) = 0
           /\ i <= Len(l) /\ l[i] = "b" /\ At(l, i + 1) \notin {"q", "b", "e", "/", "u"} =>
                  Scanned(l, f, i) = 0
           /\ i <= Len(l) /\ l[i] \notin {"q", "c", "b"} => Scanned(l, f, i) = f[i + 1]
<1> DEFINE arm == CASE At(l, i + 1) \in {"q", "b", "e", "/"} -> f[i + 2]
                    [] At(l, i + 1) = "u" -> IF HexAt(l, i) THEN f[i + 2 + HexDigits] ELSE 0
                    [] OTHER -> 0
<1>1. Scanned(l, f, i) =
        CASE i > Len(l) -> 0
          [] i <= Len(l) /\ l[i] = "q" -> i + 1
          [] i <= Len(l) /\ l[i] = "c" -> 0
          [] i <= Len(l) /\ l[i] = "b" -> arm
          [] OTHER -> f[i + 1]
  BY Zenon DEF Scanned, HexAt
<1>2. /\ At(l, i + 1) \in {"q", "b", "e", "/"} => arm = f[i + 2]
      /\ At(l, i + 1) = "u" /\ HexAt(l, i) => arm = f[i + 2 + HexDigits]
      /\ At(l, i + 1) = "u" /\ ~HexAt(l, i) => arm = 0
      /\ At(l, i + 1) \notin {"q", "b", "e", "/", "u"} => arm = 0
  OBVIOUS
<1> HIDE DEF arm
<1>3. /\ i > Len(l) => Scanned(l, f, i) = 0
      /\ i <= Len(l) /\ l[i] = "q" => Scanned(l, f, i) = i + 1
      /\ i <= Len(l) /\ l[i] = "c" => Scanned(l, f, i) = 0
      /\ i <= Len(l) /\ l[i] = "b" => Scanned(l, f, i) = arm
      /\ i <= Len(l) /\ l[i] \notin {"q", "c", "b"} => Scanned(l, f, i) = f[i + 1]
  BY <1>1
<1> QED BY <1>2, <1>3

\* scanJSONString is a run back from the end of the line.
LEMMA ScanStringRuns ==
    ASSUME NEW X, NEW l \in Seq(X)
    PROVE  \E g : /\ \A i \in 1..(Len(l) + HexDigits + 3) : g[i] = Scanned(l, g, i)
                  /\ ScanString(l) = IF At(l, 1) = "q" THEN g[2] ELSE 0
<1> USE CodecAssumption
<1> DEFINE n == Len(l) + HexDigits + 3
           scan == CHOOSE g : g = [i \in 1..n |-> Scanned(l, g, i)]
           step == [i \in 1..n |-> [f \in [1..n -> Nat] |-> Scanned(l, f, i)]]
<1>1. n \in Nat /\ Len(l) \in Nat /\ Len(l) + HexDigits + 3 = n /\ 0 \in Nat
  OBVIOUS
<1> HIDE DEF n
<1>2. ASSUME NEW i \in 1..n, i <= Len(l)
      PROVE  /\ i + 1 \in (i + 1)..n /\ i + 2 \in (i + 1)..n /\ i + 2 + HexDigits \in (i + 1)..n
             /\ i + 1 \in 1..n /\ i + 2 \in 1..n /\ i + 2 + HexDigits \in 1..n /\ i \in Nat
  BY <1>1, <1>2
<1>3. ASSUME NEW i \in 1..n, NEW f \in [1..n -> Nat] PROVE Scanned(l, f, i) \in Nat
  <2>1. CASE i > Len(l)
    BY <1>1, <2>1, ScannedIs
  <2>2. CASE i <= Len(l)
    <3>0. i + 1 \in 1..n /\ i + 2 \in 1..n /\ i + 2 + HexDigits \in 1..n
      BY <1>2, <2>2
    <3>1. /\ f[i + 1] \in Nat /\ f[i + 2] \in Nat /\ f[i + 2 + HexDigits] \in Nat
          /\ i + 1 \in Nat /\ 0 \in Nat /\ i \in Nat
      BY <3>0
    <3>2. /\ l[i] = "q" => Scanned(l, f, i) \in Nat
          /\ l[i] = "c" => Scanned(l, f, i) \in Nat
          /\ l[i] \notin {"q", "c", "b"} => Scanned(l, f, i) \in Nat
      BY <1>1, <2>2, <3>1, ScannedIs
    <3>3. /\ l[i] = "b" /\ At(l, i + 1) \in {"q", "b", "e", "/"} => Scanned(l, f, i) \in Nat
          /\ l[i] = "b" /\ At(l, i + 1) = "u" /\ HexAt(l, i) => Scanned(l, f, i) \in Nat
          /\ l[i] = "b" /\ At(l, i + 1) = "u" /\ ~HexAt(l, i) => Scanned(l, f, i) \in Nat
          /\ l[i] = "b" /\ At(l, i + 1) \notin {"q", "b", "e", "/", "u"} => Scanned(l, f, i) \in Nat
      BY <1>1, <2>2, <3>1, ScannedIs, SMTT(60)
    <3> QED BY <3>2, <3>3
  <2> QED BY <1>1, <2>1, <2>2
<1>4. ASSUME NEW i \in 1..n, NEW f \in [1..n -> Nat], NEW h \in [1..n -> Nat],
             \A j \in (i + 1)..n : f[j] = h[j]
      PROVE  Scanned(l, f, i) = Scanned(l, h, i)
  <2>1. CASE i > Len(l)
    BY <1>1, <2>1, ScannedIs
  <2>2. CASE i <= Len(l)
    <3>1. /\ f[i + 1] = h[i + 1] /\ f[i + 2] = h[i + 2] /\ f[i + 2 + HexDigits] = h[i + 2 + HexDigits]
          /\ i \in Nat
      BY <1>2, <1>4, <2>2
    <3> QED BY <2>2, <3>1, Zenon DEF Scanned
  <2> QED BY <1>1, <2>1, <2>2
<1>5. PICK g : IsRun(g, Nat, n, step)
  <2>1. step \in Later(Nat, n)
    BY <1>3, <1>4 DEF Later
  <2> HIDE DEF step
  <2> QED BY <1>1, <2>1, BackwardExists, Zenon
<1>6. g = [i \in 1..n |-> Scanned(l, g, i)]
  <2>1. \A i \in 1..n : g[i] = Scanned(l, g, i)
    BY <1>5 DEF IsRun
  <2> QED BY <1>5, <2>1 DEF IsRun
<1>7. scan = [i \in 1..n |-> Scanned(l, scan, i)]
  BY <1>6
<1>8. ScanString(l) = IF At(l, 1) = "q" THEN scan[2] ELSE 0
  BY Zenon DEF ScanString, Scanned, n
<1> HIDE DEF scan
<1>9. \A i \in 1..n : scan[i] = Scanned(l, scan, i)
  BY <1>7
<1> QED BY <1>1, <1>8, <1>9

-----------------------------------------------------------------------------
\* Where a string may go on.
UnitAt(l, f, a) ==
    a = Len(l) \/ \E u \in Units : Reads(l, a, u) /\ f[a + Len(u)]
LEMMA UnitAtIs ==
    ASSUME NEW X, NEW l \in Seq(X), NEW f, NEW a \in 1..Len(l)
    PROVE  UnitAt(l, f, a) <=>
             \/ a = Len(l)
             \/ a + 1 <= Len(l) /\ l[a] \in {"u", "h", "e", "/", "p"} /\ f[a + 1]
             \/ a + 2 <= Len(l) /\ l[a] = "b" /\ l[a + 1] \in {"q", "b", "e", "/"} /\ f[a + 2]
             \/ /\ a + 2 + HexDigits <= Len(l) /\ l[a] = "b" /\ l[a + 1] = "u"
                /\ \A j \in (a + 2)..(a + 1 + HexDigits) : l[j] = "h"
                /\ f[a + 2 + HexDigits]
<1> USE CodecAssumption
<1> DEFINE Does(u) == Reads(l, a, u) /\ f[a + Len(u)]
           hex == <<"b", "u">> \o Hex
<1>1. Units = {<<x>> : x \in {"u", "h", "e", "/", "p"}} \cup {<<"b", x>> : x \in {"q", "b", "e", "/"}} \cup {hex}
  BY Zenon DEF Units, Hex
<1>2. UnitAt(l, f, a) <=>
        \/ a = Len(l)
        \/ \E x \in {"u", "h", "e", "/", "p"} : Does(<<x>>)
        \/ \E x \in {"q", "b", "e", "/"} : Does(<<"b", x>>)
        \/ Does(hex)
  <2> HIDE DEF hex
  <2> DEFINE U1 == {<<x>> : x \in {"u", "h", "e", "/", "p"}}
             U2 == {<<"b", x>> : x \in {"q", "b", "e", "/"}}
  <2>1. UnitAt(l, f, a) <=> a = Len(l) \/ (\E u \in U1 : Does(u)) \/ (\E u \in U2 : Does(u)) \/ Does(hex)
    <3> HIDE DEF U1, U2, Does
    <3>1. UnitAt(l, f, a) <=> a = Len(l) \/ \E u \in U1 \cup U2 \cup {hex} : Does(u)
      BY <1>1, Zenon DEF UnitAt, Does, U1, U2
    <3> QED BY <3>1
  <2> HIDE DEF Does
  <2>2. (\E u \in U1 : Does(u)) <=> \E x \in {"u", "h", "e", "/", "p"} : Does(<<x>>)
    BY Zenon
  <2>3. (\E u \in U2 : Does(u)) <=> \E x \in {"q", "b", "e", "/"} : Does(<<"b", x>>)
    BY Zenon
  <2> HIDE DEF U1, U2
  <2> QED BY <2>1, <2>2, <2>3, Zenon
<1>3. ASSUME NEW x PROVE Does(<<x>>) <=> a + 1 <= Len(l) /\ l[a] = x /\ f[a + 1]
  <2>1. Len(<<x>>) = 1
    OBVIOUS
  <2> QED BY <2>1, SingleUnit, Zenon
<1>4. ASSUME NEW x PROVE Does(<<"b", x>>) <=> a + 2 <= Len(l) /\ l[a] = "b" /\ l[a + 1] = x /\ f[a + 2]
  <2>1. f[a + Len(<<"b", x>>)] = f[a + 2]
    OBVIOUS
  <2>2. Reads(l, a, <<"b", x>>) <=> a + 2 <= Len(l) /\ l[a] = "b" /\ l[a + 1] = x
    BY PairUnit
  <2> QED BY <2>1, <2>2, Zenon
<1>5. Does(hex) <=> /\ a + 2 + HexDigits <= Len(l) /\ l[a] = "b" /\ l[a + 1] = "u"
                    /\ \A j \in (a + 2)..(a + 1 + HexDigits) : l[j] = "h"
                    /\ f[a + 2 + HexDigits]
  <2>1. Len(hex) = 2 + HexDigits /\ a + (2 + HexDigits) = a + 2 + HexDigits
    <3>1. Hex \in Seq({"h"}) /\ Len(Hex) = HexDigits
      BY DEF Hex
    <3> QED BY <3>1
  <2>2. f[a + Len(hex)] = f[a + 2 + HexDigits]
    BY <2>1, Zenon
  <2> QED BY <2>2, HexUnit, Zenon
<1> HIDE DEF Does, hex
<1>6. (\E x \in {"u", "h", "e", "/", "p"} : Does(<<x>>)) <=>
        a + 1 <= Len(l) /\ l[a] \in {"u", "h", "e", "/", "p"} /\ f[a + 1]
  BY <1>3, Zenon
<1>7. (\E x \in {"q", "b", "e", "/"} : Does(<<"b", x>>)) <=>
        a + 2 <= Len(l) /\ l[a] = "b" /\ l[a + 1] \in {"q", "b", "e", "/"} /\ f[a + 2]
  BY <1>4, Zenon
<1> QED BY <1>2, <1>5, <1>6, <1>7, Zenon

\* No unit is empty.
LEMMA UnitLength ==
    \A u \in Units : Len(u) \in Nat /\ Len(u) >= 1
<1>1. Hex \in Seq({"h"})
  BY CodecAssumption DEF Hex
<1>2. Len(<<"b", "u">> \o Hex) \in Nat /\ Len(<<"b", "u">> \o Hex) >= 1
  BY <1>1
<1>3. ASSUME NEW x PROVE Len(<<x>>) = 1 /\ Len(<<"b", x>>) = 2
  OBVIOUS
<1>4. \A u \in {<<x>> : x \in {"u", "h", "e", "/", "p"}} : Len(u) \in Nat /\ Len(u) >= 1
  BY <1>3
<1>5. \A u \in {<<"b", x>> : x \in {"q", "b", "e", "/"}} : Len(u) \in Nat /\ Len(u) >= 1
  BY <1>3
<1> QED BY <1>2, <1>4, <1>5, Zenon DEF Units, Hex

\* The reference is a run back from the end, too.
LEMMA BodyRuns ==
    ASSUME NEW X, NEW l \in Seq(X)
    PROVE  \E f : /\ \A a \in 1..(Len(l) + 1) : f[a] <=> UnitAt(l, f, a)
                  /\ IsString(l) <=> Len(l) >= 2 /\ l[1] = "q" /\ l[Len(l)] = "q" /\ f[2]
<1> DEFINE N == Len(l)
           n == N + 1
           body == CHOOSE f : f = [a \in 1..n |-> UnitAt(l, f, a)]
           step == [a \in 1..n |-> [f \in [1..n -> BOOLEAN] |-> UnitAt(l, f, a)]]
<1>1. N \in Nat /\ n \in Nat /\ n = N + 1 /\ TRUE \in BOOLEAN
  OBVIOUS
<1>2. ASSUME NEW a, NEW f PROVE UnitAt(l, f, a) \in BOOLEAN
  BY DEF UnitAt
<1> HIDE DEF n
<1>3. ASSUME NEW a \in 1..n, NEW f \in [1..n -> BOOLEAN], NEW h \in [1..n -> BOOLEAN],
             \A j \in (a + 1)..n : f[j] = h[j]
      PROVE  UnitAt(l, f, a) = UnitAt(l, h, a)
  <2>1. ASSUME NEW u \in Units, Reads(l, a, u) PROVE f[a + Len(u)] = h[a + Len(u)]
    <3>1. a + Len(u) \in (a + 1)..n
      BY <1>1, <2>1, UnitLength DEF Reads
    <3> QED BY <1>3, <3>1
  <2>2. UnitAt(l, f, a) <=> UnitAt(l, h, a)
    BY <2>1, Zenon DEF UnitAt
  <2> QED BY <1>2, <2>2
<1>4. PICK g : IsRun(g, BOOLEAN, n, step)
  <2>1. step \in Later(BOOLEAN, n)
    BY <1>2, <1>3 DEF Later
  <2> HIDE DEF step
  <2> QED BY <1>1, <2>1, BackwardExists, Zenon
<1>5. g = [a \in 1..n |-> UnitAt(l, g, a)]
  <2>1. \A a \in 1..n : g[a] = UnitAt(l, g, a)
    BY <1>4 DEF IsRun
  <2> QED BY <1>4, <2>1 DEF IsRun
<1>6. body = [a \in 1..n |-> UnitAt(l, body, a)]
  BY <1>5
<1>7. IsString(l) <=> N >= 2 /\ l[1] = "q" /\ l[N] = "q" /\ body[2]
  BY Zenon DEF IsString, UnitAt, Reads, n
<1> HIDE DEF body
<1>8. \A a \in 1..n : body[a] = UnitAt(l, body, a)
  BY <1>6
<1>9. \A a \in 1..n : body[a] <=> UnitAt(l, body, a)
  BY <1>8, Zenon
<1> QED BY <1>1, <1>7, <1>9, Zenon

\* scanJSONString takes a text to its end exactly when the text is a string.
LEMMA StringsExact ==
    ASSUME NEW l \in Seq({"q", "b", "u", "h", "e", "/", "c", "p"})
    PROVE  ScanString(l) = Len(l) + 1 <=> IsString(l)
<1> USE CodecAssumption
<1> DEFINE N == Len(l)
           Letters == {"q", "b", "u", "h", "e", "/", "c", "p"}
<1>1. PICK g : /\ \A i \in 1..(N + HexDigits + 3) : g[i] = Scanned(l, g, i)
               /\ ScanString(l) = IF At(l, 1) = "q" THEN g[2] ELSE 0
  BY ScanStringRuns, Zenon
<1>2. PICK f : /\ \A a \in 1..(N + 1) : f[a] <=> UnitAt(l, f, a)
               /\ IsString(l) <=> N >= 2 /\ l[1] = "q" /\ l[N] = "q" /\ f[2]
  BY BodyRuns, Zenon
<1>3. N \in Nat /\ N = Len(l) /\ DOMAIN l = 1..N
  OBVIOUS
<1> DEFINE Same(i) == (g[i] = N + 1) <=> (l[N] = "q" /\ f[i])
<1>4. g[N + 1] = 0 /\ ~f[N + 1] /\ Same(N + 1)
  <2> HIDE DEF N
  <2>1. g[N + 1] = 0
    <3>1. N + 1 \in 1..(N + HexDigits + 3) /\ N + 1 > Len(l) /\ N + 1 \in Nat
      BY <1>3
    <3> QED BY <1>1, <1>3, <3>1, ScannedIs
  <2>2. ~f[N + 1]
    <3>1. N + 1 \in 1..(N + 1) /\ N + 1 # N
      BY <1>3
    <3>2. ASSUME NEW u \in Units PROVE ~Reads(l, N + 1, u)
      BY <1>3, UnitLength DEF Reads
    <3> QED BY <1>2, <1>3, <3>1, <3>2, Zenon DEF UnitAt
  <2>3. 0 # N + 1
    BY <1>3
  <2> QED BY <2>1, <2>2, <2>3
<1>5. ASSUME NEW i \in 1..N, \A j \in (i + 1)..(N + 1) : Same(j) PROVE Same(i)
  <2> HIDE DEF N
  <2>1. /\ g[i] = Scanned(l, g, i) /\ (f[i] <=> UnitAt(l, f, i)) /\ i \in Nat
        /\ i \in 1..Len(l) /\ i <= Len(l) /\ Len(l) \in Nat /\ l[i] \in Letters
    <3>1. i \in 1..(N + HexDigits + 3) /\ i \in 1..(N + 1)
      BY <1>3
    <3> QED BY <1>1, <1>2, <1>3, <3>1
  <2>2. f[i] <=>
          \/ i = N
          \/ i + 1 <= N /\ l[i] \in {"u", "h", "e", "/", "p"} /\ f[i + 1]
          \/ i + 2 <= N /\ l[i] = "b" /\ l[i + 1] \in {"q", "b", "e", "/"} /\ f[i + 2]
          \/ /\ i + 2 + HexDigits <= N /\ l[i] = "b" /\ l[i + 1] = "u"
             /\ \A j \in (i + 2)..(i + 1 + HexDigits) : l[j] = "h"
             /\ f[i + 2 + HexDigits]
    BY <1>3, <2>1, UnitAtIs
  <2>3. CASE l[i] = "q"
    <3>1. g[i] = i + 1
      BY <2>1, <2>3, ScannedIs
    <3>2. f[i] <=> (i = N)
      BY <2>2, <2>3
    <3> QED BY <1>3, <2>3, <3>1, <3>2
  <2>4. CASE l[i] = "c"
    <3>1. g[i] = 0
      BY <2>1, <2>4, ScannedIs
    <3>2. f[i] <=> (i = N)
      BY <2>2, <2>4
    <3> QED BY <1>3, <2>4, <3>1, <3>2
  <2>5. CASE l[i] \in {"u", "h", "e", "/", "p"}
    <3>1. g[i] = g[i + 1]
      BY <2>1, <2>5, ScannedIs
    <3>2. f[i] <=> (i = N \/ (i + 1 <= N /\ f[i + 1]))
      BY <2>2, <2>5
    <3>3. Same(i + 1)
      BY <1>3, <1>5
    <3> QED BY <1>3, <1>4, <2>5, <3>1, <3>2, <3>3
  <2>6. CASE l[i] = "b"
    <3>0. i + 1 <= N => i + 1 \in DOMAIN l
      BY <1>3
    <3>1. CASE At(l, i + 1) \in {"q", "b", "e", "/"}
      <4>1. i + 1 <= N /\ l[i + 1] \in {"q", "b", "e", "/"}
        BY <1>3, <3>1 DEF At
      <4>2. g[i] = g[i + 2]
        BY <2>1, <2>6, <3>1, ScannedIs
      <4>3. f[i] <=> (i = N \/ (i + 2 <= N /\ f[i + 2]))
        BY <2>2, <2>6, <4>1
      <4>4. Same(i + 2)
        BY <1>3, <1>5, <4>1
      <4> QED BY <1>3, <1>4, <2>6, <4>1, <4>2, <4>3, <4>4
    <3>2. CASE At(l, i + 1) = "u"
      <4>1. i + 1 <= N /\ l[i + 1] = "u"
        BY <1>3, <3>2 DEF At
      <4>2. CASE HexAt(l, i)
        <5>1. i + 2 + HexDigits <= N + 1
          BY <1>3, <4>2 DEF HexAt
        <5>2. ASSUME NEW j \in (i + 2)..(i + 1 + HexDigits) PROVE l[j] = "h"
          <6>1. At(l, j) = "h"
            BY <4>2 DEF HexAt
          <6> QED BY <6>1 DEF At
        <5>3. g[i] = g[i + 2 + HexDigits]
          BY <2>1, <2>6, <3>2, <4>2, ScannedIs
        <5>4. f[i] <=> (i = N \/ (i + 2 + HexDigits <= N /\ f[i + 2 + HexDigits]))
          BY <2>2, <2>6, <4>1, <5>2
        <5>5. Same(i + 2 + HexDigits)
          BY <1>3, <1>5, <5>1
        <5> QED BY <1>3, <1>4, <2>6, <4>1, <5>1, <5>3, <5>4, <5>5
      <4>3. CASE ~HexAt(l, i)
        <5>1. g[i] = 0
          BY <2>1, <2>6, <3>2, <4>3, ScannedIs
        <5>2. ~(/\ i + 2 + HexDigits <= N
                /\ \A j \in (i + 2)..(i + 1 + HexDigits) : l[j] = "h")
          BY <1>3, <4>3 DEF HexAt, At
        <5>3. f[i] <=> (i = N)
          BY <2>2, <2>6, <4>1, <5>2
        <5> QED BY <1>3, <2>6, <5>1, <5>3
      <4> QED BY <4>2, <4>3
    <3>3. CASE At(l, i + 1) \notin {"q", "b", "e", "/", "u"}
      <4>1. g[i] = 0
        BY <2>1, <2>6, <3>3, ScannedIs
      <4>2. i + 1 <= N => l[i + 1] \notin {"q", "b", "e", "/", "u"}
        BY <3>0, <3>3 DEF At
      <4>3. f[i] <=> (i = N)
        BY <1>3, <2>2, <2>6, <4>2
      <4> QED BY <1>3, <2>6, <4>1, <4>3
    <3> QED BY <3>1, <3>2, <3>3
  <2> QED BY <2>1, <2>3, <2>4, <2>5, <2>6
<1>6. \A i \in 1..(N + 1) : Same(i)
  <2> DEFINE S == {m \in 0..N : \A i \in (N + 1 - m)..(N + 1) : Same(i)}
  <2> HIDE DEF Same
  <2>1. 0 \in S
    BY <1>3, <1>4
  <2>2. ASSUME NEW m \in 1..N, m - 1 \in S PROVE m \in S
    <3> DEFINE i == N + 1 - m
    <3>1. i \in 1..N /\ N + 1 - (m - 1) = i + 1
      BY <1>3
    <3>2. \A j \in (i + 1)..(N + 1) : Same(j)
      BY <2>2, <3>1
    <3>3. Same(i)
      BY <1>5, <3>1, <3>2
    <3>4. \A j \in i..(N + 1) : j = i \/ j \in (i + 1)..(N + 1)
      BY <3>1
    <3>5. \A j \in i..(N + 1) : Same(j)
      BY <3>2, <3>3, <3>4
    <3> QED BY <3>5
  <2>3. N \in S
    <3> HIDE DEF S
    <3>1. \A m \in 0..N : m \in S
      BY <1>3, <2>1, <2>2, FoldKeeps
    <3> QED BY <1>3, <3>1
  <2>4. N + 1 - N = 1
    BY <1>3
  <2> QED BY <2>3, <2>4
<1>7. CASE N = 0
  <2>1. At(l, 1) # "q"
    BY <1>3, <1>7 DEF At
  <2> QED BY <1>1, <1>2, <1>3, <1>7, <2>1
<1>8. CASE N >= 1 /\ l[1] # "q"
  <2>1. At(l, 1) # "q"
    BY <1>3, <1>8 DEF At
  <2> QED BY <1>1, <1>2, <1>3, <2>1, <1>8
<1>9. CASE N >= 1 /\ l[1] = "q"
  <2>1. At(l, 1) = "q" /\ ScanString(l) = g[2]
    BY <1>1, <1>3, <1>9 DEF At
  <2>2. CASE N >= 2
    <3>1. Same(2)
      BY <1>3, <1>6, <2>2
    <3> QED BY <1>2, <1>9, <2>1, <2>2, <3>1
  <2>3. CASE N = 1
    <3>1. g[2] = 0
      <4>1. 2 \in 1..(N + HexDigits + 3) /\ 2 > Len(l) /\ 2 \in Nat
        BY <1>3, <2>3
      <4> QED BY <1>1, <1>3, <4>1, ScannedIs
    <3> QED BY <1>2, <1>3, <2>1, <2>3, <3>1
  <2> QED BY <1>3, <1>9, <2>2, <2>3
<1> QED BY <1>3, <1>7, <1>8, <1>9

-----------------------------------------------------------------------------
(* The codec's numbers.                                                      *)

\* A run of digits, and the first place where it ends.
AllAre(l, p, q) == \A k \in p..q : IsDigit(l[k])
EndsAt(l, i, j) == j \in i..(Len(l) + 1) /\ ~IsDigit(At(l, j)) /\ AllAre(l, i, j - 1)

LEMMA DigitsEnd ==
    ASSUME NEW X, NEW l \in Seq(X), NEW i \in 1..(Len(l) + 1)
    PROVE  /\ EndsAt(l, i, DigitsFrom(l, i))
           /\ \A j : EndsAt(l, i, j) => DigitsFrom(l, i) = j
<1> DEFINE N == Len(l)
<1>1. N \in Nat /\ DOMAIN l = 1..N
  OBVIOUS
<1> HIDE DEF N
<1>2. \E j : EndsAt(l, i, j)
  <2> DEFINE P == {j \in i..(N + 1) : ~IsDigit(At(l, j))}
  <2>1. N + 1 \in P
    <3>1. ~IsDigit("end")
      BY DEF IsDigit
    <3>2. At(l, N + 1) = "end"
      BY <1>1 DEF At
    <3> QED BY <1>1, <3>1, <3>2 DEF N
  <2>2. PICK j \in P : \A k \in P : j <= k
    <3>1. P \subseteq Nat /\ P # {}
      BY <1>1, <2>1
    <3> HIDE DEF P
    <3>2. PICK j \in P : \A k \in P : ~(<<k, j>> \in OpToRel(<, Nat))
      BY <3>1, WFMin, NatLessThanWellFounded, Zenon
    <3>3. ASSUME NEW k \in P PROVE j <= k
      <4>1. j \in Nat /\ k \in Nat
        BY <3>1
      <4>2. ~(k < j)
        BY <3>2, <4>1 DEF OpToRel
      <4> QED BY <4>1, <4>2
    <3> QED BY <3>3
  <2>3. ASSUME NEW k \in i..(j - 1) PROVE IsDigit(l[k])
    <3>1. k \in i..(N + 1) /\ k \notin P /\ k \in DOMAIN l
      BY <1>1, <2>2 DEF N
    <3>2. IsDigit(At(l, k))
      BY <3>1
    <3> QED BY <3>1, <3>2 DEF At
  <2> QED BY <2>2, <2>3 DEF EndsAt, AllAre, N
<1>3. DigitsFrom(l, i) = CHOOSE j \in i..(Len(l) + 1) : ~IsDigit(At(l, j)) /\ \A k \in i..(j - 1) : IsDigit(l[k])
  BY DEF DigitsFrom
<1>4. EndsAt(l, i, DigitsFrom(l, i))
  BY <1>2, <1>3, Zenon DEF EndsAt, AllAre
<1>5. ASSUME NEW j, EndsAt(l, i, j), NEW h, EndsAt(l, i, h) PROVE ~(j < h)
  <2> SUFFICES ASSUME j < h PROVE FALSE
    OBVIOUS
  <2>1. j \in Nat /\ h \in Nat /\ j \in i..(h - 1) /\ j \in 1..N
    BY <1>1, <1>5 DEF EndsAt, N
  <2>2. IsDigit(l[j]) /\ At(l, j) = l[j]
    BY <1>1, <1>5, <2>1 DEF EndsAt, AllAre, At
  <2> QED BY <1>5, <2>2 DEF EndsAt
<1>6. ASSUME NEW j, EndsAt(l, i, j) PROVE DigitsFrom(l, i) = j
  <2>1. j \in Nat /\ DigitsFrom(l, i) \in Nat
    BY <1>1, <1>4, <1>6 DEF EndsAt, N
  <2>2. ~(j < DigitsFrom(l, i)) /\ ~(DigitsFrom(l, i) < j)
    BY <1>4, <1>5, <1>6
  <2> QED BY <2>1, <2>2
<1> QED BY <1>4, <1>6

LEMMA PartOf ==
    ASSUME NEW X, NEW l \in Seq(X), NEW p \in 1..(Len(l) + 2), NEW q \in 0..Len(l)
    PROVE  /\ SubSeq(l, p, q) \in Seq(X)
           /\ Len(SubSeq(l, p, q)) = IF p <= q THEN q - p + 1 ELSE 0
           /\ \A i \in 1..(q - p + 1) : SubSeq(l, p, q)[i] = l[p + i - 1]
OBVIOUS

LEMMA AllDigitsPart ==
    ASSUME NEW X, NEW l \in Seq(X), NEW p \in 1..(Len(l) + 2), NEW q \in 0..Len(l)
    PROVE  AllDigits(SubSeq(l, p, q)) <=> p <= q /\ AllAre(l, p, q)
<1> DEFINE s == SubSeq(l, p, q)
<1>1. /\ s \in Seq(X) /\ Len(s) = IF p <= q THEN q - p + 1 ELSE 0
      /\ \A i \in 1..(q - p + 1) : s[i] = l[p + i - 1]
  BY PartOf
<1> HIDE DEF s
<1>2. DOMAIN s = 1..Len(s) /\ (s = <<>> <=> Len(s) = 0)
  BY <1>1
<1>3. ASSUME p <= q, AllAre(l, p, q) PROVE AllDigits(s)
  <2>1. ASSUME NEW i \in DOMAIN s PROVE IsDigit(s[i])
    <3>1. i \in 1..(q - p + 1) /\ p + i - 1 \in p..q
      BY <1>1, <1>2, <1>3
    <3>2. s[i] = l[p + i - 1] /\ IsDigit(l[p + i - 1])
      BY <1>1, <1>3, <3>1 DEF AllAre
    <3> QED BY <3>2
  <2>2. s # <<>>
    BY <1>1, <1>2, <1>3
  <2> QED BY <2>1, <2>2 DEF AllDigits
<1>4. ASSUME AllDigits(s) PROVE p <= q /\ AllAre(l, p, q)
  <2>1. s # <<>> /\ \A i \in DOMAIN s : IsDigit(s[i])
    BY <1>4 DEF AllDigits
  <2>2. p <= q
    BY <1>1, <1>2, <2>1
  <2>3. ASSUME NEW k \in p..q PROVE IsDigit(l[k])
    <3>1. PICK i \in 1..(q - p + 1) : k = p + i - 1
      <4>1. k - p + 1 \in 1..(q - p + 1) /\ k = p + (k - p + 1) - 1
        OBVIOUS
      <4> QED BY <4>1
    <3>2. i \in DOMAIN s /\ s[i] = l[k]
      BY <1>1, <1>2, <2>2, <3>1
    <3> QED BY <2>1, <3>2
  <2> QED BY <2>2, <2>3 DEF AllAre
<1> QED BY <1>3, <1>4 DEF s

\* The int of the grammar, where it stands.
IntPart(l, a, b) ==
    \/ b = a + 1 /\ l[a + 1] = "0"
    \/ b >= a + 1 /\ l[a + 1] = "d" /\ AllAre(l, a + 1, b)
LEMMA IsIntPart ==
    ASSUME NEW X, NEW l \in Seq(X), NEW a \in 0..1, NEW b \in 0..Len(l)
    PROVE  IsInt(SubSeq(l, a + 1, b)) <=> IntPart(l, a, b)
<1> DEFINE s == SubSeq(l, a + 1, b)
<1>0. a + 1 \in 1..(Len(l) + 2)
  OBVIOUS
<1>1. /\ s \in Seq(X) /\ Len(s) = (IF a + 1 <= b THEN b - (a + 1) + 1 ELSE 0)
      /\ \A i \in 1..(b - (a + 1) + 1) : s[i] = l[a + 1 + i - 1]
  BY <1>0, PartOf
<1>2. AllDigits(s) <=> a + 1 <= b /\ AllAre(l, a + 1, b)
  BY <1>0, AllDigitsPart
<1> HIDE DEF s
<1>3. ASSUME a + 1 <= b PROVE s[1] = l[a + 1]
  <2>1. 1 \in 1..(b - (a + 1) + 1) /\ a + 1 + 1 - 1 = a + 1
    BY <1>3
  <2> QED BY <1>1, <2>1
<1>4. s = <<"0">> <=> b = a + 1 /\ l[a + 1] = "0"
  <2>1. ASSUME b = a + 1, l[a + 1] = "0" PROVE s = <<"0">>
    <3>1. s \in Seq(X) /\ Len(s) = 1 /\ s[1] = "0"
      BY <1>1, <1>3, <2>1
    <3> QED BY <3>1
  <2>2. ASSUME s = <<"0">> PROVE b = a + 1 /\ l[a + 1] = "0"
    <3>1. Len(s) = 1 /\ s[1] = "0"
      BY <2>2
    <3>2. a + 1 <= b
      <4>1. ~(a + 1 <= b) => Len(s) = 0
        BY <1>1, Zenon
      <4> QED BY <3>1, <4>1
    <3>3. b - (a + 1) + 1 = 1
      BY <1>1, <3>1, <3>2
    <3>4. b = a + 1
      BY <3>3
    <3> QED BY <1>3, <3>1, <3>2, <3>4
  <2> QED BY <2>1, <2>2
<1>5. AllDigits(s) /\ s[1] = "d" <=> b >= a + 1 /\ l[a + 1] = "d" /\ AllAre(l, a + 1, b)
  BY <1>2, <1>3
<1>6. IsInt(s) <=> s = <<"0">> \/ (AllDigits(s) /\ s[1] = "d")
  BY Zenon DEF IsInt
<1>7. IsInt(s) <=> IntPart(l, a, b)
  BY <1>4, <1>5, <1>6, Zenon DEF IntPart
<1> QED BY <1>7 DEF s

\* The fraction and the exponent of the grammar, where they stand.
FractionPart(l, b, c) ==
    b = c \/ (l[b + 1] = "." /\ b + 2 <= c /\ AllAre(l, b + 2, c))
ExponentPart(l, c) ==
    \/ c = Len(l)
    \/ l[c + 1] = "e" /\ \E sign \in 2..3 :
          /\ sign = 3 => At(l, c + 2) \in {"+", "-"}
          /\ c + sign <= Len(l) /\ AllAre(l, c + sign, Len(l))
LEMMA IsNumberIs ==
    ASSUME NEW X, NEW l \in Seq(X)
    PROVE  IsNumber(l) <=>
             \E a \in 0..1, b, c \in 0..Len(l) :
                /\ a <= b /\ b <= c /\ (a = 1 => l[1] = "-")
                /\ IntPart(l, a, b) /\ FractionPart(l, b, c) /\ ExponentPart(l, c)
<1> DEFINE N == Len(l)
<1>1. N \in Nat /\ N = Len(l)
  OBVIOUS
<1>2. ASSUME NEW a \in 0..1, NEW b \in 0..N PROVE IsInt(SubSeq(l, a + 1, b)) <=> IntPart(l, a, b)
  BY IsIntPart
<1>3. ASSUME NEW b \in 0..N, NEW c \in 0..N
      PROVE  (b = c \/ (l[b + 1] = "." /\ AllDigits(SubSeq(l, b + 2, c)))) <=> FractionPart(l, b, c)
  <2>1. AllDigits(SubSeq(l, b + 2, c)) <=> b + 2 <= c /\ AllAre(l, b + 2, c)
    <3>1. b + 2 \in 1..(Len(l) + 2)
      BY <1>1
    <3> QED BY <3>1, AllDigitsPart
  <2> QED BY <2>1, Zenon DEF FractionPart
<1>4. ASSUME NEW c \in 0..N
      PROVE  (\/ c = Len(l)
              \/ l[c + 1] = "e" /\ (\E sign \in 2..3 :
                                       /\ sign = 3 => At(l, c + 2) \in {"+", "-"}
                                       /\ AllDigits(SubSeq(l, c + sign, Len(l)))))
             <=> ExponentPart(l, c)
  <2>1. CASE c = Len(l)
    BY <2>1, Zenon DEF ExponentPart
  <2>2. CASE c # Len(l)
    <3>1. ASSUME NEW sign \in 2..3
          PROVE  AllDigits(SubSeq(l, c + sign, Len(l))) <=> c + sign <= Len(l) /\ AllAre(l, c + sign, Len(l))
      <4>1. c + sign \in 1..(Len(l) + 2) /\ Len(l) \in 0..Len(l)
        BY <1>1, <2>2
      <4> QED BY <4>1, AllDigitsPart
    <3> QED BY <2>2, <3>1, Zenon DEF ExponentPart
  <2> QED BY <2>1, <2>2
<1>5. IsNumber(l) <=>
        \E a \in 0..1, b, c \in 0..N :
            /\ a <= b /\ b <= c /\ (a = 1 => l[1] = "-")
            /\ IsInt(SubSeq(l, a + 1, b))
            /\ (b = c \/ (l[b + 1] = "." /\ AllDigits(SubSeq(l, b + 2, c))))
            /\ (\/ c = Len(l)
                \/ l[c + 1] = "e" /\ (\E sign \in 2..3 :
                                         /\ sign = 3 => At(l, c + 2) \in {"+", "-"}
                                         /\ AllDigits(SubSeq(l, c + sign, Len(l)))))
  BY Zenon DEF IsNumber
<1> HIDE DEF N
<1>6. ASSUME NEW a \in 0..1, NEW b \in 0..N, NEW c \in 0..N
      PROVE  (/\ IsInt(SubSeq(l, a + 1, b))
              /\ (b = c \/ (l[b + 1] = "." /\ AllDigits(SubSeq(l, b + 2, c))))
              /\ (\/ c = Len(l)
                  \/ l[c + 1] = "e" /\ (\E sign \in 2..3 :
                                         /\ sign = 3 => At(l, c + 2) \in {"+", "-"}
                                         /\ AllDigits(SubSeq(l, c + sign, Len(l))))))
             <=> IntPart(l, a, b) /\ FractionPart(l, b, c) /\ ExponentPart(l, c)
  BY <1>2, <1>3, <1>4, Zenon
<1> DEFINE P(a, b, c) ==
             /\ a <= b /\ b <= c /\ (a = 1 => l[1] = "-")
             /\ IsInt(SubSeq(l, a + 1, b))
             /\ (b = c \/ (l[b + 1] = "." /\ AllDigits(SubSeq(l, b + 2, c))))
             /\ (\/ c = Len(l)
                 \/ l[c + 1] = "e" /\ (\E sign \in 2..3 :
                                          /\ sign = 3 => At(l, c + 2) \in {"+", "-"}
                                          /\ AllDigits(SubSeq(l, c + sign, Len(l)))))
           Q(a, b, c) == /\ a <= b /\ b <= c /\ (a = 1 => l[1] = "-")
                         /\ IntPart(l, a, b) /\ FractionPart(l, b, c) /\ ExponentPart(l, c)
<1>7. ASSUME NEW a \in 0..1, NEW b \in 0..N, NEW c \in 0..N PROVE P(a, b, c) <=> Q(a, b, c)
  BY <1>6, Zenon
<1>8. IsNumber(l) <=> \E a \in 0..1, b, c \in 0..N : P(a, b, c)
  BY <1>5, Zenon
<1>9. (\E a \in 0..1, b, c \in 0..N : P(a, b, c)) <=> (\E a \in 0..1, b, c \in 0..N : Q(a, b, c))
  <2> HIDE DEF P, Q
  <2> QED BY <1>7, Zenon
<1> QED BY <1>8, <1>9, Zenon DEF N

\* isValidJSONNumber takes exactly the numbers.
LEMMA NumbersExact ==
    ASSUME NEW X, NEW l \in Seq(X)
    PROVE  ScanNumber(l) <=> IsNumber(l)
<1> DEFINE N == Len(l)
           i0 == IF At(l, 1) = "-" THEN 2 ELSE 1
           i == IntegerEnd(l)
           j == FractionEnd(l, i)
           m(k) == IF At(l, k + 1) \in {"+", "-"} THEN k + 2 ELSE k + 1
<1>1. N \in Nat /\ N = Len(l) /\ DOMAIN l = 1..N
  OBVIOUS
<1> HIDE DEF N
<1>2. \A k \in Nat : At(l, k) # "end" => (k \in 1..N /\ At(l, k) = l[k])
  BY <1>1 DEF At
<1>3. \A k \in 1..N : At(l, k) = l[k]
  BY <1>1 DEF At
<1>4. \A x : IsDigit(x) <=> (x = "0" \/ x = "d")
  BY DEF IsDigit
<1>5. /\ At(l, i0) = "0" => i = i0 + 1
      /\ At(l, i0) = "d" => i = DigitsFrom(l, i0)
      /\ At(l, i0) \notin {"0", "d"} => i = 0
  BY DEF IntegerEnd
<1>6. ASSUME NEW k
      PROVE  /\ At(l, k) # "." => FractionEnd(l, k) = k
             /\ At(l, k) = "." /\ IsDigit(At(l, k + 1)) => FractionEnd(l, k) = DigitsFrom(l, k + 1)
             /\ At(l, k) = "." /\ ~IsDigit(At(l, k + 1)) => FractionEnd(l, k) = 0
  BY DEF FractionEnd
<1>7. ASSUME NEW k
      PROVE  /\ At(l, k) # "e" => ExponentEnd(l, k) = k
             /\ At(l, k) = "e" /\ IsDigit(At(l, m(k))) => ExponentEnd(l, k) = DigitsFrom(l, m(k))
             /\ At(l, k) = "e" /\ ~IsDigit(At(l, m(k))) => ExponentEnd(l, k) = 0
  BY DEF ExponentEnd
<1>8. ScanNumber(l) <=> i # 0 /\ j # 0 /\ ExponentEnd(l, j) = N + 1
  <2>1. ScanNumber(l) <=> LET h == IF i = 0 THEN 0 ELSE j IN h # 0 /\ ExponentEnd(l, h) = N + 1
    BY <1>1, Zenon DEF ScanNumber
  <2> HIDE DEF i, j
  <2> QED BY <2>1
<1> HIDE DEF i, j
<1>9. ASSUME NEW p \in Nat, IsDigit(At(l, p)), p >= 1
      PROVE  /\ p \in 1..N /\ EndsAt(l, p, DigitsFrom(l, p)) /\ DigitsFrom(l, p) \in (p + 1)..(N + 1)
             /\ AllAre(l, p, DigitsFrom(l, p) - 1)
             /\ \A q : EndsAt(l, p, q) => DigitsFrom(l, p) = q
  <2>1. At(l, p) # "end"
    BY <1>4, <1>9
  <2>2. p \in 1..N /\ p \in 1..(Len(l) + 1)
    BY <1>1, <1>2, <1>9, <2>1
  <2>3. EndsAt(l, p, DigitsFrom(l, p)) /\ \A q : EndsAt(l, p, q) => DigitsFrom(l, p) = q
    BY <2>2, DigitsEnd
  <2>4. DigitsFrom(l, p) # p
    BY <1>9, <2>3 DEF EndsAt
  <2> QED BY <1>1, <2>2, <2>3, <2>4 DEF EndsAt
<1>10. ASSUME ScanNumber(l)
       PROVE  \E a \in 0..1, b, c \in 0..N :
                /\ a <= b /\ b <= c /\ (a = 1 => l[1] = "-")
                /\ IntPart(l, a, b) /\ FractionPart(l, b, c) /\ ExponentPart(l, c)
  <2> DEFINE a == i0 - 1
             b == i - 1
             c == j - 1
  <2>1. /\ a \in 0..1 /\ i0 = a + 1 /\ i0 \in Nat /\ i0 >= 1
        /\ (a = 1 => l[1] = "-")
    BY <1>2
  <2> HIDE DEF i0, a
  <2>2. b \in 0..N /\ a <= b /\ IntPart(l, a, b) /\ i = b + 1 /\ i \in Nat /\ i >= 1
    <3>1. CASE At(l, i0) = "0"
      <4>1. i0 \in 1..N /\ l[i0] = "0" /\ i = i0 + 1
        BY <1>2, <1>5, <2>1, <3>1
      <4> QED BY <1>1, <2>1, <4>1 DEF IntPart
    <3>2. CASE At(l, i0) = "d"
      <4>1. IsDigit(At(l, i0)) /\ i = DigitsFrom(l, i0)
        BY <1>4, <1>5, <3>2
      <4>2. i0 \in 1..N /\ l[i0] = "d" /\ i \in (i0 + 1)..(N + 1) /\ AllAre(l, i0, i - 1)
        BY <1>2, <1>9, <2>1, <3>2, <4>1
      <4> QED BY <1>1, <2>1, <4>2 DEF IntPart
    <3> QED BY <1>5, <1>8, <1>10, <3>1, <3>2
  <2> HIDE DEF b
  <2>3. c \in 0..N /\ b <= c /\ FractionPart(l, b, c) /\ j = c + 1 /\ j \in Nat /\ j >= 1
    <3>1. CASE At(l, i) # "."
      <4>1. j = i
        BY <1>6, <3>1 DEF j
      <4> QED BY <1>1, <2>2, <4>1 DEF FractionPart
    <3>2. CASE At(l, i) = "." /\ IsDigit(At(l, i + 1))
      <4>1. j = DigitsFrom(l, i + 1) /\ i + 1 \in Nat /\ i + 1 >= 1
        BY <1>6, <2>2, <3>2 DEF j
      <4>2. j \in (i + 2)..(N + 1) /\ AllAre(l, i + 1, j - 1)
        BY <1>9, <2>2, <3>2, <4>1
      <4>3. l[i] = "." /\ i + 1 = b + 2 /\ i = b + 1
        BY <1>2, <2>2, <3>2
      <4> QED BY <1>1, <2>2, <4>2, <4>3 DEF FractionPart
    <3> QED BY <1>6, <1>8, <1>10, <3>1, <3>2 DEF j
  <2> HIDE DEF c
  <2>4. ExponentPart(l, c)
    <3>1. CASE At(l, j) # "e"
      <4>1. j = N + 1
        BY <1>7, <1>8, <1>10, <3>1
      <4> QED BY <1>1, <2>3, <4>1 DEF ExponentPart
    <3>2. CASE At(l, j) = "e" /\ IsDigit(At(l, m(j)))
      <4>1. m(j) \in Nat /\ m(j) >= 1 /\ (m(j) = c + 2 \/ (m(j) = c + 3 /\ At(l, c + 2) \in {"+", "-"}))
        BY <2>3
      <4> HIDE DEF m
      <4>2. DigitsFrom(l, m(j)) = N + 1
        BY <1>7, <1>8, <1>10, <3>2
      <4>3. m(j) \in 1..N /\ AllAre(l, m(j), N + 1 - 1)
        <5>1. /\ m(j) \in 1..N
              /\ AllAre(l, m(j), DigitsFrom(l, m(j)) - 1)
          BY <1>9, <3>2, <4>1, Zenon
        <5>2. DigitsFrom(l, m(j)) - 1 = N + 1 - 1
          BY <1>1, <4>2
        <5> QED BY <5>1, <5>2, Zenon
      <4>4. N + 1 - 1 = N
        BY <1>1
      <4>5. l[c + 1] = "e"
        BY <1>2, <2>3, <3>2
      <4>6. m(j) <= Len(l) /\ AllAre(l, m(j), Len(l))
        BY <1>1, <4>3, <4>4
      <4>7. \E sign \in 2..3 : /\ sign = 3 => At(l, c + 2) \in {"+", "-"}
                               /\ c + sign <= Len(l) /\ AllAre(l, c + sign, Len(l))
        <5>1. CASE m(j) = c + 2
          BY <4>6, <5>1
        <5>2. CASE m(j) = c + 3 /\ At(l, c + 2) \in {"+", "-"}
          BY <4>6, <5>2
        <5> QED BY <4>1, <5>1, <5>2
      <4> QED BY <4>5, <4>7, Zenon DEF ExponentPart
    <3>3. CASE At(l, j) = "e" /\ ~IsDigit(At(l, m(j)))
      BY <1>1, <1>7, <1>8, <1>10, <3>3
    <3> QED BY <3>1, <3>2, <3>3
  <2> QED BY <2>1, <2>2, <2>3, <2>4
<1>11. ASSUME NEW a \in 0..1, NEW b \in 0..N, NEW c \in 0..N,
              a <= b, b <= c, a = 1 => l[1] = "-",
              IntPart(l, a, b), FractionPart(l, b, c), ExponentPart(l, c)
       PROVE  ScanNumber(l)
  <2>1. /\ a + 1 <= b /\ a + 1 \in 1..N /\ IsDigit(l[a + 1]) /\ At(l, a + 1) = l[a + 1]
        /\ (l[a + 1] = "0" \/ l[a + 1] = "d")
    <3>1. a + 1 <= b /\ (l[a + 1] = "0" \/ l[a + 1] = "d")
      BY <1>11 DEF IntPart
    <3>2. a + 1 \in 1..N
      BY <1>1, <3>1
    <3> QED BY <1>3, <1>4, <3>1, <3>2
  <2>2. i0 = a + 1
    <3>1. CASE a = 0
      <4>1. At(l, 1) # "-"
        BY <2>1, <3>1
      <4> QED BY <3>1, <4>1
    <3>2. CASE a = 1
      <4>1. 1 \in 1..N
        BY <1>1, <2>1, <3>2
      <4>2. At(l, 1) = "-"
        BY <1>3, <1>11, <3>2, <4>1
      <4> QED BY <3>2, <4>2
    <3> QED BY <3>1, <3>2
  <2> HIDE DEF i0
  <2>3. At(l, c + 1) \notin {"0", "d", "."} /\ (At(l, c + 1) = "e" \/ c = N)
    <3>1. CASE c = N
      <4>1. At(l, c + 1) = "end"
        BY <1>1, <3>1 DEF At
      <4> QED BY <3>1, <4>1
    <3>2. CASE c # N
      <4>1. c + 1 \in 1..N /\ l[c + 1] = "e"
        BY <1>1, <1>11, <3>2 DEF ExponentPart
      <4>2. At(l, c + 1) = "e"
        BY <1>3, <4>1
      <4> QED BY <4>2
    <3> QED BY <3>1, <3>2
  <2>4. ~IsDigit(At(l, b + 1)) /\ b + 1 \in 1..(N + 1)
        /\ (b # c => (/\ At(l, b + 1) = "." /\ b + 2 <= c /\ AllAre(l, b + 2, c)))
    <3>1. CASE b = c
      BY <1>1, <1>4, <2>3, <3>1
    <3>2. CASE b # c
      <4>1. l[b + 1] = "." /\ b + 2 <= c /\ AllAre(l, b + 2, c) /\ b + 1 \in 1..N
        BY <1>1, <1>11, <3>2 DEF FractionPart
      <4>2. At(l, b + 1) = "."
        BY <1>3, <4>1
      <4> QED BY <1>1, <1>4, <4>1, <4>2
    <3> QED BY <3>1, <3>2
  <2>5. i = b + 1
    <3>1. CASE l[a + 1] = "0"
      <4>1. b = a + 1
        BY <1>11, <3>1 DEF IntPart
      <4> QED BY <1>5, <2>1, <2>2, <3>1, <4>1
    <3>2. CASE l[a + 1] = "d"
      <4>1. AllAre(l, a + 1, b) /\ b + 1 - 1 = b
        BY <1>11, <3>2 DEF IntPart
      <4>2. EndsAt(l, a + 1, b + 1)
        BY <1>1, <2>1, <2>4, <4>1 DEF EndsAt
      <4>3. DigitsFrom(l, a + 1) = b + 1
        BY <1>9, <2>1, <4>2
      <4> QED BY <1>5, <2>1, <2>2, <3>2, <4>3
    <3> QED BY <2>1, <3>1, <3>2
  <2>6. j = c + 1
    <3>1. CASE b = c
      BY <1>6, <2>3, <2>5, <3>1 DEF j
    <3>2. CASE b # c
      <4>1. /\ At(l, i) = "." /\ i + 1 = b + 2 /\ b + 2 \in 1..N /\ AllAre(l, b + 2, c)
            /\ b + 2 <= c /\ c + 1 - 1 = c /\ b + 2 \in Nat /\ b + 2 >= 1
        BY <1>1, <2>4, <2>5, <3>2
      <4>2. IsDigit(At(l, b + 2))
        BY <1>3, <4>1 DEF AllAre
      <4>3. EndsAt(l, b + 2, c + 1)
        BY <1>1, <1>4, <2>3, <4>1 DEF EndsAt
      <4>4. DigitsFrom(l, b + 2) = c + 1
        BY <1>9, <4>1, <4>2, <4>3
      <4> QED BY <1>6, <4>1, <4>2, <4>4 DEF j
    <3> QED BY <3>1, <3>2
  <2>7. ExponentEnd(l, c + 1) = N + 1
    <3>1. CASE c = N
      <4>1. At(l, c + 1) = "end"
        BY <1>1, <3>1 DEF At
      <4> QED BY <1>7, <3>1, <4>1
    <3>2. CASE c # N
      <4>1. PICK sign \in 2..3 : /\ sign = 3 => At(l, c + 2) \in {"+", "-"}
                                /\ c + sign <= N /\ AllAre(l, c + sign, N)
        BY <1>1, <1>11, <3>2 DEF ExponentPart
      <4>2. At(l, c + 1) = "e"
        BY <2>3, <3>2
      <4>3. /\ c + sign \in 1..N /\ c + sign \in Nat /\ c + sign >= 1 /\ N + 1 - 1 = N
            /\ c + 1 + 1 = c + 2 /\ c + 1 + 2 = c + 3
        BY <1>1, <4>1
      <4>4. IsDigit(At(l, c + sign))
        BY <1>1, <1>3, <4>1, <4>3 DEF AllAre
      <4>5. m(c + 1) = c + sign
        <5>1. CASE sign = 2
          <6>1. At(l, c + 2) \notin {"+", "-"}
            BY <1>4, <4>4, <5>1
          <6> QED BY <4>3, <5>1, <6>1
        <5>2. CASE sign = 3
          BY <4>1, <4>3, <5>2
        <5> QED BY <5>1, <5>2
      <4> HIDE DEF m
      <4>6. EndsAt(l, c + sign, N + 1)
        <5>1. At(l, N + 1) = "end"
          BY <1>1 DEF At
        <5>2. ~IsDigit(At(l, N + 1))
          BY <1>4, <5>1
        <5> QED BY <1>1, <4>1, <4>3, <5>2 DEF EndsAt
      <4>7. DigitsFrom(l, c + sign) = N + 1
        BY <1>9, <4>3, <4>4, <4>6
      <4> QED BY <1>7, <4>2, <4>4, <4>5, <4>7
    <3> QED BY <3>1, <3>2
  <2>8. i # 0 /\ j # 0
    BY <1>1, <2>5, <2>6
  <2> QED BY <1>8, <2>6, <2>7, <2>8
<1>12. IsNumber(l) <=>
         \E a \in 0..1, b, c \in 0..N :
            /\ a <= b /\ b <= c /\ (a = 1 => l[1] = "-")
            /\ IntPart(l, a, b) /\ FractionPart(l, b, c) /\ ExponentPart(l, c)
  BY <1>1, IsNumberIs, Zenon
<1> QED BY <1>10, <1>11, <1>12, Zenon

(* Of any length, and wherever an escape or an exponent is cut off,            *)
(* scanJSONString and isValidJSONNumber take exactly the strings and numbers  *)
(* of RFC 8259.                                                              *)
THEOREM LeavesExactHolds == Spec => []LeavesExact
<1>1. LineOK => LeavesExact
  <2>1. ASSUME LineOK, kind = "string" PROVE ScanString(line) = Len(line) + 1 <=> IsString(line)
    <3>1. line \in Seq({"q", "b", "u", "h", "e", "/", "c", "p"})
      BY <2>1 DEF LineOK, Alphabet
    <3> QED BY <3>1, StringsExact, Zenon
  <2>2. ASSUME LineOK, kind = "number" PROVE ScanNumber(line) <=> IsNumber(line)
    BY <2>2, NumbersExact DEF LineOK
  <2> QED BY <2>1, <2>2, Zenon DEF LeavesExact
<1> QED BY <1>1, LineCorrect, PTL

-----------------------------------------------------------------------------
(* What appendRPCMessage writes, and what the reader finds.                  *)

\* A line put together from pieces, and what each piece adds.
LEMMA FlattenRuns ==
    ASSUME NEW X, NEW ss \in Seq(Seq(X))
    PROVE  \E g : /\ g \in [0..Len(ss) -> Seq(X)] /\ g[0] = <<>>
                  /\ \A n \in 1..Len(ss) : g[n] = g[n - 1] \o ss[n]
                  /\ FlattenSeq(ss) = g[Len(ss)]
<1> DEFINE N == Len(ss)
           T == Seq(X)
           flatten == CHOOSE f : f = [i \in 1..N |-> IF i = 1 THEN ss[i] ELSE f[i - 1] \o ss[i]]
           step == [n \in 1..N |-> [r \in T |-> r \o ss[n]]]
<1>1. N \in Nat /\ <<>> \in T
  OBVIOUS
<1>2. ASSUME NEW r \in T, NEW n \in 1..N PROVE r \o ss[n] \in T
  <2>1. ss[n] \in Seq(X)
    OBVIOUS
  <2> QED BY <2>1
<1>3. PICK h : IsFold(h, T, <<>>, N, step)
  <2>1. step \in Steps(T, N)
    BY <1>2 DEF Steps
  <2> HIDE DEF T, N, step
  <2> QED BY <1>1, <2>1, FoldExists
<1>4. ASSUME NEW n \in 1..N
      PROVE  /\ h[n - 1] \in T /\ h[n] \in T /\ h[n] = h[n - 1] \o ss[n]
             /\ n = 1 => h[n] = ss[n]
  <2>1. h[n - 1] \in T /\ h[n] = step[n][h[n - 1]] /\ h[n] \in T /\ h[0] = <<>>
    <3> HIDE DEF T, N, step
    <3>1. n - 1 \in 0..N /\ n \in 0..N
      BY <1>1
    <3> QED BY <1>3, <3>1 DEF IsFold
  <2>2. h[n] = h[n - 1] \o ss[n]
    BY <2>1
  <2>3. ASSUME n = 1 PROVE h[n] = ss[n]
    <3>1. h[n - 1] = <<>> /\ ss[n] \in Seq(X)
      BY <2>1, <2>3
    <3>2. h[n] = <<>> \o ss[n]
      BY <2>2, <3>1
    <3> QED BY <3>1, <3>2
  <2> QED BY <2>1, <2>2, <2>3
<1> DEFINE f0 == [n \in 1..N |-> h[n]]
<1>5. f0 = [i \in 1..N |-> IF i = 1 THEN ss[i] ELSE f0[i - 1] \o ss[i]]
  <2> HIDE DEF T, N
  <2>1. ASSUME NEW i \in 1..N PROVE f0[i] = IF i = 1 THEN ss[i] ELSE f0[i - 1] \o ss[i]
    <3>1. CASE i = 1
      BY <1>4, <3>1
    <3>2. CASE i # 1
      <4>1. i - 1 \in 1..N
        BY <1>1, <3>2
      <4>2. f0[i - 1] = h[i - 1] /\ f0[i] = h[i]
        BY <4>1
      <4> HIDE DEF f0
      <4>3. f0[i] = f0[i - 1] \o ss[i]
        BY <1>4, <4>2
      <4> QED BY <3>2, <4>3, Zenon
    <3> QED BY <3>1, <3>2
  <2>2. f0 = [i \in 1..N |-> f0[i]]
    OBVIOUS
  <2> HIDE DEF f0
  <2> QED BY <2>1, <2>2, Zenon
<1>6. flatten = [i \in 1..N |-> IF i = 1 THEN ss[i] ELSE flatten[i - 1] \o ss[i]]
  <2> HIDE DEF f0, N
  <2> QED BY <1>5
<1>7. FlattenSeq(ss) = IF N = 0 THEN ss ELSE flatten[N]
  BY Zenon DEF FlattenSeq
<1> HIDE DEF flatten
<1>8. \A i \in 1..N : flatten[i] = h[i]
  <2> DEFINE S == {n \in 0..N : n = 0 \/ flatten[n] = h[n]}
  <2>1. 0 \in S
    BY <1>1
  <2>2. ASSUME NEW n \in 1..N, n - 1 \in S PROVE n \in S
    <3>0. flatten[n] = IF n = 1 THEN ss[n] ELSE flatten[n - 1] \o ss[n]
      BY <1>6
    <3>1. CASE n = 1
      <4>1. flatten[n] = ss[n] /\ h[n] = ss[n]
        BY <1>4, <3>0, <3>1, Zenon
      <4> QED BY <1>1, <4>1
    <3>2. CASE n # 1
      <4>1. flatten[n - 1] = h[n - 1]
        BY <1>1, <2>2, <3>2
      <4>2. flatten[n] = h[n]
        BY <1>4, <3>0, <3>2, <4>1
      <4> QED BY <1>1, <4>2
    <3> QED BY <3>1, <3>2
  <2>3. \A n \in 0..N : n \in S
    <3> HIDE DEF S, N
    <3> QED BY <1>1, <2>1, <2>2, FoldKeeps
  <2> QED BY <1>1, <2>3
<1>9. FlattenSeq(ss) = h[N]
  <2>1. CASE N = 0
    <3>1. ss = <<>> /\ h[0] = <<>>
      <4>1. h[0] = <<>>
        BY <1>3, Zenon DEF IsFold
      <4> QED BY <2>1, <4>1
    <3> QED BY <1>7, <2>1, <3>1
  <2>2. CASE N # 0
    <3>1. N \in 1..N
      BY <1>1, <2>2
    <3> QED BY <1>7, <1>8, <2>2, <3>1
  <2> QED BY <2>1, <2>2
<1>10. h \in [0..N -> T] /\ h[0] = <<>>
  BY <1>3, Zenon DEF IsFold
<1> QED BY <1>4, <1>9, <1>10

\* The members of a message: each field that is there, under its name, once or
\* more.
Names5 == {"id", "method", "params", "result", "error"}
Tells(members, msg, keys, n) ==
    /\ \A i \in DOMAIN members : members[i].val = msg[members[i].key]
    /\ \A k \in Names5 : (\E i \in DOMAIN members : members[i].key = k)
                            <=> (\E j \in 1..n : keys[j] = k) /\ msg[k] # <<>>

LEMMA InOrderTells ==
    ASSUME NEW msg, NEW keys \in Seq(Names5)
    PROVE  /\ Tells(InOrder(msg, keys), msg, keys, Len(keys))
           /\ \E M : InOrder(msg, keys) \in Seq(M)
<1> DEFINE V == {msg[k] : k \in Names5}
           M == [key : Names5, val : V]
           N == Len(keys)
           ss == [i \in DOMAIN keys |-> Field(keys[i], msg[keys[i]])]
<1>1. N \in Nat /\ DOMAIN keys = 1..N /\ \A i \in 1..N : keys[i] \in Names5
  OBVIOUS
<1>2. ASSUME NEW k \in Names5
      PROVE  /\ Field(k, msg[k]) \in Seq(M)
             /\ msg[k] = <<>> => Field(k, msg[k]) = <<>>
             /\ msg[k] # <<>> => Field(k, msg[k]) = <<[key |-> k, val |-> msg[k]]>>
  <2> DEFINE e == [key |-> k, val |-> msg[k]]
  <2>1. e \in M
    OBVIOUS
  <2> HIDE DEF M, e
  <2>2. <<e>> \in Seq(M) /\ <<>> \in Seq(M)
    BY <2>1
  <2>3. Field(k, msg[k]) = IF msg[k] = <<>> THEN <<>> ELSE <<e>>
    BY Zenon DEF Field, e
  <2> QED BY <2>2, <2>3, Zenon DEF e
<1> HIDE DEF M
<1>3. ss \in Seq(Seq(M)) /\ Len(ss) = N /\ \A n \in 1..N : ss[n] = Field(keys[n], msg[keys[n]])
  <2>1. \A n \in 1..N : Field(keys[n], msg[keys[n]]) \in Seq(M)
    BY <1>1, <1>2
  <2> QED BY <1>1, <2>1
<1>4. InOrder(msg, keys) = FlattenSeq(ss)
  BY DEF InOrder
<1> HIDE DEF ss, N
<1>5. PICK g : /\ g \in [0..N -> Seq(M)] /\ g[0] = <<>>
               /\ \A n \in 1..N : g[n] = g[n - 1] \o ss[n]
               /\ FlattenSeq(ss) = g[N]
  BY <1>3, FlattenRuns
<1> DEFINE S == {n \in 0..N : Tells(g[n], msg, keys, n)}
<1>6. 0 \in S
  <2>1. DOMAIN g[0] = {} /\ 1..0 = {}
    BY <1>5
  <2>2. Tells(g[0], msg, keys, 0)
    BY <2>1 DEF Tells
  <2> QED BY <1>1, <2>2
<1>7. ASSUME NEW n \in 1..N, n - 1 \in S PROVE n \in S
  <2> DEFINE k == keys[n]
             old == g[n - 1]
             now == g[n]
  <2>1. /\ old \in Seq(M) /\ now = old \o ss[n] /\ k \in Names5 /\ Tells(old, msg, keys, n - 1)
        /\ ss[n] = Field(k, msg[k])
    BY <1>1, <1>3, <1>5, <1>7
  <2>2. \A x : (\E j \in 1..n : keys[j] = x) <=> (\E j \in 1..(n - 1) : keys[j] = x) \/ x = k
    <3>1. \A j \in 1..n : j \in 1..(n - 1) \/ j = n
      BY <1>1
    <3>2. \A j \in 1..(n - 1) : j \in 1..n
      BY <1>1
    <3>3. n \in 1..n
      BY <1>1
    <3> QED BY <3>1, <3>2, <3>3, Zenon
  <2> HIDE DEF k, old, now
  <2>3. CASE msg[k] = <<>>
    <3>1. now = old
      <4>1. ss[n] = <<>>
        BY <1>2, <2>1, <2>3
      <4> QED BY <2>1, <4>1
    <3>2. Tells(now, msg, keys, n)
      BY <2>1, <2>2, <2>3, <3>1, Zenon DEF Tells
    <3> QED BY <1>1, <3>2 DEF now
  <2>4. CASE msg[k] # <<>>
    <3> DEFINE e == [key |-> k, val |-> msg[k]]
    <3>1. e.key = k /\ e.val = msg[k] /\ e \in M
      BY <2>1 DEF M
    <3>2. now = old \o <<e>>
      BY <1>2, <2>1, <2>4
    <3> HIDE DEF e
    <3>3. /\ DOMAIN now = DOMAIN old \cup {Len(old) + 1}
          /\ \A i \in DOMAIN old : now[i] = old[i]
          /\ now[Len(old) + 1] = e
      BY <2>1, <3>1, <3>2
    <3>4. \A i \in DOMAIN now : now[i].val = msg[now[i].key]
      <4>1. \A i \in DOMAIN old : old[i].val = msg[old[i].key]
        BY <2>1 DEF Tells
      <4> QED BY <3>1, <3>3, <4>1, Zenon
    <3>5. ASSUME NEW x \in Names5
          PROVE  (\E i \in DOMAIN now : now[i].key = x)
                 <=> (\E j \in 1..n : keys[j] = x) /\ msg[x] # <<>>
      <4>1. (\E i \in DOMAIN now : now[i].key = x) <=> (\E i \in DOMAIN old : old[i].key = x) \/ x = k
        BY <3>1, <3>3, Zenon
      <4>2. (\E i \in DOMAIN old : old[i].key = x) <=> (\E j \in 1..(n - 1) : keys[j] = x) /\ msg[x] # <<>>
        BY <2>1, Zenon DEF Tells
      <4> QED BY <2>2, <2>4, <4>1, <4>2, Zenon
    <3>6. Tells(now, msg, keys, n)
      BY <3>4, <3>5, Zenon DEF Tells
    <3> QED BY <1>1, <3>6 DEF now
  <2> QED BY <2>3, <2>4
<1>8. \A n \in 0..N : n \in S
  <2> HIDE DEF S
  <2> QED BY <1>1, <1>6, <1>7, FoldKeeps
<1>9. N \in 0..N /\ N = Len(keys)
  BY <1>1 DEF N
<1>10. Tells(g[N], msg, keys, N) /\ g[N] \in Seq(M)
  BY <1>5, <1>8, <1>9
<1> QED BY <1>4, <1>5, <1>9, <1>10

\* So the reader finds every field that was written.
LEMMA InOrderRead ==
    ASSUME NEW msg, NEW keys \in Seq(Names5), NEW k \in Names5,
           (\A j \in DOMAIN keys : keys[j] # k) => msg[k] = <<>>
    PROVE  Read(InOrder(msg, keys))[k] = msg[k]
<1> DEFINE ms == InOrder(msg, keys)
           is == {i \in DOMAIN ms : ms[i].key = k}
<1>1. Tells(ms, msg, keys, Len(keys)) /\ \E M : ms \in Seq(M)
  BY InOrderTells
<1>2. Len(keys) \in Nat /\ DOMAIN keys = 1..Len(keys)
  OBVIOUS
<1>3. Read(ms)[k] = IF is = {} THEN <<>> ELSE ms[CHOOSE i \in is : \A j \in is : j <= i].val
  BY Zenon DEF Read, Names5
<1> HIDE DEF ms
<1>4. CASE is = {}
  <2>1. ~\E i \in DOMAIN ms : ms[i].key = k
    BY <1>4
  <2>2. ~(\E j \in 1..Len(keys) : keys[j] = k) \/ msg[k] = <<>>
    BY <1>1, <2>1, Zenon DEF Tells
  <2>3. msg[k] = <<>>
    BY <1>2, <2>2
  <2> QED BY <1>3, <1>4, <2>3 DEF ms
<1>5. CASE is # {}
  <2>1. Len(ms) \in Nat /\ is \subseteq 1..Len(ms)
    BY <1>1
  <2>2. PICK i \in is : \A j \in is : j <= i
    <3> HIDE DEF is
    <3> QED BY <1>5, <2>1, LastPosition
  <2>3. (CHOOSE h \in is : \A j \in is : j <= h) \in is
    BY <2>2
  <2> DEFINE last == CHOOSE h \in is : \A j \in is : j <= h
  <2>4. last \in DOMAIN ms /\ ms[last].key = k
    BY <2>3
  <2>5. Read(ms)[k] = ms[last].val
    BY <1>3, <1>5
  <2> HIDE DEF last
  <2>6. ms[last].val = msg[k]
    BY <1>1, <2>4 DEF Tells
  <2> QED BY <2>5, <2>6 DEF ms
<1> QED BY <1>4, <1>5

\* What a peer sends has five fields, and no parameters without a method.
LEMMA MessageIs ==
    ASSUME NEW m, NEW msg \in Messages(m)
    PROVE  /\ msg = [k \in Names5 |-> msg[k]]
           /\ msg.method = <<>> => msg.params = <<>>
<1>1. /\ m = <<>> => Messages(m) = [id : {<<"i">>}, method : {m}, params : {<<>>}, result : {<<"r">>}, error : {<<>>}]
             \cup [id : {<<>>, <<"i">>}, method : {m}, params : {<<>>}, result : {<<>>}, error : {<<"e">>}]
      /\ m # <<>> => Messages(m) =
             [id : {<<>>, <<"i">>}, method : {m}, params : {<<>>, <<"p">>}, result : {<<>>}, error : {<<>>}]
  BY Zenon DEF Messages
<1>2. \E A, B, C, D, E : /\ msg \in [id : A, method : B, params : C, result : D, error : E]
                         /\ m = <<>> => C = {<<>>}
                         /\ B = {m}
  BY <1>1, Zenon
<1>3. PICK A, B, C, D, E : /\ msg \in [id : A, method : B, params : C, result : D, error : E]
                           /\ m = <<>> => C = {<<>>}
                           /\ B = {m}
  BY <1>2, Zenon
<1>4. msg = [id |-> msg.id, method |-> msg.method, params |-> msg.params, result |-> msg.result, error |-> msg.error]
  BY <1>3
<1>5. msg.method = m /\ (m = <<>> => msg.params = <<>>)
  BY <1>3
<1>6. msg = [k \in Names5 |-> msg[k]]
  BY <1>4 DEF Names5
<1> QED BY <1>5, <1>6

\* A key of a list is found in it.
LEMMA ListedKeys ==
    /\ <<"id", "method", "params">> \in Seq(Names5)
    /\ \A k \in Names5 : (\A j \in DOMAIN <<"id", "method", "params">> : <<"id", "method", "params">>[j] # k)
                          => k \in {"result", "error"}
    /\ <<"id", "result">> \in Seq(Names5)
    /\ \A k \in Names5 : (\A j \in DOMAIN <<"id", "result">> : <<"id", "result">>[j] # k)
                          => k \in {"method", "params", "error"}
    /\ <<"id", "method", "params", "result", "error">> \in Seq(Names5)
    /\ \A k \in Names5 : ~(\A j \in DOMAIN <<"id", "method", "params", "result", "error">> :
                               <<"id", "method", "params", "result", "error">>[j] # k)
<1>1. <<"id", "method", "params">> \in Seq(Names5)
  BY DEF Names5
<1>2. <<"id", "result">> \in Seq(Names5)
  BY DEF Names5
<1>3. <<"id", "method", "params", "result", "error">> \in Seq(Names5)
  BY DEF Names5
<1>4. ASSUME NEW k \in Names5,
             \A j \in DOMAIN <<"id", "method", "params">> : <<"id", "method", "params">>[j] # k
      PROVE  k \in {"result", "error"}
  <2> DEFINE q == <<"id", "method", "params">>
  <2>1. 1 \in DOMAIN q /\ 2 \in DOMAIN q /\ 3 \in DOMAIN q /\ q[1] = "id" /\ q[2] = "method" /\ q[3] = "params"
    OBVIOUS
  <2> HIDE DEF q
  <2>2. k # "id" /\ k # "method" /\ k # "params"
    BY <1>4, <2>1 DEF q
  <2> QED BY <2>2 DEF Names5
<1>5. ASSUME NEW k \in Names5, \A j \in DOMAIN <<"id", "result">> : <<"id", "result">>[j] # k
      PROVE  k \in {"method", "params", "error"}
  <2> DEFINE q == <<"id", "result">>
  <2>1. 1 \in DOMAIN q /\ 2 \in DOMAIN q /\ q[1] = "id" /\ q[2] = "result"
    OBVIOUS
  <2> HIDE DEF q
  <2>2. k # "id" /\ k # "result"
    BY <1>5, <2>1 DEF q
  <2> QED BY <2>2 DEF Names5
<1>6. ASSUME NEW k \in Names5,
             \A j \in DOMAIN <<"id", "method", "params", "result", "error">> :
                 <<"id", "method", "params", "result", "error">>[j] # k
      PROVE  FALSE
  <2> DEFINE q == <<"id", "method", "params", "result", "error">>
  <2>1. /\ 1 \in DOMAIN q /\ 2 \in DOMAIN q /\ 3 \in DOMAIN q /\ 4 \in DOMAIN q /\ 5 \in DOMAIN q
        /\ q[1] = "id" /\ q[2] = "method" /\ q[3] = "params" /\ q[4] = "result" /\ q[5] = "error"
    OBVIOUS
  <2> HIDE DEF q
  <2>2. k # "id" /\ k # "method" /\ k # "params" /\ k # "result" /\ k # "error"
    BY <1>6, <2>1 DEF q
  <2> QED BY <2>2 DEF Names5
<1> QED BY <1>1, <1>2, <1>3, <1>4, <1>5, <1>6, Zenon

\* appendRPCMessage loses nothing, whichever of its shapes it takes.
LEMMA WriteRead ==
    ASSUME NEW m, NEW msg \in Messages(m)
    PROVE  Read(AppendMessage(msg)) = msg
<1> DEFINE call == <<"id", "method", "params">>
           answer == <<"id", "result">>
           full == <<"id", "method", "params", "result", "error">>
           isCall == Direct(msg) /\ msg.method # <<>> /\ msg.params # <<>>
           isAnswer == msg.error = <<>> /\ msg.id # <<>> /\ msg.method = <<>> /\ msg.result # <<>>
           Misses(q, k) == \A j \in DOMAIN q : q[j] # k
<1>1. /\ call \in Seq(Names5) /\ answer \in Seq(Names5) /\ full \in Seq(Names5)
      /\ \A k \in Names5 : Misses(call, k) => k = "result" \/ k = "error"
      /\ \A k \in Names5 : Misses(answer, k) => k = "method" \/ k = "params" \/ k = "error"
      /\ \A k \in Names5 : ~Misses(full, k)
  BY ListedKeys
<1>2. isCall => ~isAnswer
  BY DEF Direct
<1>3. AppendMessage(msg) = CASE isCall -> InOrder(msg, call)
                             [] isAnswer -> InOrder(msg, answer)
                             [] OTHER -> InOrder(msg, full)
  BY Zenon DEF AppendMessage
<1>4. /\ isCall => msg.result = <<>> /\ msg.error = <<>>
      /\ isAnswer => msg.method = <<>> /\ msg.error = <<>>
  BY DEF Direct
<1> HIDE DEF call, answer, full, isCall, isAnswer, Misses
<1>5. \E q \in Seq(Names5) : /\ AppendMessage(msg) = InOrder(msg, q)
                             /\ \A k \in Names5 : Misses(q, k) => msg[k] = <<>>
  <2>1. CASE isCall
    <3>1. AppendMessage(msg) = InOrder(msg, call)
      BY <1>2, <1>3, <2>1
    <3> QED BY <1>1, <1>4, <2>1, <3>1, Zenon
  <2>2. CASE isAnswer
    <3>1. AppendMessage(msg) = InOrder(msg, answer)
      BY <1>2, <1>3, <2>2
    <3>2. msg.params = <<>>
      BY <1>4, <2>2, MessageIs
    <3> QED BY <1>1, <1>4, <2>2, <3>1, <3>2, Zenon
  <2>3. CASE ~isCall /\ ~isAnswer
    <3>1. AppendMessage(msg) = InOrder(msg, full)
      BY <1>3, <2>3
    <3> QED BY <1>1, <3>1, Zenon
  <2> QED BY <2>1, <2>2, <2>3
<1>6. PICK q \in Seq(Names5) : /\ AppendMessage(msg) = InOrder(msg, q)
                              /\ \A k \in Names5 : Misses(q, k) => msg[k] = <<>>
  BY <1>5, Zenon
<1>7. ASSUME NEW k \in Names5 PROVE Read(AppendMessage(msg))[k] = msg[k]
  <2>1. (\A j \in DOMAIN q : q[j] # k) => msg[k] = <<>>
    BY <1>6, Zenon DEF Misses
  <2>2. Read(InOrder(msg, q))[k] = msg[k]
    BY <2>1, InOrderRead
  <2> QED BY <1>6, <2>2, Zenon
<1>8. Read(AppendMessage(msg)) = [k \in Names5 |-> Read(AppendMessage(msg))[k]]
  <2>1. \A x : DOMAIN Read(x) = Names5 /\ Read(x) = [k \in Names5 |-> Read(x)[k]]
    BY DEF Read, Names5
  <2> QED BY <2>1, Zenon
<1>9. msg = [k \in Names5 |-> msg[k]]
  BY MessageIs
<1> QED BY <1>7, <1>8, <1>9, Zenon

\* Where each piece stands in the line they are put together to.
IsFlattening(X, ss, g) ==
    /\ g \in [0..Len(ss) -> Seq(X)] /\ g[0] = <<>>
    /\ \A n \in 1..Len(ss) : g[n] = g[n - 1] \o ss[n]
Stands(ss, g, n) ==
    /\ Len(g[n - 1]) \in Nat /\ Len(ss[n]) \in Nat /\ Len(g[Len(ss)]) \in Nat
    /\ Len(g[n]) = Len(g[n - 1]) + Len(ss[n]) /\ Len(g[n]) <= Len(g[Len(ss)])
    /\ \A k \in 1..Len(ss[n]) : g[Len(ss)][Len(g[n - 1]) + k] = ss[n][k]
LEMMA Pieces ==
    ASSUME NEW X, NEW ss \in Seq(Seq(X)), NEW g, IsFlattening(X, ss, g), NEW n \in 1..Len(ss)
    PROVE  Stands(ss, g, n)
<1>0. /\ g \in [0..Len(ss) -> Seq(X)] /\ g[0] = <<>>
      /\ \A m \in 1..Len(ss) : g[m] = g[m - 1] \o ss[m]
  BY Zenon DEF IsFlattening
<1> DEFINE N == Len(ss)
<1>1. N \in Nat /\ N = Len(ss)
  OBVIOUS
<1> HIDE DEF N
<1>2. ASSUME NEW m \in 1..N
      PROVE  /\ g[m - 1] \in Seq(X) /\ ss[m] \in Seq(X) /\ g[m] \in Seq(X)
             /\ g[m] = g[m - 1] \o ss[m] /\ Len(g[m]) = Len(g[m - 1]) + Len(ss[m])
             /\ Len(g[m - 1]) \in Nat /\ Len(ss[m]) \in Nat /\ Len(g[m]) \in Nat
             /\ \A i \in 1..Len(g[m - 1]) : g[m][i] = g[m - 1][i]
             /\ \A k \in 1..Len(ss[m]) : g[m][Len(g[m - 1]) + k] = ss[m][k]
  <2>1. m - 1 \in 0..N /\ m \in 0..N /\ m \in 1..Len(ss)
    BY <1>1
  <2>2. g[m - 1] \in Seq(X) /\ ss[m] \in Seq(X) /\ g[m] \in Seq(X) /\ g[m] = g[m - 1] \o ss[m]
    <3>1. g[m - 1] \in Seq(X) /\ g[m] \in Seq(X)
      BY <1>0, <1>1, <2>1
    <3>2. ss[m] \in Seq(X)
      BY <2>1
    <3>3. g[m] = g[m - 1] \o ss[m]
      BY <1>0, <2>1, Zenon
    <3> QED BY <3>1, <3>2, <3>3
  <2> DEFINE a == g[m - 1]
             b == ss[m]
             c == g[m]
  <2> HIDE DEF a, b, c
  <2>3. a \in Seq(X) /\ b \in Seq(X) /\ c \in Seq(X) /\ c = a \o b
    BY <2>2 DEF a, b, c
  <2>4. /\ Len(a) \in Nat /\ Len(b) \in Nat /\ Len(c) \in Nat /\ Len(c) = Len(a) + Len(b)
        /\ \A i \in 1..Len(a) : c[i] = a[i]
        /\ \A k \in 1..Len(b) : c[Len(a) + k] = b[k]
    BY <2>3
  <2> QED BY <2>2, <2>4 DEF a, b, c
<1> DEFINE Starts(m) == /\ Len(g[n]) <= Len(g[m])
                        /\ \A i \in 1..Len(g[n]) : g[m][i] = g[n][i]
           S == {m \in 0..N : m < n \/ Starts(m)}
<1>3. n \in 1..N /\ Len(g[n]) \in Nat
  BY <1>1, <1>2
<1>4. 0 \in S
  BY <1>1, <1>3
<1>5. ASSUME NEW m \in 1..N, m - 1 \in S PROVE m \in S
  <2>1. CASE m < n
    BY <1>1, <2>1
  <2>2. CASE m = n
    <3>1. Starts(n)
      BY <1>3
    <3> QED BY <1>1, <2>2, <3>1
  <2>3. CASE m > n
    <3>1. Starts(m - 1)
      BY <1>1, <1>3, <1>5, <2>3
    <3>2. /\ Len(g[m]) = Len(g[m - 1]) + Len(ss[m]) /\ Len(g[m - 1]) \in Nat /\ Len(ss[m]) \in Nat
          /\ \A i \in 1..Len(g[m - 1]) : g[m][i] = g[m - 1][i]
      BY <1>2
    <3> DEFINE a == Len(g[m - 1])
               b == Len(ss[m])
               c == Len(g[m])
               d == Len(g[n])
    <3>3. c = a + b /\ a \in Nat /\ b \in Nat /\ d \in Nat /\ d <= a
      BY <1>3, <3>1, <3>2
    <3>4. /\ \A i \in 1..a : g[m][i] = g[m - 1][i]
          /\ \A i \in 1..d : g[m - 1][i] = g[n][i]
      BY <3>1, <3>2
    <3>5. d <= c /\ \A i \in 1..d : g[m][i] = g[n][i]
      <4> HIDE DEF a, b, c, d
      <4> QED BY <3>3, <3>4
    <3>6. Starts(m)
      BY <3>5
    <3>7. m \in 0..N
      BY <1>1
    <3> HIDE DEF Starts
    <3> QED BY <3>6, <3>7
  <2>4. m < n \/ m = n \/ m > n
    BY <1>1, <1>3
  <2> HIDE DEF S
  <2> QED BY <2>1, <2>2, <2>3, <2>4
<1>6. \A m \in 0..N : m \in S
  <2> HIDE DEF S
  <2> QED BY <1>1, <1>4, <1>5, FoldKeeps
<1>7. Starts(N)
  <2>1. N \in S /\ ~(N < n)
    BY <1>1, <1>3, <1>6
  <2> QED BY <2>1
<1>8. N \in 1..N
  BY <1>1, <1>3
<1>9. Len(g[N]) \in Nat
  BY <1>2, <1>8
<1>10. ASSUME NEW k \in 1..Len(ss[n]) PROVE g[N][Len(g[n - 1]) + k] = ss[n][k]
  <2>0. Len(g[n]) = Len(g[n - 1]) + Len(ss[n]) /\ Len(g[n - 1]) \in Nat /\ Len(ss[n]) \in Nat
    BY <1>2, <1>3
  <2> DEFINE a == Len(g[n - 1])
             b == Len(ss[n])
             c == Len(g[n])
  <2>1. a + k \in 1..c
    <3>1. c = a + b /\ a \in Nat /\ b \in Nat /\ k \in 1..b
      BY <2>0
    <3> HIDE DEF a, b, c
    <3> QED BY <3>1
  <2>2. g[n][Len(g[n - 1]) + k] = ss[n][k]
    BY <1>2, <1>3
  <2> QED BY <1>7, <2>1, <2>2
<1> QED BY <1>1, <1>2, <1>3, <1>7, <1>9, <1>10 DEF Stands

\* How each character is written.
LEMMA EscapeIs ==
    /\ Escape("p") = <<"p">> /\ Escape("q") = <<"b", "q">> /\ Escape("e") = <<"b", "e">>
    /\ Escape("v") = <<"b", "u">> \o Hex /\ Escape("c") = <<"b", "p">> /\ Escape("w") = <<"b", "p">>
BY DEF Escape, Escape1, Hex

LEMMA EscapeType ==
    \A x \in {"p", "q", "e", "v", "c", "w"} : Escape(x) \in Seq({"q", "b", "u", "h", "e", "/", "c", "p"})
<1> DEFINE Letters == {"q", "b", "u", "h", "e", "/", "c", "p"}
<1>1. \A x, y \in Letters : <<x>> \in Seq(Letters) /\ <<x, y>> \in Seq(Letters)
  <2> HIDE DEF Letters
  <2> QED OBVIOUS
<1>2. Hex \in Seq(Letters)
  BY CodecAssumption DEF Hex
<1>3. "b" \in Letters /\ "u" \in Letters /\ "q" \in Letters /\ "e" \in Letters /\ "p" \in Letters
  OBVIOUS
<1> HIDE DEF Letters
<1>4. <<"b", "u">> \o Hex \in Seq(Letters)
  <2>1. <<"b", "u">> \in Seq(Letters)
    BY <1>1, <1>3
  <2> DEFINE u == <<"b", "u">>
  <2> HIDE DEF u
  <2>2. u \o Hex \in Seq(Letters)
    BY <1>2, <2>1 DEF u
  <2> QED BY <2>2 DEF u
<1>5. /\ Escape("p") \in Seq(Letters) /\ Escape("q") \in Seq(Letters) /\ Escape("e") \in Seq(Letters)
      /\ Escape("v") \in Seq(Letters) /\ Escape("c") \in Seq(Letters) /\ Escape("w") \in Seq(Letters)
  BY <1>1, <1>3, <1>4, EscapeIs, Zenon
<1> QED BY <1>5, Zenon DEF Letters

\* What is written at a place of the line is scanned to the next place, but for
\* a character that was written as an escape of strconv's own.
Written(l, p, x) ==
    /\ p \in Nat /\ p >= 1 /\ p + Len(Escape(x)) <= Len(l)
    /\ \A k \in 1..Len(Escape(x)) : l[p + k - 1] = Escape(x)[k]
ScansOn(l, g, p, x) ==
    /\ x \in {"c", "w"} => Scanned(l, g, p) = 0
    /\ x \notin {"c", "w"} => Scanned(l, g, p) = g[p + Len(Escape(x))]
LEMMA EscapeScans ==
    ASSUME NEW X, NEW l \in Seq(X), NEW g, NEW p, NEW x \in {"p", "q", "e", "v", "c", "w"}, Written(l, p, x)
    PROVE  ScansOn(l, g, p, x)
<1> USE CodecAssumption
<1>0. /\ p \in Nat /\ p >= 1 /\ p + Len(Escape(x)) <= Len(l)
      /\ \A k \in 1..Len(Escape(x)) : l[p + k - 1] = Escape(x)[k]
  BY Zenon DEF Written
<1> USE <1>0
<1> DEFINE N == Len(l)
<1>1. N \in Nat /\ N = Len(l) /\ DOMAIN l = 1..N
  OBVIOUS
<1> HIDE DEF N
<1>2. ASSUME NEW y, Escape(x) = <<y>>
      PROVE  p + 1 <= N /\ l[p] = y /\ Len(Escape(x)) = 1
  <2>1. Len(Escape(x)) = 1 /\ Escape(x)[1] = y
    BY <1>2
  <2>2. 1 \in 1..Len(Escape(x)) /\ p + 1 - 1 = p
    BY <2>1
  <2>3. l[p + 1 - 1] = Escape(x)[1]
    BY <2>2
  <2> QED BY <1>1, <2>1, <2>2, <2>3
<1>3. ASSUME NEW y, NEW z, Escape(x) = <<y, z>>
      PROVE  p + 2 <= N /\ l[p] = y /\ At(l, p + 1) = z /\ Len(Escape(x)) = 2
  <2>1. Len(Escape(x)) = 2 /\ Escape(x)[1] = y /\ Escape(x)[2] = z
    BY <1>3
  <2>2. 1 \in 1..Len(Escape(x)) /\ 2 \in 1..Len(Escape(x)) /\ p + 1 - 1 = p /\ p + 2 - 1 = p + 1
    BY <2>1
  <2>3. l[p + 1 - 1] = Escape(x)[1] /\ l[p + 2 - 1] = Escape(x)[2]
    BY <2>2
  <2>4. l[p] = y /\ l[p + 1] = z /\ p + 2 <= N
    BY <1>1, <2>1, <2>2, <2>3
  <2>5. p + 1 \in DOMAIN l
    BY <1>1, <2>4
  <2> QED BY <2>1, <2>4, <2>5 DEF At
<1>4. ASSUME Escape(x) = <<"b", "u">> \o Hex
      PROVE  l[p] = "b" /\ At(l, p + 1) = "u" /\ HexAt(l, p) /\ Len(Escape(x)) = 2 + HexDigits
             /\ p <= N
  <2>1. Hex \in Seq({"h"}) /\ Len(Hex) = HexDigits /\ \A k \in 1..HexDigits : Hex[k] = "h"
    BY DEF Hex
  <2> DEFINE u == <<"b", "u">> \o Hex
  <2>2. Len(u) = 2 + HexDigits /\ u[1] = "b" /\ u[2] = "u" /\ \A k \in 3..(2 + HexDigits) : u[k] = "h"
    BY <2>1
  <2> HIDE DEF u
  <2>3. \A k \in 1..(2 + HexDigits) : l[p + k - 1] = u[k]
    BY <1>4, <2>2 DEF u
  <2>4. p + (2 + HexDigits) <= N
    BY <1>1, <1>4, <2>2 DEF u
  <2>5. l[p] = "b" /\ l[p + 1] = "u"
    <3>1. 1 \in 1..(2 + HexDigits) /\ 2 \in 1..(2 + HexDigits) /\ p + 1 - 1 = p /\ p + 2 - 1 = p + 1
      OBVIOUS
    <3>2. l[p + 1 - 1] = u[1] /\ l[p + 2 - 1] = u[2]
      BY <2>3, <3>1
    <3> QED BY <2>2, <3>1, <3>2
  <2>6. At(l, p + 1) = "u"
    <3>1. p + 1 \in DOMAIN l
      BY <1>1, <2>4
    <3> QED BY <2>5, <3>1 DEF At
  <2>7. ASSUME NEW j \in (p + 2)..(p + 1 + HexDigits) PROVE At(l, j) = "h"
    <3>1. PICK k \in 3..(2 + HexDigits) : j = p + k - 1
      <4>1. j - p + 1 \in 3..(2 + HexDigits) /\ j = p + (j - p + 1) - 1
        OBVIOUS
      <4> QED BY <4>1
    <3>2. k \in 1..(2 + HexDigits) /\ j \in DOMAIN l
      BY <1>1, <2>4, <3>1
    <3>3. l[j] = "h"
      BY <2>2, <2>3, <3>1, <3>2
    <3> QED BY <3>2, <3>3 DEF At
  <2>8. HexAt(l, p)
    BY <1>1, <2>4, <2>7 DEF HexAt
  <2>9. Len(Escape(x)) = 2 + HexDigits
    BY <1>4, <2>2 DEF u
  <2> QED BY <1>1, <2>4, <2>5, <2>6, <2>8, <2>9
<1>5. CASE x = "p"
  <2>1. p + 1 <= N /\ l[p] = "p" /\ Len(Escape(x)) = 1
    BY <1>2, <1>5, EscapeIs
  <2>2. p <= Len(l) /\ Len(l) \in Nat
    BY <1>1, <2>1
  <2>3. Scanned(l, g, p) = g[p + 1]
    BY <2>1, <2>2, ScannedIs
  <2> QED BY <1>5, <2>1, <2>3 DEF ScansOn
<1>6. CASE x = "q" \/ x = "e"
  <2>1. p + 2 <= N /\ l[p] = "b" /\ At(l, p + 1) \in {"q", "e"} /\ Len(Escape(x)) = 2
    BY <1>3, <1>6, EscapeIs
  <2>2. p <= Len(l) /\ Len(l) \in Nat
    BY <1>1, <2>1
  <2>3. Scanned(l, g, p) = g[p + 2]
    BY <2>1, <2>2, ScannedIs
  <2> QED BY <1>6, <2>1, <2>3 DEF ScansOn
<1>7. CASE x = "c" \/ x = "w"
  <2>1. p + 2 <= N /\ l[p] = "b" /\ At(l, p + 1) = "p"
    BY <1>3, <1>7, EscapeIs
  <2>2. p <= Len(l) /\ Len(l) \in Nat
    BY <1>1, <2>1
  <2>3. Scanned(l, g, p) = 0
    BY <2>1, <2>2, ScannedIs
  <2> QED BY <1>7, <2>3 DEF ScansOn
<1>8. CASE x = "v"
  <2>1. /\ l[p] = "b" /\ At(l, p + 1) = "u" /\ HexAt(l, p) /\ Len(Escape(x)) = 2 + HexDigits
        /\ p <= N
    BY <1>4, <1>8, EscapeIs
  <2>2. p <= Len(l) /\ Len(l) \in Nat /\ p + (2 + HexDigits) = p + 2 + HexDigits
    BY <1>1, <2>1
  <2>3. Scanned(l, g, p) = g[p + 2 + HexDigits]
    BY <2>1, <2>2, ScannedIs
  <2> QED BY <1>8, <2>1, <2>2, <2>3 DEF ScansOn
<1> QED BY <1>5, <1>6, <1>7, <1>8 DEF ScansOn

\* Two lines, one after the other.
IsJoined(X, a, b, c) ==
    /\ c \in Seq(X) /\ Len(a) \in Nat /\ Len(b) \in Nat /\ Len(c) = Len(a) + Len(b)
    /\ \A i \in 1..Len(a) : c[i] = a[i]
    /\ \A k \in 1..Len(b) : c[Len(a) + k] = b[k]
LEMMA Joined ==
    ASSUME NEW X, NEW a \in Seq(X), NEW b \in Seq(X)
    PROVE  IsJoined(X, a, b, a \o b)
BY DEF IsJoined

\* A method is read back unless a character of it was written as an escape that
\* JSON does not have.
LEMMA ReadableIs ==
    ASSUME NEW t \in Seq({"p", "q", "e", "v", "c", "w"})
    PROVE  Readable(t) <=> \A i \in DOMAIN t : t[i] \notin {"c", "w"}
<1> USE CodecAssumption
<1> DEFINE X == {"q", "b", "u", "h", "e", "/", "c", "p"}
           N == Len(t)
           ss == [i \in DOMAIN t |-> Escape(t[i])]
           l == Quoted(t)
           L == Len(l)
<1>1. N \in Nat /\ DOMAIN t = 1..N /\ \A n \in 1..N : t[n] \in {"p", "q", "e", "v", "c", "w"}
  OBVIOUS
<1>2. ss \in Seq(Seq(X)) /\ Len(ss) = N /\ \A n \in 1..N : ss[n] = Escape(t[n])
  <2>1. \A n \in 1..N : Escape(t[n]) \in Seq(X)
    BY <1>1, EscapeType
  <2> HIDE DEF X, N
  <2> QED BY <1>1, <2>1
<1>3. Quote(t) = FlattenSeq(ss)
  BY Zenon DEF Quote
<1> HIDE DEF ss, N
<1>4. PICK g : /\ g \in [0..N -> Seq(X)] /\ g[0] = <<>>
               /\ \A n \in 1..N : g[n] = g[n - 1] \o ss[n]
               /\ FlattenSeq(ss) = g[N]
  <2> HIDE DEF X
  <2> QED BY <1>2, FlattenRuns
<1> DEFINE at(n) == 2 + Len(g[n])
<1>5. ASSUME NEW n \in 0..N PROVE g[n] \in Seq(X) /\ Len(g[n]) \in Nat
  <2> HIDE DEF X
  <2>1. g[n] \in Seq(X)
    BY <1>4
  <2> QED BY <2>1
<1>6. /\ l \in Seq(X) /\ L \in Nat /\ L = Len(g[N]) + 2 /\ l[1] = "q" /\ l[L] = "q"
      /\ \A i \in 1..Len(g[N]) : l[1 + i] = g[N][i]
  <2> DEFINE m == g[N]
             o == <<"q">>
  <2>1. m \in Seq(X) /\ o \in Seq(X) /\ Len(o) = 1 /\ o[1] = "q"
    BY <1>1, <1>5
  <2>2. l = o \o m \o o
    BY <1>3, <1>4, Zenon DEF Quoted
  <2> HIDE DEF X, m, l, o
  <2>3. o \o m \in Seq(X) /\ Len(o \o m) = 1 + Len(m) /\ (o \o m)[1] = "q"
        /\ \A i \in 1..Len(m) : (o \o m)[1 + i] = m[i]
    <3>1. IsJoined(X, o, m, o \o m)
      BY <2>1, Joined
    <3>2. 1 \in 1..Len(o)
      BY <2>1
    <3> QED BY <2>1, <3>1, <3>2 DEF IsJoined
  <2> DEFINE u == o \o m
  <2>4. u \in Seq(X) /\ Len(u) = 1 + Len(m) /\ u[1] = "q" /\ (\A i \in 1..Len(m) : u[1 + i] = m[i])
        /\ l = u \o o /\ Len(m) \in Nat
    BY <2>1, <2>2, <2>3
  <2> HIDE DEF u
  <2>5. l \in Seq(X) /\ Len(l) = Len(u) + 1 /\ (\A i \in 1..Len(u) : l[i] = u[i]) /\ l[Len(u) + 1] = o[1]
    <3>1. IsJoined(X, u, o, l)
      BY <2>1, <2>4, Joined
    <3>2. 1 \in 1..Len(o)
      BY <2>1
    <3> QED BY <2>1, <3>1, <3>2 DEF IsJoined
  <2>6. Len(l) = Len(m) + 2 /\ l[1] = "q" /\ l[Len(l)] = "q" /\ Len(l) \in Nat
    BY <2>1, <2>4, <2>5
  <2>7. \A i \in 1..Len(m) : l[1 + i] = m[i]
    BY <2>4, <2>5
  <2> QED BY <2>5, <2>6, <2>7 DEF m
<1> HIDE DEF l, X
<1>7. PICK s : /\ \A i \in 1..(L + HexDigits + 3) : s[i] = Scanned(l, s, i)
               /\ ScanString(l) = IF At(l, 1) = "q" THEN s[2] ELSE 0
  BY <1>6, ScanStringRuns, Zenon
<1>8. ASSUME NEW n \in 1..N
      PROVE  /\ at(n - 1) \in Nat /\ at(n - 1) >= 1 /\ at(n) = at(n - 1) + Len(Escape(t[n])) /\ at(n) <= L
             /\ \A k \in 1..Len(Escape(t[n])) : l[at(n - 1) + k - 1] = Escape(t[n])[k]
             /\ s[at(n - 1)] = Scanned(l, s, at(n - 1))
  <2>1. /\ Len(g[n - 1]) \in Nat /\ Len(ss[n]) \in Nat /\ Len(g[N]) \in Nat
        /\ Len(g[n]) = Len(g[n - 1]) + Len(ss[n]) /\ Len(g[n]) <= Len(g[N])
        /\ \A k \in 1..Len(ss[n]) : g[N][Len(g[n - 1]) + k] = ss[n][k]
    <3>1. ss \in Seq(Seq(X)) /\ IsFlattening(X, ss, g) /\ n \in 1..Len(ss) /\ Len(ss) = N
      BY <1>2, <1>4 DEF IsFlattening
    <3>2. Stands(ss, g, n)
      BY <3>1, Pieces, Zenon
    <3> QED BY <3>1, <3>2 DEF Stands
  <2>2. ss[n] = Escape(t[n])
    BY <1>2
  <2> DEFINE a == Len(g[n - 1])
             b == Len(Escape(t[n]))
             c == Len(g[n])
             d == Len(g[N])
             esc == Escape(t[n])
  <2>3. a \in Nat /\ b \in Nat /\ d \in Nat /\ c = a + b /\ c <= d /\ L = d + 2
        /\ (\A k \in 1..b : g[N][a + k] = esc[k]) /\ (\A i \in 1..d : l[1 + i] = g[N][i])
    BY <1>6, <2>1, <2>2
  <2>4. ASSUME NEW k \in 1..b PROVE l[2 + a + k - 1] = esc[k]
    <3> HIDE DEF a, b, c, d, esc
    <3>1. a + k \in 1..d /\ 1 + (a + k) = 2 + a + k - 1
      BY <2>3
    <3>2. l[1 + (a + k)] = g[N][a + k] /\ g[N][a + k] = esc[k]
      BY <2>3, <3>1
    <3> QED BY <3>1, <3>2
  <2>5. 2 + a \in Nat /\ 2 + a >= 1 /\ 2 + c = 2 + a + b /\ 2 + c <= L /\ 2 + a \in 1..(L + HexDigits + 3)
    <3> HIDE DEF a, b, c, d, esc
    <3> QED BY <1>6, <2>3
  <2>6. s[2 + a] = Scanned(l, s, 2 + a)
    BY <1>7, <2>5
  <2> QED BY <2>4, <2>5, <2>6
<1>9. ASSUME NEW n \in 1..N
      PROVE  /\ t[n] \in {"c", "w"} => s[at(n - 1)] = 0
             /\ t[n] \notin {"c", "w"} => s[at(n - 1)] = s[at(n)]
  <2> DEFINE p == at(n - 1)
             x == t[n]
  <2>1. /\ p \in Nat /\ p >= 1 /\ x \in {"p", "q", "e", "v", "c", "w"} /\ p + Len(Escape(x)) <= Len(l)
        /\ (\A k \in 1..Len(Escape(x)) : l[p + k - 1] = Escape(x)[k])
        /\ at(n) = p + Len(Escape(x)) /\ s[p] = Scanned(l, s, p)
    BY <1>1, <1>8
  <2> HIDE DEF p, x, at
  <2>2. /\ x \in {"c", "w"} => Scanned(l, s, p) = 0
        /\ x \notin {"c", "w"} => Scanned(l, s, p) = s[p + Len(Escape(x))]
    <3>1. Written(l, p, x)
      BY <1>6, <2>1 DEF Written
    <3>2. ScansOn(l, s, p, x)
      BY <1>6, <2>1, <3>1, EscapeScans, Zenon
    <3> QED BY <3>2 DEF ScansOn
  <2>3. /\ x \in {"c", "w"} => s[p] = 0
        /\ x \notin {"c", "w"} => s[p] = s[at(n)]
    BY <2>1, <2>2
  <2> QED BY <2>3 DEF p, x
<1>10. s[at(N)] = L + 1
  <2>1. at(N) = L
    BY <1>1, <1>6
  <2>2. Scanned(l, s, L) = L + 1 /\ L \in 1..(L + HexDigits + 3)
    <3>1. L >= 2 /\ L \in Nat
      BY <1>1, <1>5, <1>6
    <3>2. Scanned(l, s, L) = L + 1
      BY <1>6, <3>1, ScannedIs
    <3> QED BY <1>6, <3>1, <3>2
  <2> QED BY <1>7, <2>1, <2>2
<1> DEFINE Same(n) == (s[at(n)] = L + 1) <=> (\A i \in (n + 1)..N : t[i] \notin {"c", "w"})
<1>11. Same(N)
  BY <1>1, <1>10
<1>12. ASSUME NEW n \in 1..N, Same(n) PROVE Same(n - 1)
  <2>1. n - 1 + 1 = n /\ \A i \in n..N : i = n \/ i \in (n + 1)..N
    BY <1>1
  <2>2. \A i \in (n + 1)..N : i \in n..N
    BY <1>1
  <2>3. n \in n..N
    BY <1>1
  <2> HIDE DEF at
  <2>4. CASE t[n] \in {"c", "w"}
    <3>1. s[at(n - 1)] = 0 /\ 0 # L + 1
      BY <1>6, <1>9, <2>4
    <3> QED BY <2>1, <2>3, <2>4, <3>1
  <2>5. CASE t[n] \notin {"c", "w"}
    <3>1. s[at(n - 1)] = s[at(n)]
      BY <1>9, <2>5
    <3>2. (\A i \in n..N : t[i] \notin {"c", "w"}) <=> (\A i \in (n + 1)..N : t[i] \notin {"c", "w"})
      BY <2>1, <2>2, <2>5
    <3> QED BY <1>12, <2>1, <3>1, <3>2
  <2> QED BY <2>4, <2>5
<1>13. Same(0)
  <2> DEFINE S == {m \in 0..N : Same(N - m)}
  <2> HIDE DEF Same
  <2>1. 0 \in S
    <3>1. N - 0 = N
      BY <1>1
    <3> QED BY <1>1, <1>11, <3>1
  <2>2. ASSUME NEW m \in 1..N, m - 1 \in S PROVE m \in S
    <3>1. PICK n \in 1..N : n = N - (m - 1)
      BY <1>1
    <3>2. n - 1 = N - m /\ Same(n)
      BY <1>1, <2>2, <3>1
    <3>3. Same(n - 1)
      BY <1>12, <3>2
    <3> QED BY <1>1, <3>2, <3>3
  <2>3. \A m \in 0..N : m \in S
    <3> HIDE DEF S
    <3> QED BY <1>1, <2>1, <2>2, FoldKeeps
  <2>4. N \in 0..N /\ N - N = 0
    BY <1>1
  <2> QED BY <2>3, <2>4
<1>14. at(0) = 2 /\ 0 + 1 = 1
  BY <1>4
<1>15. At(l, 1) = "q"
  <2>1. 1 \in DOMAIN l
    BY <1>1, <1>5, <1>6
  <2> QED BY <1>6, <2>1 DEF At
<1>16. ScanString(l) = L + 1 <=> \A i \in 1..N : t[i] \notin {"c", "w"}
  BY <1>7, <1>13, <1>14, <1>15
<1>17. Readable(t) <=> ScanString(l) = L + 1
  BY Zenon DEF Readable, l
<1> QED BY <1>1, <1>16, <1>17

(* Whatever the length of a method, and whichever shape appendRPCMessage takes, *)
(* the reader finds the message that was sent; and a line is read unless its   *)
(* method has a character that strconv escapes in a way JSON does not have.   *)
THEOREM RoundTripHolds == Spec => []RoundTrip
<1>1. LineOK => RoundTrip
  <2> SUFFICES ASSUME LineOK, kind = "method"
               PROVE  /\ \A msg \in Messages(line) : Read(AppendMessage(msg)) = msg
                      /\ Readable(line) <=> \A i \in DOMAIN line : line[i] \notin {"c", "w"}
    BY Zenon DEF RoundTrip
  <2>1. line \in Seq({"p", "q", "e", "v", "c", "w"})
    BY DEF LineOK, Alphabet
  <2> QED BY <2>1, ReadableIs, WriteRead, Zenon
<1> QED BY <1>1, LineCorrect, PTL

-----------------------------------------------------------------------------
(* Lines of tokens.                                                          *)

\* Induction from the end of a line, and on the length of a part of it.
LEMMA FromTheEnd ==
    ASSUME NEW n \in Nat, NEW S,
           \A i \in 1..n : (\A j \in (i + 1)..n : j \in S) => i \in S
    PROVE  \A i \in 1..n : i \in S
<1> DEFINE U == {m \in Nat : \A i \in 1..n : i + m >= n + 1 => i \in S}
<1>1. 0 \in U
  OBVIOUS
<1>2. ASSUME NEW m \in Nat, m \in U PROVE m + 1 \in U
  <2> SUFFICES ASSUME NEW i \in 1..n, i + (m + 1) >= n + 1 PROVE i \in S
    OBVIOUS
  <2>1. ASSUME NEW j \in (i + 1)..n PROVE j \in S
    <3>1. j \in 1..n /\ j + m >= n + 1
      OBVIOUS
    <3> QED BY <1>2, <3>1
  <2> QED BY <2>1
<1>3. n \in U
  <2> HIDE DEF U
  <2> QED BY <1>1, <1>2, Induction
<1> QED BY <1>3

LEMMA ByLength ==
    ASSUME NEW S, \A w \in Nat : (\A u \in Nat : u < w => u \in S) => w \in S
    PROVE  \A w \in Nat : w \in S
<1> DEFINE U == {m \in Nat : \A u \in Nat : u <= m => u \in S}
<1>1. 0 \in U
  <2>1. 0 \in S
    OBVIOUS
  <2> QED BY <2>1
<1>2. ASSUME NEW m \in Nat, m \in U PROVE m + 1 \in U
  <2>1. m + 1 \in S
    BY <1>2
  <2> QED BY <1>2, <2>1
<1>3. \A m \in Nat : m \in U
  <2> HIDE DEF U
  <2> QED BY <1>1, <1>2, Induction
<1> QED BY <1>3

\* skipJSONSpace stops where it should.
LEMMA SkipIs ==
    ASSUME NEW l \in Seq(Marks), NEW i \in 1..(Len(l) + 1)
    PROVE  SkipsTo(l, i, Skip(l, i))
<1> DEFINE N == Len(l)
<1>1. N \in Nat /\ Len(l) = N
  OBVIOUS
<1> HIDE DEF N
<1>2. \E j : SkipsTo(l, i, j)
  <2> DEFINE S == {k \in 1..(N + 1) : \E j : SkipsTo(l, k, j)}
  <2>1. ASSUME NEW k \in 1..(N + 1), \A j \in (k + 1)..(N + 1) : j \in S PROVE k \in S
    <3>1. CASE k = N + 1 \/ l[k] # "sp"
      <4>1. At(l, k) # "sp"
        BY <1>1, <3>1 DEF At
      <4>2. SkipsTo(l, k, k)
        BY <1>1, <4>1 DEF SkipsTo, N
      <4> QED BY <4>2
    <3>2. CASE k # N + 1 /\ l[k] = "sp"
      <4>1. k + 1 \in S
        BY <1>1, <2>1, <3>2
      <4>2. PICK j : SkipsTo(l, k + 1, j)
        BY <4>1
      <4>3. SkipsTo(l, k, j)
        BY <1>1, <3>2, <4>2 DEF SkipsTo, N
      <4> QED BY <4>3
    <3> QED BY <3>1, <3>2
  <2>2. i \in S
    <3>1. N + 1 \in Nat /\ i \in 1..(N + 1)
      BY <1>1 DEF N
    <3> HIDE DEF S
    <3> QED BY <2>1, <3>1, FromTheEnd
  <2> QED BY <2>2
<1>3. Skip(l, i) = CHOOSE j \in i..(Len(l) + 1) : At(l, j) # "sp" /\ \A k \in i..(j - 1) : l[k] = "sp"
  BY DEF Skip
<1> QED BY <1>2, <1>3, Zenon DEF SkipsTo

\* Solid is a fold.
LEMMA SolidRuns ==
    ASSUME NEW l \in Seq(Marks)
    PROVE  \E g : /\ g \in [0..Len(l) -> Seq(Tokens)] /\ Solid(l) = g[Len(l)]
                  /\ \A i \in 0..Len(l) : g[i] = SolidTo(l, g, i)
<1> DEFINE N == Len(l)
           T == Seq(Tokens)
           solid == CHOOSE g : g = [i \in 0..N |-> SolidTo(l, g, i)]
           step == [i \in 1..N |-> [r \in T |-> IF l[i] = "sp" THEN r ELSE Append(r, l[i])]]
<1>1. N \in Nat /\ <<>> \in T /\ \A i \in 1..N : l[i] \in Marks
  OBVIOUS
<1>2. step \in Steps(T, N)
  <2>1. ASSUME NEW i \in 1..N, NEW r \in T PROVE (IF l[i] = "sp" THEN r ELSE Append(r, l[i])) \in T
    <3>1. l[i] # "sp" => l[i] \in Tokens
      BY <1>1 DEF Marks
    <3> HIDE DEF N
    <3> QED BY <3>1
  <2> QED BY <2>1 DEF Steps
<1>3. PICK g : IsFold(g, T, <<>>, N, step)
  <2> HIDE DEF step, T, N
  <2> QED BY <1>1, <1>2, FoldExists
<1>4. \A i \in 0..N : g[i] = SolidTo(l, g, i)
  <2> SUFFICES ASSUME NEW i \in 0..N PROVE g[i] = SolidTo(l, g, i)
    OBVIOUS
  <2>1. CASE i = 0
    BY <1>3, <2>1 DEF IsFold, SolidTo
  <2>2. CASE i # 0
    <3>1. i \in 1..N /\ i - 1 \in 0..N
      BY <1>1, <2>2
    <3>2. g[i] = step[i][g[i - 1]] /\ g[i - 1] \in T
      BY <1>3, <3>1 DEF IsFold
    <3>3. step[i][g[i - 1]] = IF l[i] = "sp" THEN g[i - 1] ELSE Append(g[i - 1], l[i])
      BY <3>1, <3>2
    <3> QED BY <2>2, <3>2, <3>3 DEF SolidTo
  <2> QED BY <2>1, <2>2
<1>5. g = [i \in 0..N |-> SolidTo(l, g, i)]
  BY <1>3, <1>4 DEF IsFold
<1>6. solid = [i \in 0..N |-> SolidTo(l, solid, i)]
  BY <1>5
<1>7. Solid(l) = solid[N]
  BY Zenon DEF Solid, SolidTo
<1> HIDE DEF solid
<1>8. solid \in [0..N -> T] /\ \A i \in 0..N : solid[i] = SolidTo(l, solid, i)
  BY <1>5, <1>6
<1> QED BY <1>7, <1>8

\* What is written stays as it is.
LEMMA MapExists ==
    ASSUME NEW l \in Seq(Marks)
    PROVE  \E p : IsMap(l, Solid(l), p)
<1> DEFINE N == Len(l)
           o == Solid(l)
<1>1. PICK g : /\ g \in [0..N -> Seq(Tokens)] /\ o = g[N]
               /\ \A i \in 0..N : g[i] = SolidTo(l, g, i)
  BY SolidRuns
<1>2. N \in Nat /\ Len(l) = N
  OBVIOUS
<1> HIDE DEF N, o
<1> DEFINE p == [i \in 1..(N + 1) |-> Len(g[i - 1])]
           Kept(i) == Len(g[i]) <= Len(o) /\ \A a \in 1..Len(g[i]) : o[a] = g[i][a]
<1>3. ASSUME NEW i \in 1..N
      PROVE  IF l[i] = "sp" THEN g[i] = g[i - 1] ELSE g[i] = Append(g[i - 1], l[i])
  BY <1>1, <1>2 DEF SolidTo
<1>4. g[0] = <<>>
  BY <1>1, <1>2 DEF SolidTo
<1>5. \A i \in 1..(N + 1) : Kept(i - 1)
  <2> DEFINE S == {i \in 1..(N + 1) : Kept(i - 1)}
  <2>1. ASSUME NEW i \in 1..(N + 1), \A j \in (i + 1)..(N + 1) : j \in S PROVE Kept(i - 1)
    <3>1. CASE i = N + 1
      BY <1>1, <1>2, <3>1
    <3>2. CASE i # N + 1
      <4>1. i \in 1..N /\ Kept(i) /\ i - 1 \in 0..N /\ i \in 0..N
        <5>1. i + 1 \in (i + 1)..(N + 1) /\ (i + 1) - 1 = i
          BY <1>2, <3>2
        <5>2. i + 1 \in S
          BY <2>1, <5>1
        <5>3. Kept((i + 1) - 1)
          BY <5>2
        <5> QED BY <1>2, <3>2, <5>1, <5>3
      <4>2. g[i - 1] \in Seq(Tokens) /\ g[i] \in Seq(Tokens) /\ o \in Seq(Tokens)
        BY <1>1, <1>2, <4>1
      <4>3. Len(g[i - 1]) <= Len(g[i]) /\ \A a \in 1..Len(g[i - 1]) : g[i][a] = g[i - 1][a]
        <5>1. g[i] = g[i - 1] \/ g[i] = Append(g[i - 1], l[i])
          BY <1>3, <4>1
        <5>2. ASSUME NEW q \in Seq(Tokens), NEW e
              PROVE  Len(q) <= Len(Append(q, e)) /\ \A a \in 1..Len(q) : Append(q, e)[a] = q[a]
          OBVIOUS
        <5>3. CASE g[i] = g[i - 1]
          BY <4>2, <5>3
        <5>4. CASE g[i] = Append(g[i - 1], l[i])
          BY <4>2, <5>2, <5>4
        <5> QED BY <5>1, <5>3, <5>4
      <4> QED BY <4>1, <4>2, <4>3
    <3> QED BY <3>1, <3>2
  <2>2. \A i \in 1..(N + 1) : i \in S
    <3>1. N + 1 \in Nat
      BY <1>2
    <3>2. \A i \in 1..(N + 1) : (\A j \in (i + 1)..(N + 1) : j \in S) => i \in S
      BY <2>1
    <3> HIDE DEF S
    <3> QED BY <3>1, <3>2, FromTheEnd
  <2> QED BY <2>2
<1>6. o \in Seq(Tokens) /\ p[1] = 0 /\ p[N + 1] = Len(o)
  BY <1>1, <1>2, <1>4
<1>7. p \in [1..(N + 1) -> 0..Len(o)]
  <2>1. ASSUME NEW i \in 1..(N + 1) PROVE Len(g[i - 1]) \in 0..Len(o)
    <3>1. i - 1 \in 0..N
      BY <1>2
    <3>2. g[i - 1] \in Seq(Tokens)
      BY <1>1, <3>1
    <3> QED BY <1>5, <1>6, <3>2
  <2> QED BY <2>1
<1>8. ASSUME NEW i \in 1..N
      PROVE  IF l[i] = "sp" THEN p[i + 1] = p[i]
             ELSE p[i] + 1 <= Len(o) /\ p[i + 1] = p[i] + 1 /\ o[p[i] + 1] = l[i]
  <2>1. i \in 1..(N + 1) /\ i + 1 \in 1..(N + 1) /\ (i + 1) - 1 = i /\ i - 1 \in 0..N /\ i \in 0..N
    BY <1>2
  <2>2. p[i] = Len(g[i - 1]) /\ p[i + 1] = Len(g[i])
    BY <2>1
  <2>3. g[i - 1] \in Seq(Tokens) /\ g[i] \in Seq(Tokens)
    BY <1>1, <2>1
  <2>4. Kept((i + 1) - 1)
    BY <1>5, <2>1, Zenon
  <2>5. Kept(i)
    BY <2>1, <2>4
  <2> HIDE DEF p
  <2>6. CASE l[i] = "sp"
    BY <1>3, <2>2, <2>6
  <2>7. CASE l[i] # "sp"
    <3>1. g[i] = Append(g[i - 1], l[i])
      BY <1>3, <2>7
    <3>2. Len(g[i]) = Len(g[i - 1]) + 1 /\ g[i][Len(g[i - 1]) + 1] = l[i] /\ Len(g[i - 1]) \in Nat
      BY <2>3, <3>1
    <3>3. Len(g[i - 1]) + 1 \in 1..Len(g[i])
      BY <3>2
    <3>4. Len(o) \in Nat /\ Len(g[i]) <= Len(o) /\ o[Len(g[i - 1]) + 1] = l[i]
      BY <1>6, <2>5, <3>2, <3>3
    <3> QED BY <2>2, <2>7, <3>2, <3>4
  <2> QED BY <2>6, <2>7
<1>9. IsMap(l, o, p)
  <2> HIDE DEF p
  <2> QED BY <1>2, <1>6, <1>7, <1>8 DEF IsMap
<1> QED BY <1>9 DEF o

\* The token after white space is the next one.
LEMMA SkipToNext ==
    ASSUME NEW l \in Seq(Marks), NEW o, NEW p, IsMap(l, o, p), NEW i \in 1..(Len(l) + 1)
    PROVE  NextIs(l, o, p, i, Skip(l, i))
<1> DEFINE N == Len(l)
           k == Skip(l, i)
<1> SUFFICES NextIs(l, o, p, i, k)
  OBVIOUS
<1>1. SkipsTo(l, i, k)
  BY SkipIs
<1>2. N \in Nat /\ Len(l) = N /\ i \in 1..(N + 1)
  OBVIOUS
<1> HIDE DEF N, k
<1>3. k \in i..(N + 1) /\ At(l, k) # "sp" /\ \A j \in i..(k - 1) : l[j] = "sp"
  BY <1>1, <1>2 DEF SkipsTo
<1>4. p[k] = p[i]
  <2> DEFINE S == {m \in Nat : i + m <= k => p[i + m] = p[i]}
  <2>1. 0 \in S
    BY <1>2
  <2>2. ASSUME NEW m \in Nat, m \in S PROVE m + 1 \in S
    <3> SUFFICES ASSUME i + (m + 1) <= k PROVE p[i + (m + 1)] = p[i]
      OBVIOUS
    <3>1. i + m \in i..(k - 1) /\ i + m \in 1..N /\ i + (m + 1) = (i + m) + 1
      BY <1>2, <1>3
    <3>2. p[(i + m) + 1] = p[i + m]
      BY <1>2, <1>3, <3>1 DEF IsMap
    <3>3. p[i + m] = p[i]
      BY <1>2, <1>3, <2>2, <3>1
    <3> QED BY <3>1, <3>2, <3>3
  <2>3. k - i \in Nat /\ i + (k - i) = k
    BY <1>2, <1>3
  <2>4. k - i \in S
    <3> HIDE DEF S
    <3> QED BY <2>1, <2>2, <2>3, Induction
  <2> QED BY <2>3, <2>4
<1>5. Len(o) \in Nat /\ p[i] \in 0..Len(o) /\ DOMAIN o = 1..Len(o) /\ o \in Seq(Tokens)
  BY <1>2 DEF IsMap
<1>6. CASE k = N + 1
  <2>1. At(l, k) = "end"
    BY <1>2, <1>6 DEF At
  <2>2. p[i] = Len(o)
    BY <1>2, <1>4, <1>6 DEF IsMap
  <2>3. At(o, p[i] + 1) = "end"
    BY <1>5, <2>2 DEF At
  <2> QED BY <1>2, <1>3, <1>4, <1>6, <2>1, <2>2, <2>3 DEF NextIs
<1>7. CASE k # N + 1
  <2>1. k \in 1..N /\ At(l, k) = l[k]
    BY <1>2, <1>3, <1>7 DEF At
  <2>2. l[k] # "sp" /\ l[k] # "end"
    <3>1. l[k] \in Marks
      BY <1>2, <2>1
    <3>2. "end" \notin Marks
      BY DEF Marks, Tokens
    <3> QED BY <1>3, <2>1, <3>1, <3>2
  <2>3. p[k] + 1 <= Len(o) /\ p[k + 1] = p[k] + 1 /\ o[p[k] + 1] = l[k]
    BY <1>2, <2>1, <2>2 DEF IsMap
  <2>4. At(o, p[i] + 1) = l[k]
    BY <1>4, <1>5, <2>3 DEF At
  <2> QED BY <1>2, <1>3, <1>4, <2>1, <2>2, <2>3, <2>4 DEF NextIs
<1> QED BY <1>6, <1>7

-----------------------------------------------------------------------------
(* The scanner of nested values exists, and goes forward.                    *)

\* skipJSONSpace does not go back, and stops at a token or the end.
LEMMA SkipPlace ==
    ASSUME NEW l \in Seq(Marks), NEW i \in 1..(Len(l) + 1)
    PROVE  /\ Skip(l, i) \in i..(Len(l) + 1)
           /\ At(l, Skip(l, i)) # "end" => Skip(l, i) \in i..Len(l)
<1>1. Skip(l, i) \in i..(Len(l) + 1)
  BY SkipIs DEF SkipsTo
<1>2. At(l, Len(l) + 1) = "end"
  <2>1. Len(l) \in Nat /\ Len(l) + 1 \notin DOMAIN l
    OBVIOUS
  <2> QED BY <2>1 DEF At
<1> QED BY <1>1, <1>2

LEMMA OpenForward ==
    ASSUME NEW l \in Seq(Marks), NEW s, NEW t, NEW i \in 1..Len(l), SameAfter(l, s, t, i), Forward(l, t, i),
           NEW j \in i..Len(l), NEW close \in Tokens, NEW what \in What, NEW d \in Depths
    PROVE  /\ OpenAt(l, s, j, close, what, d) = OpenAt(l, t, j, close, what, d)
           /\ OpenAt(l, t, j, close, what, d) \in Room(l, i)
<1> DEFINE k == Skip(l, j + 1)
           N == Len(l)
<1>1. N \in Nat /\ Len(l) = N /\ i \in 1..N /\ j \in i..N /\ j + 1 \in 1..(N + 1)
  OBVIOUS
<1>2. k \in (j + 1)..(N + 1) /\ (At(l, k) # "end" => k \in (j + 1)..N)
  BY <1>1, SkipPlace
<1> HIDE DEF k, N
<1>3. CASE TooDeep(d + 1)
  BY <1>3 DEF OpenAt, Room
<1>4. CASE ~TooDeep(d + 1)
  <2>1. d + 1 \in Depths
    BY <1>4, CodecAssumption DEF TooDeep, Depths
  <2>2. CASE At(l, k) = close
    <3>1. close # "end"
      BY DEF Tokens
    <3>2. k + 1 \in (i + 1)..(N + 1)
      BY <1>1, <1>2, <2>2, <3>1
    <3> QED BY <1>1, <1>4, <2>2, <3>2 DEF OpenAt, Room, k
  <2>3. CASE At(l, k) # close
    <3>1. k \in (i + 1)..(Len(l) + 2)
      BY <1>1, <1>2
    <3>2. Found(s, what, k, d + 1) = Found(t, what, k, d + 1)
      BY <2>1, <3>1 DEF SameAfter
    <3>3. Found(t, what, k, d + 1) \in Room(l, k)
      BY <2>1, <3>1 DEF Forward
    <3>4. Found(t, what, k, d + 1) \in Room(l, i)
      BY <1>1, <1>2, <3>3 DEF Room
    <3> QED BY <1>4, <2>3, <3>2, <3>4 DEF OpenAt, k
  <2> QED BY <2>2, <2>3
<1> QED BY <1>3, <1>4

LEMMA ValueForward ==
    ASSUME NEW l \in Seq(Marks), NEW s, NEW t, NEW i \in 1..Len(l), SameAfter(l, s, t, i), Forward(l, t, i),
           NEW d \in Depths
    PROVE  /\ ValueAt(l, s, i, d) = ValueAt(l, t, i, d)
           /\ ValueAt(l, t, i, d) \in Room(l, i)
<1> DEFINE j == Skip(l, i)
           N == Len(l)
<1>1. N \in Nat /\ Len(l) = N /\ i \in 1..N
  OBVIOUS
<1>2. j \in i..(N + 1) /\ (At(l, j) # "end" => j \in i..N)
  BY <1>1, SkipPlace
<1> HIDE DEF j, N
<1>3. At(l, j) # "end" => j + 1 \in Room(l, i)
  BY <1>1, <1>2 DEF Room
<1>4. CASE At(l, j) \in Str
  BY <1>3, <1>4 DEF ValueAt, Str, j
<1>5. CASE At(l, j) = "{"
  <2>1. /\ OpenAt(l, s, j, "}", "members", d) = OpenAt(l, t, j, "}", "members", d)
        /\ OpenAt(l, t, j, "}", "members", d) \in Room(l, i)
    BY <1>1, <1>2, <1>5, OpenForward DEF Tokens, What
  <2>2. \A q : ValueAt(l, q, i, d) = OpenAt(l, q, j, "}", "members", d)
    BY <1>5 DEF ValueAt, Str, j
  <2> QED BY <2>1, <2>2
<1>6. CASE At(l, j) = "["
  <2>1. /\ OpenAt(l, s, j, "]", "elements", d) = OpenAt(l, t, j, "]", "elements", d)
        /\ OpenAt(l, t, j, "]", "elements", d) \in Room(l, i)
    BY <1>1, <1>2, <1>6, OpenForward DEF Tokens, What
  <2>2. \A q : ValueAt(l, q, i, d) = OpenAt(l, q, j, "]", "elements", d)
    BY <1>6 DEF ValueAt, Str, j
  <2> QED BY <2>1, <2>2
<1>7. CASE At(l, j) \notin Str \cup {"{", "["}
  <2>1. \A q : ValueAt(l, q, i, d) = Literal(l, j)
    BY <1>7 DEF ValueAt, j
  <2>2. Literal(l, j) \in Room(l, i)
    BY <1>3 DEF Literal, Room
  <2> QED BY <2>1, <2>2
<1> QED BY <1>4, <1>5, <1>6, <1>7

LEMMA RestForward ==
    ASSUME NEW l \in Seq(Marks), NEW s, NEW t, NEW i \in 1..Len(l), SameAfter(l, s, t, i), Forward(l, t, i),
           NEW v \in Room(l, i), NEW close \in Tokens, NEW more \in What, NEW d \in Depths
    PROVE  /\ RestAt(l, s, v, close, more, d) = RestAt(l, t, v, close, more, d)
           /\ RestAt(l, t, v, close, more, d) \in Room(l, i)
<1> DEFINE k == Skip(l, v)
           N == Len(l)
<1>1. N \in Nat /\ Len(l) = N /\ i \in 1..N
  OBVIOUS
<1>2. CASE v = 0
  BY <1>2 DEF RestAt, Room
<1>3. CASE v # 0
  <2>1. v \in (i + 1)..(N + 1) /\ v \in 1..(N + 1)
    BY <1>1, <1>3 DEF Room
  <2>2. k \in v..(N + 1) /\ (At(l, k) # "end" => k \in v..N)
    BY <1>1, <2>1, SkipPlace
  <2> HIDE DEF k, N
  <2>3. CASE At(l, k) = close
    <3>1. close # "end"
      BY DEF Tokens
    <3>2. k + 1 \in (i + 1)..(N + 1)
      BY <1>1, <2>1, <2>2, <2>3, <3>1
    <3> QED BY <1>1, <1>3, <2>3, <3>2 DEF RestAt, Room, k
  <2>4. CASE At(l, k) # close /\ At(l, k) = ","
    <3>0. k \in v..(N + 1)
      BY <2>2
    <3>1. k + 1 \in (i + 1)..(Len(l) + 2)
      BY <1>1, <2>1, <3>0
    <3>2. Found(s, more, k + 1, d) = Found(t, more, k + 1, d)
      BY <3>1 DEF SameAfter
    <3>3. Found(t, more, k + 1, d) \in Room(l, k + 1)
      BY <3>1 DEF Forward
    <3>4. Found(t, more, k + 1, d) \in Room(l, i)
      BY <1>1, <2>1, <2>2, <3>3 DEF Room
    <3> QED BY <1>3, <2>4, <3>2, <3>4 DEF RestAt, k
  <2>5. CASE At(l, k) # close /\ At(l, k) # ","
    BY <1>3, <2>5 DEF RestAt, Room, k
  <2> QED BY <2>3, <2>4, <2>5
<1> QED BY <1>2, <1>3

LEMMA MembersForward ==
    ASSUME NEW l \in Seq(Marks), NEW s, NEW t, NEW i \in 1..Len(l), SameAfter(l, s, t, i), Forward(l, t, i),
           NEW d \in Depths
    PROVE  /\ MembersAt(l, s, i, d) = MembersAt(l, t, i, d)
           /\ MembersAt(l, t, i, d) \in Room(l, i)
<1> DEFINE j == Skip(l, i)
           c == Skip(l, j + 1)
           N == Len(l)
           vs == Found(s, "value", c + 1, d)
           vt == Found(t, "value", c + 1, d)
<1>1. N \in Nat /\ Len(l) = N /\ i \in 1..N
  OBVIOUS
<1>2. CASE At(l, j) \in Str /\ At(l, c) = ":"
  <2>1. j \in i..N
    <3>1. At(l, j) # "end"
      BY <1>2 DEF Str
    <3> QED BY <1>1, <3>1, SkipPlace
  <2>2. c \in (j + 1)..N
    <3>1. At(l, c) # "end" /\ j + 1 \in 1..(Len(l) + 1)
      BY <1>1, <1>2, <2>1
    <3> QED BY <1>1, <3>1, SkipPlace
  <2> HIDE DEF j, c, N
  <2>3. c + 1 \in (i + 1)..(Len(l) + 2) /\ "value" \in What
    BY <1>1, <2>1, <2>2 DEF What
  <2>4. vs = vt
    BY <2>3 DEF SameAfter
  <2>5. vt \in Room(l, c + 1)
    BY <2>3 DEF Forward
  <2>6. vt \in Room(l, i)
    BY <1>1, <2>1, <2>2, <2>5 DEF Room
  <2>7. /\ MembersAt(l, s, i, d) = RestAt(l, s, vs, "}", "members", d)
        /\ MembersAt(l, t, i, d) = RestAt(l, t, vt, "}", "members", d)
    BY <1>2 DEF MembersAt, j, c
  <2>8. "}" \in Tokens /\ "members" \in What
    BY DEF Tokens, What
  <2> HIDE DEF vs, vt
  <2>9. /\ RestAt(l, s, vt, "}", "members", d) = RestAt(l, t, vt, "}", "members", d)
        /\ RestAt(l, t, vt, "}", "members", d) \in Room(l, i)
    BY <2>6, <2>8, RestForward, Zenon
  <2> QED BY <2>4, <2>7, <2>9
<1>3. CASE ~(At(l, j) \in Str /\ At(l, c) = ":")
  <2>1. \A q : MembersAt(l, q, i, d) = 0
    BY <1>3 DEF MembersAt
  <2> QED BY <2>1 DEF Room
<1> QED BY <1>2, <1>3

\* A place sees only what is after it, and what it finds is further on.
LEMMA BodyForward ==
    ASSUME NEW l \in Seq(Marks), NEW s, NEW t, NEW i \in 1..(Len(l) + 2), SameAfter(l, s, t, i),
           Forward(l, t, i), NEW what \in What, NEW d \in Depths
    PROVE  /\ BodyAt(l, s, what, i, d) = BodyAt(l, t, what, i, d)
           /\ BodyAt(l, t, what, i, d) \in Room(l, i)
<1>1. CASE i > Len(l)
  BY <1>1 DEF BodyAt, Room
<1>2. CASE i <= Len(l)
  <2>0. i \in 1..Len(l)
    BY <1>2
  <2>1. /\ ValueAt(l, s, i, d) = ValueAt(l, t, i, d)
        /\ ValueAt(l, t, i, d) \in Room(l, i)
    BY <2>0, ValueForward
  <2>2. /\ MembersAt(l, s, i, d) = MembersAt(l, t, i, d)
        /\ MembersAt(l, t, i, d) \in Room(l, i)
    BY <2>0, MembersForward
  <2> DEFINE v == ValueAt(l, t, i, d)
  <2>3. /\ RestAt(l, s, v, "]", "elements", d) = RestAt(l, t, v, "]", "elements", d)
        /\ RestAt(l, t, v, "]", "elements", d) \in Room(l, i)
    <3>1. v \in Room(l, i) /\ "]" \in Tokens /\ "elements" \in What
      BY <2>1 DEF Tokens, What
    <3> HIDE DEF v
    <3> QED BY <2>0, <3>1, RestForward, Zenon
  <2>4. ~(i > Len(l))
    BY <2>0
  <2> QED BY <2>1, <2>2, <2>3, <2>4, Zenon DEF BodyAt, ElementsAt
<1> QED BY <1>1, <1>2

LEMMA PlaceIs ==
    ASSUME NEW l \in Seq(Marks), NEW what \in What, NEW i \in 1..(Len(l) + 2), NEW d \in Depths
    PROVE  /\ <<what, i, d>> \in Places(l)
           /\ <<what, i, d>>[1] = what /\ <<what, i, d>>[2] = i /\ <<what, i, d>>[3] = d
  BY DEF Places

LEMMA AfterAtIs ==
    ASSUME NEW l \in Seq(Marks), NEW f, NEW i \in 1..(Len(l) + 2),
           NEW what \in What, NEW k \in (i + 1)..(Len(l) + 2), NEW d \in Depths
    PROVE  Found(AfterAt(l, f, i), what, k, d) =
             IF f[k][<<what, d>>] \in Room(l, k) THEN f[k][<<what, d>>] ELSE 0
<1> DEFINE at == <<what, k, d>>
<1>1. k \in 1..(Len(l) + 2) /\ k > i
  OBVIOUS
<1>2. at \in Places(l) /\ at[1] = what /\ at[2] = k /\ at[3] = d
  BY <1>1, PlaceIs
<1> HIDE DEF at
<1>3. AfterAt(l, f, i)[at] =
        IF at[2] > i /\ f[at[2]][<<at[1], at[3]>>] \in Room(l, at[2]) THEN f[at[2]][<<at[1], at[3]>>] ELSE 0
  BY <1>2 DEF AfterAt
<1> QED BY <1>1, <1>2, <1>3 DEF Found, at

LEMMA AfterAtForward ==
    ASSUME NEW l \in Seq(Marks), NEW f, NEW i \in 1..(Len(l) + 2)
    PROVE  Forward(l, AfterAt(l, f, i), i)
<1> SUFFICES ASSUME NEW what \in What, NEW k \in (i + 1)..(Len(l) + 2), NEW d \in Depths
             PROVE  Found(AfterAt(l, f, i), what, k, d) \in Room(l, k)
  BY DEF Forward
<1>1. Found(AfterAt(l, f, i), what, k, d) =
        IF f[k][<<what, d>>] \in Room(l, k) THEN f[k][<<what, d>>] ELSE 0
  BY AfterAtIs
<1> QED BY <1>1 DEF Room

\* The code's form of a place is BodyAt.
LEMMA ScanAtIs ==
    ASSUME NEW l \in Seq(Marks), NEW s, NEW what \in What, NEW i \in 1..(Len(l) + 2), NEW d \in Depths
    PROVE  ScanAt(l, s, <<what, i, d>>) =
             IF i > Len(l) THEN 0
             ELSE IF what = "value" THEN ValueAt(l, s, i, d)
             ELSE IF what = "members" THEN MembersAt(l, s, i, d)
             ELSE ElementsAt(l, s, Found(s, "value", i, d), d)
<1> DEFINE at == <<what, i, d>>
           j == Skip(l, i)
           arm == CASE At(l, j) \in Str -> j + 1
                 [] At(l, j) \in {"{", "["} ->
                      (IF TooDeep(d + 1) THEN 0
                      ELSE IF At(l, j) = "{"
                           THEN IF At(l, Skip(l, j + 1)) = "}" THEN Skip(l, j + 1) + 1 ELSE s[<<"members", Skip(l, j + 1), d + 1>>]
                           ELSE IF At(l, Skip(l, j + 1)) = "]" THEN Skip(l, j + 1) + 1 ELSE s[<<"elements", Skip(l, j + 1), d + 1>>])
                 [] OTHER -> Literal(l, j)
           members == IF At(l, j) \in Str /\ At(l, Skip(l, j + 1)) = ":"
                      THEN RestAt(l, s, s[<<"value", Skip(l, j + 1) + 1, d>>], "}", "members", d) ELSE 0
           elements == RestAt(l, s, s[<<"value", i, d>>], "]", "elements", d)
<1>1. at[1] = what /\ at[2] = i /\ at[3] = d
  BY PlaceIs
<1>2. ScanAt(l, s, at) =
        CASE i > Len(l) -> 0
          [] i <= Len(l) /\ what = "value" -> arm
          [] i <= Len(l) /\ what = "members" -> members
          [] OTHER -> elements
  <2> HIDE DEF at
  <2>1. ScanAt(l, s, at) =
          CASE at[2] > Len(l) -> 0
            [] at[2] <= Len(l) /\ at[1] = "value" ->
                 (CASE At(l, Skip(l, at[2])) \in Str -> Skip(l, at[2]) + 1
                 [] At(l, Skip(l, at[2])) \in {"{", "["} ->
                      (IF TooDeep(at[3] + 1) THEN 0
                      ELSE IF At(l, Skip(l, at[2])) = "{"
                           THEN IF At(l, Skip(l, Skip(l, at[2]) + 1)) = "}" THEN Skip(l, Skip(l, at[2]) + 1) + 1
                                ELSE s[<<"members", Skip(l, Skip(l, at[2]) + 1), at[3] + 1>>]
                           ELSE IF At(l, Skip(l, Skip(l, at[2]) + 1)) = "]" THEN Skip(l, Skip(l, at[2]) + 1) + 1
                                ELSE s[<<"elements", Skip(l, Skip(l, at[2]) + 1), at[3] + 1>>])
                 [] OTHER -> Literal(l, Skip(l, at[2])))
            [] at[2] <= Len(l) /\ at[1] = "members" ->
                 (IF At(l, Skip(l, at[2])) \in Str /\ At(l, Skip(l, Skip(l, at[2]) + 1)) = ":"
                  THEN RestAt(l, s, s[<<"value", Skip(l, Skip(l, at[2]) + 1) + 1, at[3]>>], "}", "members", at[3])
                  ELSE 0)
            [] OTHER -> RestAt(l, s, s[<<"value", at[2], at[3]>>], "]", "elements", at[3])
    BY Zenon DEF ScanAt, RestAt, Found
  <2> QED BY <1>1, <2>1, Zenon
<1>3. arm = ValueAt(l, s, i, d)
  <2>1. "{" \notin Str /\ "[" \notin Str /\ "{" # "["
    BY DEF Str
  <2> DEFINE brace == IF TooDeep(d + 1) THEN 0 ELSE IF At(l, Skip(l, j + 1)) = "}" THEN Skip(l, j + 1) + 1 ELSE s[<<"members", Skip(l, j + 1), d + 1>>]
             bracket == IF TooDeep(d + 1) THEN 0 ELSE IF At(l, Skip(l, j + 1)) = "]" THEN Skip(l, j + 1) + 1 ELSE s[<<"elements", Skip(l, j + 1), d + 1>>]
  <2>2. brace = OpenAt(l, s, j, "}", "members", d) /\ bracket = OpenAt(l, s, j, "]", "elements", d)
    BY Zenon DEF OpenAt, Found
  <2>3. /\ At(l, j) \in Str => arm = j + 1
        /\ At(l, j) = "{" => arm = brace
        /\ At(l, j) = "[" => arm = bracket
        /\ At(l, j) \notin Str \cup {"{", "["} => arm = Literal(l, j)
    <3> DEFINE mid == IF TooDeep(d + 1) THEN 0
                      ELSE IF At(l, j) = "{"
                           THEN IF At(l, Skip(l, j + 1)) = "}" THEN Skip(l, j + 1) + 1 ELSE s[<<"members", Skip(l, j + 1), d + 1>>]
                           ELSE IF At(l, Skip(l, j + 1)) = "]" THEN Skip(l, j + 1) + 1 ELSE s[<<"elements", Skip(l, j + 1), d + 1>>]
    <3>1. At(l, j) = "{" => mid = brace
      BY Zenon
    <3>2. At(l, j) = "[" => mid = bracket
      BY <2>1, Zenon
    <3>3. arm = CASE At(l, j) \in Str -> j + 1 [] At(l, j) \in {"{", "["} -> mid [] OTHER -> Literal(l, j)
      OBVIOUS
    <3> HIDE DEF arm, mid, brace, bracket, j
    <3> QED BY <2>1, <3>1, <3>2, <3>3
  <2> HIDE DEF arm, brace, bracket
  <2>4. ValueAt(l, s, i, d) = IF At(l, j) \in Str THEN j + 1
            ELSE IF At(l, j) = "{" THEN OpenAt(l, s, j, "}", "members", d)
            ELSE IF At(l, j) = "[" THEN OpenAt(l, s, j, "]", "elements", d) ELSE Literal(l, j)
    BY Zenon DEF ValueAt
  <2> HIDE DEF j
  <2> QED BY <2>1, <2>2, <2>3, <2>4
<1>4. members = MembersAt(l, s, i, d) /\ elements = ElementsAt(l, s, Found(s, "value", i, d), d)
  BY Zenon DEF MembersAt, ElementsAt, Found
<1> HIDE DEF arm, members, elements, at
<1>5. ScanAt(l, s, at) = IF i > Len(l) THEN 0 ELSE IF what = "value" THEN arm ELSE IF what = "members" THEN members ELSE elements
  <2>1. i > Len(l) <=> ~(i <= Len(l))
    OBVIOUS
  <2>2. "value" # "members"
    OBVIOUS
  <2> QED BY <1>2, <2>1, <2>2
<1> QED BY <1>3, <1>4, <1>5, Zenon DEF at

\* A scanner exists, by recursion from the end of the line.
LEMMA ScanExists ==
    ASSUME NEW l \in Seq(Marks)
    PROVE  \E s : s = [at \in Places(l) |-> ScanAt(l, s, at)]
<1> DEFINE n == Len(l) + 2
           T == [What \X Depths -> Nat]
           F == [1..n -> T]
           body(f, i) == [w \in What \X Depths |-> BodyAt(l, AfterAt(l, f, i), w[1], i, w[2])]
           step == [i \in 1..n |-> [f \in F |-> body(f, i)]]
           base == [w \in What \X Depths |-> 0]
<1>1. n \in Nat /\ Len(l) + 2 = n /\ base \in T
  OBVIOUS
<1>2. ASSUME NEW i \in 1..n, NEW f, NEW what \in What, NEW d \in Depths
      PROVE  BodyAt(l, AfterAt(l, f, i), what, i, d) \in Room(l, i)
  <2>1. Forward(l, AfterAt(l, f, i), i)
    BY AfterAtForward
  <2>2. SameAfter(l, AfterAt(l, f, i), AfterAt(l, f, i), i)
    BY DEF SameAfter
  <2> QED BY <2>1, <2>2, BodyForward
<1>3. ASSUME NEW i \in 1..n, NEW f PROVE body(f, i) \in T
  <2>1. ASSUME NEW w \in What \X Depths PROVE BodyAt(l, AfterAt(l, f, i), w[1], i, w[2]) \in Nat
    <3>1. w[1] \in What /\ w[2] \in Depths
      OBVIOUS
    <3>2. Room(l, i) \subseteq Nat
      BY DEF Room
    <3> QED BY <1>2, <3>1, <3>2
  <2> QED BY <2>1
<1>4. ASSUME NEW i \in 1..n, NEW f, NEW h, \A j \in (i + 1)..n : f[j] = h[j]
      PROVE  body(f, i) = body(h, i)
  <2>1. SameAfter(l, AfterAt(l, f, i), AfterAt(l, h, i), i)
    <3> SUFFICES ASSUME NEW what \in What, NEW k \in (i + 1)..(Len(l) + 2), NEW d \in Depths
                 PROVE  Found(AfterAt(l, f, i), what, k, d) = Found(AfterAt(l, h, i), what, k, d)
      BY DEF SameAfter
    <3>1. f[k] = h[k]
      BY <1>4
    <3> DEFINE x == f[k][<<what, d>>]
               y == h[k][<<what, d>>]
    <3>2. /\ Found(AfterAt(l, f, i), what, k, d) = IF x \in Room(l, k) THEN x ELSE 0
          /\ Found(AfterAt(l, h, i), what, k, d) = IF y \in Room(l, k) THEN y ELSE 0
      BY AfterAtIs
    <3>3. x = y
      BY <3>1
    <3> HIDE DEF x, y
    <3> QED BY <3>2, <3>3
  <2>2. Forward(l, AfterAt(l, h, i), i)
    BY AfterAtForward
  <2>3. ASSUME NEW w \in What \X Depths
        PROVE  BodyAt(l, AfterAt(l, f, i), w[1], i, w[2]) = BodyAt(l, AfterAt(l, h, i), w[1], i, w[2])
    <3>1. w[1] \in What /\ w[2] \in Depths
      OBVIOUS
    <3> QED BY <2>1, <2>2, <3>1, BodyForward
  <2> QED BY <2>3
<1>5. step \in Later(T, n)
  <2> HIDE DEF T, body, n
  <2> QED BY <1>3, <1>4 DEF Later
<1>6. PICK g : IsRun(g, T, n, step)
  <2> HIDE DEF T, step, n, base
  <2> QED BY <1>1, <1>5, BackwardExists, Zenon
<1>7. ASSUME NEW i \in 1..n PROVE g[i] = body(g, i)
  <2>1. g \in F /\ g[i] = step[i][g]
    BY <1>6 DEF IsRun
  <2> HIDE DEF body, F
  <2> QED BY <2>1
<1> DEFINE s == [at \in Places(l) |-> g[at[2]][<<at[1], at[3]>>]]
<1>8. ASSUME NEW what \in What, NEW i \in 1..n, NEW d \in Depths
      PROVE  /\ Found(s, what, i, d) = g[i][<<what, d>>]
             /\ g[i][<<what, d>>] = BodyAt(l, AfterAt(l, g, i), what, i, d)
             /\ g[i][<<what, d>>] \in Room(l, i)
  <2> DEFINE at == <<what, i, d>>
  <2>1. at \in Places(l) /\ at[1] = what /\ at[2] = i /\ at[3] = d
    BY PlaceIs
  <2>2. Found(s, what, i, d) = g[at[2]][<<at[1], at[3]>>]
    <3> HIDE DEF at
    <3>1. s[at] = g[at[2]][<<at[1], at[3]>>]
      BY <2>1
    <3> QED BY <3>1 DEF Found, at
  <2> DEFINE w == <<what, d>>
  <2>3. w \in What \X Depths /\ w[1] = what /\ w[2] = d
    OBVIOUS
  <2>4. body(g, i)[w] = BodyAt(l, AfterAt(l, g, i), w[1], i, w[2])
    <3> HIDE DEF w
    <3> QED BY <2>3
  <2>5. g[i][w] = BodyAt(l, AfterAt(l, g, i), what, i, d)
    <3> HIDE DEF w, body
    <3> QED BY <1>7, <2>3, <2>4
  <2> QED BY <1>2, <2>1, <2>2, <2>5
<1>9. ASSUME NEW i \in 1..n PROVE SameAfter(l, AfterAt(l, g, i), s, i) /\ Forward(l, s, i)
  <2> SUFFICES ASSUME NEW what \in What, NEW k \in (i + 1)..(Len(l) + 2), NEW d \in Depths
               PROVE  /\ Found(AfterAt(l, g, i), what, k, d) = Found(s, what, k, d)
                      /\ Found(s, what, k, d) \in Room(l, k)
    BY DEF SameAfter, Forward
  <2>1. k \in 1..n
    OBVIOUS
  <2>2. Found(AfterAt(l, g, i), what, k, d) = IF g[k][<<what, d>>] \in Room(l, k) THEN g[k][<<what, d>>] ELSE 0
    BY AfterAtIs
  <2>3. Found(s, what, k, d) = g[k][<<what, d>>] /\ g[k][<<what, d>>] \in Room(l, k)
    <3> HIDE DEF s, n
    <3> QED BY <1>8, <2>1, Zenon
  <2> HIDE DEF s
  <2> QED BY <2>2, <2>3
<1>10. ASSUME NEW what \in What, NEW i \in 1..n, NEW d \in Depths
       PROVE  Found(s, what, i, d) = BodyAt(l, s, what, i, d)
  <2> HIDE DEF s
  <2>1. SameAfter(l, AfterAt(l, g, i), s, i) /\ Forward(l, s, i)
    BY <1>9
  <2>2. BodyAt(l, AfterAt(l, g, i), what, i, d) = BodyAt(l, s, what, i, d)
    BY <2>1, BodyForward
  <2> QED BY <1>8, <2>2, Zenon
<1>11. ASSUME NEW what \in What, NEW i \in 1..n, NEW d \in Depths
       PROVE  Found(s, what, i, d) = ScanAt(l, s, <<what, i, d>>)
  <2> HIDE DEF s
  <2>1. "value" \in What
    BY DEF What
  <2>2. Found(s, "value", i, d) = IF i > Len(l) THEN 0 ELSE ValueAt(l, s, i, d)
    BY <1>10, <2>1, Zenon DEF BodyAt
  <2>3. Found(s, what, i, d) = BodyAt(l, s, what, i, d)
    BY <1>10, Zenon
  <2> QED BY <2>2, <2>3, ScanAtIs, Zenon DEF BodyAt
<1>12. s = [at \in Places(l) |-> ScanAt(l, s, at)]
  <2>1. ASSUME NEW at \in Places(l) PROVE s[at] = ScanAt(l, s, at)
    <3>1. at[1] \in What /\ at[2] \in 1..n /\ at[3] \in Depths /\ at = <<at[1], at[2], at[3]>>
      BY DEF Places
    <3> HIDE DEF s
    <3>2. s[<<at[1], at[2], at[3]>>] = ScanAt(l, s, <<at[1], at[2], at[3]>>)
      BY <1>11, <3>1, Zenon DEF Found
    <3> QED BY <3>1, <3>2, Zenon
  <2>2. s = [at \in Places(l) |-> s[at]]
    OBVIOUS
  <2> HIDE DEF s
  <2> QED BY <2>1, <2>2
<1> QED BY <1>12

\* Scan is one.
LEMMA ScanIs ==
    ASSUME NEW l \in Seq(Marks)
    PROVE  IsScan(l, Scan(l))
<1> DEFINE s == Scan(l)
           n == Len(l) + 2
<1>1. s = [at \in Places(l) |-> ScanAt(l, s, at)]
  <2>1. Scan(l) = CHOOSE q : q = [at \in Places(l) |-> ScanAt(l, q, at)]
    BY Zenon DEF Scan, ScanAt, Places, What, Depths
  <2> QED BY <2>1, ScanExists, Zenon
<1> HIDE DEF s
<1>2. ASSUME NEW what \in What, NEW i \in 1..n, NEW d \in Depths
      PROVE  Found(s, what, i, d) = ScanAt(l, s, <<what, i, d>>)
  <2>1. <<what, i, d>> \in Places(l)
    BY PlaceIs
  <2> QED BY <1>1, <2>1 DEF Found
<1>3. ASSUME NEW i \in 1..n, NEW d \in Depths
      PROVE  /\ Found(s, "value", i, d) = BodyAt(l, s, "value", i, d)
             /\ Found(s, "members", i, d) = BodyAt(l, s, "members", i, d)
             /\ Found(s, "elements", i, d) = BodyAt(l, s, "elements", i, d)
  <2>1. "value" \in What /\ "members" \in What /\ "elements" \in What
    BY DEF What
  <2>2. "value" # "members" /\ "elements" # "value" /\ "elements" # "members"
    OBVIOUS
  <2> DEFINE R(what) == IF i > Len(l) THEN 0
                        ELSE IF what = "value" THEN ValueAt(l, s, i, d)
                        ELSE IF what = "members" THEN MembersAt(l, s, i, d)
                        ELSE ElementsAt(l, s, Found(s, "value", i, d), d)
  <2>6. ASSUME NEW what \in What PROVE Found(s, what, i, d) = R(what)
    <3>1. Found(s, what, i, d) = ScanAt(l, s, <<what, i, d>>)
      BY <1>2
    <3>2. ScanAt(l, s, <<what, i, d>>) = R(what)
      BY ScanAtIs
    <3> HIDE DEF R
    <3> QED BY <3>1, <3>2
  <2>7. Found(s, "value", i, d) = R("value") /\ Found(s, "members", i, d) = R("members")
        /\ Found(s, "elements", i, d) = R("elements")
    <3> HIDE DEF R
    <3> QED BY <2>1, <2>6
  <2>3. Found(s, "value", i, d) = IF i > Len(l) THEN 0 ELSE ValueAt(l, s, i, d)
    BY <2>7
  <2>4. Found(s, "members", i, d) = IF i > Len(l) THEN 0 ELSE MembersAt(l, s, i, d)
    BY <2>2, <2>7
  <2>5. Found(s, "elements", i, d) = IF i > Len(l) THEN 0 ELSE ElementsAt(l, s, Found(s, "value", i, d), d)
    BY <2>2, <2>7
  <2> QED BY <2>2, <2>3, <2>4, <2>5, Zenon DEF BodyAt
<1>4. \A i \in 1..n : i \in {k \in 1..n : \A what \in What, d \in Depths : Found(s, what, k, d) \in Room(l, k)}
  <2> DEFINE S == {k \in 1..n : \A what \in What, d \in Depths : Found(s, what, k, d) \in Room(l, k)}
  <2>1. ASSUME NEW i \in 1..n, \A j \in (i + 1)..n : j \in S PROVE i \in S
    <3> SUFFICES ASSUME NEW what \in What, NEW d \in Depths PROVE Found(s, what, i, d) \in Room(l, i)
      OBVIOUS
    <3>1. Forward(l, s, i)
      BY <2>1 DEF Forward
    <3>2. SameAfter(l, s, s, i)
      BY DEF SameAfter
    <3> HIDE DEF S
    <3>3. BodyAt(l, s, what, i, d) \in Room(l, i)
      BY <3>1, <3>2, BodyForward
    <3>4. Found(s, what, i, d) = BodyAt(l, s, what, i, d)
      <4>1. what = "value" \/ what = "members" \/ what = "elements"
        BY DEF What
      <4> QED BY <1>3, <4>1
    <3> QED BY <3>3, <3>4
  <2>2. n \in Nat
    OBVIOUS
  <2> HIDE DEF S, n
  <2>3. \A i \in 1..n : i \in S
    BY <2>1, <2>2, FromTheEnd
  <2> QED BY <2>3 DEF S
<1>5. Forward(l, s, 0)
  BY <1>4 DEF Forward
<1>6. ASSUME NEW i \in 1..Len(l), NEW d \in Depths
      PROVE /\ Found(s, "value", i, d) = ValueAt(l, s, i, d)
            /\ Found(s, "members", i, d) = MembersAt(l, s, i, d)
            /\ Found(s, "elements", i, d) = ElementsAt(l, s, ValueAt(l, s, i, d), d)
  <2>1. i \in 1..n /\ ~(i > Len(l))
    OBVIOUS
  <2>2. "value" # "members" /\ "elements" # "value" /\ "elements" # "members"
    OBVIOUS
  <2> HIDE DEF n
  <2> QED BY <1>3, <2>1, <2>2, Zenon DEF BodyAt
<1> QED BY <1>5, <1>6, Zenon DEF IsScan, s

-----------------------------------------------------------------------------
(* The grammar exists: a part of a text is judged by shorter parts.            *)

\* A part is judged by the shorter ones.
LEMMA PartsAgree ==
    ASSUME NEW o \in Seq(Tokens), NEW a \in 1..(Len(o) + 1), NEW b \in 0..Len(o), NEW d \in Depths,
           NEW g, NEW h, AgreeBelow(o, g, h, b - a), NEW what \in What
    PROVE  PartIs(o, g, what, a, b, d) = PartIs(o, h, what, a, b, d)
<1> DEFINE N == Len(o)
<1>1. N \in Nat /\ Len(o) = N /\ a \in 1..(N + 1) /\ b \in 0..N
  OBVIOUS
<1> HIDE DEF N
<1>2. CASE b < a
  BY <1>2 DEF PartIs
<1>3. CASE ~(b < a)
  <2>1. a \in 1..b /\ b \in 1..N
    BY <1>1, <1>3
  <2>2. ASSUME NEW open, NEW kindOf \in What, NEW close
        PROVE  BracketIs(o, g, open, kindOf, close, a, b, d) = BracketIs(o, h, open, kindOf, close, a, b, d)
    <3>1. CASE b > a /\ d <= MaxDepth
      <4>1. d + 1 \in Depths
        BY <3>1, CodecAssumption DEF Depths
      <4>2. a + 1 \in 1..(Len(o) + 1) /\ b - 1 \in 0..Len(o) /\ (b - 1) - (a + 1) < b - a
        BY <1>1, <2>1, <3>1
      <4>3. Is(g, kindOf, a + 1, b - 1, d + 1) = Is(h, kindOf, a + 1, b - 1, d + 1)
        BY <4>1, <4>2 DEF AgreeBelow
      <4> QED BY <4>3, Zenon DEF BracketIs
    <3>2. CASE ~(b > a /\ d <= MaxDepth)
      BY <3>2, Zenon DEF BracketIs
    <3> QED BY <3>1, <3>2
  <2>3. ValueIs(o, g, a, b, d) = ValueIs(o, h, a, b, d)
    <3>1. "members" \in What /\ "elements" \in What
      BY DEF What
    <3> QED BY <2>2, <3>1, Zenon DEF ValueIs
  <2>4. ASSUME NEW kindOf \in What
        PROVE  SplitIs(o, g, kindOf, a, b, d) = SplitIs(o, h, kindOf, a, b, d)
    <3>1. ASSUME NEW m \in (a + 1)..(b - 1)
          PROVE  /\ Is(g, kindOf, a, m - 1, d) = Is(h, kindOf, a, m - 1, d)
                 /\ Is(g, kindOf, m + 1, b, d) = Is(h, kindOf, m + 1, b, d)
      <4>1. /\ a \in 1..(Len(o) + 1) /\ m - 1 \in 0..Len(o) /\ (m - 1) - a < b - a
            /\ m + 1 \in 1..(Len(o) + 1) /\ b \in 0..Len(o) /\ b - (m + 1) < b - a
        BY <1>1, <2>1
      <4> QED BY <4>1 DEF AgreeBelow
    <3> QED BY <3>1, Zenon DEF SplitIs
  <2>5. MembersIs(o, g, a, b, d) = MembersIs(o, h, a, b, d)
    <3>1. b > a + 1 => Is(g, "value", a + 2, b, d) = Is(h, "value", a + 2, b, d)
      <4> SUFFICES ASSUME b > a + 1 PROVE Is(g, "value", a + 2, b, d) = Is(h, "value", a + 2, b, d)
        OBVIOUS
      <4>1. a + 2 \in 1..(Len(o) + 1) /\ b - (a + 2) < b - a /\ "value" \in What
        BY <1>1, <2>1 DEF What
      <4> QED BY <4>1 DEF AgreeBelow
    <3>2. SplitIs(o, g, "members", a, b, d) = SplitIs(o, h, "members", a, b, d)
      BY <2>4 DEF What
    <3> QED BY <3>1, <3>2, Zenon DEF MembersIs
  <2>6. SplitIs(o, g, "elements", a, b, d) = SplitIs(o, h, "elements", a, b, d)
    BY <2>4 DEF What
  <2> QED BY <2>3, <2>5, <2>6, Zenon DEF PartIs, ElementsIs
<1> QED BY <1>2, <1>3

LEMMA PartBoolean ==
    ASSUME NEW o, NEW g, NEW what, NEW a, NEW b, NEW d
    PROVE  /\ ValueIs(o, g, a, b, d) \in BOOLEAN
           /\ PartIs(o, g, what, a, b, d) \in BOOLEAN
<1>1. ValueIs(o, g, a, b, d) \in BOOLEAN
  BY Zenon DEF ValueIs
<1>2. MembersIs(o, g, a, b, d) \in BOOLEAN
  BY Zenon DEF MembersIs
<1>3. ElementsIs(o, g, ValueIs(o, g, a, b, d), a, b, d) \in BOOLEAN
  BY Zenon DEF ElementsIs
<1> QED BY <1>1, <1>2, <1>3, Zenon DEF PartIs

LEMMA PartPlace ==
    ASSUME NEW o \in Seq(Tokens), NEW what \in What, NEW a \in 1..(Len(o) + 1), NEW b \in 0..Len(o),
           NEW d \in Depths
    PROVE  /\ <<what, a, b, d>> \in Parts(o)
           /\ <<what, a, b, d>>[1] = what /\ <<what, a, b, d>>[2] = a
           /\ <<what, a, b, d>>[3] = b /\ <<what, a, b, d>>[4] = d
  BY DEF Parts

LEMMA ShorterIs ==
    ASSUME NEW o \in Seq(Tokens), NEW f, NEW i, NEW what \in What, NEW a \in 1..(Len(o) + 1),
           NEW b \in 0..Len(o), NEW d \in Depths
    PROVE  Is(Shorter(o, f, i), what, a, b, d) =
             IF a <= b /\ Len(o) - (b - a) > i THEN f[Len(o) - (b - a)][<<what, a, d>>] ELSE FALSE
<1> DEFINE at == <<what, a, b, d>>
<1>1. at \in Parts(o) /\ at[1] = what /\ at[2] = a /\ at[3] = b /\ at[4] = d
  BY PartPlace
<1> HIDE DEF at
<1>2. Shorter(o, f, i)[at] =
        IF at[2] <= at[3] /\ Len(o) - (at[3] - at[2]) > i
        THEN f[Len(o) - (at[3] - at[2])][<<at[1], at[2], at[4]>>] ELSE FALSE
  BY <1>1 DEF Shorter
<1> QED BY <1>1, <1>2 DEF Is, at

\* The reference's form of a part is PartIs.
LEMMA GrammarAtIs ==
    ASSUME NEW o \in Seq(Tokens), NEW g, NEW what \in What, NEW a \in 1..(Len(o) + 1),
           NEW b \in 0..Len(o), NEW d \in Depths
    PROVE  GrammarAt(o, g, <<what, a, b, d>>) =
             IF b < a THEN FALSE
             ELSE IF what = "value" THEN ValueIs(o, g, a, b, d)
             ELSE IF what = "members" THEN MembersIs(o, g, a, b, d)
             ELSE ElementsIs(o, g, Is(g, "value", a, b, d), a, b, d)
<1> DEFINE at == <<what, a, b, d>>
<1>1. at[1] = what /\ at[2] = a /\ at[3] = b /\ at[4] = d
  BY PartPlace
<1> HIDE DEF at
<1>2. GrammarAt(o, g, at) =
        CASE at[3] < at[2] -> FALSE
          [] at[3] >= at[2] /\ at[1] = "value" -> ValueIs(o, g, at[2], at[3], at[4])
          [] at[3] >= at[2] /\ at[1] = "members" -> MembersIs(o, g, at[2], at[3], at[4])
          [] OTHER -> ElementsIs(o, g, Is(g, "value", at[2], at[3], at[4]), at[2], at[3], at[4])
  <2>1. ValueIs(o, g, at[2], at[3], at[4]) =
              (\/ at[2] = at[3] /\ o[at[2]] \in Str \cup {"n"}
              \/ /\ at[3] > at[2] /\ at[4] <= MaxDepth /\ o[at[2]] = "{" /\ o[at[3]] = "}"
                 /\ (at[3] = at[2] + 1 \/ g[<<"members", at[2] + 1, at[3] - 1, at[4] + 1>>])
              \/ /\ at[3] > at[2] /\ at[4] <= MaxDepth /\ o[at[2]] = "[" /\ o[at[3]] = "]"
                 /\ (at[3] = at[2] + 1 \/ g[<<"elements", at[2] + 1, at[3] - 1, at[4] + 1>>]))
    BY Zenon DEF ValueIs, BracketIs, Is
  <2>2. MembersIs(o, g, at[2], at[3], at[4]) =
              (\/ /\ at[3] > at[2] + 1 /\ o[at[2]] \in Str /\ o[at[2] + 1] = ":"
                 /\ g[<<"value", at[2] + 2, at[3], at[4]>>]
              \/ \E m \in (at[2] + 1)..(at[3] - 1) :
                  o[m] = "," /\ g[<<"members", at[2], m - 1, at[4]>>] /\ g[<<"members", m + 1, at[3], at[4]>>])
    BY Zenon DEF MembersIs, SplitIs, Is
  <2>3. ElementsIs(o, g, Is(g, "value", at[2], at[3], at[4]), at[2], at[3], at[4]) =
              (\/ g[<<"value", at[2], at[3], at[4]>>]
              \/ \E m \in (at[2] + 1)..(at[3] - 1) :
                  o[m] = "," /\ g[<<"elements", at[2], m - 1, at[4]>>] /\ g[<<"elements", m + 1, at[3], at[4]>>])
    BY Zenon DEF ElementsIs, SplitIs, Is
  <2> QED BY <2>1, <2>2, <2>3, Zenon DEF GrammarAt
<1>3. GrammarAt(o, g, at) =
        CASE b < a -> FALSE
          [] b >= a /\ what = "value" -> ValueIs(o, g, a, b, d)
          [] b >= a /\ what = "members" -> MembersIs(o, g, a, b, d)
          [] OTHER -> ElementsIs(o, g, Is(g, "value", a, b, d), a, b, d)
  BY <1>1, <1>2, Zenon
<1>4. GrammarAt(o, g, at) =
             IF b < a THEN FALSE
             ELSE IF what = "value" THEN ValueIs(o, g, a, b, d)
             ELSE IF what = "members" THEN MembersIs(o, g, a, b, d)
             ELSE ElementsIs(o, g, Is(g, "value", a, b, d), a, b, d)
  <2> DEFINE v == ValueIs(o, g, a, b, d)
             m == MembersIs(o, g, a, b, d)
             e == ElementsIs(o, g, Is(g, "value", a, b, d), a, b, d)
  <2>1. GrammarAt(o, g, at) =
        CASE b < a -> FALSE
          [] b >= a /\ what = "value" -> v
          [] b >= a /\ what = "members" -> m
          [] OTHER -> e
    BY <1>3
  <2>2. b < a <=> ~(b >= a)
    OBVIOUS
  <2>3. "value" # "members"
    OBVIOUS
  <2>4. GrammarAt(o, g, at) = IF b < a THEN FALSE ELSE IF what = "value" THEN v ELSE IF what = "members" THEN m ELSE e
    <3> HIDE DEF v, m, e, at
    <3> QED BY <2>1, <2>2, <2>3
  <2> QED BY <2>4
<1> QED BY <1>4 DEF at

\* A grammar exists, by recursion on the length of a part.
LEMMA GrammarExists ==
    ASSUME NEW o \in Seq(Tokens)
    PROVE  \E g : g = [at \in Parts(o) |-> GrammarAt(o, g, at)]
<1> DEFINE n == Len(o)
           W == What \X (1..(n + 1)) \X Depths
           T == [W -> BOOLEAN]
           F == [1..n -> T]
           body(f, i) == [w \in W |-> w[2] + (n - i) <= n /\ PartIs(o, Shorter(o, f, i), w[1], w[2], w[2] + (n - i), w[3])]
           step == [i \in 1..n |-> [f \in F |-> body(f, i)]]
           base == [w \in W |-> FALSE]
<1>1. n \in Nat /\ Len(o) = n /\ base \in T
  OBVIOUS
<1>2. ASSUME NEW i, NEW f PROVE body(f, i) \in T
  <2>1. ASSUME NEW w \in W
        PROVE  (w[2] + (n - i) <= n /\ PartIs(o, Shorter(o, f, i), w[1], w[2], w[2] + (n - i), w[3])) \in BOOLEAN
    OBVIOUS
  <2> HIDE DEF W
  <2> QED BY <2>1
<1>3. ASSUME NEW i \in 1..n, NEW f, NEW h, \A j \in (i + 1)..n : f[j] = h[j]
      PROVE  body(f, i) = body(h, i)
  <2> DEFINE sf == Shorter(o, f, i)
             sh == Shorter(o, h, i)
  <2>1. AgreeBelow(o, sf, sh, n - i)
    <3> SUFFICES ASSUME NEW what \in What, NEW a \in 1..(Len(o) + 1), NEW b \in 0..Len(o), NEW d \in Depths,
                        b - a < n - i
                 PROVE  Is(sf, what, a, b, d) = Is(sh, what, a, b, d)
      BY DEF AgreeBelow
    <3> DEFINE k == Len(o) - (b - a)
               x == f[k][<<what, a, d>>]
               y == h[k][<<what, a, d>>]
               no == FALSE
    <3>1. a <= b => k \in (i + 1)..n
      BY <1>1
    <3>2. a <= b => x = y
      BY <1>3, <3>1
    <3>3. /\ Is(sf, what, a, b, d) = IF a <= b /\ k > i THEN x ELSE no
          /\ Is(sh, what, a, b, d) = IF a <= b /\ k > i THEN y ELSE no
      BY ShorterIs
    <3> HIDE DEF x, y, sf, sh, k, no
    <3> QED BY <3>2, <3>3
  <2>2. ASSUME NEW w \in W
        PROVE (w[2] + (n - i) <= n /\ PartIs(o, sf, w[1], w[2], w[2] + (n - i), w[3]))
              = (w[2] + (n - i) <= n /\ PartIs(o, sh, w[1], w[2], w[2] + (n - i), w[3]))
    <3>1. w[1] \in What /\ w[2] \in 1..(Len(o) + 1) /\ w[3] \in Depths
      OBVIOUS
    <3> DEFINE a == w[2]
               b == w[2] + (n - i)
    <3>2. CASE b <= n
      <4>1. b \in 0..Len(o) /\ b - a = n - i
        BY <3>1, <3>2
      <4>2. AgreeBelow(o, sf, sh, b - a)
        <5> HIDE DEF sf, sh, a, b, n
        <5> QED BY <2>1, <4>1
      <4>3. PartIs(o, sf, w[1], a, b, w[3]) = PartIs(o, sh, w[1], a, b, w[3])
        <5>1. a \in 1..(Len(o) + 1)
          BY <3>1
        <5> HIDE DEF sf, sh, a, b
        <5> QED BY <3>1, <4>1, <4>2, <5>1, PartsAgree
      <4> QED BY <4>3, Zenon
    <3>3. CASE ~(b <= n)
      BY <3>3, Zenon
    <3> QED BY <3>2, <3>3
  <2> HIDE DEF W
  <2> QED BY <2>2
<1>4. step \in Later(T, n)
  <2> HIDE DEF T, body, n
  <2> QED BY <1>2, <1>3 DEF Later
<1>5. PICK g : IsRun(g, T, n, step)
  <2> HIDE DEF T, step, n, base
  <2> QED BY <1>1, <1>4, BackwardExists, Zenon
<1>6. ASSUME NEW i \in 1..n PROVE g[i] = body(g, i)
  <2>1. g \in F /\ g[i] = step[i][g]
    BY <1>5 DEF IsRun
  <2> HIDE DEF body, F
  <2> QED BY <2>1
<1> DEFINE s == Shorter(o, g, 0)
<1>7. ASSUME NEW what \in What, NEW a \in 1..(n + 1), NEW b \in 0..n, NEW d \in Depths
      PROVE  Is(s, what, a, b, d) = PartIs(o, s, what, a, b, d)
  <2> DEFINE k == n - (b - a)
             w == <<what, a, d>>
  <2>1. Is(s, what, a, b, d) = IF a <= b /\ k > 0 THEN g[k][w] ELSE FALSE
    BY <1>1, ShorterIs
  <2>2. CASE b < a
    <3>1. PartIs(o, s, what, a, b, d) = FALSE
      <4> HIDE DEF s
      <4> QED BY <2>2 DEF PartIs
    <3>2. ~(a <= b)
      BY <1>1, <2>2
    <3> HIDE DEF s, w, k
    <3> QED BY <2>1, <3>1, <3>2
  <2>3. CASE ~(b < a)
    <3>1. a <= b /\ k \in 1..n /\ k > 0 /\ a + (n - k) = b /\ b - a = n - k /\ b <= n
      BY <1>1, <2>3
    <3>2. w \in W /\ w[1] = what /\ w[2] = a /\ w[3] = d
      OBVIOUS
    <3>3. body(g, k)[w] = (w[2] + (n - k) <= n /\ PartIs(o, Shorter(o, g, k), w[1], w[2], w[2] + (n - k), w[3]))
      <4> HIDE DEF w, W, k
      <4> QED BY <3>2
    <3>4. g[k][w] = PartIs(o, Shorter(o, g, k), what, a, b, d)
      <4>1. g[k][w] = (b <= n /\ PartIs(o, Shorter(o, g, k), what, a, b, d))
        <5> HIDE DEF w, body, k, W, n
        <5> QED BY <1>6, <3>1, <3>2, <3>3
      <4>2. PartIs(o, Shorter(o, g, k), what, a, b, d) \in BOOLEAN
        BY PartBoolean
      <4> HIDE DEF w, k
      <4> QED BY <3>1, <4>1, <4>2, Zenon
    <3>5. AgreeBelow(o, Shorter(o, g, k), s, b - a)
      <4> SUFFICES ASSUME NEW what1 \in What, NEW a1 \in 1..(Len(o) + 1), NEW b1 \in 0..Len(o),
                          NEW d1 \in Depths, b1 - a1 < b - a
                   PROVE  Is(Shorter(o, g, k), what1, a1, b1, d1) = Is(s, what1, a1, b1, d1)
        BY DEF AgreeBelow
      <4> DEFINE k1 == Len(o) - (b1 - a1)
                 x == g[k1][<<what1, a1, d1>>]
      <4>1. k1 > k /\ k1 > 0
        BY <1>1, <3>1
      <4>2. /\ Is(Shorter(o, g, k), what1, a1, b1, d1) = IF a1 <= b1 /\ k1 > k THEN x ELSE FALSE
            /\ Is(s, what1, a1, b1, d1) = IF a1 <= b1 /\ k1 > 0 THEN x ELSE FALSE
        BY ShorterIs
      <4> HIDE DEF k1, x, k, s
      <4> QED BY <4>1, <4>2
    <3>6. PartIs(o, Shorter(o, g, k), what, a, b, d) = PartIs(o, s, what, a, b, d)
      <4>1. a \in 1..(Len(o) + 1) /\ b \in 0..Len(o)
        OBVIOUS
      <4> HIDE DEF s, k
      <4> QED BY <3>5, <4>1, PartsAgree
    <3> HIDE DEF s, w, k
    <3> QED BY <2>1, <3>1, <3>4, <3>6
  <2> QED BY <2>2, <2>3
<1>8. ASSUME NEW what \in What, NEW a \in 1..(n + 1), NEW b \in 0..n, NEW d \in Depths
      PROVE  Is(s, what, a, b, d) = GrammarAt(o, s, <<what, a, b, d>>)
  <2>0. "value" \in What
    BY DEF What
  <2> HIDE DEF s
  <2> DEFINE e == ElementsIs(o, s, Is(s, "value", a, b, d), a, b, d)
  <2>1. Is(s, "value", a, b, d) = IF b < a THEN FALSE ELSE ValueIs(o, s, a, b, d)
    BY <1>7, <2>0, Zenon DEF PartIs
  <2>2. Is(s, what, a, b, d) = PartIs(o, s, what, a, b, d)
    BY <1>7, Zenon
  <2>3. ~(b < a) => e = ElementsIs(o, s, ValueIs(o, s, a, b, d), a, b, d)
    BY <2>1, Zenon
  <2>4. GrammarAt(o, s, <<what, a, b, d>>) =
             IF b < a THEN FALSE
             ELSE IF what = "value" THEN ValueIs(o, s, a, b, d)
             ELSE IF what = "members" THEN MembersIs(o, s, a, b, d)
             ELSE e
    BY GrammarAtIs
  <2> DEFINE v == ValueIs(o, s, a, b, d)
             m == MembersIs(o, s, a, b, d)
             e1 == ElementsIs(o, s, ValueIs(o, s, a, b, d), a, b, d)
             no == FALSE
  <2>5. Is(s, what, a, b, d) = IF b < a THEN no ELSE IF what = "value" THEN v ELSE IF what = "members" THEN m ELSE e1
    BY <2>2, Zenon DEF PartIs
  <2>6. GrammarAt(o, s, <<what, a, b, d>>)
          = IF b < a THEN no ELSE IF what = "value" THEN v ELSE IF what = "members" THEN m ELSE e
    BY <2>4
  <2>7. ~(b < a) => e = e1
    BY <2>3
  <2> HIDE DEF e, e1, v, m, no
  <2> HIDE DEF s
  <2> QED BY <2>5, <2>6, <2>7
<1>9. s = [at \in Parts(o) |-> GrammarAt(o, s, at)]
  <2>1. ASSUME NEW at \in Parts(o) PROVE s[at] = GrammarAt(o, s, at)
    <3>1. /\ at[1] \in What /\ at[2] \in 1..(n + 1) /\ at[3] \in 0..n /\ at[4] \in Depths
          /\ at = <<at[1], at[2], at[3], at[4]>>
      BY DEF Parts
    <3> HIDE DEF s
    <3>2. s[<<at[1], at[2], at[3], at[4]>>] = GrammarAt(o, s, <<at[1], at[2], at[3], at[4]>>)
      BY <1>8, <3>1, Zenon DEF Is
    <3> QED BY <3>1, <3>2, Zenon
  <2>2. s = [at \in Parts(o) |-> s[at]]
    BY DEF Shorter
  <2> HIDE DEF s
  <2> QED BY <2>1, <2>2
<1> QED BY <1>9

\* Grammar is one.
LEMMA GrammarIs ==
    ASSUME NEW o \in Seq(Tokens)
    PROVE  IsGrammar(o, Grammar(o))
<1> DEFINE s == Grammar(o)
<1>1. s = [at \in Parts(o) |-> GrammarAt(o, s, at)]
  <2>1. s = CHOOSE q : q = [at \in Parts(o) |-> GrammarAt(o, q, at)]
    BY Zenon DEF Grammar, GrammarAt, Parts, What, Depths
  <2> QED BY <2>1, GrammarExists, Zenon
<1> HIDE DEF s
<1> SUFFICES ASSUME NEW what \in What, NEW a \in 1..(Len(o) + 1), NEW b \in 0..Len(o), NEW d \in Depths
             PROVE  Is(s, what, a, b, d) = PartIs(o, s, what, a, b, d)
  BY Zenon DEF IsGrammar, s
<1> DEFINE R(v) == IF b < a THEN FALSE
             ELSE IF v = "value" THEN ValueIs(o, s, a, b, d)
             ELSE IF v = "members" THEN MembersIs(o, s, a, b, d)
             ELSE ElementsIs(o, s, Is(s, "value", a, b, d), a, b, d)
<1>2. ASSUME NEW v \in What PROVE Is(s, v, a, b, d) = R(v)
  <2>1. <<v, a, b, d>> \in Parts(o)
    BY PartPlace
  <2>2. Is(s, v, a, b, d) = GrammarAt(o, s, <<v, a, b, d>>)
    BY <1>1, <2>1 DEF Is
  <2>3. GrammarAt(o, s, <<v, a, b, d>>) = R(v)
    BY GrammarAtIs
  <2> HIDE DEF R
  <2> QED BY <2>2, <2>3
<1>3. Is(s, "value", a, b, d) = IF b < a THEN FALSE ELSE ValueIs(o, s, a, b, d)
  <2>1. "value" \in What
    BY DEF What
  <2>2. Is(s, "value", a, b, d) = R("value")
    <3> HIDE DEF R
    <3> QED BY <1>2, <2>1
  <2> QED BY <2>2
<1>4. Is(s, what, a, b, d) = R(what)
  <2> HIDE DEF R
  <2> QED BY <1>2
<1> DEFINE e == ElementsIs(o, s, Is(s, "value", a, b, d), a, b, d)
<1>5. ~(b < a) => e = ElementsIs(o, s, ValueIs(o, s, a, b, d), a, b, d)
  BY <1>3, Zenon
<1>6. Is(s, what, a, b, d) = IF b < a THEN FALSE
             ELSE IF what = "value" THEN ValueIs(o, s, a, b, d)
             ELSE IF what = "members" THEN MembersIs(o, s, a, b, d)
             ELSE e
  BY <1>4
<1> HIDE DEF e
<1> QED BY <1>5, <1>6, Zenon DEF PartIs

-----------------------------------------------------------------------------
(* What the scanner does, told by the tokens.                                *)

LEMMA Placed ==
    ASSUME NEW l \in Seq(Marks), NEW o, NEW p, IsMap(l, o, p)
    PROVE  /\ Len(l) \in Nat /\ Len(o) \in Nat /\ o \in Seq(Tokens) /\ DOMAIN o = 1..Len(o)
           /\ \A i \in 1..(Len(l) + 1) : p[i] \in 0..Len(o)
           /\ p[1] = 0 /\ p[Len(l) + 1] = Len(o)
  BY DEF IsMap

\* The steps of the scanner, told by the tokens.
LEMMA OpenStep ==
    ASSUME NEW l, NEW o, NEW p, NEW s, ScanOf(l, o, p, s), NEW j \in 1..Len(l),
           NEW close \in Tokens, NEW what \in What, NEW d \in Depths
    PROVE  LET q == OpenAt(l, s, j, close, what, d)
               t == At(o, p[j + 1] + 1)
           IN  /\ d + 1 > MaxDepth => q = 0
               /\ d + 1 <= MaxDepth /\ t = close => EndsBy(l, p, j, q, p[j + 1] + 1)
               /\ d + 1 <= MaxDepth /\ t # close =>
                    \E k \in (j + 1)..(Len(l) + 1) : p[k] = p[j + 1] /\ q = Found(s, what, k, d + 1)
<1> DEFINE q == OpenAt(l, s, j, close, what, d)
           t == At(o, p[j + 1] + 1)
           k == Skip(l, j + 1)
           N == Len(l)
<1>1. l \in Seq(Marks) /\ IsMap(l, o, p)
  BY DEF ScanOf
<1>2. N \in Nat /\ Len(l) = N /\ j \in 1..N /\ j + 1 \in 1..(N + 1)
  BY <1>1
<1>3. NextIs(l, o, p, j + 1, k)
  BY <1>1, <1>2, SkipToNext
<1>4. close # "end"
  BY DEF Tokens
<1>5. MaxDepth \in Nat /\ d \in Nat
  BY CodecAssumption DEF Depths
<1> HIDE DEF k, N, t
<1>6. /\ k \in (j + 1)..(N + 1) /\ p[k] = p[j + 1] /\ At(l, k) = t
      /\ t # "end" => k \in 1..N /\ p[k + 1] = p[j + 1] + 1
  BY <1>2, <1>3 DEF NextIs, t
<1>7. q = IF d + 1 > MaxDepth THEN 0 ELSE IF t = close THEN k + 1 ELSE Found(s, what, k, d + 1)
  BY <1>6, Zenon DEF OpenAt, TooDeep, k
<1> HIDE DEF q
<1>8. CASE d + 1 > MaxDepth
  <2>1. q = 0 /\ ~(d + 1 <= MaxDepth)
    BY <1>5, <1>7, <1>8
  <2> QED BY <2>1 DEF q, t
<1>9. CASE ~(d + 1 > MaxDepth) /\ t = close
  <2>1. q = k + 1
    BY <1>7, <1>9
  <2>2. EndsBy(l, p, j, q, p[j + 1] + 1)
    BY <1>2, <1>4, <1>6, <1>9, <2>1 DEF EndsBy
  <2> QED BY <1>9, <2>2 DEF q, t
<1>10. CASE ~(d + 1 > MaxDepth) /\ t # close
  <2>1. q = Found(s, what, k, d + 1)
    BY <1>7, <1>10
  <2>2. k \in (j + 1)..(Len(l) + 1) /\ p[k] = p[j + 1]
    BY <1>2, <1>6
  <2> QED BY <1>10, <2>1, <2>2 DEF q, t
<1> QED BY <1>8, <1>9, <1>10

LEMMA RestStep ==
    ASSUME NEW l, NEW o, NEW p, NEW s, ScanOf(l, o, p, s), NEW w \in 1..(Len(l) + 1),
           NEW close \in Tokens, NEW more \in What, NEW d \in Depths
    PROVE  RestStepIs(l, o, p, s, w, close, more, d)
<1> USE DEF RestStepIs
<1> DEFINE q == RestAt(l, s, w, close, more, d)
           t == At(o, p[w] + 1)
           k == Skip(l, w)
           N == Len(l)
<1>1. l \in Seq(Marks) /\ IsMap(l, o, p)
  BY DEF ScanOf
<1>2. N \in Nat /\ Len(l) = N /\ w \in 1..(N + 1) /\ w # 0
  BY <1>1
<1>3. NextIs(l, o, p, w, k)
  BY <1>1, <1>2, SkipToNext
<1>4. close # "end"
  BY DEF Tokens
<1> HIDE DEF k, N, t
<1>6. /\ k \in w..(N + 1) /\ p[k] = p[w] /\ At(l, k) = t
      /\ t # "end" => k \in 1..N /\ p[k + 1] = p[w] + 1
  BY <1>2, <1>3 DEF NextIs, t
<1>7. q = IF t = close THEN k + 1 ELSE IF t = "," THEN Found(s, more, k + 1, d) ELSE 0
  BY <1>2, <1>6, Zenon DEF RestAt, k
<1> HIDE DEF q
<1>8. CASE t = close
  <2>1. q = k + 1
    BY <1>7, <1>8
  <2>2. EndsBy(l, p, w, q, p[w] + 1)
    BY <1>2, <1>4, <1>6, <1>8, <2>1 DEF EndsBy
  <2> QED BY <1>8, <2>2 DEF q, t
<1>9. CASE t # close /\ t = ","
  <2>1. q = Found(s, more, k + 1, d)
    BY <1>7, <1>9
  <2>2. t # "end"
    BY <1>9
  <2>3. k + 1 \in (w + 1)..(Len(l) + 1) /\ p[k + 1] = p[w] + 1
    BY <1>2, <1>6, <2>2
  <2> QED BY <1>9, <2>1, <2>3 DEF q, t
<1>10. CASE t # close /\ t # ","
  <2>1. q = 0
    BY <1>7, <1>10
  <2> QED BY <1>10, <2>1 DEF q, t
<1> QED BY <1>8, <1>9, <1>10

\* Nothing is found at the end of the line.
LEMMA NothingAtEnd ==
    ASSUME NEW l, NEW o, NEW p, NEW s, ScanOf(l, o, p, s), NEW what \in What, NEW d \in Depths
    PROVE  Found(s, what, Len(l) + 1, d) = 0 /\ At(o, p[Len(l) + 1] + 1) = "end"
<1>1. l \in Seq(Marks) /\ IsMap(l, o, p) /\ Forward(l, s, 0)
  BY DEF ScanOf, IsScan
<1>2. Len(l) + 1 \in (0 + 1)..(Len(l) + 2) /\ Len(l) \in Nat
  BY <1>1
<1>3. Found(s, what, Len(l) + 1, d) \in Room(l, Len(l) + 1)
  BY <1>1, <1>2 DEF Forward
<1>4. Found(s, what, Len(l) + 1, d) = 0
  BY <1>2, <1>3 DEF Room
<1>5. p[Len(l) + 1] = Len(o) /\ Len(o) \in Nat /\ DOMAIN o = 1..Len(o)
  BY <1>1, Placed
<1>6. At(o, p[Len(l) + 1] + 1) = "end"
  BY <1>5 DEF At
<1> QED BY <1>4, <1>6

LEMMA MembersStep ==
    ASSUME NEW l, NEW o, NEW p, NEW s, ScanOf(l, o, p, s), NEW i \in 1..(Len(l) + 1), NEW d \in Depths
    PROVE  MembersStepIs(l, o, p, s, i, d)
<1> USE DEF MembersStepIs
<1> DEFINE q == Found(s, "members", i, d)
           t == At(o, p[i] + 1)
           t2 == At(o, p[i] + 2)
           j == Skip(l, i)
           c == Skip(l, j + 1)
           N == Len(l)
<1>1. l \in Seq(Marks) /\ IsMap(l, o, p) /\ IsScan(l, s)
  BY DEF ScanOf
<1>2. N \in Nat /\ Len(l) = N /\ i \in 1..(N + 1) /\ p[i] \in Nat
  BY <1>1, Placed
<1>3. NextIs(l, o, p, i, j)
  BY <1>1, SkipToNext
<1>4. CASE i = N + 1
  <2>1. "members" \in What
    BY DEF What
  <2>2. q = 0 /\ t = "end"
    BY <1>4, <2>1, NothingAtEnd
  <2>3. "end" \notin Str
    BY DEF Str
  <2> QED BY <2>2, <2>3
<1>5. CASE i # N + 1
  <2>1. i \in 1..Len(l)
    BY <1>2, <1>5
  <2> HIDE DEF j, t, N
  <2>2. q = MembersAt(l, s, i, d)
    BY <1>1, <2>1 DEF IsScan
  <2>3. q = IF At(l, j) \in Str /\ At(l, c) = ":" THEN RestAt(l, s, Found(s, "value", c + 1, d), "}", "members", d) ELSE 0
    BY <2>2, Zenon DEF MembersAt, j
  <2> HIDE DEF q
  <2>4. /\ j \in i..(N + 1) /\ p[j] = p[i] /\ At(l, j) = t
        /\ t # "end" => j \in 1..N /\ p[j + 1] = p[i] + 1
    BY <1>2, <1>3 DEF NextIs, t
  <2>5. CASE t \in Str
    <3>1. t # "end"
      BY <2>5 DEF Str
    <3>2. NextIs(l, o, p, j + 1, c)
      <4>1. j + 1 \in 1..(Len(l) + 1)
        BY <1>2, <2>4, <3>1
      <4> QED BY <1>1, <4>1, SkipToNext
    <3>3. p[j + 1] + 1 = p[i] + 2
      BY <1>2, <2>4, <3>1
    <3> HIDE DEF c
    <3>4. /\ c \in (j + 1)..(N + 1) /\ At(l, c) = t2
          /\ t2 # "end" => c \in 1..N /\ p[c + 1] = p[i] + 2
      BY <1>2, <2>4, <3>1, <3>2, <3>3 DEF NextIs
    <3>5. CASE t2 = ":"
      <4>1. q = RestAt(l, s, Found(s, "value", c + 1, d), "}", "members", d)
        BY <2>3, <2>4, <2>5, <3>4, <3>5
      <4>2. c + 1 \in (i + 1)..(Len(l) + 1) /\ p[c + 1] = p[i] + 2
        BY <1>2, <2>4, <3>1, <3>4, <3>5
      <4> QED BY <2>5, <3>5, <4>1, <4>2 DEF q, t
    <3>6. CASE t2 # ":"
      <4>1. q = 0
        BY <2>3, <2>4, <3>4, <3>6
      <4> QED BY <3>6, <4>1 DEF q, t
    <3> QED BY <3>5, <3>6
  <2>6. CASE t \notin Str
    <3>1. q = 0
      BY <2>3, <2>4, <2>6
    <3> QED BY <2>6, <3>1 DEF q, t
  <2> QED BY <2>5, <2>6
<1> QED BY <1>4, <1>5

LEMMA ElementsStep ==
    ASSUME NEW l, NEW o, NEW p, NEW s, ScanOf(l, o, p, s), NEW i \in 1..(Len(l) + 1), NEW d \in Depths
    PROVE  Found(s, "elements", i, d) = RestAt(l, s, Found(s, "value", i, d), "]", "elements", d)
<1>1. l \in Seq(Marks) /\ IsScan(l, s)
  BY DEF ScanOf
<1>2. "elements" \in What /\ "value" \in What
  BY DEF What
<1>3. CASE i = Len(l) + 1
  <2>1. Found(s, "elements", i, d) = 0 /\ Found(s, "value", i, d) = 0
    BY <1>2, <1>3, NothingAtEnd
  <2> QED BY <2>1 DEF RestAt
<1>4. CASE i # Len(l) + 1
  <2>1. i \in 1..Len(l)
    BY <1>1, <1>4
  <2>2. Found(s, "value", i, d) = ValueAt(l, s, i, d) /\ Found(s, "elements", i, d) = ElementsAt(l, s, ValueAt(l, s, i, d), d)
    BY <1>1, <2>1 DEF IsScan
  <2> QED BY <2>2, Zenon DEF ElementsAt
<1> QED BY <1>3, <1>4

LEMMA ValueStep ==
    ASSUME NEW l, NEW o, NEW p, NEW s, ScanOf(l, o, p, s), NEW i \in 1..(Len(l) + 1), NEW d \in Depths
    PROVE  ValueStepIs(l, o, p, s, i, d)
<1> DEFINE q == Found(s, "value", i, d)
           t == At(o, p[i] + 1)
           t2 == At(o, p[i] + 2)
           j == Skip(l, i)
           N == Len(l)
<1>1. l \in Seq(Marks) /\ IsMap(l, o, p) /\ IsScan(l, s)
  BY DEF ScanOf
<1>2. N \in Nat /\ Len(l) = N /\ i \in 1..(N + 1) /\ p[i] \in Nat
  BY <1>1, Placed
<1>3. NextIs(l, o, p, i, j)
  BY <1>1, SkipToNext
<1>s. /\ "end" \notin Str /\ "n" \notin Str /\ "{" \notin Str /\ "[" \notin Str
      /\ "{" # "n" /\ "[" # "n" /\ "[" # "{"
  BY DEF Str
<1>4. CASE i = N + 1
  <2>1. "value" \in What
    BY DEF What
  <2>2. q = 0 /\ t = "end"
    BY <1>4, <2>1, NothingAtEnd
  <2> HIDE DEF q, t
  <2>3. t \notin Str /\ t # "n" /\ t # "{" /\ t # "["
    BY <2>2, <1>s
  <2> QED BY <2>2, <2>3, Zenon DEF ValueStepIs, OpensIs, q, t
<1>5. CASE i # N + 1
  <2>1. i \in 1..Len(l)
    BY <1>2, <1>5
  <2> HIDE DEF j, t, N
  <2>2. q = ValueAt(l, s, i, d)
    BY <1>1, <2>1 DEF IsScan
  <2>4. /\ j \in i..(N + 1) /\ p[j] = p[i] /\ At(l, j) = t
        /\ t # "end" => j \in 1..N /\ p[j + 1] = p[i] + 1
    BY <1>2, <1>3 DEF NextIs, t
  <2>3. q = IF t \in Str THEN j + 1
            ELSE IF t = "{" THEN OpenAt(l, s, j, "}", "members", d)
            ELSE IF t = "[" THEN OpenAt(l, s, j, "]", "elements", d) ELSE Literal(l, j)
    BY <2>2, <2>4, Zenon DEF ValueAt, j
  <2> HIDE DEF q
  <2>5. t # "end" => EndsBy(l, p, i, j + 1, p[i] + 1)
    BY <1>2, <2>4 DEF EndsBy
  <2>6. t # "end" => p[j + 1] + 1 = p[i] + 2
    BY <1>2, <2>4
  <2>7. CASE t \in Str
    <3>1. t # "n" /\ t # "{" /\ t # "[" /\ t # "end"
      BY <2>7, <1>s
    <3>2. q = j + 1
      BY <2>3, <2>7
    <3> QED BY <2>5, <2>7, <3>1, <3>2, Zenon DEF ValueStepIs, OpensIs, q, t
  <2>8. CASE t = "n"
    <3>1. q = Literal(l, j) /\ t \notin Str /\ t # "end"
      BY <2>3, <2>8, <1>s
    <3>2. q = IF At(l, j + 1) \in {",", "}", "]", "sp", "end"} THEN j + 1 ELSE 0
      BY <2>4, <2>8, <3>1, Zenon DEF Literal
    <3>3. q # 0 => EndsBy(l, p, i, q, p[i] + 1)
      BY <2>5, <3>1, <3>2
    <3>4. t2 \in Delims => q # 0
      <4> SUFFICES ASSUME t2 \in Delims PROVE q # 0
        OBVIOUS
      <4> DEFINE k == Skip(l, j + 1)
      <4>1. j \in 1..N /\ j + 1 \in 1..(Len(l) + 1) /\ j + 1 # 0
        BY <1>2, <2>4, <3>1
      <4>2. NextIs(l, o, p, j + 1, k)
        BY <1>1, <4>1, SkipToNext
      <4>3. SkipsTo(l, j + 1, k)
        BY <1>1, <4>1, SkipIs
      <4> HIDE DEF k
      <4>4. At(l, k) = t2
        BY <2>6, <3>1, <4>2 DEF NextIs
      <4>5. CASE k = j + 1
        <5>1. At(l, j + 1) \in {",", "}", "]", "sp", "end"}
          BY <4>4, <4>5 DEF Delims
        <5> QED BY <3>2, <4>1, <5>1
      <4>6. CASE k # j + 1
        <5>1. k \in (j + 1)..(N + 1) /\ \A m \in (j + 1)..(k - 1) : l[m] = "sp"
          BY <1>2, <4>3 DEF SkipsTo
        <5>2. j + 1 \in (j + 1)..(k - 1) /\ j + 1 \in 1..Len(l)
          BY <1>2, <4>1, <4>6, <5>1
        <5>3. l[j + 1] = "sp"
          BY <5>1, <5>2
        <5>4. At(l, j + 1) = l[j + 1]
          BY <1>1, <5>2 DEF At
        <5>5. At(l, j + 1) \in {",", "}", "]", "sp", "end"}
          BY <5>3, <5>4
        <5> QED BY <3>2, <4>1, <5>5
      <4> QED BY <4>5, <4>6
    <3> HIDE DEF t2
    <3>5. t # "{" /\ t # "["
      BY <2>8
    <3> QED BY <2>8, <3>1, <3>3, <3>4, <3>5, Zenon DEF ValueStepIs, OpensIs, q, t, t2
  <2>9. ASSUME t # "end", NEW what \in What, NEW close \in Tokens,
               q = OpenAt(l, s, j, close, what, d)
        PROVE  /\ d + 1 > MaxDepth => q = 0
               /\ d + 1 <= MaxDepth /\ t2 = close => EndsBy(l, p, i, q, p[i] + 2)
               /\ d + 1 <= MaxDepth /\ t2 # close =>
                 \E k \in (i + 1)..(Len(l) + 1) : p[k] = p[i] + 1 /\ q = Found(s, what, k, d + 1)
    <3>1. t # "end"
      BY <2>9
    <3>2. j \in 1..Len(l) /\ j \in i..N
      BY <1>2, <2>4, <3>1
    <3>3. p[j + 1] + 1 = p[i] + 2 /\ p[j + 1] = p[i] + 1
      BY <2>4, <2>6, <3>1
    <3> DEFINE q1 == OpenAt(l, s, j, close, what, d)
    <3>4. /\ d + 1 > MaxDepth => q1 = 0
          /\ d + 1 <= MaxDepth /\ At(o, p[j + 1] + 1) = close => EndsBy(l, p, j, q1, p[j + 1] + 1)
          /\ d + 1 <= MaxDepth /\ At(o, p[j + 1] + 1) # close =>
                    \E k \in (j + 1)..(Len(l) + 1) : p[k] = p[j + 1] /\ q1 = Found(s, what, k, d + 1)
      BY <3>2, OpenStep
    <3>5. q = q1
      BY <2>9
    <3> HIDE DEF q1
    <3>6. At(o, p[j + 1] + 1) = t2
      BY <3>3
    <3> HIDE DEF t2
    <3>7. d + 1 <= MaxDepth /\ t2 = close => EndsBy(l, p, i, q, p[i] + 2)
      <4> SUFFICES ASSUME d + 1 <= MaxDepth, t2 = close PROVE EndsBy(l, p, i, q, p[i] + 2)
        OBVIOUS
      <4>1. EndsBy(l, p, j, q, p[i] + 2)
        BY <3>3, <3>4, <3>5, <3>6
      <4> QED BY <1>2, <3>2, <4>1 DEF EndsBy
    <3>8. d + 1 <= MaxDepth /\ t2 # close =>
                 \E k \in (i + 1)..(Len(l) + 1) : p[k] = p[i] + 1 /\ q = Found(s, what, k, d + 1)
      <4> SUFFICES ASSUME d + 1 <= MaxDepth, t2 # close
                   PROVE  \E k \in (i + 1)..(Len(l) + 1) : p[k] = p[i] + 1 /\ q = Found(s, what, k, d + 1)
        OBVIOUS
      <4>1. PICK k \in (j + 1)..(Len(l) + 1) : p[k] = p[i] + 1 /\ q = Found(s, what, k, d + 1)
        BY <3>3, <3>4, <3>5, <3>6
      <4>2. k \in (i + 1)..(Len(l) + 1)
        BY <1>2, <3>2
      <4> QED BY <4>1, <4>2
    <3> QED BY <3>4, <3>5, <3>7, <3>8
  <2>10. CASE t = "{"
    <3>1. q = OpenAt(l, s, j, "}", "members", d)
      BY <2>3, <2>10, <1>s
    <3>2. "members" \in What /\ "}" \in Tokens
      BY DEF What, Tokens
    <3> HIDE DEF t2
    <3>5. t # "end"
      BY <2>10
    <3>3. /\ d + 1 > MaxDepth => q = 0
          /\ d + 1 <= MaxDepth /\ t2 = "}" => EndsBy(l, p, i, q, p[i] + 2)
          /\ d + 1 <= MaxDepth /\ t2 # "}" =>
               \E k \in (i + 1)..(Len(l) + 1) : p[k] = p[i] + 1 /\ q = Found(s, "members", k, d + 1)
      BY <2>9, <3>5, <3>1, <3>2, Zenon
    <3>4. t \notin Str /\ t # "n" /\ t # "["
      BY <2>10, <1>s
    <3> QED BY <2>10, <3>3, <3>4, Zenon DEF ValueStepIs, OpensIs, q, t, t2
  <2>11. CASE t = "["
    <3>1. q = OpenAt(l, s, j, "]", "elements", d)
      BY <2>3, <2>11, <1>s
    <3>2. "elements" \in What /\ "]" \in Tokens
      BY DEF What, Tokens
    <3> HIDE DEF t2
    <3>5. t # "end"
      BY <2>11
    <3>3. /\ d + 1 > MaxDepth => q = 0
          /\ d + 1 <= MaxDepth /\ t2 = "]" => EndsBy(l, p, i, q, p[i] + 2)
          /\ d + 1 <= MaxDepth /\ t2 # "]" =>
               \E k \in (i + 1)..(Len(l) + 1) : p[k] = p[i] + 1 /\ q = Found(s, "elements", k, d + 1)
      BY <2>9, <3>5, <3>1, <3>2, Zenon
    <3>4. t \notin Str /\ t # "n" /\ t # "{"
      BY <2>11, <1>s
    <3> QED BY <2>11, <3>3, <3>4, Zenon DEF ValueStepIs, OpensIs, q, t, t2
  <2>12. CASE t \notin Str \cup {"n", "{", "["}
    <3>0. t \notin Str /\ t # "n" /\ t # "{" /\ t # "["
      BY <2>12
    <3>1. q = Literal(l, j)
      BY <2>3, <3>0
    <3>2. q = 0
      BY <2>4, <3>0, <3>1, Zenon DEF Literal
    <3> QED BY <3>0, <3>2, Zenon DEF ValueStepIs, OpensIs, q, t
  <2> QED BY <2>7, <2>8, <2>10, <2>11, <2>12
<1> QED BY <1>4, <1>5

-----------------------------------------------------------------------------
(* What the scanner takes is a part of the grammar.                          *)

\* The grammar of a part, by the kind of the part.
LEMMA Unfold ==
    ASSUME NEW o, Len(o) \in Nat, NEW g, IsGrammar(o, g), NEW a \in 1..(Len(o) + 1), NEW b \in 0..Len(o),
           NEW d \in Depths
    PROVE  /\ b < a => \A what \in What : ~Is(g, what, a, b, d)
           /\ a <= b => /\ Is(g, "value", a, b, d) = ValueIs(o, g, a, b, d)
                        /\ Is(g, "members", a, b, d) = MembersIs(o, g, a, b, d)
                        /\ Is(g, "elements", a, b, d) = ElementsIs(o, g, Is(g, "value", a, b, d), a, b, d)
<1>1. \A what \in What : Is(g, what, a, b, d) = PartIs(o, g, what, a, b, d)
  BY DEF IsGrammar
<1>2. "value" \in What /\ "members" \in What /\ "elements" \in What
  BY DEF What
<1>3. "value" # "members" /\ "elements" # "value" /\ "elements" # "members"
  OBVIOUS
<1>4. CASE b < a
  <2>1. ASSUME NEW what \in What PROVE ~Is(g, what, a, b, d)
    BY <1>1, <1>4, Zenon DEF PartIs
  <2>2. ~(a <= b)
    BY <1>4
  <2> QED BY <2>1, <2>2
<1>5. CASE ~(b < a)
  <2>1. Is(g, "value", a, b, d) = ValueIs(o, g, a, b, d)
    BY <1>1, <1>2, <1>5, Zenon DEF PartIs
  <2>2. Is(g, "members", a, b, d) = MembersIs(o, g, a, b, d)
    BY <1>1, <1>2, <1>3, <1>5, Zenon DEF PartIs
  <2>3. Is(g, "elements", a, b, d) = ElementsIs(o, g, Is(g, "value", a, b, d), a, b, d)
    BY <1>1, <1>2, <1>3, <1>5, <2>1, Zenon DEF PartIs
  <2> QED BY <1>5, <2>1, <2>2, <2>3
<1> QED BY <1>4, <1>5

LEMMA Between ==
    ASSUME NEW N \in Nat, NEW a \in 1..N, NEW b \in 1..N, NEW m \in (a + 1)..(b - 1)
    PROVE  a \in 1..(N + 1) /\ b \in 0..N /\ a <= b
  OBVIOUS

LEMMA Within ==
    ASSUME NEW N \in Nat, NEW a \in 1..N, NEW b \in 1..N
    PROVE  a \in 1..(N + 1) /\ b \in 0..N
  OBVIOUS

\* Two lists with a comma between them are a list.
LEMMA Join ==
    ASSUME NEW o, Len(o) \in Nat, NEW g, IsGrammar(o, g), NEW a \in 1..Len(o), NEW b \in 1..Len(o),
           NEW m \in (a + 1)..(b - 1), o[m] = ",", NEW d \in Depths,
           NEW what \in Lists, Is(g, what, a, m - 1, d), Is(g, what, m + 1, b, d)
    PROVE  Is(g, what, a, b, d)
<1>1. a \in 1..(Len(o) + 1) /\ b \in 0..Len(o) /\ a <= b
  BY Between
<1>2. SplitIs(o, g, what, a, b, d)
  BY Zenon DEF SplitIs
<1>3. CASE what = "members"
  BY <1>1, <1>2, <1>3, Unfold, Zenon DEF MembersIs
<1>4. CASE what = "elements"
  BY <1>1, <1>2, <1>4, Unfold, Zenon DEF ElementsIs
<1> QED BY <1>3, <1>4 DEF Lists

LEMMA AtIs ==
    ASSUME NEW o, DOMAIN o = 1..Len(o), NEW i, NEW t, At(o, i) = t, t # "end"
    PROVE  i \in 1..Len(o) /\ o[i] = t
  BY DEF At

\* Soundness, from that of the positions further on.
LEMMA RestSound ==
    ASSUME NEW l, NEW o, NEW p, NEW s, NEW g, ScanOf(l, o, p, s), IsGrammar(o, g),
           NEW w \in 1..(Len(l) + 1), NEW what \in Lists, NEW close \in Tokens,
           NEW d \in 0..MaxDepth, NEW a \in 1..p[w], Is(g, what, a, p[w], d + 1),
           \A k \in (w + 1)..(Len(l) + 1) : ListSound(l, o, p, s, g, what, close, k, d),
           RestAt(l, s, w, close, what, d) # 0
    PROVE  ListEnds(l, o, p, g, what, close, w, a, d, RestAt(l, s, w, close, what, d))
<1> DEFINE q == RestAt(l, s, w, close, what, d)
           t == At(o, p[w] + 1)
           N == Len(l)
           M == Len(o)
<1>1. /\ N \in Nat /\ Len(l) = N /\ M \in Nat /\ Len(o) = M /\ DOMAIN o = 1..M
      /\ \A i \in 1..(N + 1) : p[i] \in 0..M
  BY Placed DEF ScanOf
<1>2. d \in Depths /\ d + 1 \in Depths /\ what \in What
  BY CodecAssumption DEF Depths, What, Lists
<1>3. /\ t = close => EndsBy(l, p, w, q, p[w] + 1)
      /\ t # close /\ t = "," =>
             \E k \in (w + 1)..(Len(l) + 1) : p[k] = p[w] + 1 /\ q = Found(s, what, k, d)
      /\ t # close /\ t # "," => q = 0
  <2>1. RestStepIs(l, o, p, s, w, close, what, d)
    BY <1>2, RestStep
  <2> QED BY <2>1, Zenon DEF RestStepIs
<1>4. close # "end"
  BY DEF Tokens
<1>5. p[w] \in 0..M /\ a \in 1..p[w] /\ a \in 1..M
  BY <1>1
<1> HIDE DEF q, N, M
<1>6. q # 0
  BY DEF q
<1>7. CASE t = close
  <2>1. q \in (w + 1)..(N + 1) /\ p[q] = p[w] + 1
    BY <1>1, <1>3, <1>7 DEF EndsBy
  <2>2. o[p[q]] = close
    BY <1>1, <1>4, <1>7, <2>1, AtIs
  <2>3. p[q] >= a + 1 /\ p[q] - 1 = p[w]
    BY <1>5, <2>1
  <2> QED BY <1>1, <2>1, <2>2, <2>3 DEF ListEnds, q
<1>8. CASE t # close
  <2>1. t = ","
    BY <1>3, <1>6, <1>8
  <2>2. PICK k \in (w + 1)..(N + 1) : p[k] = p[w] + 1 /\ q = Found(s, what, k, d)
    BY <1>1, <1>3, <1>8, <2>1
  <2>3. ListEnds(l, o, p, g, what, close, k, p[k] + 1, d, q)
    BY <1>1, <1>6, <2>2 DEF ListSound
  <2>4. /\ q \in (k + 1)..(N + 1) /\ p[q] >= p[k] + 2 /\ o[p[q]] = close
        /\ Is(g, what, p[k] + 1, p[q] - 1, d + 1)
    BY <1>1, <1>5, <2>2, <2>3 DEF ListEnds
  <2> DEFINE m == p[w] + 1
             b == p[q] - 1
  <2>5. q \in 1..(N + 1) /\ q \in (w + 1)..(N + 1)
    BY <1>1, <2>2, <2>4
  <2>6. p[q] \in 0..M
    BY <1>1, <2>5
  <2>7. /\ b \in 1..M /\ m \in (a + 1)..(b - 1) /\ m - 1 = p[w] /\ m + 1 = p[k] + 1
        /\ p[q] >= a + 1
    <3> DEFINE x == p[w]
               y == p[k]
               z == p[q]
    <3>1. M \in Nat /\ x \in 0..M /\ a \in 1..x /\ y = x + 1 /\ z \in 0..M /\ z >= y + 2
      BY <1>1, <1>5, <2>2, <2>4, <2>6
    <3> HIDE DEF x, y, z
    <3>2. z - 1 \in 1..M /\ x + 1 \in (a + 1)..((z - 1) - 1) /\ (x + 1) - 1 = x /\ (x + 1) + 1 = y + 1 /\ z >= a + 1
      BY <3>1
    <3> QED BY <3>2 DEF x, y, z
  <2>8. o[m] = ","
    BY <1>1, <2>1, AtIs
  <2>9. Is(g, what, a, m - 1, d + 1) /\ Is(g, what, m + 1, b, d + 1)
    BY <2>4, <2>7
  <2> HIDE DEF m, b
  <2>10. Is(g, what, a, b, d + 1)
    BY <1>1, <1>2, <1>5, <2>7, <2>8, <2>9, Join
  <2> QED BY <1>1, <2>4, <2>5, <2>7, <2>10 DEF ListEnds, q, b
<1> QED BY <1>7, <1>8

LEMMA SingleIs ==
    ASSUME NEW o, Len(o) \in Nat, NEW g, IsGrammar(o, g), NEW a \in 1..Len(o), NEW d \in Depths,
           o[a] \in Str \cup {"n"}
    PROVE  Is(g, "value", a, a, d)
<1>1. a \in 1..(Len(o) + 1) /\ a \in 0..Len(o) /\ a <= a
  OBVIOUS
<1>2. ValueIs(o, g, a, a, d)
  BY Zenon DEF ValueIs
<1> QED BY <1>1, <1>2, Unfold, Zenon

LEMMA EnclosedIs ==
    ASSUME NEW o, Len(o) \in Nat, NEW g, IsGrammar(o, g), NEW a \in 1..Len(o), NEW b \in 1..Len(o), a <= b,
           NEW d \in Depths,
           BracketIs(o, g, "{", "members", "}", a, b, d) \/ BracketIs(o, g, "[", "elements", "]", a, b, d)
    PROVE  Is(g, "value", a, b, d)
<1>1. a \in 1..(Len(o) + 1) /\ b \in 0..Len(o)
  BY Within, Zenon
<1>2. ValueIs(o, g, a, b, d)
  BY Zenon DEF ValueIs
<1> QED BY <1>1, <1>2, Unfold, Zenon

LEMMA OpenSound ==
    ASSUME NEW l, NEW o, NEW p, NEW s, NEW g, ScanOf(l, o, p, s),
           NEW i \in 1..(Len(l) + 1), NEW d \in 0..MaxDepth, NEW open \in Tokens, NEW what \in Lists, NEW close \in Tokens,
           At(o, p[i] + 1) = open, OpensIs(l, o, p, s, what, close, i, d),
           \A k \in (i + 1)..(Len(l) + 1), e \in 0..MaxDepth : ListSound(l, o, p, s, g, what, close, k, e),
           Found(s, "value", i, d) # 0
    PROVE  LET q == Found(s, "value", i, d) IN
           /\ q \in (i + 1)..(Len(l) + 1) /\ p[q] > p[i] + 1 /\ p[i] + 1 \in 1..Len(o)
           /\ p[q] \in 1..Len(o)
           /\ BracketIs(o, g, open, what, close, p[i] + 1, p[q], d + 1)
<1> DEFINE q == Found(s, "value", i, d)
           a == p[i] + 1
           t2 == At(o, p[i] + 2)
           N == Len(l)
           M == Len(o)
<1>1. /\ N \in Nat /\ Len(l) = N /\ M \in Nat /\ Len(o) = M /\ DOMAIN o = 1..M
      /\ \A k \in 1..(N + 1) : p[k] \in 0..M
  BY Placed DEF ScanOf
<1>2. open # "end" /\ close # "end"
  BY DEF Tokens
<1>3. a \in 1..M /\ o[a] = open
  BY <1>1, <1>2, AtIs
<1>4. MaxDepth \in Nat
  BY CodecAssumption
<1> HIDE DEF N, M, q, t2, a
<1>5. q # 0
  BY DEF q
<1>6. p[i] \in Nat /\ a = p[i] + 1 /\ p[i] + 2 = a + 1
  BY <1>1 DEF a
<1>7. /\ d + 1 > MaxDepth => q = 0
      /\ d + 1 <= MaxDepth /\ t2 = close => EndsBy(l, p, i, q, p[i] + 2)
      /\ d + 1 <= MaxDepth /\ t2 # close =>
           \E k \in (i + 1)..(Len(l) + 1) : p[k] = p[i] + 1 /\ q = Found(s, what, k, d + 1)
  BY Zenon DEF OpensIs, q, t2
<1>8. d + 1 <= MaxDepth /\ d + 1 \in 0..MaxDepth
  BY <1>4, <1>5, <1>7
<1>9. /\ q \in (i + 1)..(N + 1) /\ p[q] > a /\ o[p[q]] = close
      /\ p[q] = a + 1 \/ Is(g, what, a + 1, p[q] - 1, (d + 1) + 1)
  <2>1. CASE t2 = close
    <3>1. q \in (i + 1)..(N + 1) /\ p[q] = a + 1
      BY <1>1, <1>6, <1>7, <1>8, <2>1 DEF EndsBy
    <3>2. o[a + 1] = close
      BY <1>1, <1>2, <1>6, <2>1, AtIs DEF t2
    <3> QED BY <1>3, <3>1, <3>2
  <2>2. CASE t2 # close
    <3>1. PICK k \in (i + 1)..(N + 1) : p[k] = a /\ q = Found(s, what, k, d + 1)
      BY <1>1, <1>6, <1>7, <1>8, <2>2
    <3>2. ListSound(l, o, p, s, g, what, close, k, d + 1)
      BY <1>1, <1>8, <3>1
    <3>3. ListEnds(l, o, p, g, what, close, k, a + 1, d + 1, q)
      BY <1>5, <3>1, <3>2 DEF ListSound
    <3>4. q \in (k + 1)..(N + 1) /\ p[q] >= (a + 1) + 1 /\ o[p[q]] = close
          /\ Is(g, what, a + 1, p[q] - 1, (d + 1) + 1)
      BY <1>1, <3>3 DEF ListEnds
    <3>5. q \in (i + 1)..(N + 1)
      BY <1>1, <3>1, <3>4
    <3>6. p[q] > a
      BY <1>1, <1>3, <3>4, <3>5
    <3> QED BY <3>4, <3>5, <3>6
  <2> QED BY <2>1, <2>2
<1>10. BracketIs(o, g, open, what, close, a, p[q], d + 1)
  BY <1>3, <1>8, <1>9 DEF BracketIs
<1>11. p[q] \in 1..M
  BY <1>1, <1>3, <1>9
<1> QED BY <1>1, <1>3, <1>6, <1>9, <1>10, <1>11 DEF q, a

LEMMA ValueIsSound ==
    ASSUME NEW l, NEW o, NEW p, NEW s, NEW g, ScanOf(l, o, p, s), IsGrammar(o, g),
           NEW i \in 1..(Len(l) + 1), NEW d \in 0..MaxDepth,
           \A k \in (i + 1)..(Len(l) + 1), e \in 0..MaxDepth : SoundAt(l, o, p, s, g, k, e)
    PROVE  ValueSound(l, p, s, g, i, d)
<1> DEFINE q == Found(s, "value", i, d)
           t == At(o, p[i] + 1)
           N == Len(l)
           M == Len(o)
           a == p[i] + 1
<1>1. /\ N \in Nat /\ Len(l) = N /\ M \in Nat /\ Len(o) = M /\ DOMAIN o = 1..M
      /\ \A k \in 1..(N + 1) : p[k] \in 0..M
  BY Placed DEF ScanOf
<1>2. d \in Depths /\ d + 1 \in Depths
  BY CodecAssumption DEF Depths
<1>3. ValueStepIs(l, o, p, s, i, d)
  BY <1>2, ValueStep
<1> SUFFICES ASSUME q # 0
             PROVE  q \in (i + 1)..(N + 1) /\ p[q] >= a /\ Is(g, "value", a, p[q], d + 1)
  BY DEF ValueSound
<1> HIDE DEF q, N, M, t
<1>4. t \in Str \cup {"n", "{", "["}
  BY <1>3, Zenon DEF ValueStepIs, q, t
<1>5. CASE t \in Str \cup {"n"}
  <2>1. EndsBy(l, p, i, q, a)
    BY <1>3, <1>5, Zenon DEF ValueStepIs, q, t
  <2>2. q \in (i + 1)..(N + 1) /\ p[q] = a
    BY <1>1, <2>1 DEF EndsBy
  <2>3. t # "end"
    BY <1>5 DEF Str
  <2>4. a \in 1..M /\ o[a] = t
    BY <1>1, <2>3, AtIs DEF t
  <2> HIDE DEF a
  <2>5. Is(g, "value", a, a, d + 1)
    BY <1>1, <1>2, <1>5, <2>4, SingleIs
  <2> QED BY <1>1, <2>2, <2>4, <2>5
<1>6. ASSUME NEW open \in Tokens, NEW what \in Lists, NEW close \in Tokens,
             t = open, OpensIs(l, o, p, s, what, close, i, d),
             \A k \in (i + 1)..(Len(l) + 1), e \in 0..MaxDepth : ListSound(l, o, p, s, g, what, close, k, e)
      PROVE  /\ q \in (i + 1)..(N + 1) /\ a < p[q] /\ a <= p[q] /\ a \in 1..M /\ p[q] \in 1..M
             /\ BracketIs(o, g, open, what, close, a, p[q], d + 1)
  <2>1. LET r == Found(s, "value", i, d) IN
           /\ r \in (i + 1)..(Len(l) + 1) /\ p[r] > p[i] + 1 /\ p[i] + 1 \in 1..Len(o)
           /\ p[r] \in 1..Len(o)
           /\ BracketIs(o, g, open, what, close, p[i] + 1, p[r], d + 1)
    BY <1>6, OpenSound DEF q, t
  <2>2. /\ q \in (i + 1)..(N + 1) /\ p[q] > a /\ a \in 1..M /\ p[q] \in 1..M
        /\ BracketIs(o, g, open, what, close, a, p[q], d + 1)
    BY <1>1, <2>1 DEF q
  <2> HIDE DEF a
  <2> QED BY <1>1, <2>2
<1>7. CASE t = "{"
  <2>1. "{" \in Tokens /\ "members" \in Lists /\ "}" \in Tokens
    BY DEF Tokens, Lists
  <2>2. OpensIs(l, o, p, s, "members", "}", i, d)
    BY <1>3, <1>7, Zenon DEF ValueStepIs, t
  <2>3. \A k \in (i + 1)..(Len(l) + 1), e \in 0..MaxDepth : ListSound(l, o, p, s, g, "members", "}", k, e)
    BY Zenon DEF SoundAt
  <2>4. /\ q \in (i + 1)..(N + 1) /\ a < p[q] /\ a <= p[q] /\ a \in 1..M /\ p[q] \in 1..M
        /\ BracketIs(o, g, "{", "members", "}", a, p[q], d + 1)
    BY <1>6, <1>7, <2>1, <2>2, <2>3, Zenon
  <2> HIDE DEF a
  <2>5. Is(g, "value", a, p[q], d + 1)
    BY <1>1, <1>2, <2>4, EnclosedIs, Zenon
  <2> QED BY <1>1, <2>4, <2>5
<1>8. CASE t = "["
  <2>1. "[" \in Tokens /\ "elements" \in Lists /\ "]" \in Tokens
    BY DEF Tokens, Lists
  <2>2. OpensIs(l, o, p, s, "elements", "]", i, d)
    BY <1>3, <1>8, Zenon DEF ValueStepIs, t
  <2>3. \A k \in (i + 1)..(Len(l) + 1), e \in 0..MaxDepth : ListSound(l, o, p, s, g, "elements", "]", k, e)
    BY Zenon DEF SoundAt
  <2>4. /\ q \in (i + 1)..(N + 1) /\ a < p[q] /\ a <= p[q] /\ a \in 1..M /\ p[q] \in 1..M
        /\ BracketIs(o, g, "[", "elements", "]", a, p[q], d + 1)
    BY <1>6, <1>8, <2>1, <2>2, <2>3, Zenon
  <2> HIDE DEF a
  <2>5. Is(g, "value", a, p[q], d + 1)
    BY <1>1, <1>2, <2>4, EnclosedIs, Zenon
  <2> QED BY <1>1, <2>4, <2>5
<1> QED BY <1>4, <1>5, <1>7, <1>8

LEMMA ElementsAreSound ==
    ASSUME NEW l, NEW o, NEW p, NEW s, NEW g, ScanOf(l, o, p, s), IsGrammar(o, g),
           NEW i \in 1..(Len(l) + 1), NEW d \in 0..MaxDepth, ValueSound(l, p, s, g, i, d),
           \A k \in (i + 1)..(Len(l) + 1), e \in 0..MaxDepth : SoundAt(l, o, p, s, g, k, e)
    PROVE  ListSound(l, o, p, s, g, "elements", "]", i, d)
<1> DEFINE q == Found(s, "elements", i, d)
           w == Found(s, "value", i, d)
           a == p[i] + 1
           N == Len(l)
           M == Len(o)
<1>1. /\ N \in Nat /\ Len(l) = N /\ M \in Nat /\ Len(o) = M
      /\ \A k \in 1..(N + 1) : p[k] \in 0..M
  BY Placed DEF ScanOf
<1>2. d \in Depths /\ d + 1 \in Depths /\ "]" \in Tokens /\ "elements" \in Lists
  BY CodecAssumption DEF Depths, Tokens, Lists
<1>3. q = RestAt(l, s, w, "]", "elements", d)
  BY <1>2, ElementsStep, Zenon
<1> SUFFICES ASSUME q # 0 PROVE ListEnds(l, o, p, g, "elements", "]", i, a, d, q)
  BY DEF ListSound
<1> HIDE DEF q, w, N, M
<1>4. w # 0
  BY <1>3, Zenon DEF RestAt
<1>5. w \in (i + 1)..(N + 1) /\ p[w] >= a /\ Is(g, "value", a, p[w], d + 1)
  BY <1>1, <1>4, Zenon DEF ValueSound, w
<1>6. /\ w \in 1..(N + 1) /\ p[w] \in 0..M /\ a \in 1..p[w] /\ a \in 1..(M + 1) /\ a <= p[w]
      /\ \A k \in (w + 1)..(N + 1) : k \in (i + 1)..(N + 1)
  BY <1>1, <1>5
<1> HIDE DEF a
<1>7. Is(g, "elements", a, p[w], d + 1)
  BY <1>1, <1>2, <1>5, <1>6, Unfold, Zenon DEF ElementsIs
<1>8. \A k \in (w + 1)..(N + 1) : ListSound(l, o, p, s, g, "elements", "]", k, d)
  BY <1>1, <1>6, Zenon DEF SoundAt
<1>9. ListEnds(l, o, p, g, "elements", "]", w, a, d, q)
  BY <1>1, <1>2, <1>3, <1>6, <1>7, <1>8, RestSound, Zenon
<1>10. q \in (i + 1)..(N + 1)
  <2>1. q \in (w + 1)..(N + 1)
    BY <1>1, <1>9, Zenon DEF ListEnds
  <2> QED BY <1>1, <1>5, <2>1
<1> QED BY <1>1, <1>9, <1>10, Zenon DEF ListEnds

LEMMA MembersAreSound ==
    ASSUME NEW l, NEW o, NEW p, NEW s, NEW g, ScanOf(l, o, p, s), IsGrammar(o, g),
           NEW i \in 1..(Len(l) + 1), NEW d \in 0..MaxDepth,
           \A k \in (i + 1)..(Len(l) + 1), e \in 0..MaxDepth : SoundAt(l, o, p, s, g, k, e)
    PROVE  ListSound(l, o, p, s, g, "members", "}", i, d)
<1> DEFINE q == Found(s, "members", i, d)
           t == At(o, p[i] + 1)
           t2 == At(o, p[i] + 2)
           a == p[i] + 1
           N == Len(l)
           M == Len(o)
<1>1. /\ N \in Nat /\ Len(l) = N /\ M \in Nat /\ Len(o) = M /\ DOMAIN o = 1..M
      /\ \A k \in 1..(N + 1) : p[k] \in 0..M
  BY Placed DEF ScanOf
<1>2. d \in Depths /\ d + 1 \in Depths /\ "}" \in Tokens /\ "members" \in Lists
  BY CodecAssumption DEF Depths, Tokens, Lists
<1>3. MembersStepIs(l, o, p, s, i, d)
  BY <1>2, MembersStep, Zenon
<1> SUFFICES ASSUME q # 0 PROVE ListEnds(l, o, p, g, "members", "}", i, a, d, q)
  BY DEF ListSound
<1> HIDE DEF q, N, M, t, t2
<1>4. t \in Str /\ t2 = ":"
  BY <1>3, Zenon DEF MembersStepIs, q, t, t2
<1>5. PICK c \in (i + 1)..(N + 1) : p[c] = p[i] + 2 /\ q = RestAt(l, s, Found(s, "value", c, d), "}", "members", d)
  BY <1>1, <1>3, <1>4, Zenon DEF MembersStepIs, q, t, t2
<1> DEFINE w == Found(s, "value", c, d)
<1> HIDE DEF w
<1>6. q = RestAt(l, s, w, "}", "members", d)
  BY <1>5 DEF w
<1>p. p[c] = p[i] + 2
  BY <1>5, Zenon
<1>7. w # 0
  BY <1>6, Zenon DEF RestAt
<1>8. w \in (c + 1)..(N + 1) /\ p[w] >= p[c] + 1 /\ Is(g, "value", p[c] + 1, p[w], d + 1)
  BY <1>1, <1>5, <1>7, Zenon DEF ValueSound, SoundAt, w
<1>9. a \in 1..M /\ o[a] = t /\ a + 1 \in 1..M /\ o[a + 1] = ":" /\ p[c] + 1 = a + 2
  <2>1. t # "end"
    BY <1>4 DEF Str
  <2>2. a \in 1..M /\ o[a] = t
    BY <1>1, <2>1, AtIs DEF t
  <2>3. p[i] + 2 = a + 1 /\ p[c] + 1 = a + 2
    BY <1>1, <1>p
  <2>4. p[i] + 2 \in 1..M /\ o[p[i] + 2] = ":"
    BY <1>1, <1>4, AtIs DEF t2
  <2> QED BY <2>2, <2>3, <2>4
<1> HIDE DEF a
<1>10. /\ w \in 1..(N + 1) /\ p[w] \in 0..M /\ p[w] > a + 1 /\ a \in 1..p[w] /\ a \in 1..(M + 1) /\ a <= p[w]
       /\ \A k \in (w + 1)..(N + 1) : k \in (i + 1)..(N + 1)
  <2>1. w \in 1..(N + 1) /\ \A k \in (w + 1)..(N + 1) : k \in (i + 1)..(N + 1)
    BY <1>1, <1>8
  <2>2. p[w] \in 0..M
    BY <1>1, <2>1
  <2> QED BY <1>1, <1>8, <1>9, <2>1, <2>2
<1>11. Is(g, "members", a, p[w], d + 1)
  <2>1. MembersIs(o, g, a, p[w], d + 1)
    BY <1>4, <1>8, <1>9, <1>10, Zenon DEF MembersIs
  <2> QED BY <1>1, <1>2, <1>10, <2>1, Unfold, Zenon
<1>12. \A k \in (w + 1)..(N + 1) : ListSound(l, o, p, s, g, "members", "}", k, d)
  BY <1>1, <1>10, Zenon DEF SoundAt
<1>13. ListEnds(l, o, p, g, "members", "}", w, a, d, q)
  BY <1>1, <1>2, <1>6, <1>10, <1>11, <1>12, RestSound, Zenon
<1>14. q \in (i + 1)..(N + 1)
  <2>1. q \in (w + 1)..(N + 1)
    BY <1>1, <1>13, Zenon DEF ListEnds
  <2> QED BY <1>1, <1>8, <2>1
<1> QED BY <1>1, <1>13, <1>14, Zenon DEF ListEnds

\* What the scanner takes is a value, members or elements.
LEMMA ScannerSound ==
    ASSUME NEW l, NEW o, NEW p, NEW s, NEW g, ScanOf(l, o, p, s), IsGrammar(o, g),
           NEW i \in 1..(Len(l) + 1), NEW d \in 0..MaxDepth
    PROVE  SoundAt(l, o, p, s, g, i, d)
<1> DEFINE n == Len(l) + 1
           S == {k \in 1..n : \A e \in 0..MaxDepth : SoundAt(l, o, p, s, g, k, e)}
<1>1. Len(l) \in Nat /\ n \in Nat
  BY Placed DEF ScanOf
<1>2. ASSUME NEW k \in 1..n, \A j \in (k + 1)..n : j \in S PROVE k \in S
  <2> SUFFICES ASSUME NEW e \in 0..MaxDepth PROVE SoundAt(l, o, p, s, g, k, e)
    OBVIOUS
  <2>1. \A j \in (k + 1)..(Len(l) + 1), f \in 0..MaxDepth : SoundAt(l, o, p, s, g, j, f)
    BY <1>2
  <2>2. ValueSound(l, p, s, g, k, e)
    BY <2>1, ValueIsSound, Zenon
  <2>3. ListSound(l, o, p, s, g, "members", "}", k, e)
    BY <2>1, MembersAreSound, Zenon
  <2>4. ListSound(l, o, p, s, g, "elements", "]", k, e)
    BY <2>1, <2>2, ElementsAreSound, Zenon
  <2> QED BY <2>2, <2>3, <2>4, Zenon DEF SoundAt
<1>3. \A k \in 1..n : k \in S
  <2> HIDE DEF S, n
  <2> QED BY <1>1, <1>2, FromTheEnd
<1> QED BY <1>3

-----------------------------------------------------------------------------
(* A list of the grammar is a first item and, after a comma, a list.         *)

LEMMA ListIs ==
    ASSUME NEW o, Len(o) \in Nat, NEW g, IsGrammar(o, g), NEW a \in 1..(Len(o) + 1), NEW b \in 0..Len(o), a <= b,
           NEW d \in Depths, NEW what \in Lists
    PROVE  Is(g, what, a, b, d) = (HeadIs(o, g, what, a, b, d) \/ SplitIs(o, g, what, a, b, d))
<1>1. CASE what = "members"
  <2>1. Is(g, "members", a, b, d) = MembersIs(o, g, a, b, d)
    BY Unfold, Zenon
  <2> QED BY <1>1, <2>1, Zenon DEF MembersIs, HeadIs
<1>2. CASE what = "elements"
  <2>1. Is(g, "elements", a, b, d) = ElementsIs(o, g, Is(g, "value", a, b, d), a, b, d)
    BY Unfold, Zenon
  <2>2. "elements" # "members"
    OBVIOUS
  <2> QED BY <1>2, <2>1, <2>2, Zenon DEF ElementsIs, HeadIs
<1> QED BY <1>1, <1>2 DEF Lists

\* By length: split at any comma, a list can be split at its first one.
LEMMA Linear ==
    ASSUME NEW o, Len(o) \in Nat, NEW g, IsGrammar(o, g), NEW d \in Depths, NEW what \in Lists,
           NEW a \in 1..(Len(o) + 1), NEW b \in 0..Len(o), Is(g, what, a, b, d)
    PROVE  \E m : FirstIs(o, g, what, a, b, d, m)
<1> DEFINE M == Len(o)
           S == {w \in Nat : \A x \in 1..(M + 1), y \in 0..M :
                    y - x = w /\ Is(g, what, x, y, d) => \E m : FirstIs(o, g, what, x, y, d, m)}
<1>1. M \in Nat /\ Len(o) = M
  OBVIOUS
<1>2. ASSUME NEW x \in 1..(M + 1), NEW y \in 0..M, Is(g, what, x, y, d) PROVE x <= y
  <2>1. what \in What
    BY DEF What, Lists
  <2>2. ~(y < x)
    BY <1>2, <2>1, Unfold, Zenon
  <2> QED BY <1>1, <2>2
<1>3. ASSUME NEW w \in Nat, \A u \in Nat : u < w => u \in S PROVE w \in S
  <2> SUFFICES ASSUME NEW x \in 1..(M + 1), NEW y \in 0..M, y - x = w, Is(g, what, x, y, d)
               PROVE  \E m : FirstIs(o, g, what, x, y, d, m)
    OBVIOUS
  <2>1. ASSUME NEW x1 \in 1..(M + 1), NEW y1 \in 0..M, y1 - x1 < w, Is(g, what, x1, y1, d)
        PROVE  \E m : FirstIs(o, g, what, x1, y1, d, m)
    <3>1. x1 <= y1
      BY <1>2, <2>1
    <3>2. y1 - x1 \in Nat
      BY <1>1, <3>1
    <3>3. y1 - x1 \in S
      BY <1>3, <2>1, <3>2
    <3> QED BY <2>1, <3>3
  <2> HIDE DEF S, M
  <2>2. x <= y
    BY <1>2
  <2>3. HeadIs(o, g, what, x, y, d) \/ SplitIs(o, g, what, x, y, d)
    BY <1>1, <2>2, ListIs, Zenon
  <2>4. CASE HeadIs(o, g, what, x, y, d)
    <3>1. y \in x..y
      BY <1>1, <2>2
    <3>2. FirstIs(o, g, what, x, y, d, y)
      BY <2>4, <3>1, Zenon DEF FirstIs
    <3> QED BY <3>2
  <2>5. CASE SplitIs(o, g, what, x, y, d)
    <3>1. PICK k \in (x + 1)..(y - 1) : o[k] = "," /\ Is(g, what, x, k - 1, d) /\ Is(g, what, k + 1, y, d)
      BY <2>5, Zenon DEF SplitIs
    <3>2. k - 1 \in 0..M /\ k + 1 \in 1..(M + 1) /\ (k - 1) - x < w /\ k + 1 <= y /\ y \in 1..M /\ (k - 1) + 1 = k
          /\ (k - 1) + 2 = k + 1
      <4>1. M \in Nat /\ x \in 1..(M + 1) /\ y \in 0..M /\ k \in (x + 1)..(y - 1) /\ y - x = w
        BY <1>1
      <4> QED BY <4>1
    <3>3. PICK m : FirstIs(o, g, what, x, k - 1, d, m)
      BY <2>1, <3>1, <3>2
    <3>4. m \in x..(k - 1) /\ HeadIs(o, g, what, x, m, d)
      BY <3>3, Zenon DEF FirstIs
    <3>5. m \in x..y
      BY <1>1, <3>2, <3>4
    <3>6. CASE m = k - 1
      <4>1. m + 2 <= y /\ o[m + 1] = "," /\ Is(g, what, m + 2, y, d)
        BY <1>1, <3>1, <3>2, <3>6
      <4>2. FirstIs(o, g, what, x, y, d, m)
        BY <3>4, <3>5, <4>1, Zenon DEF FirstIs
      <4> QED BY <4>2
    <3>7. CASE m # k - 1
      <4>1. m + 2 <= k - 1 /\ o[m + 1] = "," /\ Is(g, what, m + 2, k - 1, d)
        BY <3>3, <3>7, Zenon DEF FirstIs
      <4>2. m + 2 \in 1..M /\ k \in ((m + 2) + 1)..(y - 1) /\ m + 2 <= y
        <5>1. M \in Nat /\ x \in 1..(M + 1) /\ y \in 1..M /\ k \in (x + 1)..(y - 1) /\ m \in x..(k - 1)
          BY <1>1, <3>2, <3>4
        <5>2. m + 2 <= k - 1 /\ m # k - 1
          BY <3>7, <4>1
        <5>3. k # m + 2
          BY <5>1, <5>2
        <5> QED BY <5>1, <5>2, <5>3
      <4>3. Is(g, what, m + 2, y, d)
        BY <1>1, <3>1, <3>2, <4>1, <4>2, Join
      <4>4. FirstIs(o, g, what, x, y, d, m)
        BY <3>4, <3>5, <4>1, <4>2, <4>3, Zenon DEF FirstIs
      <4> QED BY <4>4
    <3> QED BY <3>6, <3>7
  <2> QED BY <2>3, <2>4, <2>5
<1>4. \A w \in Nat : w \in S
  <2> HIDE DEF S
  <2> QED BY <1>3, ByLength
<1>5. a <= b
  BY <1>2
<1>6. b - a \in Nat
  BY <1>1, <1>5
<1>7. b - a \in S
  BY <1>4, <1>6
<1> QED BY <1>1, <1>7

-----------------------------------------------------------------------------
(* What is in the grammar, the scanner takes.                                *)

LEMMA ClosesIs ==
    ASSUME NEW what, NEW close, Closes(what, close)
    PROVE  /\ what \in Lists /\ what \in What /\ close \in Tokens /\ close \in Delims
           /\ close # "," /\ close # "end" /\ close \notin Str /\ close # "n" /\ close # "{" /\ close # "["
           /\ "," \in Delims
  BY DEF Closes, Lists, What, Tokens, Delims, Str

\* A list does not begin with a bracket that closes.
LEMMA FirstToken ==
    ASSUME NEW o, Len(o) \in Nat, NEW g, IsGrammar(o, g), NEW d \in Depths, NEW what \in Lists,
           NEW a \in 1..Len(o), NEW b \in 1..Len(o), Is(g, what, a, b, d)
    PROVE  o[a] \in Str \cup {"n", "{", "["}
<1>1. a \in 1..(Len(o) + 1) /\ b \in 0..Len(o)
  BY Within
<1>2. PICK m : FirstIs(o, g, what, a, b, d, m)
  BY <1>1, Linear
<1>3. m \in a..b /\ HeadIs(o, g, what, a, m, d)
  BY <1>2, Zenon DEF FirstIs
<1>4. CASE what = "members"
  <2>1. o[a] \in Str
    BY <1>3, <1>4, Zenon DEF HeadIs
  <2> QED BY <2>1
<1>5. CASE what # "members"
  <2>1. Is(g, "value", a, m, d)
    BY <1>3, <1>5, Zenon DEF HeadIs
  <2>2. m \in 0..Len(o) /\ a <= m
    <3>1. m \in a..b
      BY <1>3
    <3> QED BY <1>1, <3>1
  <2>3. ValueIs(o, g, a, m, d)
    BY <1>1, <2>1, <2>2, Unfold, Zenon
  <2> QED BY <2>3, Zenon DEF ValueIs, BracketIs
<1> QED BY <1>4, <1>5

\* Completeness, from that of the positions further on.
LEMMA RestComplete ==
    ASSUME NEW l, NEW o, NEW p, NEW s, NEW g, ScanOf(l, o, p, s),
           NEW w \in 1..(Len(l) + 1), NEW what, NEW close, Closes(what, close), NEW d \in 0..MaxDepth,
           NEW b \in 0..Len(o), At(o, b + 1) = close,
           GoesOn(o, g, what, p[w], b, d + 1),
           \A k \in (w + 1)..(Len(l) + 1) : ListComplete(l, o, p, s, g, what, close, k, d)
    PROVE  EndsBy(l, p, w, RestAt(l, s, w, close, what, d), b + 1)
<1> DEFINE q == RestAt(l, s, w, close, what, d)
           t == At(o, p[w] + 1)
           N == Len(l)
           M == Len(o)
<1>1. N \in Nat /\ Len(l) = N /\ M \in Nat /\ Len(o) = M /\ p[w] \in 0..M
  BY Placed DEF ScanOf
<1>2. d \in Depths /\ what \in What /\ close \in Tokens /\ close # ","
  <2>1. d \in Depths
    BY CodecAssumption DEF Depths
  <2>2. what \in What /\ close \in Tokens /\ close # ","
    BY ClosesIs, Zenon
  <2> QED BY <2>1, <2>2
<1>3. RestStepIs(l, o, p, s, w, close, what, d)
  BY <1>2, RestStep
<1> HIDE DEF q, N, M, t
<1>4. CASE t = close
  <2>1. EndsBy(l, p, w, q, p[w] + 1)
    BY <1>3, <1>4, Zenon DEF RestStepIs, q, t
  <2>2. p[w] = b
    <3>1. t # ","
      BY <1>2, <1>4
    <3> QED BY <3>1, Zenon DEF GoesOn, t
  <2> QED BY <2>1, <2>2 DEF q
<1>5. CASE t # close
  <2>1. t = "," /\ Is(g, what, p[w] + 2, b, d + 1)
    <3>1. p[w] # b
      BY <1>5, Zenon DEF t
    <3> QED BY <3>1, Zenon DEF GoesOn, t
  <2>2. PICK k \in (w + 1)..(N + 1) : p[k] = p[w] + 1 /\ q = Found(s, what, k, d)
    BY <1>3, <1>5, <2>1, Zenon DEF RestStepIs, q, t, N
  <2>3. p[k] + 1 = p[w] + 2
    BY <1>1, <2>2
  <2>4. EndsBy(l, p, k, q, b + 1)
    BY <1>1, <2>1, <2>2, <2>3, Zenon DEF ListComplete
  <2>5. EndsBy(l, p, w, q, b + 1)
    BY <1>1, <2>2, <2>4 DEF EndsBy
  <2> QED BY <2>5 DEF q
<1> QED BY <1>4, <1>5

LEMMA ListIsComplete ==
    ASSUME NEW l, NEW o, NEW p, NEW s, NEW g, ScanOf(l, o, p, s), IsGrammar(o, g),
           NEW i \in 1..(Len(l) + 1), NEW d \in 0..MaxDepth, NEW what, NEW close, Closes(what, close),
           \A k \in i..(Len(l) + 1) : ValueComplete(l, o, p, s, g, k, d),
           \A k \in (i + 1)..(Len(l) + 1) : ListComplete(l, o, p, s, g, what, close, k, d)
    PROVE  ListComplete(l, o, p, s, g, what, close, i, d)
<1> DEFINE q == Found(s, what, i, d)
           a == p[i] + 1
           N == Len(l)
           M == Len(o)
<1>1. /\ N \in Nat /\ Len(l) = N /\ M \in Nat /\ Len(o) = M /\ DOMAIN o = 1..M
      /\ \A k \in 1..(N + 1) : p[k] \in 0..M
  BY Placed DEF ScanOf
<1> SUFFICES ASSUME NEW b \in 0..M, Is(g, what, a, b, d + 1), At(o, b + 1) = close
             PROVE  EndsBy(l, p, i, q, b + 1)
  BY DEF ListComplete
<1>2. d \in Depths /\ d + 1 \in Depths
  BY CodecAssumption DEF Depths
<1>3. /\ what \in Lists /\ what \in What /\ close \in Tokens /\ close \in Delims /\ "," \in Delims
      /\ close # "end"
  BY ClosesIs
<1> HIDE DEF q, N, M
<1>4. a \in 1..(M + 1) /\ p[i] \in Nat
  BY <1>1
<1>5. PICK m : FirstIs(o, g, what, a, b, d + 1, m)
  BY <1>1, <1>2, <1>3, <1>4, Linear
<1>6. /\ m \in a..b /\ HeadIs(o, g, what, a, m, d + 1)
      /\ m = b \/ (m + 2 <= b /\ o[m + 1] = "," /\ Is(g, what, m + 2, b, d + 1))
  BY <1>5, Zenon DEF FirstIs
<1>7. m \in 1..M /\ a \in 1..M
  <2>1. m \in a..b
    BY <1>6
  <2> QED BY <1>1, <1>4, <2>1
<1>8. m = b \/ (At(o, m + 1) = "," /\ Is(g, what, m + 2, b, d + 1))
  <2> SUFFICES ASSUME m # b PROVE At(o, m + 1) = "," /\ Is(g, what, m + 2, b, d + 1)
    OBVIOUS
  <2>1. m + 2 <= b /\ o[m + 1] = "," /\ Is(g, what, m + 2, b, d + 1)
    BY <1>6, Zenon
  <2>0. m + 2 <= b
    BY <2>1
  <2>2. m + 1 \in 1..M
    BY <1>1, <1>7, <2>0
  <2> QED BY <1>1, <2>1, <2>2 DEF At
<1>9. At(o, m + 1) \in Delims
  BY <1>3, <1>8
<1>10. ASSUME NEW c \in i..(N + 1), Is(g, "value", p[c] + 1, m, d + 1),
              q = RestAt(l, s, Found(s, "value", c, d), close, what, d)
       PROVE  EndsBy(l, p, i, q, b + 1)
  <2> DEFINE w == Found(s, "value", c, d)
  <2> HIDE DEF w
  <2>1. EndsBy(l, p, c, w, m)
    <3>1. m \in 0..M /\ c \in i..(Len(l) + 1)
      BY <1>1, <1>7
    <3> QED BY <1>1, <1>9, <1>10, <3>1, Zenon DEF ValueComplete, w
  <2>2. w \in 1..(N + 1) /\ w \in (i + 1)..(N + 1) /\ p[w] = m
    BY <1>1, <2>1 DEF EndsBy
  <2>3. \A k \in (w + 1)..(N + 1) : k \in (i + 1)..(N + 1)
    BY <1>1, <2>2
  <2>4. \A k \in (w + 1)..(N + 1) : ListComplete(l, o, p, s, g, what, close, k, d)
    BY <1>1, <2>3, Zenon
  <2>5. GoesOn(o, g, what, p[w], b, d + 1)
    BY <1>8, <2>2, Zenon DEF GoesOn
  <2> DEFINE r == RestAt(l, s, w, close, what, d)
  <2>6. EndsBy(l, p, w, r, b + 1)
    BY <1>1, <2>2, <2>4, <2>5, RestComplete, Zenon
  <2>7. q = r
    BY <1>10 DEF w
  <2> HIDE DEF r
  <2> QED BY <1>1, <2>2, <2>6, <2>7 DEF EndsBy
<1>11. CASE what = "members"
  <2>1. m > a + 1 /\ o[a] \in Str /\ o[a + 1] = ":" /\ Is(g, "value", a + 2, m, d + 1)
    BY <1>6, <1>11, Zenon DEF HeadIs
  <2>2. close = "}"
    BY <1>11 DEF Closes
  <2>3. At(o, p[i] + 1) \in Str /\ At(o, p[i] + 2) = ":"
    <3>1. p[i] + 1 = a /\ p[i] + 2 = a + 1
      BY <1>4
    <3>2. a + 1 \in 1..M
      BY <1>1, <1>7, <2>1
    <3> HIDE DEF a
    <3> QED BY <1>1, <1>7, <2>1, <3>1, <3>2 DEF At
  <2>4. MembersStepIs(l, o, p, s, i, d)
    BY <1>2, MembersStep, Zenon
  <2>5. PICK c \in (i + 1)..(Len(l) + 1) :
           p[c] = p[i] + 2 /\ q = RestAt(l, s, Found(s, "value", c, d), "}", "members", d)
    BY <1>11, <2>3, <2>4, Zenon DEF MembersStepIs, q
  <2>6. q = RestAt(l, s, Found(s, "value", c, d), close, what, d)
    BY <1>11, <2>2, <2>5, Zenon
  <2>7. p[c] = p[i] + 2
    BY <2>5, Zenon
  <2>8. c \in i..(N + 1) /\ p[c] + 1 = a + 2
    BY <1>1, <1>4, <2>7
  <2> HIDE DEF a
  <2>9. Is(g, "value", p[c] + 1, m, d + 1)
    BY <2>1, <2>8, Zenon
  <2> QED BY <1>10, <2>6, <2>8, <2>9, Zenon
<1>12. CASE what = "elements"
  <2>1. Is(g, "value", a, m, d + 1)
    <3>1. "elements" # "members"
      OBVIOUS
    <3> QED BY <1>6, <1>12, <3>1, Zenon DEF HeadIs
  <2>2. close = "]"
    BY <1>12 DEF Closes
  <2>3. q = RestAt(l, s, Found(s, "value", i, d), close, what, d)
    BY <1>2, <1>12, <2>2, ElementsStep, Zenon DEF q
  <2>4. i \in i..(N + 1)
    BY <1>1
  <2> QED BY <1>10, <2>1, <2>3, <2>4, Zenon
<1> QED BY <1>11, <1>12 DEF Closes

LEMMA ValueIsComplete ==
    ASSUME NEW l, NEW o, NEW p, NEW s, NEW g, ScanOf(l, o, p, s), IsGrammar(o, g),
           NEW i \in 1..(Len(l) + 1), NEW d \in 0..MaxDepth,
           \A k \in (i + 1)..(Len(l) + 1), e \in 0..MaxDepth : ListsComplete(l, o, p, s, g, k, e)
    PROVE  ValueComplete(l, o, p, s, g, i, d)
<1> DEFINE q == Found(s, "value", i, d)
           t == At(o, p[i] + 1)
           t2 == At(o, p[i] + 2)
           a == p[i] + 1
           N == Len(l)
           M == Len(o)
<1>1. /\ N \in Nat /\ Len(l) = N /\ M \in Nat /\ Len(o) = M /\ DOMAIN o = 1..M
      /\ \A k \in 1..(N + 1) : p[k] \in 0..M
  BY Placed DEF ScanOf
<1> SUFFICES ASSUME NEW b \in 0..M, Is(g, "value", a, b, d + 1), At(o, b + 1) \in Delims
             PROVE  EndsBy(l, p, i, q, b)
  BY DEF ValueComplete
<1>2. d \in Depths /\ d + 1 \in Depths
  BY CodecAssumption DEF Depths
<1> HIDE DEF q, N, M, t, t2
<1>3. ValueStepIs(l, o, p, s, i, d)
  BY <1>2, ValueStep
<1>4. a \in 1..(M + 1) /\ p[i] \in Nat /\ p[i] + 2 = a + 1
  BY <1>1
<1>5. a <= b
  <2>1. "value" \in What
    BY DEF What
  <2>2. ~(b < a)
    BY <1>1, <1>2, <1>4, <2>1, Unfold, Zenon
  <2> QED BY <1>1, <1>4, <2>2
<1>6. a \in 1..M /\ b \in 1..M /\ t = o[a]
  <2>1. a \in 1..M /\ b \in 1..M
    BY <1>1, <1>4, <1>5
  <2> QED BY <1>1, <2>1 DEF At, t
<1>7. ValueIs(o, g, a, b, d + 1)
  BY <1>1, <1>2, <1>4, <1>5, Unfold, Zenon
<1>8. CASE a = b /\ o[a] \in Str \cup {"n"}
  <2>1. t2 \in Delims /\ p[i] + 1 = b
    BY <1>4, <1>8 DEF t2
  <2>2. CASE o[a] \in Str
    BY <1>3, <1>6, <2>1, <2>2, Zenon DEF ValueStepIs, t, q
  <2>3. CASE o[a] = "n"
    BY <1>3, <1>6, <2>1, <2>3, Zenon DEF ValueStepIs, t, t2, q
  <2> QED BY <1>8, <2>2, <2>3
<1>9. ASSUME NEW open, NEW what, NEW close, BracketIs(o, g, open, what, close, a, b, d + 1),
             Closes(what, close), OpensIs(l, o, p, s, what, close, i, d)
      PROVE  EndsBy(l, p, i, q, b)
  <2>1. /\ b > a /\ d + 1 <= MaxDepth /\ o[b] = close
        /\ (b = a + 1 \/ Is(g, what, a + 1, b - 1, (d + 1) + 1))
    BY <1>9, Zenon DEF BracketIs
  <2>2. /\ d + 1 <= MaxDepth /\ t2 = close => EndsBy(l, p, i, q, p[i] + 2)
        /\ d + 1 <= MaxDepth /\ t2 # close =>
             \E k \in (i + 1)..(Len(l) + 1) : p[k] = p[i] + 1 /\ q = Found(s, what, k, d + 1)
    BY <1>9, Zenon DEF OpensIs, q, t2
  <2>3. a + 1 \in 1..M /\ t2 = o[a + 1]
    <3>1. a + 1 \in 1..M
      BY <1>1, <1>6, <2>1
    <3> QED BY <1>1, <1>4, <3>1 DEF At, t2
  <2>4. CASE b = a + 1
    BY <1>4, <2>1, <2>2, <2>3, <2>4
  <2>5. CASE b # a + 1
    <3>1. Is(g, what, a + 1, b - 1, (d + 1) + 1)
      BY <2>1, <2>5
    <3>2. d + 1 \in 0..MaxDepth /\ (d + 1) + 1 \in Depths
      BY <2>1, CodecAssumption DEF Depths
    <3>3. b - 1 \in 1..M /\ (b - 1) + 1 = b
      BY <1>1, <1>6, <2>1, <2>5
    <3>4. t2 # close
      <4>1. what \in Lists /\ close \notin Str /\ close # "n" /\ close # "{" /\ close # "["
        BY <1>9, ClosesIs, Zenon
      <4>2. o[a + 1] \in Str \cup {"n", "{", "["}
        BY <1>1, <2>3, <3>1, <3>2, <3>3, <4>1, FirstToken, Zenon
      <4> QED BY <2>3, <4>1, <4>2
    <3>5. PICK k \in (i + 1)..(N + 1) : p[k] = a /\ q = Found(s, what, k, d + 1)
      BY <1>1, <2>1, <2>2, <3>4
    <3>6. ListComplete(l, o, p, s, g, what, close, k, d + 1)
      BY <1>1, <1>9, <3>2, Zenon DEF ListsComplete
    <3>7. At(o, (b - 1) + 1) = close
      BY <1>1, <1>6, <2>1, <3>3 DEF At
    <3>8. b - 1 \in 0..M
      BY <3>3
    <3>9. EndsBy(l, p, k, q, (b - 1) + 1)
      <4>1. Is(g, what, p[k] + 1, b - 1, (d + 1) + 1)
        BY <3>1, <3>5, Zenon
      <4> QED BY <1>1, <3>5, <3>6, <3>7, <3>8, <4>1, Zenon DEF ListComplete
    <3> QED BY <1>1, <3>3, <3>5, <3>9 DEF EndsBy
  <2> QED BY <2>4, <2>5
<1>10. CASE BracketIs(o, g, "{", "members", "}", a, b, d + 1)
  <2>1. Closes("members", "}")
    BY Zenon DEF Closes
  <2>2. t = "{"
    BY <1>6, <1>10, Zenon DEF BracketIs
  <2>3. OpensIs(l, o, p, s, "members", "}", i, d)
    BY <1>3, <2>2, Zenon DEF ValueStepIs, t
  <2> QED BY <1>9, <1>10, <2>1, <2>3, Zenon
<1>11. CASE BracketIs(o, g, "[", "elements", "]", a, b, d + 1)
  <2>1. Closes("elements", "]")
    BY Zenon DEF Closes
  <2>2. t = "["
    BY <1>6, <1>11, Zenon DEF BracketIs
  <2>3. OpensIs(l, o, p, s, "elements", "]", i, d)
    BY <1>3, <2>2, Zenon DEF ValueStepIs, t
  <2> QED BY <1>9, <1>11, <2>1, <2>3, Zenon
<1> QED BY <1>7, <1>8, <1>10, <1>11, Zenon DEF ValueIs

\* The scanner takes every value, members and elements, up to the limit.
LEMMA ScannerComplete ==
    ASSUME NEW l, NEW o, NEW p, NEW s, NEW g, ScanOf(l, o, p, s), IsGrammar(o, g),
           NEW i \in 1..(Len(l) + 1), NEW d \in 0..MaxDepth
    PROVE  CompleteAt(l, o, p, s, g, i, d)
<1> DEFINE n == Len(l) + 1
           S == {k \in 1..n : \A e \in 0..MaxDepth : CompleteAt(l, o, p, s, g, k, e)}
<1>1. Len(l) \in Nat /\ n \in Nat
  BY Placed DEF ScanOf
<1>2. ASSUME NEW k \in 1..n, \A j \in (k + 1)..n : j \in S PROVE k \in S
  <2> SUFFICES ASSUME NEW e \in 0..MaxDepth PROVE CompleteAt(l, o, p, s, g, k, e)
    OBVIOUS
  <2>1. \A j \in (k + 1)..(Len(l) + 1), f \in 0..MaxDepth : CompleteAt(l, o, p, s, g, j, f)
    BY <1>2
  <2>2. \A j \in (k + 1)..(Len(l) + 1), f \in 0..MaxDepth : ListsComplete(l, o, p, s, g, j, f)
    BY <2>1, Zenon DEF CompleteAt
  <2>3. ValueComplete(l, o, p, s, g, k, e)
    BY <2>2, ValueIsComplete, Zenon
  <2>4. \A j \in k..(Len(l) + 1) : ValueComplete(l, o, p, s, g, j, e)
    <3>1. \A j \in k..(Len(l) + 1) : j = k \/ j \in (k + 1)..(Len(l) + 1)
      BY <1>1
    <3> QED BY <2>1, <2>3, <3>1, Zenon DEF CompleteAt
  <2>5. ASSUME NEW what, NEW close, Closes(what, close) PROVE ListComplete(l, o, p, s, g, what, close, k, e)
    <3>1. \A j \in (k + 1)..(Len(l) + 1) : ListComplete(l, o, p, s, g, what, close, j, e)
      BY <2>2, <2>5, Zenon DEF ListsComplete
    <3> QED BY <2>4, <2>5, <3>1, ListIsComplete, Zenon
  <2> QED BY <2>3, <2>5, Zenon DEF CompleteAt, ListsComplete
<1>3. \A k \in 1..n : k \in S
  <2> HIDE DEF S, n
  <2> QED BY <1>1, <1>2, FromTheEnd
<1> QED BY <1>3

-----------------------------------------------------------------------------
(* The line as a whole.                                                      *)

\* After a value, nothing but white space: its tokens are the last ones.
LEMMA RestOfLine ==
    ASSUME NEW l \in Seq(Marks), NEW o, NEW p, IsMap(l, o, p), NEW i \in 1..(Len(l) + 1)
    PROVE  Skip(l, i) = Len(l) + 1 <=> p[i] = Len(o)
<1>1. NextIs(l, o, p, i, Skip(l, i))
  BY SkipToNext
<1>2. Len(l) \in Nat /\ Len(o) \in Nat /\ DOMAIN o = 1..Len(o) /\ p[i] \in 0..Len(o) /\ p[Len(l) + 1] = Len(o)
  BY Placed
<1> DEFINE k == Skip(l, i)
<1>3. ASSUME k = Len(l) + 1 PROVE p[i] = Len(o)
  <2>1. p[k] = p[i]
    BY <1>1 DEF NextIs
  <2> HIDE DEF k
  <2> QED BY <1>2, <1>3, <2>1
<1>4. ASSUME p[i] = Len(o) PROVE k = Len(l) + 1
  <2>1. At(o, p[i] + 1) = "end"
    BY <1>2, <1>4 DEF At
  <2>2. At(l, k) = "end"
    BY <1>1, <2>1, Zenon DEF NextIs
  <2> QED BY <1>1, <2>2, Zenon DEF NextIs
<1> QED BY <1>3, <1>4

\* A line that is scanned to its end is one value.
LEMMA WholeValue ==
    ASSUME NEW l, NEW o, NEW p, NEW s, NEW g, ScanOf(l, o, p, s), IsGrammar(o, g)
    PROVE  LET v == Found(s, "value", 1, 0) IN
           (v # 0 /\ Skip(l, v) = Len(l) + 1) <=> (Len(o) # 0 /\ Is(g, "value", 1, Len(o), 1))
<1> DEFINE v == Found(s, "value", 1, 0)
           N == Len(l)
           M == Len(o)
<1>1. /\ N \in Nat /\ Len(l) = N /\ M \in Nat /\ Len(o) = M /\ DOMAIN o = 1..M /\ p[1] = 0
      /\ \A k \in 1..(N + 1) : p[k] \in 0..M
  BY Placed DEF ScanOf
<1>2. l \in Seq(Marks) /\ IsMap(l, o, p)
  BY DEF ScanOf
<1>3. 0 \in 0..MaxDepth /\ 0 + 1 = 1 /\ 1 \in 1..(N + 1)
  BY <1>1, CodecAssumption
<1> HIDE DEF v, N, M
<1>4. ASSUME v # 0, Skip(l, v) = N + 1 PROVE M # 0 /\ Is(g, "value", 1, M, 1)
  <2>1. SoundAt(l, o, p, s, g, 1, 0)
    BY <1>1, <1>3, ScannerSound, Zenon
  <2>2. /\ v \in (1 + 1)..(N + 1) /\ p[v] >= p[1] + 1
        /\ Is(g, "value", p[1] + 1, p[v], 0 + 1)
    BY <1>1, <1>4, <2>1, Zenon DEF SoundAt, ValueSound, v
  <2>3. v \in 1..(N + 1)
    BY <1>1, <2>2
  <2>4. p[v] = M
    <3>1. Skip(l, v) = Len(l) + 1 <=> p[v] = Len(o)
      BY <1>1, <1>2, <2>3, RestOfLine
    <3> QED BY <1>1, <1>4, <3>1
  <2>5. p[1] + 1 = 1
    BY <1>1
  <2>6. Is(g, "value", 1, M, 1)
    BY <1>3, <2>2, <2>4, <2>5, Zenon
  <2> QED BY <1>1, <2>2, <2>4, <2>6
<1>5. ASSUME M # 0, Is(g, "value", 1, M, 1) PROVE v # 0 /\ Skip(l, v) = N + 1
  <2>1. CompleteAt(l, o, p, s, g, 1, 0)
    BY <1>1, <1>3, ScannerComplete, Zenon
  <2>2. M \in 0..M /\ p[1] + 1 = 1
    BY <1>1
  <2>3. At(o, M + 1) \in Delims
    <3>1. At(o, M + 1) = "end"
      BY <1>1 DEF At
    <3> QED BY <3>1 DEF Delims
  <2>4. EndsBy(l, p, 1, v, M)
    BY <1>1, <1>3, <1>5, <2>1, <2>2, <2>3, Zenon DEF CompleteAt, ValueComplete, v
  <2>5. v \in 1..(N + 1) /\ v # 0 /\ p[v] = M
    BY <1>1, <2>4 DEF EndsBy
  <2>6. Skip(l, v) = Len(l) + 1 <=> p[v] = Len(o)
    BY <1>1, <1>2, <2>5, RestOfLine
  <2> QED BY <1>1, <2>5, <2>6
<1> QED BY <1>1, <1>4, <1>5, Zenon DEF v

\* A scanner that starts anew, in the middle of a line.
LEMMA ScanValueIs ==
    ASSUME NEW l, NEW o, NEW p, ScanOf(l, o, p, Scan(l)), NEW i \in 1..(Len(l) + 1)
    PROVE  ScanValue(l, i) = Found(Scan(l), "value", i, 0)
<1>1. Len(l) \in Nat
  BY Placed DEF ScanOf
<1>2. CASE i > Len(l)
  <2>1. i = Len(l) + 1
    BY <1>1, <1>2
  <2>2. "value" \in What /\ 0 \in Depths
    BY CodecAssumption DEF What, Depths
  <2>3. Found(Scan(l), "value", i, 0) = 0
    BY <2>1, <2>2, NothingAtEnd, Zenon
  <2> QED BY <1>2, <2>3, Zenon DEF ScanValue
<1>3. CASE ~(i > Len(l))
  BY <1>3, Zenon DEF ScanValue, Found
<1> QED BY <1>2, <1>3

\* Every line of tokens has a scanner, and its tokens a grammar.
LEMMA LineScanned ==
    ASSUME NEW l \in Seq(Marks)
    PROVE  /\ \E p : ScanOf(l, Solid(l), p, Scan(l))
           /\ Solid(l) \in Seq(Tokens) /\ IsGrammar(Solid(l), Grammar(Solid(l)))
<1>1. PICK p : IsMap(l, Solid(l), p)
  BY MapExists
<1>2. Solid(l) \in Seq(Tokens)
  BY <1>1 DEF IsMap
<1>3. IsScan(l, Scan(l)) /\ IsGrammar(Solid(l), Grammar(Solid(l)))
  BY <1>2, ScanIs, GrammarIs
<1> QED BY <1>1, <1>2, <1>3 DEF ScanOf

\* Together: the line is scanned to its end exactly when it is JSON.
LEMMA ScansExactly ==
    ASSUME NEW l \in Seq(Marks)
    PROVE  LET v == ScanValue(l, 1) IN (v # 0 /\ Skip(l, v) = Len(l) + 1) <=> IsJSON(l)
<1> DEFINE o == Solid(l)
<1>1. PICK p : ScanOf(l, o, p, Scan(l))
  BY LineScanned
<1>2. o \in Seq(Tokens) /\ IsGrammar(o, Grammar(o))
  BY LineScanned
<1>3. 1 \in 1..(Len(l) + 1)
  OBVIOUS
<1> HIDE DEF o
<1>4. ScanValue(l, 1) = Found(Scan(l), "value", 1, 0)
  BY <1>1, <1>3, ScanValueIs, Zenon
<1>5. LET v == Found(Scan(l), "value", 1, 0) IN
           (v # 0 /\ Skip(l, v) = Len(l) + 1) <=> (Len(o) # 0 /\ Is(Grammar(o), "value", 1, Len(o), 1))
  BY <1>1, <1>2, WholeValue, Zenon
<1>6. o # <<>> <=> Len(o) # 0
  BY <1>2
<1> QED BY <1>4, <1>5, <1>6, Zenon DEF IsJSON, Is, o

-----------------------------------------------------------------------------
(* How deep a token is.                                                      *)

\* Counting to a position.
LEMMA CountStep ==
    ASSUME NEW S, NEW i \in Nat \ {0}
    PROVE  /\ Cardinality({k \in 1..i : k \in S}) \in Nat
           /\ Cardinality({k \in 1..(i - 1) : k \in S}) \in Nat
           /\ Cardinality({k \in 1..i : k \in S}) =
                Cardinality({k \in 1..(i - 1) : k \in S}) + (IF i \in S THEN 1 ELSE 0)
<1> DEFINE A == {k \in 1..(i - 1) : k \in S}
           B == {k \in 1..i : k \in S}
<1>1. IsFiniteSet(1..(i - 1)) /\ A \subseteq 1..(i - 1)
  BY FS_Interval
<1>2. IsFiniteSet(A)
  BY <1>1, FS_Subset
<1>3. i \notin A
  OBVIOUS
<1>4. B = IF i \in S THEN A \cup {i} ELSE A
  OBVIOUS
<1>5. Cardinality(A) \in Nat
  BY <1>2, FS_CardinalityType
<1> HIDE DEF A, B
<1>6. Cardinality(A \cup {i}) = Cardinality(A) + 1
  BY <1>2, <1>3, FS_AddElement
<1>7. Cardinality(B) \in Nat /\ Cardinality(B) = Cardinality(A) + (IF i \in S THEN 1 ELSE 0)
  BY <1>4, <1>5, <1>6
<1> QED BY <1>5, <1>7 DEF A, B

\* Nesting counts the bracket that opens here, and not the one that closes here.
LEMMA LevelStep ==
    ASSUME NEW o, NEW i \in Nat \ {0}
    PROVE  /\ Level(o, i) \in Int /\ Level(o, i - 1) \in Int
           /\ Opening(o[i]) /\ ~Closing(o[i]) => Level(o, i) = Level(o, i - 1) + 1
           /\ ~Opening(o[i]) /\ Closing(o[i]) => Level(o, i) = Level(o, i - 1) - 1
           /\ ~Opening(o[i]) /\ ~Closing(o[i]) => Level(o, i) = Level(o, i - 1)
           /\ Nesting(o, i) = Level(o, i - 1) + (IF Opening(o[i]) THEN 1 ELSE 0)
<1> DEFINE S == {k \in Nat : Opening(o[k])}
           T == {k \in Nat : Closing(o[k])}
           A == Cardinality(OpeningTo(o, i - 1))
           B == Cardinality(OpeningTo(o, i))
           C == Cardinality(ClosingTo(o, i - 1))
           D == Cardinality(ClosingTo(o, i))
<1>1. /\ {k \in 1..i : k \in S} = OpeningTo(o, i) /\ {k \in 1..(i - 1) : k \in S} = OpeningTo(o, i - 1)
      /\ {k \in 1..i : k \in T} = ClosingTo(o, i) /\ {k \in 1..(i - 1) : k \in T} = ClosingTo(o, i - 1)
  BY DEF OpeningTo, ClosingTo
<1>2. (i \in S <=> Opening(o[i])) /\ (i \in T <=> Closing(o[i]))
  OBVIOUS
<1> HIDE DEF S, T
<1>3. A \in Nat /\ B \in Nat /\ B = A + (IF Opening(o[i]) THEN 1 ELSE 0)
  BY <1>1, <1>2, CountStep
<1>4. C \in Nat /\ D \in Nat /\ D = C + (IF Closing(o[i]) THEN 1 ELSE 0)
  BY <1>1, <1>2, CountStep
<1>5. Level(o, i) = B - D /\ Level(o, i - 1) = A - C
  BY DEF Level
<1>6. Nesting(o, i) = B - C
  BY DEF Nesting, OpeningTo, ClosingTo, Opening, Closing
<1> HIDE DEF A, B, C, D
<1> QED BY <1>3, <1>4, <1>5, <1>6

\* The level after a token that is no bracket, an opening and a closing one.
LEMMA FlatStep ==
    ASSUME NEW o, NEW i \in Nat \ {0}, ~Opening(o[i]), ~Closing(o[i])
    PROVE  Level(o, i) = Level(o, i - 1) /\ Nesting(o, i) = Level(o, i - 1) /\ Level(o, i) \in Int
<1>1. Level(o, i) \in Int /\ Level(o, i - 1) \in Int
  BY LevelStep
<1>2. Level(o, i) = Level(o, i - 1)
  BY LevelStep, Zenon
<1>3. Nesting(o, i) = Level(o, i - 1) + 0
  BY LevelStep, Zenon
<1> QED BY <1>1, <1>2, <1>3

LEMMA OpenedStep ==
    ASSUME NEW o, NEW i \in Nat \ {0}, Opening(o[i])
    PROVE  /\ Level(o, i) = Level(o, i - 1) + 1 /\ Nesting(o, i) = Level(o, i - 1) + 1
           /\ Level(o, i - 1) \in Int
<1>1. ~Closing(o[i])
  BY DEF Opening, Closing
<1>2. Level(o, i) = Level(o, i - 1) + 1 /\ Nesting(o, i) = Level(o, i - 1) + 1
  BY <1>1, LevelStep, Zenon
<1> QED BY <1>2, LevelStep

LEMMA ClosedStep ==
    ASSUME NEW o, NEW i \in Nat \ {0}, Closing(o[i])
    PROVE  /\ Level(o, i) = Level(o, i - 1) - 1 /\ Nesting(o, i) = Level(o, i - 1)
           /\ Level(o, i - 1) \in Int
<1>1. ~Opening(o[i])
  BY DEF Opening, Closing
<1>2. Level(o, i) = Level(o, i - 1) - 1 /\ Nesting(o, i) = Level(o, i - 1) + 0
  BY <1>1, LevelStep, Zenon
<1> QED BY <1>2, LevelStep

LEMMA NestingAtLeast ==
    ASSUME NEW o, NEW i \in Nat \ {0}
    PROVE  Nesting(o, i) >= Level(o, i - 1) /\ Level(o, i - 1) \in Int
<1>1. Level(o, i - 1) \in Int
  BY LevelStep
<1>2. CASE Opening(o[i])
  BY <1>1, <1>2, OpenedStep
<1>3. CASE ~Opening(o[i])
  <2>1. Nesting(o, i) = Level(o, i - 1) + 0
    BY <1>3, LevelStep, Zenon
  <2> QED BY <1>1, <2>1
<1> QED BY <1>2, <1>3

\* Levels of a list, of members, of what is in brackets.
LEMMA NestedSplit ==
    ASSUME NEW o, NEW a \in Nat \ {0}, NEW b \in Nat, NEW k \in (a + 1)..(b - 1),
           ~Opening(o[k]), ~Closing(o[k]),
           NestedIs(o, a, k - 1), NestedIs(o, k + 1, b)
    PROVE  NestedIs(o, a, b)
<1> DEFINE x == Level(o, a - 1)
<1>1. k \in Nat \ {0} /\ (k + 1) - 1 = k
  OBVIOUS
<1>2. Level(o, k) = Level(o, k - 1)
  BY <1>1, FlatStep
<1>3. Level(o, k - 1) = x /\ x \in Int /\ \A j \in a..(k - 1) : Level(o, j - 1) >= x
  BY DEF NestedIs
<1>4. Level(o, b) = Level(o, k) /\ \A j \in (k + 1)..b : Level(o, j - 1) >= Level(o, k)
  BY <1>1 DEF NestedIs
<1>5. ASSUME NEW j \in a..b PROVE Level(o, j - 1) >= x /\ Nesting(o, j) >= Level(o, j - 1)
  <2>1. j \in Nat \ {0} /\ (j \in a..(k - 1) \/ j = k \/ j \in (k + 1)..b)
    OBVIOUS
  <2>2. Nesting(o, j) >= Level(o, j - 1)
    BY <2>1, NestingAtLeast
  <2>3. Level(o, j - 1) >= x
    <3>1. CASE j \in a..(k - 1)
      BY <1>3, <3>1
    <3>2. CASE j = k
      BY <1>3, <3>2
    <3>3. CASE j \in (k + 1)..b
      BY <1>2, <1>3, <1>4, <3>3
    <3> QED BY <2>1, <3>1, <3>2, <3>3
  <2> QED BY <2>2, <2>3
<1> HIDE DEF x
<1>6. Level(o, b) = x /\ Level(o, b) \in Int
  BY <1>2, <1>3, <1>4
<1> QED BY <1>5, <1>6 DEF NestedIs, x

LEMMA NestedMember ==
    ASSUME NEW o, NEW a \in Nat \ {0}, NEW b \in Nat, b > a + 1, o[a] \in Str, o[a + 1] = ":",
           NestedIs(o, a + 2, b)
    PROVE  NestedIs(o, a, b) /\ Level(o, a + 1) = Level(o, a - 1)
<1> DEFINE x == Level(o, a - 1)
<1>1. a + 1 \in Nat \ {0} /\ (a + 1) - 1 = a /\ (a + 2) - 1 = a + 1
  OBVIOUS
<1>2. Level(o, a) = x /\ x \in Int
  <2>1. ~Opening(o[a]) /\ ~Closing(o[a])
    BY DEF Str, Opening, Closing
  <2>2. Level(o, a) = Level(o, a - 1) /\ Level(o, a) \in Int
    BY <2>1, FlatStep, Zenon
  <2> QED BY <2>2
<1>3. Level(o, a + 1) = x
  <2>1. ~Opening(o[a + 1]) /\ ~Closing(o[a + 1])
    BY DEF Opening, Closing
  <2> QED BY <1>1, <1>2, <2>1, FlatStep
<1>4. Level(o, b) = x /\ \A j \in (a + 2)..b : Level(o, j - 1) >= x
  BY <1>1, <1>3 DEF NestedIs
<1>5. ASSUME NEW j \in a..b PROVE Level(o, j - 1) >= x /\ Nesting(o, j) >= Level(o, j - 1)
  <2>1. j \in Nat \ {0} /\ (j = a \/ j = a + 1 \/ j \in (a + 2)..b)
    OBVIOUS
  <2>2. Nesting(o, j) >= Level(o, j - 1)
    BY <2>1, NestingAtLeast
  <2>3. Level(o, j - 1) >= x
    BY <1>1, <1>2, <1>4, <2>1
  <2> QED BY <2>2, <2>3
<1> HIDE DEF x
<1> QED BY <1>2, <1>3, <1>4, <1>5 DEF NestedIs, x

LEMMA NestedBracket ==
    ASSUME NEW o, NEW a \in Nat \ {0}, NEW b \in Nat, b > a, Opening(o[a]), Closing(o[b]),
           b = a + 1 \/ NestedIs(o, a + 1, b - 1)
    PROVE  NestedIs(o, a, b) /\ DeeperIs(o, a, b)
<1> DEFINE x == Level(o, a - 1)
<1>1. b \in Nat \ {0} /\ (a + 1) - 1 = a
  OBVIOUS
<1>2. Level(o, a) = x + 1 /\ Nesting(o, a) = x + 1 /\ x \in Int
  BY OpenedStep
<1>3. Level(o, b - 1) = x + 1 /\ \A j \in (a + 1)..(b - 1) : Level(o, j - 1) >= x + 1
  <2>1. CASE b = a + 1
    <3>1. b - 1 = a /\ \A j : j \notin (a + 1)..(b - 1)
      BY <2>1
    <3> QED BY <1>2, <3>1
  <2>2. CASE b # a + 1
    BY <1>1, <1>2, <2>2 DEF NestedIs
  <2> QED BY <2>1, <2>2
<1>4. Level(o, b) = x /\ Nesting(o, b) = x + 1
  <2>1. Level(o, b) = Level(o, b - 1) - 1 /\ Nesting(o, b) = Level(o, b - 1)
    BY <1>1, ClosedStep
  <2> QED BY <1>2, <1>3, <2>1
<1>5. ASSUME NEW j \in a..b
      PROVE  Level(o, j - 1) >= x /\ Nesting(o, j) >= Level(o, j - 1) /\ Nesting(o, j) >= x + 1
  <2>1. j \in Nat \ {0} /\ (j = a \/ j \in (a + 1)..(b - 1) \/ j = b)
    OBVIOUS
  <2>2. Nesting(o, j) >= Level(o, j - 1) /\ Level(o, j - 1) \in Int
    BY <2>1, NestingAtLeast
  <2> HIDE DEF x
  <2>3. CASE j = a
    BY <1>2, <2>2, <2>3 DEF x
  <2>4. CASE j \in (a + 1)..(b - 1)
    <3>1. Nesting(o, j) \in Int
      BY <2>1, LevelStep
    <3> QED BY <1>2, <1>3, <2>2, <2>4, <3>1
  <2>5. CASE j = b
    BY <1>2, <1>3, <1>4, <2>2, <2>5
  <2> QED BY <2>1, <2>3, <2>4, <2>5
<1> HIDE DEF x
<1> QED BY <1>2, <1>4, <1>5 DEF NestedIs, DeeperIs, x

LEMMA CommaFlat == ~Opening(",") /\ ~Closing(",")
  BY Zenon DEF Opening, Closing

LEMMA BracketNested ==
    ASSUME NEW o, Len(o) \in Nat, NEW g, NEW open, Opening(open), NEW what \in What, NEW close, Closing(close),
           NEW a \in Nat \ {0}, NEW b \in Nat, NEW d \in Depths, BracketIs(o, g, open, what, close, a, b, d),
           \A x \in 1..(Len(o) + 1), y \in 0..Len(o), e \in Depths :
               y - x < b - a /\ Is(g, what, x, y, e) => NestedIs(o, x, y),
           b <= Len(o)
    PROVE  NestedIs(o, a, b) /\ DeeperIs(o, a, b)
<1>1. /\ b > a /\ d <= MaxDepth /\ o[a] = open /\ o[b] = close
      /\ b = a + 1 \/ Is(g, what, a + 1, b - 1, d + 1)
  BY Zenon DEF BracketIs
<1>2. d + 1 \in Depths
  BY <1>1, CodecAssumption DEF Depths
<1>3. b = a + 1 \/ NestedIs(o, a + 1, b - 1)
  <2> SUFFICES ASSUME b # a + 1 PROVE NestedIs(o, a + 1, b - 1)
    OBVIOUS
  <2>1. a + 1 \in 1..(Len(o) + 1) /\ b - 1 \in 0..Len(o) /\ (b - 1) - (a + 1) < b - a
    BY <1>1
  <2> QED BY <1>1, <1>2, <2>1
<1> QED BY <1>1, <1>3, NestedBracket

\* By length: every part of the grammar is nested.
LEMMA Nested ==
    ASSUME NEW o, Len(o) \in Nat, NEW g, IsGrammar(o, g), NEW d \in Depths, NEW what \in What,
           NEW a \in 1..(Len(o) + 1), NEW b \in 0..Len(o), Is(g, what, a, b, d)
    PROVE  PartNested(o, what, a, b)
<1> DEFINE M == Len(o)
           S == {w \in Nat : \A kindOf \in What, x \in 1..(M + 1), y \in 0..M, e \in Depths :
                    y - x = w /\ Is(g, kindOf, x, y, e) => PartNested(o, kindOf, x, y)}
<1>1. M \in Nat /\ Len(o) = M
  OBVIOUS
<1>2. ASSUME NEW kindOf \in What, NEW x \in 1..(M + 1), NEW y \in 0..M, NEW e \in Depths, Is(g, kindOf, x, y, e)
      PROVE  x <= y /\ y - x \in Nat
  <2>1. ~(y < x)
    BY <1>2, Unfold, Zenon
  <2> QED BY <1>1, <2>1
<1>w. "value" \in What /\ "members" \in What /\ "elements" \in What
  BY DEF What
<1>3. ASSUME NEW w \in Nat, \A u \in Nat : u < w => u \in S PROVE w \in S
  <2> SUFFICES ASSUME NEW kindOf \in What, NEW x \in 1..(M + 1), NEW y \in 0..M, NEW e \in Depths,
                      y - x = w, Is(g, kindOf, x, y, e)
               PROVE  PartNested(o, kindOf, x, y)
    OBVIOUS
  <2>1. ASSUME NEW k1 \in What, NEW x1 \in 1..(M + 1), NEW y1 \in 0..M, NEW e1 \in Depths,
               y1 - x1 < w, Is(g, k1, x1, y1, e1)
        PROVE  PartNested(o, k1, x1, y1)
    <3>1. y1 - x1 \in Nat
      BY <1>2, <2>1
    <3>2. y1 - x1 \in S
      BY <1>3, <2>1, <3>1
    <3> QED BY <2>1, <3>2
  <2> HIDE DEF S
  <2>2. x <= y /\ x \in Nat \ {0} /\ y \in Nat /\ x \in 1..M /\ y \in 1..M
    <3>1. x <= y
      BY <1>2
    <3> HIDE DEF M
    <3> QED BY <1>1, <3>1
  <2> HIDE DEF M
  <2>3. ASSUME ValueIs(o, g, x, y, e) PROVE NestedIs(o, x, y) /\ DeeperIs(o, x, y)
    <3>1. CASE x = y /\ o[x] \in Str \cup {"n"}
      <4>1. ~Opening(o[x]) /\ ~Closing(o[x])
        BY <3>1 DEF Opening, Closing, Str
      <4>2. Level(o, x) = Level(o, x - 1) /\ Nesting(o, x) = Level(o, x - 1) /\ Level(o, x) \in Int
        BY <2>2, <4>1, FlatStep
      <4>3. ASSUME NEW k \in x..y PROVE k = x
        BY <2>2, <3>1
      <4> QED BY <3>1, <4>2, <4>3 DEF NestedIs, DeeperIs
    <3>2. ASSUME NEW open, Opening(open), NEW k1 \in What, NEW close, Closing(close),
                 BracketIs(o, g, open, k1, close, x, y, e)
          PROVE  NestedIs(o, x, y) /\ DeeperIs(o, x, y)
      <4>1. ASSUME NEW x1 \in 1..(Len(o) + 1), NEW y1 \in 0..Len(o), NEW e1 \in Depths,
                   y1 - x1 < y - x, Is(g, k1, x1, y1, e1)
            PROVE  NestedIs(o, x1, y1)
        BY <1>1, <2>1, <4>1 DEF PartNested
      <4>2. y <= Len(o)
        BY <1>1, <2>2
      <4> QED BY <1>1, <2>2, <3>2, <4>1, <4>2, BracketNested, Zenon
    <3>3. CASE BracketIs(o, g, "{", "members", "}", x, y, e)
      <4>1. Opening("{") /\ Closing("}")
        BY Zenon DEF Opening, Closing
      <4> QED BY <1>w, <3>2, <3>3, <4>1, Zenon
    <3>4. CASE BracketIs(o, g, "[", "elements", "]", x, y, e)
      <4>1. Opening("[") /\ Closing("]")
        BY Zenon DEF Opening, Closing
      <4> QED BY <1>w, <3>2, <3>4, <4>1, Zenon
    <3> QED BY <2>3, <3>1, <3>3, <3>4, Zenon DEF ValueIs
  <2>4. CASE kindOf = "value"
    <3>1. ValueIs(o, g, x, y, e)
      BY <1>1, <2>2, <2>4, Unfold, Zenon
    <3> QED BY <2>3, <3>1, Zenon DEF PartNested
  <2>5. CASE kindOf \in Lists
    <3>1. HeadIs(o, g, kindOf, x, y, e) \/ SplitIs(o, g, kindOf, x, y, e)
      BY <1>1, <2>2, <2>5, ListIs, Zenon
    <3>2. kindOf # "value"
      BY <2>5 DEF Lists
    <3>3. CASE SplitIs(o, g, kindOf, x, y, e)
      <4>1. PICK k \in (x + 1)..(y - 1) : o[k] = "," /\ Is(g, kindOf, x, k - 1, e) /\ Is(g, kindOf, k + 1, y, e)
        BY <3>3, Zenon DEF SplitIs
      <4>2. k - 1 \in 0..M /\ k + 1 \in 1..(M + 1) /\ (k - 1) - x < w /\ y - (k + 1) < w
        BY <1>1, <2>2
      <4>3. Is(g, kindOf, x, k - 1, e) /\ Is(g, kindOf, k + 1, y, e)
        BY <4>1, Zenon
      <4>4. PartNested(o, kindOf, x, k - 1) /\ PartNested(o, kindOf, k + 1, y)
        BY <2>1, <4>2, <4>3
      <4>5. ~Opening(o[k]) /\ ~Closing(o[k])
        BY <4>1, CommaFlat, Zenon
      <4>6. NestedIs(o, x, y)
        BY <2>2, <4>4, <4>5, NestedSplit DEF PartNested
      <4> QED BY <3>2, <4>6 DEF PartNested
    <3>4. CASE HeadIs(o, g, kindOf, x, y, e)
      <4>1. CASE kindOf = "members"
        <5>1. y > x + 1 /\ o[x] \in Str /\ o[x + 1] = ":" /\ Is(g, "value", x + 2, y, e)
          BY <3>4, <4>1, Zenon DEF HeadIs
        <5>2. x + 2 \in 1..(M + 1) /\ y - (x + 2) < w
          BY <1>1, <2>2, <5>1
        <5>3. PartNested(o, "value", x + 2, y)
          BY <1>w, <2>1, <5>1, <5>2
        <5>4. NestedIs(o, x, y)
          BY <2>2, <5>1, <5>3, NestedMember DEF PartNested
        <5> QED BY <3>2, <5>4 DEF PartNested
      <4>2. CASE kindOf # "members"
        <5>1. Is(g, "value", x, y, e)
          BY <3>4, <4>2, Zenon DEF HeadIs
        <5>2. ValueIs(o, g, x, y, e)
          BY <1>1, <2>2, <5>1, Unfold, Zenon
        <5> QED BY <2>3, <3>2, <5>2, Zenon DEF PartNested
      <4> QED BY <4>1, <4>2
    <3> QED BY <3>1, <3>3, <3>4
  <2> QED BY <2>4, <2>5 DEF What, Lists
<1>4. \A w \in Nat : w \in S
  <2> HIDE DEF S
  <2> QED BY <1>3, ByLength
<1>5. b - a \in Nat
  BY <1>2
<1>6. b - a \in S
  BY <1>4, <1>5
<1> QED BY <1>1, <1>6

-----------------------------------------------------------------------------
(* parseRPCMessage, told by the tokens.                                      *)

LEMMA ScanValueForward ==
    ASSUME NEW l \in Seq(Marks), NEW i \in 1..(Len(l) + 1)
    PROVE  ScanValue(l, i) \in Room(l, i)
<1>1. PICK p : ScanOf(l, Solid(l), p, Scan(l))
  BY LineScanned
<1>2. ScanValue(l, i) = Found(Scan(l), "value", i, 0)
  BY <1>1, ScanValueIs, Zenon
<1>3. Forward(l, Scan(l), 0)
  BY <1>1 DEF ScanOf, IsScan
<1>4. "value" \in What /\ 0 \in Depths /\ i \in (0 + 1)..(Len(l) + 2)
  BY CodecAssumption DEF What, Depths
<1> QED BY <1>2, <1>3, <1>4 DEF Forward

LEMMA RestParsedAgrees ==
    ASSUME NEW l \in Seq(Marks), NEW v \in 1..(Len(l) + 1), NEW f, NEW h,
           \A k \in (v + 1)..(Len(l) + 2) : f[k] = h[k]
    PROVE  RestParsed(l, f, v) = RestParsed(l, h, v)
<1> DEFINE k == Skip(l, v)
<1>1. k \in v..(Len(l) + 1) /\ Len(l) \in Nat
  BY SkipPlace
<1>2. k + 1 \in (v + 1)..(Len(l) + 2)
  BY <1>1
<1>3. f[k + 1] = h[k + 1]
  BY <1>2
<1> QED BY <1>3, Zenon DEF RestParsed

LEMMA ParsedAgrees ==
    ASSUME NEW l \in Seq(Marks), NEW i \in 1..(Len(l) + 2), NEW f, NEW h,
           \A k \in (i + 1)..(Len(l) + 2) : f[k] = h[k]
    PROVE  ParsedAt(l, f, i) = ParsedAt(l, h, i)
<1> DEFINE j == Skip(l, i)
           c == Skip(l, j + 1)
           v == ScanValue(l, c + 1)
<1>1. CASE i > Len(l)
  BY <1>1, Zenon DEF ParsedAt
<1>2. CASE ~(i > Len(l)) /\ ~(At(l, j) \in Str /\ At(l, c) = ":" /\ v # 0)
  BY <1>2, Zenon DEF ParsedAt
<1>3. CASE ~(i > Len(l)) /\ At(l, j) \in Str /\ At(l, c) = ":" /\ v # 0
  <2>1. i \in 1..Len(l) /\ Len(l) \in Nat /\ i \in 1..(Len(l) + 1)
    BY <1>3
  <2>2. At(l, j) # "end" /\ At(l, c) # "end"
    BY <1>3 DEF Str
  <2>3. j \in i..Len(l)
    BY <2>1, <2>2, SkipPlace
  <2> HIDE DEF j
  <2>4. j + 1 \in 1..(Len(l) + 1)
    BY <2>1, <2>3
  <2>5. c \in (j + 1)..Len(l)
    BY <2>2, <2>4, SkipPlace
  <2> HIDE DEF c
  <2>6. c + 1 \in 1..(Len(l) + 1)
    BY <2>1, <2>4, <2>5
  <2>7. v \in Room(l, c + 1)
    BY <2>6, ScanValueForward
  <2> HIDE DEF v
  <2>8. v \in 1..(Len(l) + 1) /\ \A k \in (v + 1)..(Len(l) + 2) : k \in (i + 1)..(Len(l) + 2)
    BY <1>3, <2>1, <2>3, <2>5, <2>7 DEF Room
  <2>9. \A k \in (v + 1)..(Len(l) + 2) : f[k] = h[k]
    BY <2>8, Zenon
  <2>10. RestParsed(l, f, v) = RestParsed(l, h, v)
    BY <2>8, <2>9, RestParsedAgrees, Zenon
  <2> QED BY <2>10, Zenon DEF ParsedAt, v, c, j
<1> QED BY <1>1, <1>2, <1>3

\* The recursion of parseRPCMessage exists.
LEMMA ParseRuns ==
    ASSUME NEW l \in Seq(Marks)
    PROVE  \E r : /\ IsParse(l, r)
                  /\ ParseMessage(l) <=> At(l, Skip(l, 1)) = "{" /\ r[Skip(l, 1) + 1]
<1> DEFINE n == Len(l) + 2
           parse == CHOOSE r : r = [i \in 1..n |-> ParsedAt(l, r, i)]
           step == [i \in 1..n |-> [f \in [1..n -> BOOLEAN] |-> ParsedAt(l, f, i)]]
<1>1. n \in Nat /\ TRUE \in BOOLEAN
  OBVIOUS
<1>2. ASSUME NEW i \in 1..n, NEW f PROVE ParsedAt(l, f, i) \in BOOLEAN
  BY Zenon DEF ParsedAt
<1>3. ASSUME NEW i \in 1..n, NEW f, NEW h, \A j \in (i + 1)..n : f[j] = h[j]
      PROVE  ParsedAt(l, f, i) = ParsedAt(l, h, i)
  BY <1>3, ParsedAgrees
<1>4. PICK g : IsRun(g, BOOLEAN, n, step)
  <2>1. step \in Later(BOOLEAN, n)
    <3> HIDE DEF n
    <3> QED BY <1>2, <1>3 DEF Later
  <2> HIDE DEF step, n
  <2> QED BY <1>1, <2>1, BackwardExists, Zenon
<1>5. g = [i \in 1..n |-> ParsedAt(l, g, i)]
  <2>1. \A i \in 1..n : g[i] = ParsedAt(l, g, i)
    BY <1>4 DEF IsRun
  <2> QED BY <1>4, <2>1 DEF IsRun
<1>6. parse = [i \in 1..n |-> ParsedAt(l, parse, i)]
  BY <1>5
<1>7. ParseMessage(l) <=> At(l, Skip(l, 1)) = "{" /\ parse[Skip(l, 1) + 1]
  BY Zenon DEF ParseMessage, ParsedAt, RestParsed
<1> HIDE DEF parse
<1>8. IsParse(l, parse)
  BY <1>6 DEF IsParse
<1> QED BY <1>7, <1>8

LEMMA CommaIs ==
    /\ Comma # "}" /\ Comma # "]" /\ Comma # "end" /\ Comma # ":" /\ Comma \notin Str
    /\ Comma \in Delims /\ ~Opening(Comma) /\ ~Closing(Comma)
  BY CommaFlat, Zenon DEF Comma, Str, Delims

\* The steps of parseRPCMessage, told by the tokens.
LEMMA RestParsedStep ==
    ASSUME NEW l \in Seq(Marks), NEW o, NEW p, IsMap(l, o, p), NEW r, NEW v \in 1..(Len(l) + 1)
    PROVE  RestParsedIs(l, o, p, r, v)
<1> DEFINE t == At(o, p[v] + 1)
           k == Skip(l, v)
           rest == RestParsed(l, r, v)
           N == Len(l)
           M == Len(o)
<1>1. N \in Nat /\ Len(l) = N /\ M \in Nat /\ p[v] \in 0..M /\ v \in 1..(N + 1)
  BY Placed
<1>2. NextIs(l, o, p, v, k)
  BY SkipToNext
<1>3. rest <=> \/ At(l, k) = Comma /\ ~(At(l, Skip(l, k + 1)) = "}") /\ r[k + 1]
               \/ At(l, k) = "}" /\ Skip(l, k + 1) = N + 1
  BY Zenon DEF RestParsed, Dangling, Comma
<1> HIDE DEF k, t, rest, N, M
<1>4. k \in v..(N + 1) /\ At(l, k) = t /\ (t # "end" => k \in 1..N /\ p[k + 1] = p[v] + 1)
  BY <1>1, <1>2 DEF NextIs, t
<1>5. ASSUME t # "end"
      PROVE  /\ k + 1 \in (v + 1)..(N + 1) /\ k + 1 \in 1..(N + 1) /\ p[k + 1] = p[v] + 1
             /\ At(l, Skip(l, k + 1)) = At(o, p[v] + 2)
             /\ Skip(l, k + 1) = N + 1 <=> p[v] + 1 = M
  <2>1. k + 1 \in (v + 1)..(N + 1) /\ k + 1 \in 1..(Len(l) + 1) /\ p[k + 1] = p[v] + 1
    BY <1>1, <1>4, <1>5
  <2>2. NextIs(l, o, p, k + 1, Skip(l, k + 1))
    BY <2>1, SkipToNext
  <2>3. Skip(l, k + 1) = Len(l) + 1 <=> p[k + 1] = Len(o)
    BY <2>1, RestOfLine
  <2>4. p[k + 1] + 1 = p[v] + 2
    BY <1>1, <2>1
  <2>5. At(l, Skip(l, k + 1)) = At(o, p[v] + 2)
    BY <2>2, <2>4, Zenon DEF NextIs
  <2> QED BY <1>1, <2>1, <2>3, <2>5 DEF M
<1>6. CASE t = Comma
  <2>1. t # "end" /\ t # "}"
    BY <1>6, CommaIs, Zenon
  <2>2. rest <=> ~(At(o, p[v] + 2) = "}") /\ r[k + 1]
    BY <1>3, <1>4, <1>5, <1>6, <2>1, Zenon
  <2>3. k + 1 \in (v + 1)..(Len(l) + 1) /\ p[k + 1] = p[v] + 1
    BY <1>1, <1>5, <2>1
  <2> QED BY <1>6, <2>1, <2>2, <2>3, Zenon DEF RestParsedIs, t, rest
<1>7. CASE t = "}"
  <2>1. t # "end" /\ t # Comma
    BY <1>7, CommaIs, Zenon
  <2>2. rest <=> p[v] + 1 = M
    BY <1>3, <1>4, <1>5, <1>7, <2>1, Zenon
  <2> QED BY <1>7, <2>1, <2>2, Zenon DEF RestParsedIs, t, rest, M
<1>8. CASE t # Comma /\ t # "}"
  <2>1. ~rest
    BY <1>3, <1>4, <1>8, Zenon
  <2> QED BY <1>8, <2>1, Zenon DEF RestParsedIs, t, rest
<1> QED BY <1>6, <1>7, <1>8, Zenon

LEMMA ParsedStep ==
    ASSUME NEW l, NEW o, NEW p, ScanOf(l, o, p, Scan(l)), NEW r, IsParse(l, r), NEW i \in 1..(Len(l) + 1)
    PROVE  ParsedIs(l, o, p, r, i)
<1> DEFINE t == At(o, p[i] + 1)
           t2 == At(o, p[i] + 2)
           j == Skip(l, i)
           c == Skip(l, j + 1)
           N == Len(l)
           M == Len(o)
<1>1. l \in Seq(Marks) /\ IsMap(l, o, p)
  BY DEF ScanOf
<1>2. N \in Nat /\ Len(l) = N /\ M \in Nat /\ Len(o) = M /\ p[i] \in 0..M /\ i \in 1..(N + 1)
  BY <1>1, Placed
<1>3. NextIs(l, o, p, i, j)
  BY <1>1, SkipToNext
<1>4. r[i] = ParsedAt(l, r, i)
  <2>1. i \in 1..(Len(l) + 2)
    BY <1>2
  <2> QED BY <2>1 DEF IsParse
<1>5. "}" \notin Str /\ "end" \notin Str
  BY DEF Str
<1>6. CASE i > N
  <2>1. ~r[i]
    BY <1>4, <1>6, Zenon DEF ParsedAt
  <2>2. i = Len(l) + 1 /\ "value" \in What /\ 0 \in Depths
    BY <1>2, <1>6, CodecAssumption DEF What, Depths
  <2>3. t = "end"
    BY <2>2, NothingAtEnd
  <2> HIDE DEF t
  <2>4. t # "}" /\ t \notin Str
    BY <1>5, <2>3
  <2> QED BY <2>1, <2>4, Zenon DEF ParsedIs, t
<1>7. CASE ~(i > N)
  <2> HIDE DEF j, t, N, M
  <2>1. j \in i..(N + 1) /\ p[j] = p[i] /\ At(l, j) = t /\ (t # "end" => j \in 1..N /\ p[j + 1] = p[i] + 1)
    BY <1>2, <1>3 DEF NextIs, t
  <2>2. CASE t = "}"
    <3>1. r[i] <=> Skip(l, j + 1) = Len(l) + 1
      BY <1>4, <1>7, <2>1, <2>2, Zenon DEF ParsedAt, j, N
    <3>e. t # "end"
      BY <2>2
    <3>2. j + 1 \in 1..(Len(l) + 1) /\ p[j + 1] = p[i] + 1
      BY <1>2, <2>1, <3>e
    <3>3. Skip(l, j + 1) = Len(l) + 1 <=> p[j + 1] = Len(o)
      BY <1>1, <3>2, RestOfLine
    <3>4. r[i] <=> p[i] + 1 = Len(o)
      BY <3>1, <3>2, <3>3, Zenon
    <3>5. t \notin Str
      BY <1>5, <2>2
    <3> QED BY <2>2, <3>4, <3>5, Zenon DEF ParsedIs, t
  <2>3. CASE t # "}"
    <3>1. r[i] <=> /\ t \in Str /\ At(l, c) = ":" /\ ScanValue(l, c + 1) # 0
                   /\ Decodable(t, At(l, Skip(l, c + 1)))
                   /\ RestParsed(l, r, ScanValue(l, c + 1))
      BY <1>4, <1>7, <2>1, <2>3, Zenon DEF ParsedAt, j, N
    <3>2. CASE t \notin Str
      BY <2>3, <3>1, <3>2, Zenon DEF ParsedIs, t
    <3>3. CASE t \in Str
      <4>1. t # "end"
        BY <1>5, <3>3
      <4>2. j + 1 \in 1..(Len(l) + 1) /\ p[j + 1] + 1 = p[i] + 2 /\ j + 1 \in (i + 1)..(N + 1)
        BY <1>2, <2>1, <4>1
      <4>3. NextIs(l, o, p, j + 1, c)
        BY <1>1, <4>2, SkipToNext
      <4> HIDE DEF c
      <4>4. c \in (j + 1)..(N + 1) /\ At(l, c) = t2 /\ (t2 # "end" => c \in 1..N /\ p[c + 1] = p[j + 1] + 1)
        BY <1>2, <4>2, <4>3 DEF NextIs
      <4>5. CASE t2 # ":"
        BY <2>3, <3>1, <4>4, <4>5, Zenon DEF ParsedIs, t
      <4>6. CASE t2 = ":"
        <5>1. c + 1 \in 1..(Len(l) + 1) /\ c + 1 \in (i + 1)..(Len(l) + 1) /\ p[c + 1] = p[i] + 2
          BY <1>2, <4>2, <4>4, <4>6
        <5>2. ScanValue(l, c + 1) = Found(Scan(l), "value", c + 1, 0)
          BY <5>1, ScanValueIs, Zenon
        <5>3. At(l, Skip(l, c + 1)) = At(o, p[c + 1] + 1)
          <6>1. NextIs(l, o, p, c + 1, Skip(l, c + 1))
            BY <1>1, <5>1, SkipToNext
          <6> QED BY <6>1, Zenon DEF NextIs
        <5>4. r[i] <=> MemberParsed(l, o, p, r, t, c + 1)
          BY <3>1, <3>3, <4>4, <4>6, <5>2, <5>3, Zenon DEF MemberParsed
        <5> QED BY <2>3, <3>3, <4>6, <5>1, <5>4, Zenon DEF ParsedIs, t
      <4> QED BY <4>5, <4>6
    <3> QED BY <3>2, <3>3
  <2> QED BY <2>2, <2>3
<1> QED BY <1>6, <1>7

\* A member at the first level has one key, its own.
LEMMA MemberDecodes ==
    ASSUME NEW o, Len(o) \in Nat, DOMAIN o = 1..Len(o), NEW g, IsGrammar(o, g),
           NEW a \in 1..Len(o), NEW m \in 1..Len(o), m + 1 <= Len(o), m > a + 1, o[a] \in Str, o[a + 1] = ":",
           Is(g, "value", a + 2, m, 1), Level(o, a - 1) = 1, AfterMember(o[m + 1])
    PROVE  /\ DecodeFrom(o, a) <=> Decodable(o[a], At(o, a + 2)) /\ DecodeFrom(o, m + 2)
           /\ o[m + 1] = Comma => Level(o, m + 1) = 1
<1> DEFINE M == Len(o)
<1>1. /\ M \in Nat /\ Len(o) = M /\ DOMAIN o = 1..M /\ a \in 1..M /\ m \in 1..M /\ m + 1 \in 1..M
      /\ a \in Nat \ {0} /\ m \in Nat /\ a + 1 \in 1..M /\ (a + 2) - 1 = a + 1 /\ m + 1 \in Nat \ {0}
      /\ a + 2 \in 1..(M + 1) /\ m \in 0..M /\ (m + 1) - 1 = m
  OBVIOUS
<1> HIDE DEF M
<1>2. 1 \in Depths /\ "value" \in What
  BY CodecAssumption DEF Depths, What
<1>3. NestedIs(o, a + 2, m) /\ DeeperIs(o, a + 2, m)
  BY <1>1, <1>2, Nested, Zenon DEF PartNested
<1>4. Level(o, a + 1) = 1
  BY <1>1, <1>3, NestedMember
<1>5. Level(o, m) = 1
  BY <1>1, <1>3, <1>4 DEF NestedIs
<1>0. "}" \notin Str /\ ":" \notin Str
  BY DEF Str
<1>6. o[m + 1] # ":" /\ o[m + 1] \notin Str
  BY <1>0, CommaIs, Zenon DEF AfterMember
<1>7. IsKey(o, a)
  <2>1. ~Opening(o[a]) /\ ~Closing(o[a])
    BY DEF Opening, Closing, Str
  <2>2. Nesting(o, a) = 1
    BY <1>1, <2>1, FlatStep, Zenon
  <2>3. At(o, a + 1) = ":"
    BY <1>1 DEF At
  <2> QED BY <2>2, <2>3, Zenon DEF IsKey
<1>8. ASSUME NEW k \in (a + 1)..(m + 1) PROVE ~IsKey(o, k)
  <2>1. k = a + 1 \/ k = m + 1 \/ k \in (a + 2)..m
    BY <1>1
  <2>2. CASE k = a + 1
    <3>1. o[k] \notin Str
      BY <1>0, <2>2
    <3> QED BY <3>1 DEF IsKey
  <2>3. CASE k = m + 1
    BY <1>6, <2>3, Zenon DEF IsKey
  <2>4. CASE k \in (a + 2)..m /\ a + 2 = m
    <3>1. k = m
      BY <1>1, <2>4
    <3>2. At(o, k + 1) # ":"
      BY <1>1, <1>6, <3>1 DEF At
    <3> QED BY <3>2 DEF IsKey
  <2>5. CASE k \in (a + 2)..m /\ a + 2 # m
    <3>1. Nesting(o, k) >= Level(o, a + 1) + 1
      BY <1>1, <1>3, <2>5 DEF DeeperIs
    <3>2. Nesting(o, k) # 1
      BY <1>4, <3>1
    <3> QED BY <3>2 DEF IsKey
  <2> QED BY <2>1, <2>2, <2>3, <2>4, <2>5
<1>9. \A k \in a..M : k = a \/ k \in (a + 1)..(m + 1) \/ k \in (m + 2)..M
  BY <1>1
<1>10. a \in a..M /\ \A k \in (m + 2)..M : k \in a..M
  BY <1>1
<1>11. DecodeFrom(o, a) <=> Decodable(o[a], At(o, a + 2)) /\ DecodeFrom(o, m + 2)
  BY <1>1, <1>7, <1>8, <1>9, <1>10, Zenon DEF DecodeFrom
<1>12. ASSUME o[m + 1] = Comma PROVE Level(o, m + 1) = 1
  <2>1. ~Opening(o[m + 1]) /\ ~Closing(o[m + 1])
    BY <1>12, CommaIs, Zenon
  <2> QED BY <1>1, <1>5, <2>1, FlatStep
<1> QED BY <1>11, <1>12

\* The members of the message are a first one, and what follows it.
LEMMA ListFromTaken ==
    ASSUME NEW o, Len(o) \in Nat, DOMAIN o = 1..Len(o), NEW g, IsGrammar(o, g), NEW a \in 1..Len(o),
           Level(o, a - 1) = 1, ListFrom(o, g, a)
    PROVE  \E m : MemberIs(o, g, a, m) /\ ThenIs(o, g, m)
<1> DEFINE M == Len(o)
<1>1. M \in Nat /\ Len(o) = M /\ DOMAIN o = 1..M /\ a \in 1..M
  OBVIOUS
<1> HIDE DEF M
<1>2. a < M /\ Is(g, "members", a, M - 1, 1) /\ o[M] = "}" /\ DecodeFrom(o, a)
  BY <1>1, Zenon DEF ListFrom
<1>3. 1 \in Depths /\ "members" \in Lists /\ "members" \in What
  BY CodecAssumption DEF Depths, Lists, What
<1>4. a \in 1..(M + 1) /\ M - 1 \in 0..M
  BY <1>1
<1>5. PICK m : FirstIs(o, g, "members", a, M - 1, 1, m)
  BY <1>1, <1>2, <1>3, <1>4, Linear, Zenon
<1>6. /\ m \in a..(M - 1)
      /\ m = M - 1 \/ (m + 2 <= M - 1 /\ o[m + 1] = "," /\ Is(g, "members", m + 2, M - 1, 1))
      /\ m > a + 1 /\ o[a] \in Str /\ o[a + 1] = ":" /\ Is(g, "value", a + 2, m, 1)
  BY <1>5, Zenon DEF FirstIs, HeadIs
<1>7. m \in a..(M - 1) /\ m > a + 1 /\ m \in 1..M /\ m + 1 <= M
  <2>1. m \in a..(M - 1) /\ m > a + 1
    BY <1>6, Zenon
  <2> QED BY <1>1, <2>1
<1>8. \/ m + 1 = M /\ o[m + 1] = "}"
      \/ o[m + 1] = Comma /\ m + 2 < M /\ Is(g, "members", m + 2, M - 1, 1)
  <2>1. CASE m = M - 1
    <3>1. m + 1 = M
      BY <1>1, <2>1
    <3> QED BY <1>2, <3>1
  <2>2. CASE m # M - 1
    <3>1. m + 2 <= M - 1 /\ o[m + 1] = Comma /\ Is(g, "members", m + 2, M - 1, 1)
      BY <1>6, <2>2, Zenon DEF Comma
    <3>2. m + 2 < M
      BY <1>1, <1>7, <3>1
    <3> QED BY <3>1, <3>2
  <2> QED BY <2>1, <2>2
<1>9. AfterMember(o[m + 1])
  BY <1>8, Zenon DEF AfterMember
<1>10. o[a] \in Str /\ o[a + 1] = ":" /\ Is(g, "value", a + 2, m, 1)
  BY <1>6, Zenon
<1>11. DecodeFrom(o, a) <=> Decodable(o[a], At(o, a + 2)) /\ DecodeFrom(o, m + 2)
  BY <1>1, <1>7, <1>9, <1>10, MemberDecodes, Zenon
<1>12. MemberIs(o, g, a, m)
  BY <1>1, <1>2, <1>7, <1>10, <1>11, Zenon DEF MemberIs
<1>13. ThenIs(o, g, m)
  BY <1>1, <1>2, <1>8, <1>11, Zenon DEF ThenIs, ListFrom
<1> QED BY <1>12, <1>13

LEMMA ListFromMade ==
    ASSUME NEW o, Len(o) \in Nat, DOMAIN o = 1..Len(o), NEW g, IsGrammar(o, g), NEW a \in 1..Len(o),
           Level(o, a - 1) = 1, NEW m, MemberIs(o, g, a, m), ThenIs(o, g, m)
    PROVE  ListFrom(o, g, a)
<1> DEFINE M == Len(o)
<1>1. M \in Nat /\ Len(o) = M /\ DOMAIN o = 1..M /\ a \in 1..M
  OBVIOUS
<1> HIDE DEF M
<1>2. /\ m \in 1..M /\ m + 1 <= M /\ m > a + 1
      /\ o[a] \in Str /\ o[a + 1] = ":" /\ Is(g, "value", a + 2, m, 1)
      /\ Decodable(o[a], At(o, a + 2))
  BY <1>1, Zenon DEF MemberIs
<1>3. (m + 1 = M /\ o[m + 1] = "}") \/ (o[m + 1] = Comma /\ ListFrom(o, g, m + 2))
  BY <1>1, Zenon DEF ThenIs
<1>4. 1 \in Depths /\ "members" \in Lists /\ "members" \in What
  BY CodecAssumption DEF Depths, Lists, What
<1>5. AfterMember(o[m + 1])
  BY <1>3, Zenon DEF AfterMember
<1>6. m \in 1..M /\ m + 1 <= M /\ m > a + 1
  BY <1>2, Zenon
<1>7. DecodeFrom(o, a) <=> Decodable(o[a], At(o, a + 2)) /\ DecodeFrom(o, m + 2)
  BY <1>1, <1>2, <1>5, MemberDecodes, Zenon
<1>8. a \in 1..(M + 1) /\ m \in 0..M /\ a <= m /\ a \in 1..M /\ a < M
  BY <1>1, <1>6
<1>9. Is(g, "members", a, m, 1)
  <2>1. HeadIs(o, g, "members", a, m, 1)
    BY <1>2, Zenon DEF HeadIs
  <2> QED BY <1>1, <1>4, <1>8, <2>1, ListIs, Zenon
<1>10. CASE m + 1 = M /\ o[m + 1] = "}"
  <2>m. m + 1 = M
    BY <1>10, Zenon
  <2>n. m = M - 1
    BY <1>6, <2>m
  <2>1. m = M - 1 /\ o[M] = "}"
    BY <1>10, <2>m, <2>n, Zenon
  <2>2. DecodeFrom(o, m + 2)
    <3>1. \A k \in (m + 2)..M : FALSE
      BY <1>6, <2>m
    <3> QED BY <1>1, <3>1, Zenon DEF DecodeFrom
  <2> QED BY <1>1, <1>2, <1>7, <1>8, <1>9, <2>1, <2>2, Zenon DEF ListFrom
<1>11. CASE o[m + 1] = Comma /\ ListFrom(o, g, m + 2)
  <2>1. m + 2 < M /\ Is(g, "members", m + 2, M - 1, 1) /\ o[M] = "}" /\ DecodeFrom(o, m + 2)
    BY <1>1, <1>11, Zenon DEF ListFrom
  <2> DEFINE b == M - 1
             c == m + 1
  <2>2. m + 2 < M
    BY <2>1
  <2>3. b \in 1..M /\ c \in (a + 1)..(b - 1) /\ c - 1 = m /\ c + 1 = m + 2
    BY <1>1, <1>6, <2>2
  <2>4. o[c] = ","
    BY <1>11, Zenon DEF Comma
  <2>5. Is(g, "members", a, c - 1, 1) /\ Is(g, "members", c + 1, b, 1)
    BY <1>9, <2>1, <2>3, Zenon
  <2> HIDE DEF b, c
  <2>6. Is(g, "members", a, b, 1)
    BY <1>1, <1>4, <1>8, <2>3, <2>4, <2>5, Join, Zenon
  <2> QED BY <1>1, <1>2, <1>7, <1>8, <2>1, <2>6, Zenon DEF ListFrom, b
<1> QED BY <1>3, <1>10, <1>11, Zenon

\* What follows a comma is at the first level.
LEMMA LevelAfter ==
    ASSUME NEW o, Len(o) \in Nat, DOMAIN o = 1..Len(o), NEW g, IsGrammar(o, g), NEW a \in 1..Len(o),
           Level(o, a - 1) = 1, NEW m, MemberIs(o, g, a, m), o[m + 1] = Comma
    PROVE  Level(o, m + 1) = 1
<1>1. /\ m \in 1..Len(o) /\ m + 1 <= Len(o) /\ m > a + 1
      /\ o[a] \in Str /\ o[a + 1] = ":" /\ Is(g, "value", a + 2, m, 1)
  BY Zenon DEF MemberIs
<1>2. AfterMember(o[m + 1])
  BY Zenon DEF AfterMember
<1> QED BY <1>1, <1>2, MemberDecodes, Zenon

\* A list of members begins with the name of one.
LEMMA ListFromName ==
    ASSUME NEW o, Len(o) \in Nat, NEW g, IsGrammar(o, g), NEW a \in 1..Len(o), ListFrom(o, g, a)
    PROVE  o[a] # "}"
<1> DEFINE M == Len(o)
<1>1. M \in Nat /\ Len(o) = M /\ a \in 1..M
  OBVIOUS
<1> HIDE DEF M
<1>2. a < M /\ Is(g, "members", a, M - 1, 1)
  BY <1>1, Zenon DEF ListFrom
<1>3. 1 \in Depths /\ "members" \in Lists
  BY CodecAssumption DEF Depths, Lists
<1>4. M - 1 \in 1..M
  BY <1>1, <1>2
<1>5. o[a] \in Str \cup {"n", "{", "["}
  BY <1>1, <1>2, <1>3, <1>4, FirstToken, Zenon
<1> QED BY <1>5 DEF Str

\* Where a member begins.
LEMMA MemberAtIs ==
    ASSUME NEW l, NEW o, NEW p, NEW g, ScanOf(l, o, p, Scan(l)), NEW i \in 1..(Len(l) + 1), NEW c,
           MemberAt(l, o, p, g, i, c)
    PROVE  MemberPlace(l, o, p, i, c, p[i] + 1)
<1>1. l \in Seq(Marks) /\ IsMap(l, o, p)
  BY DEF ScanOf
<1>2. /\ Len(l) \in Nat /\ Len(o) \in Nat /\ DOMAIN o = 1..Len(o) /\ p[i] \in 0..Len(o)
  BY <1>1, Placed
<1>3. /\ p[i] + 1 \in 1..Len(o) /\ c \in (i + 1)..(Len(l) + 1) /\ p[c] = p[i] + 2
      /\ o[p[i] + 1] \in Str /\ At(o, p[i] + 2) = ":" /\ Level(o, p[i]) = 1
  BY Zenon DEF MemberAt
<1> DEFINE a == p[i] + 1
<1>4. /\ c \in 1..(Len(l) + 1) /\ a - 1 = p[i] /\ a + 1 = p[i] + 2 /\ p[c] = a + 1 /\ p[c] + 1 = a + 2
  BY <1>2, <1>3
<1>5. a + 1 \in 1..Len(o) /\ o[a + 1] = ":"
  <2>1. At(o, a + 1) # "end" /\ At(o, a + 1) = ":"
    BY <1>3, <1>4
  <2> HIDE DEF a
  <2> QED BY <1>2, <2>1 DEF At
<1>6. a \in 1..Len(o) /\ a = p[i] + 1 /\ o[a] \in Str /\ Level(o, a - 1) = 1
  BY <1>3, <1>4
<1> HIDE DEF a
<1>7. MemberPlace(l, o, p, i, c, a)
  BY <1>1, <1>2, <1>3, <1>4, <1>5, <1>6, Zenon DEF MemberPlace
<1> QED BY <1>7, Zenon DEF a

\* What parseRPCMessage takes is a member, and what follows one.
LEMMA MemberTaken ==
    ASSUME NEW l, NEW o, NEW p, NEW g, NEW r, ScanOf(l, o, p, Scan(l)), IsGrammar(o, g),
           NEW i \in 1..(Len(l) + 1), NEW c, MemberAt(l, o, p, g, i, c),
           MemberParsed(l, o, p, r, o[p[i] + 1], c),
           \A k \in (i + 1)..(Len(l) + 1) : ParsedTo(l, o, p, g, r, k)
    PROVE  MessageFrom(o, g, p[i] + 1)
<1> DEFINE N == Len(l)
           M == Len(o)
           a == p[i] + 1
           v == Found(Scan(l), "value", c, 0)
           m == p[v]
<1>1. /\ N \in Nat /\ Len(l) = N /\ M \in Nat /\ Len(o) = M /\ DOMAIN o = 1..M
      /\ l \in Seq(Marks) /\ IsMap(l, o, p) /\ a \in 1..M /\ c \in 1..(N + 1) /\ a - 1 = p[i]
      /\ p[c] + 1 = a + 2 /\ o[a] \in Str /\ o[a + 1] = ":" /\ Level(o, a - 1) = 1 /\ p[c] = a + 1
  <2>1. MemberPlace(l, o, p, i, c, a)
    BY MemberAtIs, Zenon
  <2> HIDE DEF a
  <2> QED BY <2>1, Zenon DEF MemberPlace
<1>2. c \in (i + 1)..(N + 1)
  BY Zenon DEF MemberAt
<1> HIDE DEF N, M, a
<1>3. v # 0 /\ Decodable(o[a], At(o, a + 2)) /\ RestParsed(l, r, v)
  BY <1>1, Zenon DEF MemberParsed, v, a
<1>4. 0 \in 0..MaxDepth /\ 0 + 1 = 1
  BY CodecAssumption
<1>5. SoundAt(l, o, p, Scan(l), g, c, 0)
  BY <1>1, <1>4, ScannerSound, Zenon
<1>6. v \in (c + 1)..(N + 1) /\ m >= p[c] + 1 /\ Is(g, "value", a + 2, m, 1)
  BY <1>1, <1>3, <1>4, <1>5, Zenon DEF SoundAt, ValueSound, v, m
<1> HIDE DEF v
<1>7. v \in 1..(N + 1) /\ \A k \in (v + 1)..(N + 1) : k \in (i + 1)..(N + 1)
  BY <1>1, <1>2, <1>6
<1>8. m \in 0..M
  BY <1>1, <1>7, Placed, Zenon DEF m
<1>9. RestParsedIs(l, o, p, r, v)
  BY <1>1, <1>7, RestParsedStep, Zenon
<1>10. /\ At(o, m + 1) = Comma /\ At(o, m + 2) = "}" => ~RestParsed(l, r, v)
       /\ At(o, m + 1) = Comma /\ At(o, m + 2) # "}" =>
            \E k \in (v + 1)..(N + 1) : p[k] = m + 1 /\ (RestParsed(l, r, v) <=> r[k])
       /\ At(o, m + 1) = "}" => (RestParsed(l, r, v) <=> m + 1 = M)
       /\ At(o, m + 1) # Comma /\ At(o, m + 1) # "}" => ~RestParsed(l, r, v)
  BY <1>1, <1>9, Zenon DEF RestParsedIs, m
<1> HIDE DEF m
<1>11. At(o, m + 1) = Comma \/ At(o, m + 1) = "}"
  BY <1>3, <1>10, Zenon
<1>12. m + 1 \in 1..M /\ o[m + 1] = At(o, m + 1)
  <2>1. At(o, m + 1) # "end"
    BY <1>11, CommaIs, Zenon
  <2> QED BY <1>1, <1>8, <2>1 DEF At
<1>13. m \in 1..M /\ m + 1 <= M /\ m > a + 1
  BY <1>1, <1>6, <1>8, <1>12
<1>17. m + 2 = M => m + 2 \in 1..M
  BY <1>13
<1>14. MemberIs(o, g, a, m)
  BY <1>1, <1>3, <1>6, <1>13, Zenon DEF MemberIs
<1>15. ThenIs(o, g, m)
  <2>1. ASSUME At(o, m + 1) = "}" PROVE ThenIs(o, g, m)
    BY <1>1, <1>3, <1>10, <1>12, <2>1, Zenon DEF ThenIs
  <2>2. ASSUME At(o, m + 1) = Comma PROVE ThenIs(o, g, m)
    <3>1. At(o, m + 2) # "}"
      BY <1>3, <1>10, <2>2, Zenon
    <3>2. PICK k \in (v + 1)..(N + 1) : p[k] = m + 1 /\ r[k]
      BY <1>3, <1>10, <2>2, <3>1, Zenon
    <3>3. ParsedTo(l, o, p, g, r, k)
      BY <1>1, <1>7, Zenon
    <3>4. Level(o, m + 1) = 1
      BY <1>1, <1>12, <1>14, <2>2, LevelAfter, Zenon
    <3>m. (m + 1) + 1 = m + 2
      BY <1>8
    <3>5. MessageFrom(o, g, m + 2)
      BY <3>2, <3>3, <3>4, <3>m, Zenon DEF ParsedTo
    <3>6. ~(m + 2 = M /\ o[m + 2] = "}")
      <4> SUFFICES ASSUME m + 2 = M, o[m + 2] = "}" PROVE FALSE
        OBVIOUS
      <4>1. m + 2 \in 1..M
        BY <1>17
      <4> QED BY <1>1, <3>1, <4>1 DEF At
    <3>7. ListFrom(o, g, m + 2)
      BY <1>1, <3>5, <3>6, Zenon DEF MessageFrom
    <3> QED BY <1>12, <2>2, <3>7, Zenon DEF ThenIs
  <2> QED BY <1>11, <2>1, <2>2
<1>16. ListFrom(o, g, a)
  BY <1>1, <1>14, <1>15, ListFromMade, Zenon
<1> QED BY <1>16, Zenon DEF MessageFrom, a

\* A member, and what may follow one, is what parseRPCMessage takes.
LEMMA MemberMade ==
    ASSUME NEW l, NEW o, NEW p, NEW g, NEW r, ScanOf(l, o, p, Scan(l)), IsGrammar(o, g),
           NEW i \in 1..(Len(l) + 1), NEW c, MemberAt(l, o, p, g, i, c),
           MessageFrom(o, g, p[i] + 1),
           \A k \in (i + 1)..(Len(l) + 1) : ParsedTo(l, o, p, g, r, k)
    PROVE  MemberParsed(l, o, p, r, o[p[i] + 1], c)
<1> DEFINE N == Len(l)
           M == Len(o)
           a == p[i] + 1
           v == Found(Scan(l), "value", c, 0)
<1>1. /\ N \in Nat /\ Len(l) = N /\ M \in Nat /\ Len(o) = M /\ DOMAIN o = 1..M
      /\ l \in Seq(Marks) /\ IsMap(l, o, p) /\ a \in 1..M /\ c \in 1..(N + 1) /\ a - 1 = p[i]
      /\ p[c] + 1 = a + 2 /\ o[a] \in Str /\ o[a + 1] = ":" /\ Level(o, a - 1) = 1 /\ p[c] = a + 1
  <2>1. MemberPlace(l, o, p, i, c, a)
    BY MemberAtIs, Zenon
  <2> HIDE DEF a
  <2> QED BY <2>1, Zenon DEF MemberPlace
<1>2. c \in (i + 1)..(N + 1)
  BY Zenon DEF MemberAt
<1> HIDE DEF N, M, a
<1>3. ListFrom(o, g, a)
  <2>1. o[a] # "}"
    BY <1>1 DEF Str
  <2> QED BY <2>1, Zenon DEF MessageFrom, a
<1>4. PICK m : MemberIs(o, g, a, m) /\ ThenIs(o, g, m)
  BY <1>1, <1>3, ListFromTaken, Zenon
<1>5. /\ m \in 1..M /\ m + 1 <= M
      /\ Is(g, "value", a + 2, m, 1) /\ Decodable(o[a], At(o, a + 2))
  BY <1>1, <1>4, Zenon DEF MemberIs
<1>6. (m + 1 = M /\ o[m + 1] = "}") \/ (o[m + 1] = Comma /\ ListFrom(o, g, m + 2))
  BY <1>1, <1>4, Zenon DEF ThenIs
<1>7. m + 1 \in 1..M /\ m \in 0..M /\ (m + 1) + 1 = m + 2
  BY <1>1, <1>5
<1>8. At(o, m + 1) = o[m + 1]
  BY <1>1, <1>7 DEF At
<1>9. At(o, m + 1) \in Delims
  <2>1. Comma \in Delims /\ "}" \in Delims
    BY CommaIs, Zenon DEF Delims
  <2> QED BY <1>6, <1>8, <2>1, Zenon
<1>10. 0 \in 0..MaxDepth /\ 0 + 1 = 1
  BY CodecAssumption
<1>11. CompleteAt(l, o, p, Scan(l), g, c, 0)
  BY <1>1, <1>10, ScannerComplete, Zenon
<1>12. EndsBy(l, p, c, v, m)
  BY <1>1, <1>5, <1>7, <1>9, <1>10, <1>11, Zenon DEF CompleteAt, ValueComplete, v
<1>13. v \in (c + 1)..(N + 1) /\ p[v] = m
  BY <1>1, <1>12, Zenon DEF EndsBy
<1> HIDE DEF v
<1>14. v \in 1..(N + 1) /\ v # 0 /\ \A k \in (v + 1)..(N + 1) : k \in (i + 1)..(N + 1)
  BY <1>1, <1>2, <1>13
<1>15. RestParsedIs(l, o, p, r, v)
  BY <1>1, <1>14, RestParsedStep, Zenon
<1>16. /\ At(o, m + 1) = Comma /\ At(o, m + 2) # "}" =>
            \E k \in (v + 1)..(N + 1) : p[k] = m + 1 /\ (RestParsed(l, r, v) <=> r[k])
       /\ At(o, m + 1) = "}" => (RestParsed(l, r, v) <=> m + 1 = M)
  BY <1>1, <1>13, <1>15, Zenon DEF RestParsedIs
<1>17. RestParsed(l, r, v)
  <2>1. ASSUME m + 1 = M, o[m + 1] = "}" PROVE RestParsed(l, r, v)
    BY <1>8, <1>16, <2>1, Zenon
  <2>2. ASSUME o[m + 1] = Comma, ListFrom(o, g, m + 2) PROVE RestParsed(l, r, v)
    <3>1. m + 2 < M
      BY <1>1, <2>2, Zenon DEF ListFrom
    <3>2. m + 2 \in 1..M
      BY <1>1, <1>5, <3>1
    <3>3. o[m + 2] # "}"
      BY <1>1, <2>2, <3>2, ListFromName, Zenon
    <3>4. At(o, m + 2) # "}"
      BY <1>1, <3>2, <3>3, Zenon DEF At
    <3>5. PICK k \in (v + 1)..(N + 1) : p[k] = m + 1 /\ (RestParsed(l, r, v) <=> r[k])
      BY <1>8, <1>16, <2>2, <3>4, Zenon
    <3>6. ParsedTo(l, o, p, g, r, k)
      BY <1>1, <1>14, Zenon
    <3>7. Level(o, m + 1) = 1
      BY <1>1, <1>4, <2>2, LevelAfter, Zenon
    <3>8. MessageFrom(o, g, m + 2)
      BY <2>2, Zenon DEF MessageFrom
    <3> QED BY <1>7, <3>5, <3>6, <3>7, <3>8, Zenon DEF ParsedTo
  <2> QED BY <1>6, <2>1, <2>2
<1>18. MemberParsed(l, o, p, r, o[a], c)
  BY <1>1, <1>5, <1>14, <1>17, Zenon DEF MemberParsed, v
<1> QED BY <1>18, Zenon DEF a

\* parseRPCMessage takes from a position on what is a message from there.
LEMMA ParsedFrom ==
    ASSUME NEW l, NEW o, NEW p, NEW g, NEW r, ScanOf(l, o, p, Scan(l)), IsGrammar(o, g), IsParse(l, r),
           NEW i \in 1..(Len(l) + 1),
           \A k \in (i + 1)..(Len(l) + 1) : ParsedTo(l, o, p, g, r, k)
    PROVE  ParsedTo(l, o, p, g, r, i)
<1> SUFFICES ASSUME Level(o, p[i]) = 1 PROVE r[i] <=> MessageFrom(o, g, p[i] + 1)
  BY Zenon DEF ParsedTo
<1> DEFINE N == Len(l)
           M == Len(o)
           a == p[i] + 1
           t == At(o, p[i] + 1)
           t2 == At(o, p[i] + 2)
           member == t \in Str /\ t2 = ":"
<1>1. /\ N \in Nat /\ Len(l) = N /\ M \in Nat /\ Len(o) = M /\ DOMAIN o = 1..M
      /\ l \in Seq(Marks) /\ IsMap(l, o, p) /\ p[i] \in 0..M
  BY Placed DEF ScanOf
<1>2. ParsedIs(l, o, p, r, i)
  BY ParsedStep, Zenon
<1>3. /\ t = "}" => (r[i] <=> a = M)
      /\ member => \E c \in (i + 1)..(N + 1) : p[c] = p[i] + 2 /\ (r[i] <=> MemberParsed(l, o, p, r, t, c))
      /\ t # "}" /\ ~member => ~r[i]
  BY <1>2, Zenon DEF ParsedIs
<1>4. a \in 1..(M + 1) /\ a + 1 = p[i] + 2 /\ a - 1 = p[i]
  BY <1>1
<1>a. (a \in 1..M => o[a] = t) /\ (a \notin 1..M => t = "end")
  BY <1>1 DEF At
<1> HIDE DEF N, M, a, t, t2
<1>5. MessageFrom(o, g, a) => a \in 1..M
  <2>1. ListFrom(o, g, a) => a < M
    BY <1>1, Zenon DEF ListFrom
  <2>2. MessageFrom(o, g, a) => a = M \/ a < M
    BY <1>1, <2>1, Zenon DEF MessageFrom
  <2>3. a = M \/ a < M => M # 0
    BY <1>1, <1>4
  <2>4. a = M \/ a < M => a \in 1..M
    BY <1>1, <1>4, <2>3
  <2> QED BY <2>2, <2>4, Zenon
<1>6. CASE t = "}"
  <2>1. a \in 1..M /\ o[a] = "}"
    <3>1. t # "end"
      BY <1>6
    <3> QED BY <1>6, <1>a, <3>1, Zenon
  <2>2. ~ListFrom(o, g, a)
    BY <1>1, <2>1, ListFromName, Zenon
  <2>3. r[i] <=> MessageFrom(o, g, a)
    BY <1>1, <1>3, <1>6, <2>1, <2>2, Zenon DEF MessageFrom
  <2> QED BY <2>3, Zenon DEF a
<1>7. CASE member
  <2>1. t # "end"
    BY <1>7 DEF Str
  <2>2. a \in 1..M /\ o[a] = t
    BY <1>a, <2>1, Zenon
  <2>3. PICK c \in (i + 1)..(N + 1) : p[c] = p[i] + 2 /\ (r[i] <=> MemberParsed(l, o, p, r, t, c))
    BY <1>3, <1>7, Zenon
  <2>4. MemberAt(l, o, p, g, i, c)
    BY <1>1, <1>7, <2>2, <2>3, Zenon DEF MemberAt, a, t2
  <2>5. MemberParsed(l, o, p, r, t, c) => MessageFrom(o, g, a)
    BY <2>2, <2>4, MemberTaken, Zenon DEF a
  <2>6. MessageFrom(o, g, a) => MemberParsed(l, o, p, r, t, c)
    BY <2>2, <2>4, MemberMade, Zenon DEF a
  <2> QED BY <2>3, <2>5, <2>6, Zenon DEF a
<1>8. CASE t # "}" /\ ~member
  <2>1. ASSUME MessageFrom(o, g, a) PROVE FALSE
    <3>1. a \in 1..M /\ o[a] = t
      BY <1>5, <1>a, <2>1, Zenon
    <3>2. ListFrom(o, g, a)
      BY <1>8, <2>1, <3>1, Zenon DEF MessageFrom
    <3>3. PICK m : MemberIs(o, g, a, m) /\ ThenIs(o, g, m)
      <4>1. Level(o, a - 1) = 1
        BY <1>4
      <4> QED BY <1>1, <3>1, <3>2, <4>1, ListFromTaken, Zenon
    <3>4. /\ m \in 1..M /\ m + 1 <= M /\ m > a + 1 /\ o[a] \in Str /\ o[a + 1] = ":"
      BY <1>1, <3>3, Zenon DEF MemberIs
    <3>5. a + 1 \in 1..M
      BY <1>1, <3>1, <3>4
    <3>6. t2 = ":"
      <4>1. At(o, a + 1) = ":"
        BY <1>1, <3>4, <3>5, Zenon DEF At
      <4> QED BY <1>4, <4>1, Zenon DEF t2
    <3> QED BY <1>8, <3>1, <3>4, <3>6, Zenon
  <2> QED BY <1>3, <1>8, <2>1, Zenon DEF a
<1> QED BY <1>6, <1>7, <1>8, Zenon

\* Where the members of a message begin: after its first token.
LEMMA MessageParsed ==
    ASSUME NEW l, NEW o, NEW p, NEW g, NEW r, ScanOf(l, o, p, Scan(l)), IsGrammar(o, g), IsParse(l, r)
    PROVE  At(l, Skip(l, 1)) = "{" /\ r[Skip(l, 1) + 1] <=> At(o, 1) = "{" /\ MessageFrom(o, g, 2)
<1> DEFINE N == Len(l)
           j == Skip(l, 1)
           S == {k \in 1..(N + 1) : ParsedTo(l, o, p, g, r, k)}
<1>1. /\ N \in Nat /\ Len(l) = N /\ DOMAIN o = 1..Len(o) /\ l \in Seq(Marks) /\ IsMap(l, o, p)
      /\ p[1] = 0 /\ Len(o) \in Nat /\ 1 \in 1..(N + 1) /\ N + 1 \in Nat
  <2>1. l \in Seq(Marks) /\ IsMap(l, o, p)
    BY DEF ScanOf
  <2> QED BY <2>1, Placed
<1>2. ASSUME NEW k \in 1..(N + 1), \A q \in (k + 1)..(N + 1) : q \in S PROVE k \in S
  <2>1. \A q \in (k + 1)..(N + 1) : ParsedTo(l, o, p, g, r, q)
    BY <1>2
  <2>2. ParsedTo(l, o, p, g, r, k)
    BY <2>1, ParsedFrom, Zenon
  <2> QED BY <2>2
<1>3. \A k \in 1..(N + 1) : k \in S
  <2> HIDE DEF S
  <2> QED BY <1>1, <1>2, FromTheEnd
<1>4. NextIs(l, o, p, 1, j)
  BY <1>1, SkipToNext
<1>5. At(l, j) = At(o, 1)
  <2>1. p[1] + 1 = 1
    BY <1>1
  <2> QED BY <1>4, <2>1, Zenon DEF NextIs
<1> HIDE DEF j, N
<1>6. ASSUME At(o, 1) = "{" PROVE r[j + 1] <=> MessageFrom(o, g, 2)
  <2>1. At(l, j) # "end"
    BY <1>5, <1>6
  <2>2. j \in 1..N /\ p[j + 1] = p[1] + 1
    BY <1>1, <1>4, <2>1, Zenon DEF NextIs
  <2>3. j + 1 \in 1..(N + 1) /\ p[j + 1] = 1 /\ p[j + 1] + 1 = 2
    BY <1>1, <2>2
  <2>4. Level(o, 1) = 1
    <3>1. o[1] = "{"
      <4>1. At(o, 1) # "end"
        BY <1>6
      <4> QED BY <1>1, <1>6, <4>1, AtIs, Zenon
    <3>2. Opening(o[1])
      BY <3>1 DEF Opening
    <3>3. Level(o, 1) = Level(o, 1 - 1) + 1
      BY <3>2, OpenedStep
    <3>4. OpeningTo(o, 0) = {} /\ ClosingTo(o, 0) = {}
      BY DEF OpeningTo, ClosingTo
    <3>5. Level(o, 0) = 0
      BY <3>4, FS_EmptySet DEF Level
    <3> QED BY <3>3, <3>5
  <2>5. ParsedTo(l, o, p, g, r, j + 1)
    BY <1>3, <2>3
  <2> QED BY <2>3, <2>4, <2>5, Zenon DEF ParsedTo
<1> QED BY <1>5, <1>6, Zenon DEF j

\* A message, by its tokens.
LEMMA WholeMessage ==
    ASSUME NEW l \in Seq(Marks)
    PROVE  LET o == Solid(l) IN
           IsMessage(l) /\ MembersDecode(l) <=> At(o, 1) = "{" /\ MessageFrom(o, Grammar(o), 2)
<1> DEFINE o == Solid(l)
           g == Grammar(o)
           M == Len(o)
           members == Is(g, "members", 2, M - 1, 1)
<1>1. M \in Nat /\ Len(o) = M /\ DOMAIN o = 1..M
  <2>1. o \in Seq(Tokens)
    BY LineScanned
  <2> HIDE DEF o
  <2> QED BY <2>1
<1>2. IsMessage(l) <=> M >= 2 /\ o[1] = "{" /\ o[M] = "}" /\ (M = 2 \/ members)
  BY Zenon DEF IsMessage, Is
<1>3. MembersDecode(l) <=> DecodeFrom(o, 1)
  BY <1>1, Zenon DEF MembersDecode, DecodeFrom, IsKey
<1> HIDE DEF o, g, M, members
<1>4. ASSUME M >= 2, o[1] = "{" PROVE DecodeFrom(o, 1) <=> DecodeFrom(o, 2)
  <2>1. ~IsKey(o, 1)
    BY <1>4 DEF IsKey, Str
  <2>2. \A k \in 1..M : k = 1 \/ k \in 2..M
    BY <1>1
  <2>3. \A k \in 2..M : k \in 1..M
    BY <1>1
  <2> QED BY <1>1, <2>1, <2>2, <2>3, Zenon DEF DecodeFrom
<1>5. At(o, 1) = "{" <=> M >= 1 /\ o[1] = "{"
  <2>1. 1 \in DOMAIN o <=> M >= 1
    BY <1>1
  <2>2. "end" # "{"
    OBVIOUS
  <2> QED BY <2>1, <2>2, Zenon DEF At
<1>a. M = 2 => \A k \in 2..M : k = 2
  BY <1>1
<1>6. MessageFrom(o, g, 2) <=> (2 = M /\ o[2] = "}") \/ (2 < M /\ members /\ o[M] = "}" /\ DecodeFrom(o, 2))
  BY <1>1, Zenon DEF MessageFrom, ListFrom, members
<1>7. ASSUME M = 2, o[2] = "}" PROVE DecodeFrom(o, 2)
  <2>1. ~IsKey(o, 2)
    BY <1>7 DEF IsKey, Str
  <2>2. \A k \in 2..M : k = 2
    BY <1>7, <1>a, Zenon
  <2> QED BY <1>1, <2>1, <2>2, Zenon DEF DecodeFrom
<1>8. M = 2 \/ 2 < M <=> M >= 2
  BY <1>1
<1>9. M >= 2 => M >= 1
  BY <1>1
<1>10. ASSUME IsMessage(l), MembersDecode(l) PROVE At(o, 1) = "{" /\ MessageFrom(o, g, 2)
  <2>1. M >= 2 /\ o[1] = "{" /\ o[M] = "}" /\ (M = 2 \/ members) /\ DecodeFrom(o, 2)
    BY <1>2, <1>3, <1>4, <1>10, Zenon
  <2> QED BY <1>5, <1>6, <1>8, <1>9, <2>1, Zenon
<1>11. ASSUME At(o, 1) = "{", MessageFrom(o, g, 2) PROVE IsMessage(l) /\ MembersDecode(l)
  <2>1. M >= 2 /\ o[1] = "{" /\ o[M] = "}" /\ (M = 2 \/ members) /\ DecodeFrom(o, 2)
    BY <1>5, <1>6, <1>7, <1>8, <1>11, Zenon
  <2> QED BY <1>2, <1>3, <1>4, <2>1, Zenon
<1> QED BY <1>10, <1>11, Zenon DEF o, g

\* Together: what parseRPCMessage takes is a message.
LEMMA ParsesExactly ==
    ASSUME NEW l \in Seq(Marks)
    PROVE  ParseMessage(l) <=> IsMessage(l) /\ MembersDecode(l)
<1> DEFINE o == Solid(l)
           g == Grammar(o)
<1>1. PICK p : ScanOf(l, o, p, Scan(l))
  BY LineScanned
<1>2. IsGrammar(o, g)
  BY LineScanned
<1>3. PICK r : IsParse(l, r) /\ (ParseMessage(l) <=> At(l, Skip(l, 1)) = "{" /\ r[Skip(l, 1) + 1])
  BY ParseRuns
<1>4. IsMessage(l) /\ MembersDecode(l) <=> At(o, 1) = "{" /\ MessageFrom(o, g, 2)
  BY WholeMessage, Zenon
<1> HIDE DEF o, g
<1>5. At(l, Skip(l, 1)) = "{" /\ r[Skip(l, 1) + 1] <=> At(o, 1) = "{" /\ MessageFrom(o, g, 2)
  BY <1>1, <1>2, <1>3, MessageParsed, Zenon
<1> QED BY <1>3, <1>4, <1>5, Zenon

(* However deep a line nests its values, and wherever its white space is, the   *)
(* scanner takes a line of tokens exactly when RFC 8259 does, up to the nesting *)
(* limit.                                                                    *)
THEOREM ScansExactlyHolds == Spec => []ScansExactlyJSON
<1>1. LineOK => ScansExactlyJSON
  <2> SUFFICES ASSUME LineOK, kind = "json"
               PROVE  LET v == ScanValue(line, 1) IN (v # 0 /\ Skip(line, v) = Len(line) + 1) <=> IsJSON(line)
    BY Zenon DEF ScansExactlyJSON
  <2>1. line \in Seq(Marks)
    BY DEF LineOK, Alphabet, Marks, Tokens
  <2> QED BY <2>1, ScansExactly, Zenon
<1> QED BY <1>1, LineCorrect, PTL

(* parseRPCMessage takes a line of any length exactly when it is one JSON object *)
(* whose method is a string and whose error decodes, with no escape in a key   *)
(* or in the method that strconv refuses.                                    *)
THEOREM ParsesExactlyHolds == Spec => []ParsesExactlyMessages
<1>1. LineOK => ParsesExactlyMessages
  <2> SUFFICES ASSUME LineOK, kind = "json"
               PROVE  ParseMessage(line) <=> IsMessage(line) /\ MembersDecode(line)
    BY Zenon DEF ParsesExactlyMessages
  <2>1. line \in Seq(Marks)
    BY DEF LineOK, Alphabet, Marks, Tokens
  <2> QED BY <2>1, ParsesExactly, Zenon
<1> QED BY <1>1, LineCorrect, PTL

(* The whole of the hand-written codec takes, for lines of any length, the      *)
(* messages whose members decode, and reads back what it writes.             *)
THEOREM CodecExactHolds == Spec => []CodecExact
<1>1. ScansExactlyJSON /\ ParsesExactlyMessages /\ LeavesExact /\ IDsExact /\ RoundTrip => CodecExact
  BY Zenon DEF CodecExact
<1> QED BY <1>1, ScansExactlyHolds, ParsesExactlyHolds, LeavesExactHolds, IDsExactHolds, RoundTripHolds, PTL
=============================================================================
