------------------------------ MODULE CodecTerms ------------------------------
(***************************************************************************)
(* The terms in which the line scanner of the codec is reasoned about: a line *)
(* and its tokens, one step of the scanner and of the grammar told by the     *)
(* tokens, and what is to be shown of both.  A scanner s and a grammar g are  *)
(* functions of a part, a line l has the tokens o, and p counts them.        *)
(***************************************************************************)
EXTENDS Codec, Integers

-----------------------------------------------------------------------------
(* Lines of tokens.                                                          *)

\* Tokens and white space.
Tokens == {"{", "}", "[", "]", ":", ",", "s", "m", "e", "u", "n"}
Marks == Tokens \cup {"sp"}

\* skipJSONSpace stops at the first token, or at the end.
SkipsTo(l, i, j) ==
    j \in i..(Len(l) + 1) /\ At(l, j) # "sp" /\ \A k \in i..(j - 1) : l[k] = "sp"

\* Where the tokens of a line are: before position i there are p[i] of them.
IsMap(l, o, p) ==
    /\ o \in Seq(Tokens) /\ p \in [1..(Len(l) + 1) -> 0..Len(o)]
    /\ p[1] = 0 /\ p[Len(l) + 1] = Len(o)
    /\ \A i \in 1..Len(l) :
         IF l[i] = "sp" THEN p[i + 1] = p[i]
         ELSE p[i] + 1 <= Len(o) /\ p[i + 1] = p[i] + 1 /\ o[p[i] + 1] = l[i]

\* The tokens so far.
SolidTo(l, g, i) ==
    IF i = 0 THEN <<>> ELSE IF l[i] = "sp" THEN g[i - 1] ELSE Append(g[i - 1], l[i])

\* The token after white space is the next one.
NextIs(l, o, p, i, k) ==
    /\ k \in i..(Len(l) + 1) /\ p[k] = p[i] /\ At(l, k) = At(o, p[i] + 1)
    /\ IF At(l, k) = "end" THEN k = Len(l) + 1 /\ p[i] = Len(o)
       ELSE k \in 1..Len(l) /\ p[k + 1] = p[i] + 1 /\ p[i] + 1 <= Len(o)

-----------------------------------------------------------------------------
(* The scanner of nested values exists, and goes forward.                    *)

\* What the scanner looks for, and how deep; what it finds, step by step.
What == {"value", "members", "elements"}
Depths == 0..(MaxDepth + 2)

Found(s, what, i, d) == s[<<what, i, d>>]
RestAt(l, s, v, close, more, d) ==
    IF v = 0 THEN 0
    ELSE IF At(l, Skip(l, v)) = close THEN Skip(l, v) + 1
    ELSE IF At(l, Skip(l, v)) = "," THEN Found(s, more, Skip(l, v) + 1, d) ELSE 0
OpenAt(l, s, j, close, what, d) ==
    IF TooDeep(d + 1) THEN 0
    ELSE IF At(l, Skip(l, j + 1)) = close THEN Skip(l, j + 1) + 1 ELSE Found(s, what, Skip(l, j + 1), d + 1)
ValueAt(l, s, i, d) ==
    LET j == Skip(l, i) IN
    IF At(l, j) \in Str THEN j + 1
    ELSE IF At(l, j) = "{" THEN OpenAt(l, s, j, "}", "members", d)
    ELSE IF At(l, j) = "[" THEN OpenAt(l, s, j, "]", "elements", d) ELSE Literal(l, j)
MembersAt(l, s, i, d) ==
    LET j == Skip(l, i)
        c == Skip(l, j + 1)
    IN  IF At(l, j) \in Str /\ At(l, c) = ":"
        THEN RestAt(l, s, Found(s, "value", c + 1, d), "}", "members", d) ELSE 0
ElementsAt(l, s, v, d) == RestAt(l, s, v, "]", "elements", d)

\* What the scanner has found after position i lies after it.
Room(l, i) == {0} \cup ((i + 1)..(Len(l) + 1))
Forward(l, s, i) ==
    \A what \in What, k \in (i + 1)..(Len(l) + 2), d \in Depths : Found(s, what, k, d) \in Room(l, k)
SameAfter(l, s, t, i) ==
    \A what \in What, k \in (i + 1)..(Len(l) + 2), d \in Depths : Found(s, what, k, d) = Found(t, what, k, d)

\* One place of the scanner, from what is after it.
BodyAt(l, s, what, i, d) ==
    IF i > Len(l) THEN 0
    ELSE IF what = "value" THEN ValueAt(l, s, i, d)
    ELSE IF what = "members" THEN MembersAt(l, s, i, d)
    ELSE ElementsAt(l, s, ValueAt(l, s, i, d), d)

\* A scanner that is one function of its position sees what is after it.
Places(l) == What \X (1..(Len(l) + 2)) \X Depths
AfterAt(l, f, i) ==
    [at \in Places(l) |->
        IF at[2] > i /\ f[at[2]][<<at[1], at[3]>>] \in Room(l, at[2]) THEN f[at[2]][<<at[1], at[3]>>] ELSE 0]

\* The code's own form of a place.
ScanAt(l, s, at) ==
    LET i == at[2]
        d == at[3]
        j == Skip(l, i)
        rest(v, close, more) ==
            IF v = 0 THEN 0
            ELSE LET k == Skip(l, v) IN
                 IF At(l, k) = close THEN k + 1
                 ELSE IF At(l, k) = "," THEN s[<<more, k + 1, d>>] ELSE 0
    IN  CASE i > Len(l) -> 0
          [] i <= Len(l) /\ at[1] = "value" ->
              (CASE At(l, j) \in Str -> j + 1
                 [] At(l, j) \in {"{", "["} ->
                      LET k == Skip(l, j + 1) IN
                      IF TooDeep(d + 1) THEN 0
                      ELSE IF At(l, j) = "{"
                           THEN IF At(l, k) = "}" THEN k + 1 ELSE s[<<"members", k, d + 1>>]
                           ELSE IF At(l, k) = "]" THEN k + 1 ELSE s[<<"elements", k, d + 1>>]
                 [] OTHER -> Literal(l, j))
          [] i <= Len(l) /\ at[1] = "members" ->
              LET c == Skip(l, j + 1) IN
              IF At(l, j) \in Str /\ At(l, c) = ":"
              THEN rest(s[<<"value", c + 1, d>>], "}", "members") ELSE 0
          [] OTHER -> rest(s[<<"value", i, d>>], "]", "elements")

\* What the scanner finds, from every position and at every depth.
IsScan(l, s) ==
    /\ Forward(l, s, 0)
    /\ \A i \in 1..Len(l), d \in Depths :
         /\ Found(s, "value", i, d) = ValueAt(l, s, i, d)
         /\ Found(s, "members", i, d) = MembersAt(l, s, i, d)
         /\ Found(s, "elements", i, d) = ElementsAt(l, s, ValueAt(l, s, i, d), d)

-----------------------------------------------------------------------------
(* The grammar exists: a part of a text is judged by shorter parts.            *)

\* The alternatives of a part, from a to b.
Is(g, what, a, b, d) == g[<<what, a, b, d>>]
BracketIs(o, g, open, what, close, a, b, d) ==
    /\ b > a /\ d <= MaxDepth /\ o[a] = open /\ o[b] = close
    /\ (b = a + 1 \/ Is(g, what, a + 1, b - 1, d + 1))
ValueIs(o, g, a, b, d) ==
    \/ a = b /\ o[a] \in Str \cup {"n"}
    \/ BracketIs(o, g, "{", "members", "}", a, b, d)
    \/ BracketIs(o, g, "[", "elements", "]", a, b, d)
SplitIs(o, g, what, a, b, d) ==
    \E m \in (a + 1)..(b - 1) : o[m] = "," /\ Is(g, what, a, m - 1, d) /\ Is(g, what, m + 1, b, d)
MembersIs(o, g, a, b, d) ==
    \/ b > a + 1 /\ o[a] \in Str /\ o[a + 1] = ":" /\ Is(g, "value", a + 2, b, d)
    \/ SplitIs(o, g, "members", a, b, d)
ElementsIs(o, g, v, a, b, d) == v \/ SplitIs(o, g, "elements", a, b, d)
PartIs(o, g, what, a, b, d) ==
    IF b < a THEN FALSE
    ELSE IF what = "value" THEN ValueIs(o, g, a, b, d)
    ELSE IF what = "members" THEN MembersIs(o, g, a, b, d)
    ELSE ElementsIs(o, g, ValueIs(o, g, a, b, d), a, b, d)

\* Two grammars that agree on the parts shorter than w + 1.
AgreeBelow(o, g, h, w) ==
    \A what \in What, a \in 1..(Len(o) + 1), b \in 0..Len(o), d \in Depths :
        b - a < w => Is(g, what, a, b, d) = Is(h, what, a, b, d)

\* A grammar that is one function of the length sees what is shorter.
Parts(o) == What \X (1..(Len(o) + 1)) \X (0..Len(o)) \X Depths
Shorter(o, f, i) ==
    [at \in Parts(o) |->
        IF at[2] <= at[3] /\ Len(o) - (at[3] - at[2]) > i
        THEN f[Len(o) - (at[3] - at[2])][<<at[1], at[2], at[4]>>] ELSE FALSE]

\* The reference's own form of a part.
GrammarAt(l, g, at) ==
    LET a == at[2]
        b == at[3]
        d == at[4]
    IN  CASE b < a -> FALSE
          [] b >= a /\ at[1] = "value" ->
              \/ a = b /\ l[a] \in Str \cup {"n"}
              \/ /\ b > a /\ d <= MaxDepth /\ l[a] = "{" /\ l[b] = "}"
                 /\ (b = a + 1 \/ g[<<"members", a + 1, b - 1, d + 1>>])
              \/ /\ b > a /\ d <= MaxDepth /\ l[a] = "[" /\ l[b] = "]"
                 /\ (b = a + 1 \/ g[<<"elements", a + 1, b - 1, d + 1>>])
          [] b >= a /\ at[1] = "members" ->
              \/ /\ b > a + 1 /\ l[a] \in Str /\ l[a + 1] = ":"
                 /\ g[<<"value", a + 2, b, d>>]
              \/ \E m \in (a + 1)..(b - 1) :
                  l[m] = "," /\ g[<<"members", a, m - 1, d>>] /\ g[<<"members", m + 1, b, d>>]
          [] OTHER ->
              \/ g[<<"value", a, b, d>>]
              \/ \E m \in (a + 1)..(b - 1) :
                  l[m] = "," /\ g[<<"elements", a, m - 1, d>>] /\ g[<<"elements", m + 1, b, d>>]

\* The parts of a text that the grammar takes.
IsGrammar(o, g) ==
    \A what \in What, a \in 1..(Len(o) + 1), b \in 0..Len(o), d \in Depths :
        Is(g, what, a, b, d) = PartIs(o, g, what, a, b, d)

-----------------------------------------------------------------------------
(* What the scanner does, told by the tokens.                                *)

\* The value that starts at i ends at v, before the token after b.
EndsBy(l, p, i, v, b) == v \in (i + 1)..(Len(l) + 1) /\ p[v] = b
Delims == {",", "}", "]", "end"}

\* A line, its tokens, and a scanner of it.
ScanOf(l, o, p, s) == l \in Seq(Marks) /\ IsMap(l, o, p) /\ IsScan(l, s)

\* After the value of a list: its bracket, or a comma and more of it.
RestStepIs(l, o, p, s, w, close, more, d) ==
    LET q == RestAt(l, s, w, close, more, d)
        t == At(o, p[w] + 1)
    IN  /\ t = close => EndsBy(l, p, w, q, p[w] + 1)
        /\ t # close /\ t = "," =>
             \E k \in (w + 1)..(Len(l) + 1) : p[k] = p[w] + 1 /\ q = Found(s, more, k, d)
        /\ t # close /\ t # "," => q = 0

\* A member begins with a string and a colon.
MembersStepIs(l, o, p, s, i, d) ==
    LET q == Found(s, "members", i, d)
        at == At(o, p[i] + 1) \in Str /\ At(o, p[i] + 2) = ":"
    IN  /\ at => \E c \in (i + 1)..(Len(l) + 1) :
                     /\ p[c] = p[i] + 2
                     /\ q = RestAt(l, s, Found(s, "value", c, d), "}", "members", d)
        /\ ~at => q = 0

\* A bracket: too deep, its closing one, or a list.
OpensIs(l, o, p, s, what, close, i, d) ==
    LET q == Found(s, "value", i, d)
        t2 == At(o, p[i] + 2)
    IN  /\ d + 1 > MaxDepth => q = 0
        /\ d + 1 <= MaxDepth /\ t2 = close => EndsBy(l, p, i, q, p[i] + 2)
        /\ d + 1 <= MaxDepth /\ t2 # close =>
             \E k \in (i + 1)..(Len(l) + 1) : p[k] = p[i] + 1 /\ q = Found(s, what, k, d + 1)

\* The four ways in which a value begins.
ValueStepIs(l, o, p, s, i, d) ==
    LET q == Found(s, "value", i, d)
        t == At(o, p[i] + 1)
        t2 == At(o, p[i] + 2)
    IN  /\ t \in Str => EndsBy(l, p, i, q, p[i] + 1)
        /\ t = "n" => /\ q # 0 => EndsBy(l, p, i, q, p[i] + 1)
                      /\ t2 \in Delims => q # 0
        /\ t = "{" => OpensIs(l, o, p, s, "members", "}", i, d)
        /\ t = "[" => OpensIs(l, o, p, s, "elements", "]", i, d)
        /\ t \notin Str \cup {"n", "{", "["} => q = 0

-----------------------------------------------------------------------------
(* What the scanner takes is a part of the grammar.                          *)

Lists == {"members", "elements"}

\* A value that ends at v, and a list that ends at v after its bracket.
ValueSound(l, p, s, g, i, d) ==
    LET v == Found(s, "value", i, d) IN
    v # 0 => /\ v \in (i + 1)..(Len(l) + 1) /\ p[v] >= p[i] + 1
             /\ Is(g, "value", p[i] + 1, p[v], d + 1)
ListEnds(l, o, p, g, what, close, i, a, d, v) ==
    /\ v \in (i + 1)..(Len(l) + 1) /\ p[v] >= a + 1 /\ o[p[v]] = close
    /\ Is(g, what, a, p[v] - 1, d + 1)
ListSound(l, o, p, s, g, what, close, i, d) ==
    Found(s, what, i, d) # 0 =>
        ListEnds(l, o, p, g, what, close, i, p[i] + 1, d, Found(s, what, i, d))

\* What is sound at a position and a depth.
SoundAt(l, o, p, s, g, i, d) ==
    /\ ValueSound(l, p, s, g, i, d)
    /\ ListSound(l, o, p, s, g, "members", "}", i, d)
    /\ ListSound(l, o, p, s, g, "elements", "]", i, d)

-----------------------------------------------------------------------------
(* A list of the grammar is a first item and, after a comma, a list.         *)

HeadIs(o, g, what, a, m, d) ==
    IF what = "members"
    THEN m > a + 1 /\ o[a] \in Str /\ o[a + 1] = ":" /\ Is(g, "value", a + 2, m, d)
    ELSE Is(g, "value", a, m, d)
FirstIs(o, g, what, a, b, d, m) ==
    /\ m \in a..b /\ HeadIs(o, g, what, a, m, d)
    /\ m = b \/ (m + 2 <= b /\ o[m + 1] = "," /\ Is(g, what, m + 2, b, d))

-----------------------------------------------------------------------------
(* What is in the grammar, the scanner takes.                                *)

\* A value before a delimiter, and a list before its bracket.
ValueComplete(l, o, p, s, g, i, d) ==
    \A b \in 0..Len(o) : Is(g, "value", p[i] + 1, b, d + 1) /\ At(o, b + 1) \in Delims =>
        EndsBy(l, p, i, Found(s, "value", i, d), b)
ListComplete(l, o, p, s, g, what, close, i, d) ==
    \A b \in 0..Len(o) : Is(g, what, p[i] + 1, b, d + 1) /\ At(o, b + 1) = close =>
        EndsBy(l, p, i, Found(s, what, i, d), b + 1)
GoesOn(o, g, what, m, b, d) == m = b \/ (At(o, m + 1) = "," /\ Is(g, what, m + 2, b, d))
Closes(what, close) ==
    \/ what = "members" /\ close = "}"
    \/ what = "elements" /\ close = "]"

\* What is complete at a position and a depth.
ListsComplete(l, o, p, s, g, i, d) ==
    \A what, close : Closes(what, close) => ListComplete(l, o, p, s, g, what, close, i, d)
CompleteAt(l, o, p, s, g, i, d) ==
    ValueComplete(l, o, p, s, g, i, d) /\ ListsComplete(l, o, p, s, g, i, d)

-----------------------------------------------------------------------------
(* How deep a token is.                                                      *)

\* The level is that after a token: the brackets opened so far, less the closed ones.
Opening(t) == t \in {"{", "["}
Closing(t) == t \in {"}", "]"}
OpeningTo(o, i) == {k \in 1..i : Opening(o[k])}
ClosingTo(o, i) == {k \in 1..i : Closing(o[k])}
Level(o, i) == Cardinality(OpeningTo(o, i)) - Cardinality(ClosingTo(o, i))

\* A part of the grammar closes what it opens, and nothing else; a value of
\* several tokens lies one level deeper.
NestedIs(o, a, b) ==
    /\ Level(o, b) = Level(o, a - 1) /\ Level(o, b) \in Int
    /\ \A k \in a..b : Level(o, k - 1) >= Level(o, a - 1) /\ Nesting(o, k) >= Level(o, k - 1)
DeeperIs(o, a, b) == a = b \/ \A k \in a..b : Nesting(o, k) >= Level(o, a - 1) + 1

PartNested(o, what, a, b) == NestedIs(o, a, b) /\ (what = "value" => DeeperIs(o, a, b))

-----------------------------------------------------------------------------
(* parseRPCMessage, told by the tokens.                                      *)

\* The code's own steps.
RestParsed(l, r, v) ==
    LET k == Skip(l, v) IN
    \/ At(l, k) = "," /\ ~Dangling(l, k) /\ r[k + 1]
    \/ At(l, k) = "}" /\ Skip(l, k + 1) = Len(l) + 1
ParsedAt(l, r, i) ==
    LET j == Skip(l, i)
        c == Skip(l, j + 1)
        v == ScanValue(l, c + 1)
    IN  IF i > Len(l) THEN FALSE
        ELSE IF At(l, j) = "}" THEN Skip(l, j + 1) = Len(l) + 1
        ELSE /\ At(l, j) \in Str /\ At(l, c) = ":" /\ v # 0
             /\ Decodable(At(l, j), At(l, Skip(l, c + 1)))
             /\ RestParsed(l, r, v)

\* What parseRPCMessage does with the rest of the line, from every position.
IsParse(l, r) == \A i \in 1..(Len(l) + 2) : r[i] = ParsedAt(l, r, i)

\* What follows a member.
Comma == ","
AfterMember(t) == t = Comma \/ t = "}"

\* After the value of a member: the end of the message, or more of it.
RestParsedIs(l, o, p, r, v) ==
    LET t == At(o, p[v] + 1)
        rest == RestParsed(l, r, v)
    IN  /\ t = Comma /\ At(o, p[v] + 2) = "}" => ~rest
        /\ t = Comma /\ At(o, p[v] + 2) # "}" =>
             \E k \in (v + 1)..(Len(l) + 1) : p[k] = p[v] + 1 /\ (rest <=> r[k])
        /\ t = "}" => (rest <=> p[v] + 1 = Len(o))
        /\ t # Comma /\ t # "}" => ~rest

\* A member, whose value starts at c, and what starts at i.
MemberParsed(l, o, p, r, t, c) ==
    LET v == Found(Scan(l), "value", c, 0) IN
    v # 0 /\ Decodable(t, At(o, p[c] + 1)) /\ RestParsed(l, r, v)
ParsedIs(l, o, p, r, i) ==
    LET t == At(o, p[i] + 1)
        member == t \in Str /\ At(o, p[i] + 2) = ":"
    IN  /\ t = "}" => (r[i] <=> p[i] + 1 = Len(o))
        /\ member => \E c \in (i + 1)..(Len(l) + 1) : p[c] = p[i] + 2 /\ (r[i] <=> MemberParsed(l, o, p, r, t, c))
        /\ t # "}" /\ ~member => ~r[i]

\* Every member of the message from a token on decodes.
IsKey(o, k) == o[k] \in Str /\ At(o, k + 1) = ":" /\ Nesting(o, k) = 1
DecodeFrom(o, a) == \A k \in a..Len(o) : IsKey(o, k) => Decodable(o[k], At(o, k + 2))

\* What parseRPCMessage is to take from a token on.
ListFrom(o, g, a) ==
    a < Len(o) /\ Is(g, "members", a, Len(o) - 1, 1) /\ o[Len(o)] = "}" /\ DecodeFrom(o, a)
MessageFrom(o, g, a) == (a = Len(o) /\ o[a] = "}") \/ ListFrom(o, g, a)
ParsedTo(l, o, p, g, r, i) == Level(o, p[i]) = 1 => (r[i] <=> MessageFrom(o, g, p[i] + 1))

\* A member of the message, and what follows it.
MemberIs(o, g, a, m) ==
    /\ m \in 1..Len(o) /\ m + 1 <= Len(o) /\ m > a + 1
    /\ o[a] \in Str /\ o[a + 1] = ":" /\ Is(g, "value", a + 2, m, 1)
    /\ Decodable(o[a], At(o, a + 2))
ThenIs(o, g, m) == (m + 1 = Len(o) /\ o[m + 1] = "}") \/ (o[m + 1] = Comma /\ ListFrom(o, g, m + 2))

\* A member that is read: what it is, by the positions of the line.
MemberAt(l, o, p, g, i, c) ==
    /\ p[i] + 1 \in 1..Len(o) /\ c \in (i + 1)..(Len(l) + 1) /\ p[c] = p[i] + 2
    /\ o[p[i] + 1] \in Str /\ At(o, p[i] + 2) = ":" /\ Level(o, p[i]) = 1

\* The same, by the tokens: the member begins at token a.
MemberPlace(l, o, p, i, c, a) ==
    /\ Len(l) \in Nat /\ Len(o) \in Nat /\ DOMAIN o = 1..Len(o) /\ l \in Seq(Marks) /\ IsMap(l, o, p)
    /\ a \in 1..Len(o) /\ a = p[i] + 1 /\ a - 1 = p[i]
    /\ c \in 1..(Len(l) + 1) /\ c \in (i + 1)..(Len(l) + 1) /\ p[c] = a + 1 /\ p[c] + 1 = a + 2
    /\ o[a] \in Str /\ a + 1 \in 1..Len(o) /\ o[a + 1] = ":" /\ Level(o, a - 1) = 1
=============================================================================
