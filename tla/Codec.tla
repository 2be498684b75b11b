-------------------------------- MODULE Codec --------------------------------
(***************************************************************************)
(* The JSON-RPC line codec (rpc.go): appendRPCMessage writes a message as one *)
(* line, and parseRPCMessage reads one with a scanner of its own instead of   *)
(* encoding/json.  A line is a sequence of tokens, a string a sequence of     *)
(* kinds of characters; a result 0 of a scan is the code's "not ok".        *)
(***************************************************************************)
EXTENDS Naturals, Sequences, SequencesExt, FiniteSets

CONSTANTS
    MaxDepth,   \* maxRPCScanDepth
    HexDigits,  \* hexadecimal digits of a \u escape (4 in the code)
    MaxInt      \* 1<<63 - 1

ASSUME CodecAssumption == MaxDepth \in Nat /\ HexDigits \in Nat \ {0} /\ MaxInt \in Nat \ {0}

-----------------------------------------------------------------------------
(* Values.  Tokens: { } [ ] : , the strings "method" m and "error" e, a string *)
(* u with an escape strconv cannot undo, any other string s, a literal n, and *)
(* white space sp.                                                           *)

Str == {"s", "m", "e", "u"}
At(l, i) == IF i \in DOMAIN l THEN l[i] ELSE "end"

\* skipJSONSpace
Skip(l, i) ==
    CHOOSE j \in i..(Len(l) + 1) : At(l, j) # "sp" /\ \A k \in i..(j - 1) : l[k] = "sp"

\* scanJSONLiteral takes everything up to a delimiter, and wants one literal.
Literal(l, i) == IF At(l, i) = "n" /\ At(l, i + 1) \in {",", "}", "]", "sp", "end"} THEN i + 1 ELSE 0

\* Mutation: nesting is one deeper than the limit.
DeeperBy1(d) == d > MaxDepth + 1
TooDeep(d) == d > MaxDepth

\* scanJSONValueDepth, scanJSONObject and scanJSONArray: where the value, the
\* members or the elements that start at i end.
Scan(l) ==
    LET n == Len(l) + 2
        scan[at \in {"value", "members", "elements"} \X (1..n) \X (0..(MaxDepth + 2))] ==
          LET i == at[2]
              d == at[3]
              j == Skip(l, i)
              rest(v, close, more) ==
                  IF v = 0 THEN 0
                  ELSE LET k == Skip(l, v) IN
                       IF At(l, k) = close THEN k + 1
                       ELSE IF At(l, k) = "," THEN scan[<<more, k + 1, d>>] ELSE 0
          IN  CASE i > Len(l) -> 0
                [] i <= Len(l) /\ at[1] = "value" ->
                    (CASE At(l, j) \in Str -> j + 1
                       [] At(l, j) \in {"{", "["} ->
                            LET k == Skip(l, j + 1) IN
                            IF TooDeep(d + 1) THEN 0
                            ELSE IF At(l, j) = "{"
                                 THEN IF At(l, k) = "}" THEN k + 1 ELSE scan[<<"members", k, d + 1>>]
                                 ELSE IF At(l, k) = "]" THEN k + 1 ELSE scan[<<"elements", k, d + 1>>]
                       [] OTHER -> Literal(l, j))
                [] i <= Len(l) /\ at[1] = "members" ->
                    LET c == Skip(l, j + 1) IN
                    IF At(l, j) \in Str /\ At(l, c) = ":"
                    THEN rest(scan[<<"value", c + 1, d>>], "}", "members") ELSE 0
                [] OTHER -> rest(scan[<<"value", i, d>>], "]", "elements")
    IN  scan

ScanValue(l, i) == IF i > Len(l) THEN 0 ELSE Scan(l)[<<"value", i, 0>>]

\* Mutation: a comma before the closing brace passes.
NeverDangling(l, k) == FALSE
Dangling(l, k) == At(l, Skip(l, k + 1)) = "}"

\* parseRPCMessage on a member, told by its key and the first token of its value:
\* an escaped key and a method are unquoted, an error is decoded into RPCError,
\* from an object or null.  (In an error, n is null, and s no field of RPCError.)
Decodable(key, first) ==
    /\ key # "u"
    /\ key = "m" => first \in Str \ {"u"}
    /\ key = "e" => first \in {"{", "n"}

\* parseRPCMessage: one object, whose members decode.
ParseMessage(l) ==
    LET n == Len(l) + 2
        parse[i \in 1..n] ==
          LET j == Skip(l, i)
              c == Skip(l, j + 1)
              v == ScanValue(l, c + 1)
              k == Skip(l, v)
          IN  IF i > Len(l) THEN FALSE
              ELSE IF At(l, j) = "}" THEN Skip(l, j + 1) = Len(l) + 1
              ELSE /\ At(l, j) \in Str /\ At(l, c) = ":" /\ v # 0
                   /\ Decodable(At(l, j), At(l, Skip(l, c + 1)))
                   /\ \/ At(l, k) = "," /\ ~Dangling(l, k) /\ parse[k + 1]
                      \/ At(l, k) = "}" /\ Skip(l, k + 1) = Len(l) + 1
        start == Skip(l, 1)
    IN  At(l, start) = "{" /\ parse[start + 1]

\* The reference: RFC 8259's grammar, bracketing the text in every way.
Grammar(l) ==
    LET n == Len(l)
        is[at \in {"value", "members", "elements"} \X (1..(n + 1)) \X (0..n) \X (0..(MaxDepth + 2))] ==
          LET a == at[2]
              b == at[3]
              d == at[4]
          IN  CASE b < a -> FALSE
                [] b >= a /\ at[1] = "value" ->
                    \/ a = b /\ l[a] \in Str \cup {"n"}
                    \/ /\ b > a /\ d <= MaxDepth /\ l[a] = "{" /\ l[b] = "}"
                       /\ (b = a + 1 \/ is[<<"members", a + 1, b - 1, d + 1>>])
                    \/ /\ b > a /\ d <= MaxDepth /\ l[a] = "[" /\ l[b] = "]"
                       /\ (b = a + 1 \/ is[<<"elements", a + 1, b - 1, d + 1>>])
                [] b >= a /\ at[1] = "members" ->
                    \/ /\ b > a + 1 /\ l[a] \in Str /\ l[a + 1] = ":"
                       /\ is[<<"value", a + 2, b, d>>]
                    \/ \E m \in (a + 1)..(b - 1) :
                        l[m] = "," /\ is[<<"members", a, m - 1, d>>] /\ is[<<"members", m + 1, b, d>>]
                [] OTHER ->
                    \/ is[<<"value", a, b, d>>]
                    \/ \E m \in (a + 1)..(b - 1) :
                        l[m] = "," /\ is[<<"elements", a, m - 1, d>>] /\ is[<<"elements", m + 1, b, d>>]
    IN  is

\* The line without its white space.
Solid(l) ==
    LET solid[i \in 0..Len(l)] ==
          IF i = 0 THEN <<>>
          ELSE IF l[i] = "sp" THEN solid[i - 1] ELSE Append(solid[i - 1], l[i])
    IN  solid[Len(l)]
IsJSON(l) == Solid(l) # <<>> /\ Grammar(Solid(l))[<<"value", 1, Len(Solid(l)), 1>>]

\* The members of the message are values one level up.
IsMessage(l) ==
    LET o == Solid(l) IN
    /\ Len(o) >= 2 /\ o[1] = "{" /\ o[Len(o)] = "}"
    /\ Len(o) = 2 \/ Grammar(o)[<<"members", 2, Len(o) - 1, 1>>]

\* Every member of the outer object decodes.
Nesting(o, i) ==
    Cardinality({k \in 1..i : o[k] \in {"{", "["}}) - Cardinality({k \in 1..(i - 1) : o[k] \in {"}", "]"}})
MembersDecode(l) ==
    LET o == Solid(l) IN
    \A i \in DOMAIN o :
        o[i] \in Str /\ At(o, i + 1) = ":" /\ Nesting(o, i) = 1 => Decodable(o[i], At(o, i + 2))

-----------------------------------------------------------------------------
(* Strings.  Characters: a quote q, a backslash b, u, a hexadecimal digit h,   *)
(* a letter e of the short escapes, the solidus /, a control character c, and *)
(* any other p.                                                              *)

\* scanJSONString: the position after the closing quote.
ScanString(l) ==
    LET n == Len(l) + HexDigits + 3
        scan[i \in 1..n] ==
          CASE i > Len(l) -> 0
            [] i <= Len(l) /\ l[i] = "q" -> i + 1
            [] i <= Len(l) /\ l[i] = "c" -> 0
            [] i <= Len(l) /\ l[i] = "b" ->
                (CASE At(l, i + 1) \in {"q", "b", "e", "/"} -> scan[i + 2]
                   [] At(l, i + 1) = "u" ->
                        IF i + 1 + HexDigits < Len(l) + 1
                           /\ \A j \in (i + 2)..(i + 1 + HexDigits) : At(l, j) = "h"
                        THEN scan[i + 2 + HexDigits] ELSE 0
                   [] OTHER -> 0)
            [] OTHER -> scan[i + 1]
    IN  IF At(l, 1) = "q" THEN scan[2] ELSE 0

\* The reference: a string is a quote, characters and escapes, a quote.
Units == {<<x>> : x \in {"u", "h", "e", "/", "p"}}
         \cup {<<"b", x>> : x \in {"q", "b", "e", "/"}}
         \cup {<<"b", "u">> \o [k \in 1..HexDigits |-> "h"]}
IsString(l) ==
    LET n == Len(l)
        body[a \in 1..(n + 1)] ==   \* from a to the last quote
          \/ a = n
          \/ \E u \in Units : a + Len(u) <= n /\ SubSeq(l, a, a + Len(u) - 1) = u /\ body[a + Len(u)]
    IN  n >= 2 /\ l[1] = "q" /\ l[n] = "q" /\ body[2]

-----------------------------------------------------------------------------
(* Numbers.  Characters: the minus, 0, a digit d of 1 to 9, the point, e, and  *)
(* the plus.                                                                 *)

IsDigit(c) == c \in {"0", "d"}
DigitsFrom(l, i) == CHOOSE j \in i..(Len(l) + 1) : ~IsDigit(At(l, j)) /\ \A k \in i..(j - 1) : IsDigit(l[k])

\* isValidJSONNumber: 0 is "not ok" at every stage.
IntegerEnd(l) ==
    LET i == IF At(l, 1) = "-" THEN 2 ELSE 1 IN
    CASE At(l, i) = "0" -> i + 1
      [] At(l, i) = "d" -> DigitsFrom(l, i)
      [] OTHER -> 0

FractionEnd(l, i) ==
    CASE At(l, i) # "." -> i
      [] At(l, i) = "." /\ IsDigit(At(l, i + 1)) -> DigitsFrom(l, i + 1)
      [] OTHER -> 0

\* Mutation: an exponent needs no digits.
BareExponent(l, i) ==
    IF At(l, i) # "e" THEN i
    ELSE DigitsFrom(l, IF At(l, i + 1) \in {"+", "-"} THEN i + 2 ELSE i + 1)
ExponentEnd(l, i) ==
    LET j == IF At(l, i + 1) \in {"+", "-"} THEN i + 2 ELSE i + 1 IN
    CASE At(l, i) # "e" -> i
      [] At(l, i) = "e" /\ IsDigit(At(l, j)) -> DigitsFrom(l, j)
      [] OTHER -> 0

ScanNumber(l) ==
    LET i == IntegerEnd(l)
        j == IF i = 0 THEN 0 ELSE FractionEnd(l, i)
    IN  j # 0 /\ ExponentEnd(l, j) = Len(l) + 1

\* The reference: int, frac and exp of RFC 8259, cut out of the text.
AllDigits(l) == l # <<>> /\ \A i \in DOMAIN l : IsDigit(l[i])
IsInt(l) == l = <<"0">> \/ (AllDigits(l) /\ l[1] = "d")
IsNumber(l) ==
    \E a \in 0..1, b, c \in 0..Len(l) :
        /\ a <= b /\ b <= c
        /\ a = 1 => l[1] = "-"
        /\ IsInt(SubSeq(l, a + 1, b))
        /\ b = c \/ (l[b + 1] = "." /\ AllDigits(SubSeq(l, b + 2, c)))
        /\ \/ c = Len(l)
           \/ l[c + 1] = "e" /\ (\E sign \in 2..3 :
                                    /\ sign = 3 => At(l, c + 2) \in {"+", "-"}
                                    /\ AllDigits(SubSeq(l, c + sign, Len(l))))

-----------------------------------------------------------------------------
(* Ids.  Digits, a quote q, or x for any other character.                     *)

Digit == [d \in {"0", "1", "2", "7", "8", "9"} |->
            CHOOSE v \in 0..9 : d = <<"0", "1", "2", "3", "4", "5", "6", "7", "8", "9">>[v + 1]]
NotOk == MaxInt + 1

\* parsePositiveInt64Bytes, in integers of MaxInt + 1 values.
\* Mutation: the check forgets the digit about to be added.
Unchecked(value, digit) == value > MaxInt \div 10
Overflows(value, digit) == value > (MaxInt - digit) \div 10

AddDigit(value, c) ==
    IF value = NotOk \/ c \notin DOMAIN Digit THEN NotOk
    ELSE IF Overflows(value, Digit[c]) THEN NotOk
    ELSE (value * 10 + Digit[c]) % (MaxInt + 1)
ParseInt(l) ==
    LET value[i \in 0..Len(l)] == IF i = 0 THEN 0 ELSE AddDigit(value[i - 1], l[i])
    IN  IF l = <<>> THEN NotOk ELSE value[Len(l)]

\* parseRPCID: a number, or a string of one.
Inside(l) == SubSeq(l, 2, Len(l) - 1)
ParseID(l) ==
    IF At(l, 1) = "q"
    THEN IF Len(l) >= 2 /\ l[Len(l)] = "q" THEN ParseInt(Inside(l)) ELSE NotOk
    ELSE ParseInt(l)

\* The reference: the number the digits name, when it fits.
Number(l) ==
    LET value[i \in 0..Len(l)] == IF i = 0 THEN 0 ELSE value[i - 1] * 10 + Digit[l[i]]
    IN  value[Len(l)]
IDValue(l) ==
    LET ds == IF Len(l) >= 2 /\ l[1] = "q" /\ l[Len(l)] = "q" THEN Inside(l) ELSE l IN
    IF ds # <<>> /\ (\A i \in DOMAIN ds : ds[i] \in DOMAIN Digit) /\ Number(ds) <= MaxInt
    THEN Number(ds) ELSE NotOk

-----------------------------------------------------------------------------
(* Messages.  A text is a sequence of characters: p plain, q quote, e one with *)
(* a short escape, v one that prints as \u, c a control character that         *)
(* strconv.AppendQuote writes as \x, and w one it writes as \U.               *)

\* strconv.AppendQuote, as the scanner sees it.
\* Mutation: a quote is written as it is.
Escape1(x) ==
    CASE x = "e" -> <<"b", "e">>
      [] x = "v" -> <<"b", "u">> \o [k \in 1..HexDigits |-> "h"]
      [] x \in {"c", "w"} -> <<"b", "p">>
      [] OTHER -> <<x>>
Escape(x) == IF x = "q" THEN <<"b", "q">> ELSE Escape1(x)
Quote(t) == FlattenSeq([i \in DOMAIN t |-> Escape(t[i])])
Quoted(t) == <<"q">> \o Quote(t) \o <<"q">>
Readable(t) == ScanString(Quoted(t)) = Len(Quoted(t)) + 1

\* appendRPCMessage: three shapes written directly, the others field by field.
\* A field that is not there is empty.
Field(k, v) == IF v = <<>> THEN <<>> ELSE <<[key |-> k, val |-> v]>>

InOrder(msg, keys) == FlattenSeq([i \in DOMAIN keys |-> Field(keys[i], msg[keys[i]])])

Direct(msg) == msg.error = <<>> /\ msg.result = <<>>

AppendMessage(msg) ==
    CASE Direct(msg) /\ msg.method # <<>> /\ msg.params # <<>> ->
            InOrder(msg, <<"id", "method", "params">>)
      [] msg.error = <<>> /\ msg.id # <<>> /\ msg.method = <<>> /\ msg.result # <<>> ->
            InOrder(msg, <<"id", "result">>)
      [] OTHER -> InOrder(msg, <<"id", "method", "params", "result", "error">>)

\* parseRPCMessage's fields: the last member of a name wins.
Read(members) ==
    [k \in {"id", "method", "params", "result", "error"} |->
        LET is == {i \in DOMAIN members : members[i].key = k} IN
        IF is = {} THEN <<>> ELSE members[CHOOSE i \in is : \A j \in is : j <= i].val]
=============================================================================
