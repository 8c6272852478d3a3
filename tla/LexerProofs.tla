------------------------------ MODULE LexerProofs ------------------------------
(***************************************************************************)
(* What holds of the scanner for every file, every keyword map, every size *)
(* of the number buffer and every width of an int.                         *)
(***************************************************************************)
EXTENDS Lexer, Facts

\* Where a token has begun, and where at least one character of it was read.
Inner    == {"hex_first", "hex", "frac", "sign", "exp_first", "exp", "suffix", "store"}
Scanning == Inner \cup {"token", "word", "int"}

\* What is known at place l, of a token that began at s, with the cursor at c.
Place(s, c, l) ==
  /\ l = "token" => c = s
  /\ l = "word" => s < c \/ CharAt(c) \in Letters
  /\ l = "int" => s < c \/ CharAt(c) \in Digits \cup {"."}
  /\ l \in Inner => s < c

Flags == [dot : BOOLEAN, exp : BOOLEAN, f32 : BOOLEAN]

LexInv ==
  /\ LexTypeOK /\ text \in Texts
  /\ Place(start, cursor, at)
  /\ at \in Scanning => tok.to <= start
  /\ curr.kind = "EOF" => cursor = Len(text) /\ at \in {"idle", "skip", "token"}

-----------------------------------------------------------------------------
(* Steps of two kinds: the cursor moves, or a token is handed over.        *)

Slide ==
  \E n \in 0..2, l \in Labels :
    /\ Move(n, l) /\ cursor + n <= Len(text)
    /\ num' \in Flags
    /\ \/ start' = start /\ (l \in Scanning => at \in Scanning)
       \/ start' = cursor
    /\ Place(start', cursor + n, l)
    /\ curr.kind = "EOF" => n = 0 /\ l \in {"skip", "token"}

Give ==
  \E k, end, v :
    /\ k \in TokenKinds \cup {"ERROR"} /\ end \in Nat
    /\ Deliver(k, end, v) /\ cursor <= end /\ end <= Len(text)
    /\ at \in Scanning
    /\ IF k = "EOF" THEN cursor = Len(text) /\ cursor = start
                    ELSE start < end /\ curr.kind # "EOF"

LEMMA TextLength == ASSUME LexInv PROVE Len(text) \in Nat
BY LexerAssumption, LenProperties DEF LexInv

LEMMA SlideKeeps == ASSUME LexInv, Slide PROVE LexInv' /\ UNCHANGED <<tok, curr, ctx>>
<1>1. PICK n \in 0..2, l \in Labels :
        /\ Move(n, l) /\ cursor + n <= Len(text)
        /\ num' \in Flags
        /\ \/ start' = start /\ (l \in Scanning => at \in Scanning)
           \/ start' = cursor
        /\ Place(start', cursor + n, l)
        /\ curr.kind = "EOF" => n = 0 /\ l \in {"skip", "token"}
  BY DEF Slide
<1>2. /\ cursor' = cursor + n /\ at' = l
      /\ text' = text /\ tok' = tok /\ curr' = curr /\ ctx' = ctx
  BY <1>1 DEF Move
<1>3. Len(text) \in Nat
  BY TextLength
<1>4. cursor \in 0..Len(text) /\ start \in 0..cursor
  BY DEF LexInv, LexTypeOK
<1>5. cursor' \in 0..Len(text) /\ start' \in 0..cursor' /\ cursor <= cursor'
  BY <1>1, <1>2, <1>3, <1>4
<1>6. \A t \in {tok, curr} : t.kind \in Kinds /\ t.to \in 0..cursor /\ t.from \in 0..t.to
  BY DEF LexInv, LexTypeOK
<1>7. LexTypeOK'
  <2>1. \A t \in {tok, curr} : t.to \in 0..cursor'
    BY <1>3, <1>4, <1>5, <1>6
  <2> QED  BY <1>1, <1>2, <1>5, <1>6, <2>1 DEF LexInv, LexTypeOK, Flags
<1>8. Place(start, cursor, at)'
  BY <1>1, <1>2 DEF Place, CharAt
<1>9. (at \in Scanning => tok.to <= start)'
  BY <1>1, <1>2, <1>4, <1>6 DEF LexInv
<1>10. (curr.kind = "EOF" => cursor = Len(text) /\ at \in {"idle", "skip", "token"})'
  BY <1>1, <1>2, <1>3, <1>4 DEF LexInv
<1> QED  BY <1>2, <1>7, <1>8, <1>9, <1>10 DEF LexInv

\* What the token handed over says of the one before and of the source.
Handed ==
  /\ tok.to <= tok'.from
  /\ IF tok'.kind = "EOF" THEN tok'.from = Len(text) ELSE tok'.from < tok'.to
  /\ [Source!SourceNext]_<<curr.kind, ctx>>

LEMMA SourceKinds == Source!TokenKinds = TokenKinds
BY DEF Source!TokenKinds, TokenKinds, Source!TypeWords, TypeWords, Source!Literals, Literals,
   Source!PrefixOps, PrefixOps, Source!Arithmetic, Arithmetic, Source!Comparison, Comparison,
   Source!Logical, Logical

LEMMA GiveKeeps == ASSUME LexInv, Give PROVE LexInv' /\ Handed
<1>1. PICK k, end, v :
        /\ k \in TokenKinds \cup {"ERROR"} /\ end \in Nat
        /\ Deliver(k, end, v) /\ cursor <= end /\ end <= Len(text)
        /\ at \in Scanning
        /\ IF k = "EOF" THEN cursor = Len(text) /\ cursor = start
                        ELSE start < end /\ curr.kind # "EOF"
  BY DEF Give
<1>2. Len(text) \in Nat
  BY TextLength
<1>3. cursor \in 0..Len(text) /\ start \in 0..cursor
  BY DEF LexInv, LexTypeOK
<1>4. \A t \in {tok, curr} : t.kind \in Kinds /\ t.to \in 0..cursor /\ t.from \in 0..t.to
  BY DEF LexInv, LexTypeOK
<1>5. /\ cursor' = end /\ text' = text /\ start' = start /\ num' = num
      /\ tok' = Token(k, end, v)
  BY <1>1 DEF Deliver
<1>6. tok'.kind = k /\ tok'.from = start /\ tok'.to = end
  BY <1>5 DEF Token
<1>7. IF k = "ERROR" THEN at' = "skip" /\ ctx' = ctx_error(ctx) /\ curr' = curr
                     ELSE at' = "idle" /\ curr' = tok' /\ ctx' = ctx
  BY <1>1 DEF Deliver
<1>8. tok.to <= start
  BY <1>1 DEF LexInv
<1>9. ctx_error(ctx) \in ContextType /\ ctx \in ContextType
  BY DEF LexInv, LexTypeOK, ctx_error, ContextType
<1>10. LexTypeOK'
  <2>1. cursor' \in 0..Len(text) /\ start' \in 0..cursor' /\ at' \in Labels
    BY <1>1, <1>2, <1>3, <1>5, <1>7 DEF Labels
  <2>2. curr.to \in 0..cursor' /\ tok'.to \in 0..cursor' /\ tok'.from \in 0..tok'.to
    BY <1>1, <1>2, <1>3, <1>4, <1>5, <1>6
  <2>3. tok'.kind \in Kinds
    BY <1>1, <1>6 DEF Kinds
  <2>4. ctx' \in ContextType
    BY <1>7, <1>9
  <2>5. \A t \in {tok', curr'} : t.kind \in Kinds /\ t.to \in 0..cursor' /\ t.from \in 0..t.to
    BY <1>4, <1>7, <2>2, <2>3
  <2> QED  BY <1>5, <2>1, <2>4, <2>5 DEF LexInv, LexTypeOK
<1>11. at' \in {"skip", "idle"}
  BY <1>7
<1>12. Place(start', cursor', at')  /\ at' \notin Scanning
  BY <1>11 DEF Place, Inner, Scanning
<1>13. curr'.kind = "EOF" => cursor' = Len(text)
  BY <1>1, <1>2, <1>3, <1>5, <1>6, <1>7
<1>14. LexInv'
  BY <1>5, <1>10, <1>11, <1>12, <1>13 DEF LexInv, Place, CharAt
<1>15. [Source!SourceNext]_<<curr.kind, ctx>>
  <2>1. CASE k = "ERROR"
    BY <1>1, <1>7, <2>1 DEF Source!SourceNext, Source!Complain, Source!ctx_error, ctx_error
  <2>2. CASE k # "ERROR" /\ curr.kind # "EOF"
    <3>1. Source!TokenKinds = TokenKinds
      BY SourceKinds
    <3>2. (curr.kind)' \in TokenKinds /\ ctx' = ctx
      BY <1>1, <1>6, <1>7, <2>2
    <3> QED  BY <2>2, <3>1, <3>2 DEF Source!SourceNext, Source!Hand
  <2>3. CASE k # "ERROR" /\ curr.kind = "EOF"
    BY <1>1, <1>6, <1>7, <2>3
  <2> QED  BY <2>1, <2>2, <2>3
<1> QED  BY <1>1, <1>2, <1>3, <1>5, <1>6, <1>8, <1>14, <1>15 DEF Handed

-----------------------------------------------------------------------------
(* What a character at hand says.                                          *)

LEMMA Readable ==
  ASSUME LexInv
  PROVE  /\ Peek # NUL => cursor + 1 <= Len(text)
         /\ PeekNext # NUL => cursor + 2 <= Len(text)
         /\ curr.kind = "EOF" => Peek = NUL /\ PeekNext = NUL
<1>1. Len(text) \in Nat /\ cursor \in 0..Len(text)
  BY TextLength DEF LexInv, LexTypeOK
<1>2. \A i \in Int : i >= Len(text) => CharAt(i) = NUL
  BY <1>1 DEF CharAt
<1> QED  BY <1>1, <1>2 DEF Peek, PeekNext, LexInv

\* The end of the file was not reached before.
LEMMA Live ==
  ASSUME LexInv, Peek # NUL \/ at \notin {"idle", "skip", "token"}
  PROVE  curr.kind # "EOF"
BY Readable DEF LexInv

LEMMA FlagsSet ==
  ASSUME num \in Flags
  PROVE  /\ [num EXCEPT !.dot = TRUE] \in Flags
         /\ [num EXCEPT !.exp = TRUE] \in Flags
         /\ [num EXCEPT !.f32 = TRUE] \in Flags
         /\ [dot |-> FALSE, exp |-> FALSE, f32 |-> FALSE] \in Flags
BY DEF Flags

LEMMA Bounds ==
  ASSUME LexInv
  PROVE  /\ Len(text) \in Nat /\ cursor \in Nat /\ cursor <= Len(text)
         /\ start \in Nat /\ start <= cursor /\ cursor + 0 = cursor
         /\ num \in Flags
<1>1. cursor \in 0..Len(text) /\ start \in 0..cursor /\ num \in Flags
  BY DEF LexInv, LexTypeOK, Flags
<1> QED  BY <1>1, TextLength

LEMMA BlanksAreText == NUL \notin Blanks
BY Zenon DEF NUL, Blanks

\* Reading n characters from one place to another.
LEMMA EatSlides ==
  ASSUME LexInv, NEW n \in 0..2, NEW l \in Labels, Eat(n, l), cursor + n <= Len(text),
         l \in Scanning => at \in Scanning,
         Place(start, cursor + n, l),
         curr.kind = "EOF" => n = 0 /\ l \in {"skip", "token"}
  PROVE  Slide
BY Bounds DEF Slide, Eat

LEMMA SkipReturns ==
  ASSUME LexInv, SkipReturn PROVE Slide
<1>1. start' = cursor /\ Move(0, "token") /\ num' = num
  BY DEF SkipReturn
<1>2. Place(start', cursor + 0, "token")
  BY <1>1, Bounds DEF Place, Inner
<1>3. "token" \in Labels /\ 0 \in 0..2
  BY DEF Labels
<1> QED  BY <1>1, <1>2, <1>3, Bounds DEF Slide

LEMMA TriviaSlides == ASSUME LexInv, Trivia \/ LexerNext PROVE Slide
<1> USE DEF At, Labels, Scanning, Inner, Place, NUL, Ahead
<1>1. CASE LexerNext
  BY <1>1, EatSlides, Bounds DEF LexerNext
<1>2. CASE SkipBlank
  BY <1>2, EatSlides, Bounds, Readable, Live, BlanksAreText DEF SkipBlank
<1>3. CASE LineOpen
  BY <1>3, EatSlides, Bounds, Readable, Live DEF LineOpen
<1>4. CASE LineChar
  BY <1>4, EatSlides, Bounds, Readable, Live DEF LineChar
<1>5. CASE LineClose
  BY <1>5, EatSlides, Bounds, Readable, Live DEF LineClose
<1>6. CASE BlockOpen
  BY <1>6, EatSlides, Bounds, Readable, Live DEF BlockOpen
<1>7. CASE BlockChar
  BY <1>7, EatSlides, Bounds, Readable, Live DEF BlockChar
<1>8. CASE BlockClose
  BY <1>8, EatSlides, Bounds, Readable, Live DEF BlockClose
<1>9. CASE BlockCut
  BY <1>9, SkipReturns DEF BlockCut
<1>10. CASE SkipEnd
  BY <1>10, SkipReturns DEF SkipEnd
<1> QED  BY <1>1, <1>2, <1>3, <1>4, <1>5, <1>6, <1>7, <1>8, <1>9, <1>10 DEF Trivia

LEMMA GiveToken ==
  ASSUME LexInv, NEW k \in (TokenKinds \cup {"ERROR"}) \ {"EOF"}, NEW end \in Nat, NEW v,
         Deliver(k, end, v), cursor <= end, end <= Len(text), start < end,
         at \in Scanning, curr.kind # "EOF"
  PROVE  Give
BY DEF Give

LEMMA RefuseGives ==
  ASSUME LexInv, Refuse, at \in Inner \/ (at \in Scanning /\ start < cursor)
  PROVE  Give
<1>1. start < cursor /\ at \in Scanning
  BY DEF LexInv, Place, Scanning
<1>2. curr.kind # "EOF"
  BY Live DEF Inner, Scanning, LexInv, Place
<1>3. "ERROR" \in (TokenKinds \cup {"ERROR"}) \ {"EOF"}
  OBVIOUS
<1> QED  BY SMTT(20), <1>1, <1>2, <1>3, Bounds, GiveToken DEF Refuse

LEMMA CharsAreText ==
  /\ NUL \notin Letters /\ NUL \notin Digits /\ NUL \notin Hex
  /\ NUL \notin {"=", "!", "<", ">", "&", "|", ".", "e", "f", "x", "+", "-"}
BY DEF NUL, Letters, Digits, Hex

LEMMA AloneKind == ASSUME NEW c PROVE Alone(c) \in (TokenKinds \cup {"ERROR"}) \ {"EOF"}
<1>1. {"PLUS", "MINUS", "STAR", "SLASH", "PERCENT", "SEMICOLON", "L_PAREN", "R_PAREN",
       "COMMA", "L_BRACE", "R_BRACE", "ASSIGN", "L_BRACKET", "R_BRACKET", "LOG_NOT", "LT",
       "GT", "ERROR"} \subseteq (TokenKinds \cup {"ERROR"}) \ {"EOF"}
  BY DEF TokenKinds, PrefixOps, Arithmetic, Comparison, Logical
<1>2. Alone(c) \in {"PLUS", "MINUS", "STAR", "SLASH", "PERCENT", "SEMICOLON", "L_PAREN",
       "R_PAREN", "COMMA", "L_BRACE", "R_BRACE", "ASSIGN", "L_BRACKET", "R_BRACKET",
       "LOG_NOT", "LT", "GT", "ERROR"}
  BY DEF Alone
<1> QED  BY <1>1, <1>2

LEMMA DoubledKind ==
  ASSUME NEW c \in {"=", "!", "<", ">", "&", "|"}
  PROVE  Doubled(c) \in (TokenKinds \cup {"ERROR"}) \ {"EOF"}
<1>1. {"EQ", "NEQ", "LE", "GE", "LOG_AND", "LOG_OR"}
        \subseteq (TokenKinds \cup {"ERROR"}) \ {"EOF"}
  BY DEF TokenKinds, Comparison, Logical
<1>2. Doubled(c) \in {"EQ", "NEQ", "LE", "GE", "LOG_AND", "LOG_OR"}
  BY DEF Doubled
<1> QED  BY <1>1, <1>2

LEMMA WordsMove == ASSUME LexInv, Words PROVE Slide \/ Give
<1> USE DEF At
<1>1. CASE EndOfFile
  <2>1. cursor = Len(text) /\ cursor = start /\ at \in Scanning
    BY <1>1, Bounds DEF EndOfFile, LexInv, Place, Scanning
  <2>2. "EOF" \in TokenKinds \cup {"ERROR"}
    BY DEF TokenKinds
  <2> QED  BY <1>1, <2>1, <2>2, Bounds DEF EndOfFile, Give
<1>2. CASE Word
  <2>1. Peek # NUL /\ "word" \in Labels /\ at \in Scanning
    BY <1>2, CharsAreText DEF Word, Labels, Scanning
  <2>2. Place(start, cursor + 0, "word")
    BY <1>2, Bounds DEF Word, Place, Peek, Inner
  <2> QED  BY <1>2, <2>1, <2>2, Live, Bounds, EatSlides DEF Word
<1>3. CASE WordChar
  <2>1. Peek # NUL /\ "word" \in Labels /\ at \in Scanning
    BY <1>3, CharsAreText DEF WordChar, Labels, Scanning
  <2>2. Place(start, cursor + 1, "word")
    BY Bounds DEF Place, Inner
  <2> QED  BY <1>3, <2>1, <2>2, Live, Readable, Bounds, EatSlides DEF WordChar
<1>4. CASE WordEnd
  <2> DEFINE w == Lexeme(start, cursor)
             k == IF w \in DOMAIN kw_map THEN kw_map[w] ELSE "IDENT"
  <2>1. Deliver(k, cursor, 0) /\ at = "word" /\ Peek \notin Letters
    BY <1>4 DEF WordEnd
  <2>2. k \in (TokenKinds \cup {"ERROR"}) \ {"EOF"}
    <3>1. /\ "IDENT" \in (TokenKinds \cup {"ERROR"}) \ {"EOF"}
          /\ Keywords \subseteq (TokenKinds \cup {"ERROR"}) \ {"EOF"}
      BY DEF TokenKinds, Keywords, TypeWords, Literals
    <3> QED  BY <3>1, LexerAssumption
  <2>3. start < cursor /\ at \in Scanning
    BY <2>1 DEF LexInv, Place, Peek, Scanning
  <2>4. curr.kind # "EOF"
    BY <2>1, Live
  <2> HIDE DEF k
  <2> QED  BY <2>1, <2>2, <2>3, <2>4, Bounds, GiveToken
<1>5. CASE Symbol
  <2>1. at = "token" /\ at \in Scanning /\ start = cursor /\ curr.kind # "EOF"
        /\ cursor + 1 <= Len(text)
    BY <1>5, Bounds DEF Symbol, LexInv, Place, Scanning
  <2>2. CASE Peek \in {"=", "!", "<", ">", "&", "|"} /\ PeekNext = Second(Peek)
    <3>1. PeekNext # NUL
      BY <2>2 DEF Second, NUL
    <3>2. Deliver(Doubled(Peek), cursor + 2, 0)
      BY <1>5, <2>2 DEF Symbol
    <3>3. cursor <= cursor + 2 /\ cursor + 2 <= Len(text) /\ start < cursor + 2
      BY <2>1, <3>1, Readable, Bounds
    <3>4. cursor + 2 \in Nat /\ Doubled(Peek) \in (TokenKinds \cup {"ERROR"}) \ {"EOF"}
      BY <2>2, Bounds, DoubledKind
    <3> QED  BY <2>1, <3>2, <3>3, <3>4, GiveToken
  <2>3. CASE ~(Peek \in {"=", "!", "<", ">", "&", "|"} /\ PeekNext = Second(Peek))
    <3>1. Deliver(Alone(Peek), cursor + 1, 0)
      BY <1>5, <2>3 DEF Symbol
    <3>2. cursor <= cursor + 1 /\ start < cursor + 1 /\ cursor + 1 \in Nat
      BY <2>1, Bounds
    <3>3. Alone(Peek) \in (TokenKinds \cup {"ERROR"}) \ {"EOF"}
      BY AloneKind
    <3> QED  BY <2>1, <3>1, <3>2, <3>3, GiveToken
  <2> QED  BY <2>2, <2>3
<1> QED  BY <1>1, <1>2, <1>3, <1>4, <1>5 DEF Words

\* Reading n characters inside of a number.
LEMMA DigitsSlide ==
  ASSUME LexInv, NEW n \in {0, 1}, NEW l \in Inner, Eat(n, l), at \in Scanning \ {"token"},
         n = 1 \/ start < cursor, n = 1 => Peek # NUL
  PROVE  Slide
<1>1. l \in Labels /\ at \in Scanning /\ n \in 0..2
  BY DEF Inner, Labels
<1>2. curr.kind # "EOF"
  BY Live DEF Scanning, Inner
<1>3. cursor + n <= Len(text) /\ start < cursor + n
  BY Readable, Bounds
<1>4. Place(start, cursor + n, l)
  BY <1>3 DEF Place, Inner
<1> QED  BY <1>1, <1>2, <1>3, <1>4, EatSlides

\* The same with a flag raised.
LEMMA MarkSlides ==
  ASSUME LexInv, NEW l \in Inner, Move(1, l), num' \in Flags, start' = start,
         at \in Scanning, Peek # NUL
  PROVE  Slide
<1>1. l \in Labels /\ 1 \in 0..2
  BY DEF Inner, Labels
<1>2. curr.kind # "EOF"
  BY Live
<1>3. cursor + 1 <= Len(text) /\ start < cursor + 1
  BY Readable, Bounds
<1>4. Place(start', cursor + 1, l)
  BY <1>3 DEF Place, Inner
<1> QED  BY <1>1, <1>2, <1>3, <1>4 DEF Slide

\* The first step of a number, from its first character.
LEMMA NumberSlides == ASSUME LexInv, Number PROVE Slide
<1>1. /\ at = "token" /\ start' = start
      /\ num' = [dot |-> FALSE, exp |-> FALSE, f32 |-> FALSE]
      /\ Peek \in Digits \cup {"."}
      /\ IF Ahead("0", "x") THEN Move(2, "hex_first") ELSE Move(0, "int")
  BY DEF Number, At
<1>2. num' \in Flags /\ at \in Scanning /\ start = cursor
  BY <1>1, Bounds, FlagsSet DEF LexInv, Place, Scanning
<1>3. Peek # NUL /\ curr.kind # "EOF"
  BY <1>1, CharsAreText, Live
<1>4. CASE Ahead("0", "x")
  <2>1. Move(2, "hex_first") /\ PeekNext # NUL
    BY <1>1, <1>4, CharsAreText DEF Ahead
  <2>2. cursor + 2 <= Len(text) /\ start < cursor + 2
    BY <1>2, <2>1, Readable, Bounds
  <2>3. Place(start', cursor + 2, "hex_first")
    BY <1>1, <2>2 DEF Place
  <2>4. "hex_first" \in Labels /\ 2 \in 0..2
    BY DEF Labels
  <2> QED  BY <1>1, <1>2, <1>3, <2>1, <2>2, <2>3, <2>4 DEF Slide
<1>5. CASE ~Ahead("0", "x")
  <2>1. Move(0, "int")
    BY <1>1, <1>5
  <2>2. cursor + 0 = cursor /\ cursor + 0 <= Len(text)
    BY Bounds
  <2>3. Place(start', cursor + 0, "int")
    BY <1>1, <2>2 DEF Place, Peek, Inner
  <2>4. "int" \in Labels /\ 0 \in 0..2
    BY DEF Labels
  <2> QED  BY <1>1, <1>2, <1>3, <2>1, <2>2, <2>3, <2>4 DEF Slide
<1> QED  BY <1>4, <1>5

\* A digit; the place stays the same.
LEMMA DigitSlides == ASSUME LexInv, Digit PROVE Slide
<1>1. PICK l \in {"int", "frac", "exp", "hex"} : at = l /\ Peek \in DigitsAt(l) /\ Eat(1, l)
  BY DEF Digit, At
<1>2. Peek # NUL
  BY <1>1, CharsAreText DEF DigitsAt
<1>3. curr.kind # "EOF" /\ cursor + 1 <= Len(text) /\ start < cursor + 1
  BY <1>2, Live, Readable, Bounds
<1>4. Place(start, cursor + 1, l)
  BY <1>1, <1>3 DEF Place
<1>5. l \in Labels /\ l \in Scanning /\ 1 \in 0..2
  BY DEF Labels, Scanning, Inner
<1> QED  BY <1>1, <1>3, <1>4, <1>5, EatSlides

LEMMA NumbersMove == ASSUME LexInv, Numbers PROVE Slide \/ Give
<1> USE DEF At
<1>0. /\ at \in Inner => start < cursor
      /\ at = "int" => start < cursor \/ Peek \in Digits \cup {"."}
  BY DEF LexInv, Place, Peek
<1>1. CASE Number
  BY <1>1, NumberSlides
<1>2. CASE HexFirst
  BY <1>0, <1>2, DigitsSlide DEF HexFirst, Inner, Scanning
<1>3. CASE NoHex
  BY <1>3, RefuseGives DEF NoHex, Inner
<1>4. CASE Digit
  BY <1>4, DigitSlides
<1>5. CASE Dot
  BY <1>5, MarkSlides, Bounds, FlagsSet, CharsAreText DEF Dot, Inner, Scanning
<1>6. CASE Exponent
  BY <1>6, MarkSlides, Bounds, FlagsSet, CharsAreText DEF Exponent, Inner, Scanning
<1>7. CASE NoExponent
  <2>1. at \in {"frac", "int"} /\ start < cursor
    BY <1>0, <1>7 DEF NoExponent, Inner
  <2> QED  BY <1>7, <2>1, DigitsSlide DEF NoExponent, Inner, Scanning
<1>8. CASE Sign
  <2>1. PICK n \in {0, 1} : Eat(n, "exp_first") /\ (n = 1 => Peek \in {"+", "-"})
    BY <1>8 DEF Sign
  <2>2. at = "sign" /\ (n = 1 => Peek # NUL)
    BY <1>8, <2>1, CharsAreText DEF Sign
  <2> QED  BY <1>0, <2>1, <2>2, DigitsSlide DEF Inner, Scanning
<1>9. CASE ExpFirst
  BY <1>0, <1>9, DigitsSlide DEF ExpFirst, Inner, Scanning
<1>10. CASE NoExp
  BY <1>10, RefuseGives DEF NoExp, Inner
<1>11. CASE ExpEnd
  BY <1>0, <1>11, DigitsSlide DEF ExpEnd, Inner, Scanning
<1>12. CASE HexEnd
  BY <1>0, <1>12, DigitsSlide DEF HexEnd, Inner, Scanning
<1>13. CASE Suffix
  BY <1>13, MarkSlides, Bounds, FlagsSet, CharsAreText DEF Suffix, Inner, Scanning
<1>14. CASE BadSuffix
  BY <1>14, RefuseGives DEF BadSuffix, Inner
<1>15. CASE NoSuffix
  BY <1>0, <1>15, DigitsSlide DEF NoSuffix, Inner, Scanning
<1>16. CASE TooLong
  BY <1>16, RefuseGives DEF TooLong, Inner
<1>17. CASE Store
  <2>1. PICK k \in {"LIT_FLOAT", "LIT_DOUBLE", "LIT_INT"} : \E v : Deliver(k, cursor, v)
    BY <1>17, Zenon DEF Store
  <2>2. PICK v : Deliver(k, cursor, v)
    BY <2>1
  <2>3. k \in (TokenKinds \cup {"ERROR"}) \ {"EOF"}
    BY DEF TokenKinds, Literals
  <2>4. at = "store" /\ at \in Scanning /\ start < cursor /\ curr.kind # "EOF"
    BY <1>0, <1>17, Live DEF Store, Inner, Scanning
  <2> QED  BY <2>2, <2>3, <2>4, Bounds, GiveToken
<1> QED  BY <1>1, <1>2, <1>3, <1>4, <1>5, <1>6, <1>7, <1>8, <1>9, <1>10, <1>11,
         <1>12, <1>13, <1>14, <1>15, <1>16, <1>17 DEF Numbers

-----------------------------------------------------------------------------
(* Types, spans and the abstract source.                                   *)

LEMMA NextMoves == ASSUME LexInv, LexNext PROVE Slide \/ Give
BY TriviaSlides, WordsMove, NumbersMove DEF LexNext, Scan

LEMMA LexInvariant == LexSpec => []LexInv
<1>1. LexInit => LexInv
  <2> SUFFICES ASSUME LexInit PROVE LexInv
    OBVIOUS
  <2>1. text \in Texts /\ Len(text) \in Nat
    BY LexerAssumption, LenProperties DEF LexInit
  <2>2. ctx \in ContextType
    BY DEF LexInit, CtxInit, ContextType
  <2>3. LexTypeOK
    BY <2>1, <2>2 DEF LexInit, LexTypeOK, NoToken, Labels, Kinds
  <2>4. Place(start, cursor, at) /\ at \notin Scanning /\ curr.kind # "EOF"
    BY DEF LexInit, NoToken, Place, Scanning, Inner
  <2> QED  BY <2>1, <2>3, <2>4 DEF LexInv
<1>2. LexInv /\ [LexNext]_vars => LexInv'
  <2> SUFFICES ASSUME LexInv, LexNext \/ UNCHANGED vars PROVE LexInv'
    OBVIOUS
  <2>1. CASE UNCHANGED vars
    BY <2>1 DEF vars, LexInv, LexTypeOK, Place, CharAt
  <2>2. CASE LexNext
    BY <2>2, NextMoves, SlideKeeps, GiveKeeps
  <2> QED  BY <2>1, <2>2
<1> QED  BY <1>1, <1>2, PTL DEF LexSpec

\* For every file the cursor stays in the text and every token is a piece of
\* what was read, although match and the comment loop advance without looking
\* at the length (lexer.c:75-82, 130-139).
THEOREM LexerType == LexSpec => []LexTypeOK
<1>1. LexInv => LexTypeOK
  BY DEF LexInv
<1> QED  BY <1>1, LexInvariant, PTL

\* For every file the tokens are not empty, lie behind one another, and the end
\* of the file is returned at its end only (lexer.c:278-299).
THEOREM LexerSpans == LexSpec => SpansInOrder
<1>1. LexInv /\ [LexNext]_vars =>
        [tok' # tok =>
           /\ tok.to <= tok'.from
           /\ IF tok'.kind = "EOF" THEN tok'.from = Len(text) ELSE tok'.from < tok'.to]_vars
  BY NextMoves, SlideKeeps, GiveKeeps DEF Handed, vars
<1> QED  BY <1>1, LexInvariant, PTL DEF LexSpec, SpansInOrder

\* The scanner with the parser's advance around it is a token source: for every
\* file the parser sees tokens of its own kinds only, each complaint is
\* reported, and nothing follows the end (lexer.c:99-109, parser.c:28-36).
THEOREM LexerRefinesSource == LexSpec => ImplementsTokenSource
<1>1. LexInit => Source!SourceInit
  BY DEF LexInit, NoToken, CtxInit, Source!SourceInit, Source!CtxInit
<1>2. LexInv /\ [LexNext]_vars => [Source!SourceNext]_<<curr.kind, ctx>>
  BY NextMoves, SlideKeeps, GiveKeeps DEF Handed, vars
<1> QED  BY <1>1, <1>2, LexInvariant, PTL DEF LexSpec, ImplementsTokenSource, Source!SourceSpec

-----------------------------------------------------------------------------
(* Blanks and comments.                                                    *)

LEMMA GapNone == ASSUME NEW a \in Nat PROVE Gap(a, a)
<1>1. {a} \in SUBSET (a..a)
  OBVIOUS
<1> QED  BY <1>1 DEF Gap

LEMMA GapMore ==
  ASSUME NEW a \in Nat, NEW b \in Nat, NEW c \in Nat, a <= b, b < c, Gap(a, b), Piece(b, c)
  PROVE  Gap(a, c)
<1>1. PICK cuts \in SUBSET (a..b) :
        /\ {a, b} \subseteq cuts
        /\ \A i \in cuts \ {b} : \E j \in cuts : i < j /\ Piece(i, j)
  BY DEF Gap
<1> DEFINE more == cuts \cup {c}
<1>2. more \in SUBSET (a..c) /\ {a, c} \subseteq more
  BY <1>1
<1>3. \A i \in more \ {c} : \E j \in more : i < j /\ Piece(i, j)
  BY <1>1
<1> QED  BY <1>2, <1>3 DEF Gap

\* A comment that began at i and goes on at c.
LineSoFar(i, c)  == /\ CharAt(i) = "/" /\ CharAt(i + 1) = "/"
                    /\ \A k \in i..(c - 1) : CharAt(k) \notin {"\n", NUL}
BlockSoFar(i, c) == CharAt(i) = "/" /\ CharAt(i + 1) = "*" /\ i + 2 <= c /\ Inside(i + 2, c)

GapInv ==
  /\ tok.to \in Nat /\ tok.to <= cursor
  /\ at \in {"idle", "skip"} => Gap(tok.to, cursor)
  /\ at = "line"  => \E i \in tok.to..cursor : Gap(tok.to, i) /\ LineSoFar(i, cursor)
  /\ at = "block" => \E i \in tok.to..cursor : Gap(tok.to, i) /\ BlockSoFar(i, cursor)
  /\ at \in Scanning => Gap(tok.to, start)

\* What lies between two positions depends on the text only.
LEMMA GapsKept ==
  ASSUME text' = text
  PROVE  /\ \A a, b : Gap(a, b)' <=> Gap(a, b)
         /\ \A a, b : LineSoFar(a, b)' <=> LineSoFar(a, b)
         /\ \A a, b : BlockSoFar(a, b)' <=> BlockSoFar(a, b)
<1>1. /\ \A a, b : LineSoFar(a, b)' <=> LineSoFar(a, b)
      /\ \A a, b : BlockSoFar(a, b)' <=> BlockSoFar(a, b)
      /\ \A a, b : Piece(a, b)' <=> Piece(a, b)
  BY DEF CharAt, LineSoFar, BlockSoFar, Inside, Closing, Piece, LineComment,
     BlockComment, CutComment
<1>2. \A a, b : Gap(a, b)' <=> Gap(a, b)
  BY <1>1 DEF Gap
<1> QED  BY <1>1, <1>2

LEMMA SkipReturnGap ==
  ASSUME LexInv, GapInv, SkipReturn, Gap(tok.to, cursor) PROVE GapInv'
<1>1. /\ start' = cursor /\ cursor' = cursor + 0 /\ at' = "token"
      /\ text' = text /\ tok' = tok
  BY DEF SkipReturn, Move
<1>2. Gap(tok.to, cursor)'
  BY <1>1, GapsKept, Bounds
<1> QED  BY <1>1, <1>2, Bounds DEF GapInv

LEMMA EatGap ==
  ASSUME LexInv, GapInv, NEW n \in 0..2, NEW l, Eat(n, l)
  PROVE  /\ cursor' = cursor + n /\ at' = l /\ tok' = tok /\ start' = start /\ text' = text
         /\ tok'.to \in Nat /\ tok'.to <= cursor'
BY Bounds DEF Eat, Move, GapInv

LEMMA TriviaGap == ASSUME LexInv, GapInv, Trivia \/ LexerNext PROVE GapInv'
<1> USE DEF At
<1>0. /\ Len(text) \in Nat /\ cursor \in Nat /\ tok.to \in Nat /\ tok.to <= cursor
      /\ Peek = CharAt(cursor) /\ PeekNext = CharAt(cursor + 1)
  BY Bounds DEF GapInv, Peek, PeekNext
<1>1. CASE LexerNext
  BY <1>0, <1>1, EatGap, GapsKept DEF LexerNext, GapInv, Scanning, Inner
<1>2. CASE SkipBlank
  <2>1. Gap(tok.to, cursor + 1)
    BY <1>0, <1>2, GapMore DEF SkipBlank, GapInv, Piece
  <2>2. Eat(1, "skip") /\ 1 \in 0..2
    BY <1>2 DEF SkipBlank
  <2> QED  BY <2>1, <2>2, EatGap, GapsKept DEF GapInv, Scanning, Inner
<1>3. CASE LineOpen
  <2>1. Eat(0, "line") /\ 0 \in 0..2 /\ LineSoFar(cursor, cursor) /\ Gap(tok.to, cursor)
    BY <1>0, <1>3 DEF LineOpen, Ahead, LineSoFar, GapInv
  <2>2. cursor \in tok.to..cursor
    BY <1>0
  <2>3. cursor + 0 = cursor
    BY <1>0
  <2> QED  BY <2>1, <2>2, <2>3, EatGap, GapsKept DEF GapInv, Scanning, Inner
<1>4. CASE LineChar
  <2>1. Eat(1, "line") /\ 1 \in 0..2 /\ Peek \notin {"\n", NUL}
    BY <1>4 DEF LineChar
  <2>2. PICK i \in tok.to..cursor : Gap(tok.to, i) /\ LineSoFar(i, cursor)
    BY <1>4 DEF LineChar, GapInv
  <2>3. i \in tok.to..(cursor + 1) /\ LineSoFar(i, cursor + 1)
    BY <1>0, <2>1, <2>2 DEF LineSoFar
  <2> QED  BY <2>1, <2>2, <2>3, EatGap, GapsKept DEF GapInv, Scanning, Inner
<1>5. CASE LineClose
  <2>1. Eat(0, "skip") /\ 0 \in 0..2 /\ Peek \in {"\n", NUL}
    BY <1>5 DEF LineClose
  <2>2. PICK i \in tok.to..cursor : Gap(tok.to, i) /\ LineSoFar(i, cursor)
    BY <1>5 DEF LineClose, GapInv
  <2>3. cursor # i /\ cursor # i + 1
    BY <1>0, <2>1, <2>2 DEF LineSoFar, NUL
  <2>4. Piece(i, cursor) /\ i < cursor /\ i \in Nat
    BY <1>0, <2>1, <2>2, <2>3 DEF LineSoFar, Piece, LineComment
  <2>5. Gap(tok.to, cursor) /\ cursor + 0 = cursor
    BY <1>0, <2>2, <2>4, GapMore
  <2> QED  BY <2>1, <2>5, EatGap, GapsKept DEF GapInv, Scanning, Inner
<1>6. CASE BlockOpen
  <2>1. Eat(2, "block") /\ 2 \in 0..2 /\ BlockSoFar(cursor, cursor + 2) /\ Gap(tok.to, cursor)
    BY <1>0, <1>6 DEF BlockOpen, Ahead, BlockSoFar, Inside, GapInv
  <2>2. cursor \in tok.to..(cursor + 2)
    BY <1>0
  <2> QED  BY <2>1, <2>2, EatGap, GapsKept DEF GapInv, Scanning, Inner
<1>7. CASE BlockChar
  <2>1. Eat(1, "block") /\ 1 \in 0..2 /\ Peek # NUL /\ ~Ahead("*", "/")
    BY <1>7 DEF BlockChar
  <2>2. PICK i \in tok.to..cursor : Gap(tok.to, i) /\ BlockSoFar(i, cursor)
    BY <1>7 DEF BlockChar, GapInv
  <2>3. i \in tok.to..(cursor + 1) /\ BlockSoFar(i, cursor + 1)
    BY <1>0, <2>1, <2>2 DEF BlockSoFar, Inside, Closing, Ahead
  <2> QED  BY <2>1, <2>2, <2>3, EatGap, GapsKept DEF GapInv, Scanning, Inner
<1>8. CASE BlockClose
  <2>1. Eat(2, "skip") /\ 2 \in 0..2 /\ Ahead("*", "/")
    BY <1>8 DEF BlockClose
  <2>2. PICK i \in tok.to..cursor : Gap(tok.to, i) /\ BlockSoFar(i, cursor)
    BY <1>8 DEF BlockClose, GapInv
  <2>3. /\ (cursor + 2) - 2 = cursor /\ i + 4 <= cursor + 2 /\ i < cursor + 2
        /\ cursor + 2 \in Nat /\ i \in Nat /\ tok.to <= i
    BY <1>0, <2>2 DEF BlockSoFar
  <2>4. Piece(i, cursor + 2)
    BY <1>0, <2>1, <2>2, <2>3 DEF BlockSoFar, Ahead, Closing, Piece, BlockComment
  <2>5. Gap(tok.to, cursor + 2)
    BY <1>0, <2>2, <2>3, <2>4, GapMore
  <2> QED  BY <2>1, <2>5, EatGap, GapsKept DEF GapInv, Scanning, Inner
<1>9. CASE BlockCut
  <2>1. PICK i \in tok.to..cursor : Gap(tok.to, i) /\ BlockSoFar(i, cursor)
    BY <1>9 DEF BlockCut, GapInv
  <2>2. Piece(i, cursor) /\ i < cursor /\ i \in Nat
    BY <1>0, <1>9, <2>1 DEF BlockCut, BlockSoFar, Piece, CutComment
  <2>3. Gap(tok.to, cursor)
    BY <1>0, <2>1, <2>2, GapMore
  <2> QED  BY <1>9, <2>3, SkipReturnGap DEF BlockCut
<1>10. CASE SkipEnd
  BY <1>10, SkipReturnGap DEF SkipEnd, GapInv
<1> QED  BY <1>1, <1>2, <1>3, <1>4, <1>5, <1>6, <1>7, <1>8, <1>9, <1>10 DEF Trivia

\* A step inside of a token goes on or hands it over.
Onward ==
  /\ at \in Scanning /\ at' \in Scanning /\ start' = start
  /\ text' = text /\ tok' = tok /\ curr' = curr
  /\ cursor' \in Nat /\ cursor <= cursor'

LEMMA TokenSteps ==
  ASSUME LexInv, Words \/ Numbers
  PROVE  \/ Onward
         \/ /\ at \in Scanning
            /\ \E k, end, v : end \in Nat /\ cursor <= end /\ Deliver(k, end, v)
<1> DEFINE Hands == \E k, end, v : end \in Nat /\ cursor <= end /\ Deliver(k, end, v)
<1>0. /\ cursor \in Nat
      /\ \A n \in 0..2 : cursor + n \in Nat /\ cursor <= cursor + n
  BY Bounds
<1> USE <1>0 DEF At, Scanning, Inner, Eat, Move, Onward
<1>1. CASE Words
  <2>1. CASE EndOfFile \/ WordEnd
    <3>1. Hands
      BY <2>1, Bounds DEF EndOfFile, WordEnd
    <3> HIDE DEF Hands
    <3> QED  BY <2>1, <3>1 DEF EndOfFile, WordEnd, Hands
  <2>2. CASE Word
    BY <2>2 DEF Word
  <2>3. CASE WordChar
    BY <2>3 DEF WordChar
  <2>4. CASE Symbol
    <3>1. cursor + 1 \in Nat /\ cursor + 2 \in Nat /\ cursor <= cursor + 1 /\ cursor <= cursor + 2
      BY Bounds
    <3>2. Hands
      BY <2>4, <3>1 DEF Symbol
    <3> HIDE DEF Hands
    <3> QED  BY <2>4, <3>2 DEF Symbol, Hands
  <2> QED  BY <1>1, <2>1, <2>2, <2>3, <2>4 DEF Words
<1>2. CASE Numbers
  <2>1. CASE NoHex \/ NoExp \/ BadSuffix \/ TooLong \/ Store
    <3>1. Hands
      BY <2>1, Bounds DEF NoHex, NoExp, BadSuffix, TooLong, Store, Refuse
    <3>2. at \in Scanning
      BY <2>1 DEF NoHex, NoExp, BadSuffix, TooLong, Store
    <3> QED  BY <3>1, <3>2
  <2>2. CASE Number
    BY <2>2 DEF Number
  <2>3. CASE Digit
    BY <2>3 DEF Digit
  <2>4. CASE HexFirst \/ HexEnd \/ ExpFirst \/ ExpEnd \/ NoSuffix \/ Suffix
    BY <2>4 DEF HexFirst, HexEnd, ExpFirst, ExpEnd, NoSuffix, Suffix
  <2>5. CASE Dot \/ Exponent \/ NoExponent \/ Sign
    BY <2>5 DEF Dot, Exponent, NoExponent, Sign
  <2> QED  BY <1>2, <2>1, <2>2, <2>3, <2>4, <2>5 DEF Numbers
<1> QED  BY <1>1, <1>2

LEMMA TokenGap ==
  ASSUME LexInv, GapInv, Words \/ Numbers
  PROVE  GapInv' /\ (tok' # tok => Gap(tok.to, tok'.from))
<1>1. tok.to \in Nat /\ tok.to <= cursor
  BY DEF GapInv
<1>2. CASE Onward
  <2>1. tok'.to \in Nat /\ tok'.to <= cursor'
    BY <1>1, <1>2, Bounds DEF Onward
  <2>2. Gap(tok.to, start)' /\ tok' = tok
    BY <1>2, GapsKept DEF Onward, GapInv
  <2>3. at' \in Scanning
    BY <1>2 DEF Onward
  <2> QED  BY <2>1, <2>2, <2>3 DEF GapInv, Scanning, Inner
<1>3. ASSUME at \in Scanning, NEW k, NEW end \in Nat, NEW v, cursor <= end, Deliver(k, end, v)
      PROVE  GapInv' /\ (tok' # tok => Gap(tok.to, tok'.from))
  <2>1. /\ text' = text /\ cursor' = end /\ tok'.to = end /\ tok'.from = start
        /\ at' \in {"idle", "skip"}
    BY <1>3 DEF Deliver, Token
  <2>2. Gap(end, end)'
    BY <2>1, GapNone, GapsKept
  <2> QED  BY <1>3, <2>1, <2>2 DEF GapInv, Scanning, Inner
<1> QED  BY <1>2, <1>3, TokenSteps

\* For every file, blanks and comments are all there is between two tokens: with
\* LexerSpans, no character is lost, and only a comment that nothing closes
\* swallows what follows it (lexer.c:111-152).
THEOREM LexerTiling == LexSpec => Tiling
<1>1. LexInit => GapInv
  BY GapNone DEF LexInit, NoToken, GapInv, Scanning, Inner
<1>2. LexInv /\ GapInv /\ [LexNext]_vars => GapInv'
  <2> SUFFICES ASSUME LexInv, GapInv, LexNext \/ UNCHANGED vars PROVE GapInv'
    OBVIOUS
  <2>1. CASE UNCHANGED vars
    BY <2>1, GapsKept DEF vars, GapInv
  <2> QED  BY <2>1, TriviaGap, TokenGap DEF LexNext, Scan
<1>3. LexInv /\ GapInv /\ [LexNext]_vars => [tok' # tok => Gap(tok.to, tok'.from)]_vars
  <2>1. ASSUME LexInv, Trivia \/ LexerNext PROVE tok' = tok
    BY <2>1, TriviaSlides, SlideKeeps
  <2> QED  BY <2>1, TokenGap DEF LexNext, Scan, vars
<1> QED  BY <1>1, <1>2, <1>3, LexInvariant, PTL DEF LexSpec, Tiling

-----------------------------------------------------------------------------
(* Spellings by the positions they stand at.                               *)

In(a, b, S)      == \A k \in a..(b - 1) : CharAt(k) \in S
Decimal(a, b)    == a < b /\ In(a, b, Digits)
HexNumber(a, b)  == a + 2 < b /\ CharAt(a) = "0" /\ CharAt(a + 1) = "x" /\ In(a + 2, b, Hex)
\* A dot with nothing but digits around it.
Dotted(a, b)     == \E d \in a..(b - 1) :
                      CharAt(d) = "." /\ In(a, d, Digits) /\ In(d + 1, b, Digits)
Pointed(a, b)    == a + 1 < b /\ Dotted(a, b)
Mantissa(a, b)   == Decimal(a, b) \/ Pointed(a, b)
Mark(m, f)       == /\ CharAt(m) = "e"
                    /\ f = m + 1 \/ (f = m + 2 /\ CharAt(m + 1) \in {"+", "-"})
Scaled(a, b)     == \E m, f \in a..b : Mantissa(a, m) /\ Mark(m, f) /\ Decimal(f, b)
Double(a, b)     == Pointed(a, b) \/ Scaled(a, b)
Float(a, b)      == a < b /\ CharAt(b - 1) = "f" /\ Double(a, b - 1)
Numeric(a, b)    == HexNumber(a, b) \/ Decimal(a, b) \/ Double(a, b) \/ Float(a, b)
WordAt(a, b)     == a < b /\ CharAt(a) \in Letters /\ In(a, b, Letters \cup Digits)
SymbolAt(a, b)   == \/ b = a + 1 /\ Alone(CharAt(a)) # "ERROR"
                    \/ /\ b = a + 2 /\ CharAt(a) \in {"=", "!", "<", ">", "&", "|"}
                       /\ CharAt(a + 1) = Second(CharAt(a))

\* Two positions of the text, in order.
Span(a, b) == a \in Nat /\ b \in Nat /\ a <= b /\ b <= Len(text)

\* The characters of a lexeme, and of a part of one, are those of the text.
LEMMA LexemeChars ==
  ASSUME LexInv, NEW a, NEW b, Span(a, b)
  PROVE  /\ Lexeme(a, b) \in Seq(STRING) /\ Len(Lexeme(a, b)) = b - a
         /\ DOMAIN Lexeme(a, b) = 1..(b - a)
         /\ \A i \in 1..(b - a) : Lexeme(a, b)[i] = CharAt(a + i - 1)
<1>1. text \in Seq(STRING) /\ Len(text) \in Nat
  BY LexerAssumption, LenProperties DEF LexInv
<1>2. \A i \in 1..Len(text) : text[i] \in STRING
  BY <1>1, ElementOfSeq
<1>3. /\ SubSeq(text, a + 1, b) \in Seq(STRING)
      /\ Len(SubSeq(text, a + 1, b)) = IF a + 1 <= b THEN b - (a + 1) + 1 ELSE 0
      /\ \A i \in 1..(b - (a + 1) + 1) : SubSeq(text, a + 1, b)[i] = text[(a + 1) + i - 1]
  <2>1. a + 1 \in Int /\ b \in Int /\ \A i \in (a + 1)..b : text[i] \in STRING
    BY <1>1, <1>2 DEF Span
  <2> QED  BY <2>1, SubSeqProperties
<1>4. Len(Lexeme(a, b)) = b - a
  BY <1>3 DEF Span, Lexeme
<1>5. DOMAIN Lexeme(a, b) = 1..(b - a)
  BY <1>3, <1>4, LenProperties DEF Lexeme
<1>6. ASSUME NEW i \in 1..(b - a) PROVE Lexeme(a, b)[i] = CharAt(a + i - 1)
  BY <1>1, <1>3 DEF Span, Lexeme, CharAt
<1> QED  BY <1>3, <1>4, <1>5, <1>6 DEF Lexeme

LEMMA LexemePart ==
  ASSUME LexInv, NEW a, NEW b, Span(a, b), NEW i \in 1..(b - a + 1), NEW j \in Nat,
         i <= j + 1, j <= b - a
  PROVE  SubSeq(Lexeme(a, b), i, j) = Lexeme(a + i - 1, a + j) /\ Span(a + i - 1, a + j)
<1> DEFINE w == Lexeme(a, b)
           v == SubSeq(w, i, j)
           u == Lexeme(a + i - 1, a + j)
<1>1. Span(a + i - 1, a + j)
  BY DEF Span
<1>2. /\ w \in Seq(STRING) /\ Len(w) = b - a
      /\ \A k \in 1..(b - a) : w[k] = CharAt(a + k - 1)
  BY LexemeChars
<1>3. /\ u \in Seq(STRING) /\ Len(u) = (a + j) - (a + i - 1)
      /\ \A k \in 1..((a + j) - (a + i - 1)) : u[k] = CharAt((a + i - 1) + k - 1)
  BY <1>1, LexemeChars
<1> HIDE DEF w, u
<1>4. \A k \in i..j : w[k] \in STRING
  BY <1>2, ElementOfSeq DEF Span
<1>5. /\ v \in Seq(STRING) /\ Len(v) = (IF i <= j THEN j - i + 1 ELSE 0)
      /\ \A k \in 1..(j - i + 1) : v[k] = w[i + k - 1]
  BY SMTT(20), <1>4, SubSeqProperties DEF Span
<1> HIDE DEF v
<1>6. Len(u) = Len(v)
  BY <1>3, <1>5 DEF Span
<1>7. ASSUME NEW k \in 1..Len(v) PROVE v[k] = u[k]
  <2>1. k \in 1..(j - i + 1) /\ i + k - 1 \in 1..(b - a)
    BY <1>5 DEF Span
  <2>2. v[k] = CharAt(a + (i + k - 1) - 1)
    BY <1>2, <1>5, <2>1
  <2>3. u[k] = CharAt((a + i - 1) + k - 1)
    BY <1>3, <2>1 DEF Span
  <2>4. a + (i + k - 1) - 1 = (a + i - 1) + k - 1
    BY DEF Span
  <2> QED  BY <2>2, <2>3, <2>4
<1>8. u = v
  BY <1>3, <1>5, <1>6, <1>7, SeqEqual
<1> QED  BY <1>1, <1>8 DEF u, v, w

LEMMA LexemeEmpty ==
  ASSUME LexInv, NEW a, NEW b, Span(a, b) PROVE Lexeme(a, b) # <<>> <=> a < b
<1>1. Lexeme(a, b) \in Seq(STRING) /\ Len(Lexeme(a, b)) = b - a
  BY LexemeChars
<1> QED  BY <1>1, EmptySeq DEF Span

LEMMA AllAt ==
  ASSUME LexInv, NEW a, NEW b, Span(a, b), NEW S
  PROVE  AllIn(Lexeme(a, b), S) <=> In(a, b, S)
<1>1. /\ DOMAIN Lexeme(a, b) = 1..(b - a)
      /\ \A i \in 1..(b - a) : Lexeme(a, b)[i] = CharAt(a + i - 1)
  BY LexemeChars
<1>2. ASSUME AllIn(Lexeme(a, b), S), NEW k \in a..(b - 1) PROVE CharAt(k) \in S
  <2>1. k - a + 1 \in 1..(b - a) /\ a + (k - a + 1) - 1 = k
    BY <1>2 DEF Span
  <2> QED  BY <1>1, <1>2, <2>1 DEF AllIn
<1>3. ASSUME In(a, b, S), NEW i \in 1..(b - a) PROVE CharAt(a + i - 1) \in S
  <2>1. a + i - 1 \in a..(b - 1)
    BY DEF Span
  <2> QED  BY <1>3, <2>1 DEF In
<1> QED  BY <1>1, <1>2, <1>3 DEF AllIn, In

\* Each form of spelling, in positions.
LEMMA DecimalAt ==
  ASSUME LexInv, NEW a, NEW b, Span(a, b) PROVE IsDecimal(Lexeme(a, b)) <=> Decimal(a, b)
BY AllAt, LexemeEmpty DEF IsDecimal, Decimal

LEMMA WordIs ==
  ASSUME LexInv, NEW a, NEW b, Span(a, b) PROVE IsWord(Lexeme(a, b)) <=> WordAt(a, b)
<1>1. \A i \in 1..(b - a) : Lexeme(a, b)[i] = CharAt(a + i - 1)
  BY LexemeChars
<1>2. a < b => Lexeme(a, b)[1] = CharAt(a)
  <2>1. a < b => 1 \in 1..(b - a) /\ a + 1 - 1 = a
    BY DEF Span
  <2> QED  BY <1>1, <2>1
<1> QED  BY <1>2, AllAt, LexemeEmpty DEF IsWord, WordAt

LEMMA PointedAt ==
  ASSUME LexInv, NEW a, NEW b, Span(a, b) PROVE IsPointed(Lexeme(a, b)) <=> Pointed(a, b)
<1>1. /\ DOMAIN Lexeme(a, b) = 1..(b - a) /\ Len(Lexeme(a, b)) = b - a
      /\ \A i \in 1..(b - a) : Lexeme(a, b)[i] = CharAt(a + i - 1)
  BY LexemeChars
<1> DEFINE w == Lexeme(a, b)
<1> HIDE DEF w
<1>2. ASSUME NEW i \in 1..(b - a), w[i] = ".", \A j \in 1..(b - a) \ {i} : w[j] \in Digits
      PROVE  Dotted(a, b)
  <2> DEFINE d == a + i - 1
  <2>1. d \in a..(b - 1) /\ CharAt(d) = "."
    BY <1>1, <1>2 DEF Span, w
  <2>2. ASSUME NEW k \in a..(b - 1), k # d PROVE CharAt(k) \in Digits
    <3>1. k - a + 1 \in 1..(b - a) \ {i} /\ a + (k - a + 1) - 1 = k
      BY <2>2 DEF Span
    <3>2. w[k - a + 1] \in Digits
      BY <1>2, <3>1
    <3> QED  BY <1>1, <3>1, <3>2 DEF w
  <2> HIDE DEF d
  <2> QED  BY <2>1, <2>2 DEF Dotted, In, Span
<1>3. ASSUME NEW d \in a..(b - 1), CharAt(d) = ".", In(a, d, Digits), In(d + 1, b, Digits)
      PROVE  \E i \in 1..(b - a) : w[i] = "." /\ \A j \in 1..(b - a) \ {i} : w[j] \in Digits
  <2> DEFINE i == d - a + 1
  <2>1. i \in 1..(b - a) /\ a + i - 1 = d
    BY DEF Span
  <2>2. ASSUME NEW j \in 1..(b - a), j # i PROVE w[j] \in Digits
    <3>1. a + j - 1 \in a..(d - 1) \/ a + j - 1 \in (d + 1)..(b - 1)
      BY <2>2 DEF Span
    <3>2. CharAt(a + j - 1) \in Digits
      BY <1>3, <3>1 DEF In
    <3> QED  BY <1>1, <3>2 DEF w
  <2>3. w[i] = "."
    BY <1>1, <1>3, <2>1 DEF w
  <2> HIDE DEF i
  <2> QED  BY <2>1, <2>2, <2>3
<1>4. Len(w) > 1 <=> a + 1 < b
  BY <1>1 DEF Span, w
<1>5. Dotted(a, b) <=>
        \E i \in 1..(b - a) : w[i] = "." /\ \A j \in 1..(b - a) \ {i} : w[j] \in Digits
  BY <1>2, <1>3 DEF Dotted
<1>6. DOMAIN w = 1..(b - a)
  BY <1>1 DEF w
<1>7. IsPointed(w) <=> Pointed(a, b)
  BY <1>4, <1>5, <1>6 DEF IsPointed, Pointed
<1> QED  BY <1>7 DEF w

LEMMA MantissaAt ==
  ASSUME LexInv, NEW a, NEW b, Span(a, b) PROVE IsMantissa(Lexeme(a, b)) <=> Mantissa(a, b)
BY DecimalAt, PointedAt DEF IsMantissa, Mantissa

LEMMA HexAt ==
  ASSUME LexInv, NEW a, NEW b, Span(a, b) PROVE IsHex(Lexeme(a, b)) <=> HexNumber(a, b)
<1>1. /\ Len(Lexeme(a, b)) = b - a
      /\ \A i \in 1..(b - a) : Lexeme(a, b)[i] = CharAt(a + i - 1)
  BY LexemeChars
<1>2. CASE a + 2 < b
  <2>1. Lexeme(a, b)[1] = CharAt(a) /\ Lexeme(a, b)[2] = CharAt(a + 1)
    <3>1. 1 \in 1..(b - a) /\ 2 \in 1..(b - a) /\ a + 1 - 1 = a /\ a + 2 - 1 = a + 1
      BY <1>2 DEF Span
    <3> QED  BY <1>1, <3>1
  <2>2. /\ SubSeq(Lexeme(a, b), 3, b - a) = Lexeme(a + 3 - 1, a + (b - a))
        /\ Span(a + 3 - 1, a + (b - a))
    <3>1. 3 \in 1..(b - a + 1) /\ b - a \in Nat /\ 3 <= b - a + 1 /\ b - a <= b - a
      BY <1>2 DEF Span
    <3> QED  BY <3>1, LexemePart
  <2>3. a + 3 - 1 = a + 2 /\ a + (b - a) = b
    BY DEF Span
  <2>4. AllIn(SubSeq(Lexeme(a, b), 3, Len(Lexeme(a, b))), Hex) <=> In(a + 2, b, Hex)
    BY <1>1, <2>2, <2>3, AllAt
  <2>5. Len(Lexeme(a, b)) > 2
    BY <1>1, <1>2 DEF Span
  <2> QED  BY <1>2, <2>1, <2>4, <2>5 DEF IsHex, HexNumber
<1>3. CASE ~(a + 2 < b)
  BY <1>1, <1>3 DEF IsHex, HexNumber, Span
<1> QED  BY <1>2, <1>3

LEMMA SymbolIs ==
  ASSUME LexInv, NEW a, NEW b, Span(a, b) PROVE IsSymbol(Lexeme(a, b)) <=> SymbolAt(a, b)
<1>1. /\ Len(Lexeme(a, b)) = b - a
      /\ \A i \in 1..(b - a) : Lexeme(a, b)[i] = CharAt(a + i - 1)
  BY LexemeChars
<1>2. CASE b = a + 1
  <2>1. Lexeme(a, b)[1] = CharAt(a)
    <3>1. 1 \in 1..(b - a) /\ a + 1 - 1 = a
      BY <1>2 DEF Span
    <3> QED  BY <1>1, <3>1
  <2>2. Len(Lexeme(a, b)) = 1 /\ b # a + 2
    BY <1>1, <1>2 DEF Span
  <2> QED  BY <1>2, <2>1, <2>2 DEF IsSymbol, SymbolAt
<1>3. CASE b = a + 2
  <2>1. Lexeme(a, b)[1] = CharAt(a) /\ Lexeme(a, b)[2] = CharAt(a + 1)
    <3>1. 1 \in 1..(b - a) /\ 2 \in 1..(b - a) /\ a + 1 - 1 = a /\ a + 2 - 1 = a + 1
      BY <1>3 DEF Span
    <3> QED  BY <1>1, <3>1
  <2>2. Len(Lexeme(a, b)) = 2 /\ b # a + 1
    BY <1>1, <1>3 DEF Span
  <2> QED  BY <1>3, <2>1, <2>2 DEF IsSymbol, SymbolAt
<1>4. CASE b # a + 1 /\ b # a + 2
  <2>1. Len(Lexeme(a, b)) # 1 /\ Len(Lexeme(a, b)) # 2
    BY <1>1, <1>4 DEF Span
  <2> QED  BY <1>4, <2>1 DEF IsSymbol, SymbolAt
<1> QED  BY <1>2, <1>3, <1>4

LEMMA OneElement ==
  ASSUME NEW S, NEW w \in Seq(S), Len(w) = 1 PROVE w = <<w[1]>>
<1>1. w[1] \in S
  <2>1. 1 \in 1..Len(w)
    OBVIOUS
  <2> QED  BY <2>1, ElementOfSeq
<1>2. <<w[1]>> \in Seq(S) /\ Len(<<w[1]>>) = 1 /\ <<w[1]>>[1] = w[1]
  BY <1>1
<1>3. \A i \in 1..Len(w) : w[i] = <<w[1]>>[i]
  OBVIOUS
<1> QED  BY <1>2, <1>3, SeqEqual

LEMMA TwoElements ==
  ASSUME NEW S, NEW w \in Seq(S), Len(w) = 2 PROVE w = <<w[1], w[2]>>
<1>1. w[1] \in S /\ w[2] \in S
  BY ElementOfSeq
<1>2. <<w[1], w[2]>> \in Seq(S) /\ Len(<<w[1], w[2]>>) = 2
  BY <1>1
<1>3. \A i \in 1..Len(w) : w[i] = <<w[1], w[2]>>[i]
  OBVIOUS
<1> QED  BY <1>2, <1>3, SeqEqual

LEMMA MarkIs ==
  ASSUME LexInv, NEW a, NEW b, Span(a, b) PROVE Lexeme(a, b) \in Marks <=> Mark(a, b)
<1> DEFINE w == Lexeme(a, b)
<1>1. /\ w \in Seq(STRING) /\ Len(w) = b - a
      /\ \A i \in 1..(b - a) : w[i] = CharAt(a + i - 1)
  BY LexemeChars
<1> HIDE DEF w
<1>2. CASE b = a + 1
  <2>1. w[1] = CharAt(a) /\ Len(w) = 1
    <3>1. 1 \in 1..(b - a) /\ a + 1 - 1 = a /\ b - a = 1
      BY <1>2 DEF Span
    <3> QED  BY <1>1, <3>1
  <2>2. w[1] = "e" => w = <<"e">>
    BY <1>1, <2>1, OneElement
  <2>3. Len(<<"e", "+">>) = 2 /\ Len(<<"e", "-">>) = 2 /\ b # a + 2
    BY <1>2 DEF Span
  <2> QED  BY <1>2, <2>1, <2>2, <2>3 DEF Marks, Mark, w
<1>3. CASE b = a + 2
  <2>1. w[1] = CharAt(a) /\ w[2] = CharAt(a + 1) /\ Len(w) = 2
    <3>1. 1 \in 1..(b - a) /\ 2 \in 1..(b - a) /\ a + 1 - 1 = a /\ a + 2 - 1 = a + 1
          /\ b - a = 2
      BY <1>3 DEF Span
    <3> QED  BY <1>1, <3>1
  <2>2. ASSUME NEW c \in {"+", "-"}, w[1] = "e", w[2] = c PROVE w = <<"e", c>>
    BY <1>1, <2>1, <2>2, TwoElements
  <2>3. Len(<<"e">>) = 1 /\ b # a + 1
    BY <1>3 DEF Span
  <2> QED  BY <1>3, <2>1, <2>2, <2>3 DEF Marks, Mark, w
<1>4. CASE b # a + 1 /\ b # a + 2
  <2>1. Len(w) # 1 /\ Len(w) # 2
    BY <1>1, <1>4 DEF Span
  <2> QED  BY <1>4, <2>1 DEF Marks, Mark, w
<1> QED  BY <1>2, <1>3, <1>4

LEMMA MarkLengths ==
  /\ \A e \in Marks : Len(e) \in {1, 2}
  /\ \A e \in Marks : e # <<>>
BY DEF Marks

LEMMA ScaledAt ==
  ASSUME LexInv, NEW a, NEW b, Span(a, b) PROVE IsScaled(Lexeme(a, b)) <=> Scaled(a, b)
<1> DEFINE w == Lexeme(a, b)
<1>1. /\ w \in Seq(STRING) /\ Len(w) = b - a /\ DOMAIN w = 1..(b - a)
  BY LexemeChars
<1>2. \A i \in 1..(b - a + 1), j \in Nat : i <= j + 1 /\ j <= b - a =>
        SubSeq(w, i, j) = Lexeme(a + i - 1, a + j) /\ Span(a + i - 1, a + j)
  BY LexemePart
<1> HIDE DEF w
<1>3. ASSUME IsScaled(w) PROVE Scaled(a, b)
  <2>1. PICK i \in DOMAIN w, e \in Marks :
          /\ i + Len(e) < Len(w)
          /\ IsMantissa(SubSeq(w, 1, i)) /\ SubSeq(w, i + 1, i + Len(e)) = e
          /\ IsDecimal(SubSeq(w, i + Len(e) + 1, Len(w)))
    BY <1>3 DEF IsScaled
  <2> DEFINE m == a + i
             f == a + i + Len(e)
  <2>2. /\ i \in 1..(b - a) /\ Len(e) \in {1, 2} /\ i + Len(e) < b - a
    BY <1>1, <2>1, MarkLengths
  <2>3. m \in a..b /\ f \in a..b
    BY <2>2 DEF Span
  <2>4. SubSeq(w, 1, i) = Lexeme(a, m) /\ Span(a, m)
    <3>1. 1 \in 1..(b - a + 1) /\ i \in Nat /\ 1 <= i + 1 /\ i <= b - a /\ a + 1 - 1 = a
      BY <2>2 DEF Span
    <3> QED  BY <1>2, <3>1
  <2>5. SubSeq(w, i + 1, i + Len(e)) = Lexeme(m, f) /\ Span(m, f)
    <3>1. /\ i + 1 \in 1..(b - a + 1) /\ i + Len(e) \in Nat /\ i + 1 <= (i + Len(e)) + 1
          /\ i + Len(e) <= b - a /\ a + (i + 1) - 1 = m /\ a + (i + Len(e)) = f
      BY SMTT(20), <2>2 DEF Span
    <3> HIDE DEF m, f
    <3> QED  BY <1>2, <3>1
  <2>6. SubSeq(w, i + Len(e) + 1, b - a) = Lexeme(f, b) /\ Span(f, b)
    <3>1. /\ i + Len(e) + 1 \in 1..(b - a + 1) /\ b - a \in Nat
          /\ i + Len(e) + 1 <= (b - a) + 1 /\ b - a <= b - a
          /\ a + (i + Len(e) + 1) - 1 = f /\ a + (b - a) = b
      BY <2>2 DEF Span
    <3> HIDE DEF f
    <3> QED  BY <1>2, <3>1
  <2> HIDE DEF m, f
  <2>7. Mantissa(a, m) /\ Mark(m, f) /\ Decimal(f, b)
    BY <1>1, <2>1, <2>4, <2>5, <2>6, MantissaAt, MarkIs, DecimalAt
  <2> QED  BY <2>3, <2>7 DEF Scaled
<1>4. ASSUME Scaled(a, b) PROVE IsScaled(w)
  <2>1. PICK m, f \in a..b : Mantissa(a, m) /\ Mark(m, f) /\ Decimal(f, b)
    BY <1>4 DEF Scaled
  <2> DEFINE i == m - a
             e == Lexeme(m, f)
             n == f - m
  <2>2. Span(a, m) /\ Span(m, f) /\ Span(f, b) /\ a < m /\ f < b /\ n \in {1, 2} /\ f = m + n
    BY <2>1 DEF Mantissa, Decimal, Pointed, Mark, Span
  <2>3. e \in Marks /\ Len(e) = n
    BY <2>1, <2>2, MarkIs, LexemeChars
  <2>4. i \in 1..(b - a) /\ i + n < b - a
    BY <2>2 DEF Span
  <2>5. SubSeq(w, 1, i) = Lexeme(a, m)
    <3>1. /\ 1 \in 1..(b - a + 1) /\ i \in Nat /\ 1 <= i + 1 /\ i <= b - a /\ a + 1 - 1 = a
          /\ a + i = m
      BY <2>4 DEF Span
    <3> QED  BY <1>2, <3>1
  <2>6. SubSeq(w, i + 1, i + n) = e
    <3>1. /\ i + 1 \in 1..(b - a + 1) /\ i + n \in Nat /\ i + 1 <= (i + n) + 1
          /\ i + n <= b - a /\ a + (i + 1) - 1 = m /\ a + (i + n) = f
      BY <2>2, <2>4 DEF Span
    <3> HIDE DEF i, n
    <3> QED  BY <1>2, <3>1
  <2>7. SubSeq(w, i + n + 1, b - a) = Lexeme(f, b)
    <3>1. /\ i + n + 1 \in 1..(b - a + 1) /\ b - a \in Nat
          /\ i + n + 1 <= (b - a) + 1 /\ b - a <= b - a
          /\ a + (i + n + 1) - 1 = f /\ a + (b - a) = b
      BY <2>2, <2>4 DEF Span
    <3> HIDE DEF i, n
    <3> QED  BY <1>2, <3>1
  <2> HIDE DEF i, e, n
  <2>8. /\ IsMantissa(SubSeq(w, 1, i)) /\ SubSeq(w, i + 1, i + Len(e)) = e
        /\ IsDecimal(SubSeq(w, i + Len(e) + 1, Len(w)))
    BY <1>1, <2>1, <2>2, <2>3, <2>5, <2>6, <2>7, MantissaAt, DecimalAt
  <2> QED  BY <1>1, <2>3, <2>4, <2>8 DEF IsScaled
<1> QED  BY <1>3, <1>4 DEF w

LEMMA DoubleAt ==
  ASSUME LexInv, NEW a, NEW b, Span(a, b) PROVE IsDouble(Lexeme(a, b)) <=> Double(a, b)
BY PointedAt, ScaledAt DEF IsDouble, Double

LEMMA FloatAt ==
  ASSUME LexInv, NEW a, NEW b, Span(a, b) PROVE IsFloat(Lexeme(a, b)) <=> Float(a, b)
<1>1. CASE a < b
  <2>1. Len(Lexeme(a, b)) = b - a /\ Lexeme(a, b)[b - a] = CharAt(a + (b - a) - 1)
    <3>1. b - a \in 1..(b - a)
      BY <1>1 DEF Span
    <3> QED  BY <3>1, LexemeChars
  <2>2. Last(Lexeme(a, b)) = CharAt(b - 1)
    <3>1. a + (b - a) - 1 = b - 1
      BY DEF Span
    <3> QED  BY <2>1, <3>1 DEF Last
  <2>3. Front(Lexeme(a, b)) = Lexeme(a, b - 1) /\ Span(a, b - 1)
    <3>1. /\ 1 \in 1..(b - a + 1) /\ (b - a) - 1 \in Nat /\ 1 <= ((b - a) - 1) + 1
          /\ (b - a) - 1 <= b - a /\ a + 1 - 1 = a /\ a + ((b - a) - 1) = b - 1
      BY <1>1 DEF Span
    <3>2. SubSeq(Lexeme(a, b), 1, (b - a) - 1) = Lexeme(a + 1 - 1, a + ((b - a) - 1))
          /\ Span(a + 1 - 1, a + ((b - a) - 1))
      BY <3>1, LexemePart
    <3> QED  BY <2>1, <3>1, <3>2 DEF Front
  <2> QED  BY <1>1, <2>2, <2>3, DoubleAt, LexemeEmpty DEF IsFloat, Float
<1>2. CASE ~(a < b)
  BY <1>2, LexemeEmpty DEF IsFloat, Float
<1> QED  BY <1>1, <1>2

LEMMA NumberIs ==
  ASSUME LexInv, NEW a, NEW b, Span(a, b) PROVE IsNumber(Lexeme(a, b)) <=> Numeric(a, b)
BY HexAt, DecimalAt, DoubleAt, FloatAt DEF IsNumber, Numeric

LEMMA LegalAt ==
  ASSUME LexInv, NEW a, NEW b, Span(a, b)
  PROVE  Legal(Lexeme(a, b)) <=> WordAt(a, b) \/ Numeric(a, b) \/ SymbolAt(a, b)
BY WordIs, NumberIs, SymbolIs DEF Legal

-----------------------------------------------------------------------------
(* What a spelling contains, and that none goes on past a character that   *)
(* does not continue it.                                                   *)

LEMMA MantissaFacts ==
  ASSUME NEW a \in Nat, NEW b \in Nat, Mantissa(a, b)
  PROVE  /\ a < b /\ In(a, b, Digits \cup {"."})
         /\ CharAt(a) \in Digits \/ (CharAt(a) = "." /\ a + 1 < b /\ CharAt(a + 1) \in Digits)
<1>1. CASE Decimal(a, b)
  BY <1>1 DEF Decimal, In
<1>2. CASE Pointed(a, b)
  <2>1. PICK d \in a..(b - 1) : CharAt(d) = "." /\ In(a, d, Digits) /\ In(d + 1, b, Digits)
    BY <1>2 DEF Pointed, Dotted
  <2>2. a + 1 < b
    BY <1>2 DEF Pointed
  <2>3. ASSUME NEW k \in a..(b - 1) PROVE CharAt(k) \in Digits \cup {"."}
    <3>1. k \in a..(d - 1) \/ k = d \/ k \in (d + 1)..(b - 1)
      OBVIOUS
    <3> QED  BY <2>1, <3>1 DEF In
  <2>4. CASE d = a
    <3>1. a + 1 \in (d + 1)..(b - 1)
      BY <2>2, <2>4
    <3> QED  BY <2>1, <2>2, <2>3, <2>4, <3>1 DEF In
  <2>5. CASE d # a
    <3>1. a \in a..(d - 1)
      BY <2>5
    <3> QED  BY <2>1, <2>2, <2>3, <3>1 DEF In
  <2> QED  BY <2>4, <2>5
<1> QED  BY <1>1, <1>2 DEF Mantissa

\* What every real contains and begins with.
LEMMA DoubleFacts ==
  ASSUME NEW a \in Nat, NEW b \in Nat, Double(a, b)
  PROVE  /\ a + 1 < b /\ In(a, b, Digits \cup {".", "e", "+", "-"})
         /\ CharAt(a) \in Digits \/ (CharAt(a) = "." /\ CharAt(a + 1) \in Digits)
         /\ \E k \in a..(b - 1) : CharAt(k) \in {".", "e"}
         /\ \A k \in a..(b - 1) : CharAt(k) \in {"+", "-"} => k > a /\ CharAt(k - 1) = "e"
<1>0. \A c \in Digits \cup {".", "e"} : c \notin {"+", "-"}
  BY DEF Digits
<1>1. CASE Pointed(a, b)
  <2>1. In(a, b, Digits \cup {"."}) /\ a + 1 < b
        /\ (CharAt(a) \in Digits \/ (CharAt(a) = "." /\ CharAt(a + 1) \in Digits))
    BY <1>1, MantissaFacts DEF Mantissa, Pointed
  <2> QED  BY <1>0, <1>1, <2>1 DEF Pointed, Dotted, In
<1>2. CASE Scaled(a, b)
  <2>1. PICK m, f \in a..b : Mantissa(a, m) /\ Mark(m, f) /\ Decimal(f, b)
    BY <1>2 DEF Scaled
  <2>0. m \in Nat /\ f \in Nat
    OBVIOUS
  <2>2. /\ m \in Nat /\ f \in Nat /\ a < m /\ m < f /\ f < b
        /\ In(a, m, Digits \cup {"."})
        /\ CharAt(a) \in Digits \/ (CharAt(a) = "." /\ CharAt(a + 1) \in Digits)
    <3>1. /\ a < m /\ In(a, m, Digits \cup {"."})
          /\ CharAt(a) \in Digits \/ (CharAt(a) = "." /\ CharAt(a + 1) \in Digits)
      BY <2>0, <2>1, MantissaFacts
    <3>2. m < f
      BY <2>0, <2>1 DEF Mark
    <3>3. f < b
      BY <2>1 DEF Decimal
    <3> QED  BY <2>0, <3>1, <3>2, <3>3
  <2>3. ASSUME NEW k \in a..(b - 1)
        PROVE  /\ CharAt(k) \in Digits \cup {".", "e", "+", "-"}
               /\ CharAt(k) \in {"+", "-"} => k > a /\ CharAt(k - 1) = "e"
    <3>1. CASE k < m
      BY <1>0, <2>2, <3>1 DEF In
    <3>2. CASE k = m
      BY <2>1, <3>2 DEF Mark
    <3>3. CASE m < k /\ k < f
      <4>1. k = m + 1 /\ k - 1 = m /\ f # m + 1
        BY <2>1, <2>2, <3>3 DEF Mark
      <4> QED  BY <2>1, <2>2, <4>1 DEF Mark
    <3>4. CASE f <= k
      BY <1>0, <2>1, <2>2, <3>4 DEF Decimal, In
    <3> QED  BY <2>2, <3>1, <3>2, <3>3, <3>4
  <2>4. m \in a..(b - 1) /\ CharAt(m) = "e"
    BY <2>1, <2>2 DEF Mark
  <2> QED  BY <2>2, <2>3, <2>4 DEF In
<1> QED  BY <1>1, <1>2 DEF Double

\* How a number begins.
LEMMA NumericStart ==
  ASSUME NEW a \in Nat, NEW b \in Nat, Numeric(a, b)
  PROVE  /\ a < b
         /\ CharAt(a) \in Digits \/ (CharAt(a) = "." /\ CharAt(a + 1) \in Digits)
<1>1. CASE HexNumber(a, b)
  BY <1>1 DEF HexNumber, Digits
<1>2. CASE Decimal(a, b)
  BY <1>2 DEF Decimal, In
<1>3. CASE Double(a, b)
  BY <1>3, DoubleFacts
<1>4. CASE Float(a, b)
  <2>1. a < b /\ b - 1 \in Nat /\ Double(a, b - 1)
    BY <1>4 DEF Float
  <2> QED  BY <2>1, DoubleFacts
<1> QED  BY <1>1, <1>2, <1>3, <1>4 DEF Numeric

LEMMA CharsDiffer ==
  /\ \A c \in Digits : c \notin {"x", "e", "f", ".", "+", "-"} \cup Letters
  /\ \A c \in Letters : c \notin {".", "+", "-"}
  /\ Digits \subseteq Hex /\ "x" \notin Hex /\ "." \notin Hex
BY DEF Digits, Letters, Hex

\* Where each spelling ends, no longer one begins at the same place.
LEMMA HexLongest ==
  ASSUME NEW a \in Nat, NEW b \in Nat, NEW e \in Nat, b < e,
         HexNumber(a, b), CharAt(b) \notin Hex
  PROVE  ~Numeric(a, e)
<1>1. a + 2 < b /\ CharAt(a + 1) = "x"
  BY DEF HexNumber
<1>2. ~HexNumber(a, e)
  BY <1>1 DEF HexNumber, In
<1>3. ~Decimal(a, e)
  BY <1>1, CharsDiffer DEF Decimal, In
<1>4. ASSUME NEW k \in Nat, a + 1 < k PROVE ~Double(a, k)
  BY <1>1, <1>4, DoubleFacts, CharsDiffer DEF In
<1>5. ~Float(a, e)
  BY <1>1, <1>4 DEF Float
<1> QED  BY <1>1, <1>2, <1>3, <1>4, <1>5 DEF Numeric

\* Digits end at a character that is no digit, and a real has none without a dot
\* or an exponent.
LEMMA DecimalLongest ==
  ASSUME NEW a \in Nat, NEW b \in Nat, NEW e \in Nat, b < e,
         Decimal(a, b), CharAt(b) \notin Digits \cup {".", "e", "f"},
         ~(CharAt(a) = "0" /\ CharAt(a + 1) = "x")
  PROVE  ~Numeric(a, e)
<1>1. a < b /\ In(a, b, Digits)
  BY DEF Decimal
<1>2. ~HexNumber(a, e)
  BY DEF HexNumber
<1>3. ~Decimal(a, e)
  BY <1>1 DEF Decimal, In
<1>4. ASSUME NEW k \in Nat, b < k PROVE ~Double(a, k)
  <2>1. ASSUME Double(a, k) PROVE CharAt(b) \in {"+", "-"} /\ CharAt(b - 1) = "e"
    BY <1>1, <1>4, <2>1, DoubleFacts DEF In
  <2>2. CharAt(b - 1) \in Digits
    BY <1>1 DEF In
  <2> QED  BY <2>1, <2>2, CharsDiffer
<1>5. ~Double(a, b)
  <2>1. ASSUME NEW k \in a..(b - 1) PROVE CharAt(k) \notin {".", "e"}
    BY <1>1, CharsDiffer DEF In
  <2> QED  BY <2>1, DoubleFacts
<1>6. ~Float(a, e)
  <2>1. e - 1 \in Nat /\ (e - 1 = b \/ b < e - 1)
    BY <1>1
  <2> QED  BY <1>4, <1>5, <2>1 DEF Float
<1> QED  BY <1>2, <1>3, <1>4, <1>6 DEF Numeric

LEMMA DottedLongest ==
  ASSUME NEW a \in Nat, NEW b \in Nat, NEW e \in Nat, b < e,
         Dotted(a, b), CharAt(b) \notin Digits
  PROVE  ~Mantissa(a, e)
<1>1. PICK d \in a..(b - 1) : CharAt(d) = "."
  BY DEF Dotted
<1>2. ~Decimal(a, e)
  BY <1>1, CharsDiffer DEF Decimal, In
<1>3. ASSUME Dotted(a, e) PROVE FALSE
  <2>1. PICK g \in a..(e - 1) : CharAt(g) = "." /\ In(a, g, Digits) /\ In(g + 1, e, Digits)
    BY <1>3 DEF Dotted
  <2>2. d = g
    <3>1. ~(d < g)
      BY <1>1, <2>1, CharsDiffer DEF In
    <3>2. ~(g < d)
      <4>1. g < d => d \in (g + 1)..(e - 1)
        OBVIOUS
      <4> QED  BY <1>1, <2>1, <4>1, CharsDiffer DEF In
    <3> QED  BY <3>1, <3>2
  <2>3. b \in (g + 1)..(e - 1)
    BY <2>2
  <2> QED  BY <2>1, <2>3 DEF In
<1> QED  BY <1>2, <1>3 DEF Mantissa, Pointed

LEMMA PointedLongest ==
  ASSUME NEW a \in Nat, NEW b \in Nat, NEW e \in Nat, b < e,
         Pointed(a, b), CharAt(b) \notin Digits \cup {"e", "f"}
  PROVE  ~Numeric(a, e)
<1>1. /\ a + 1 < b /\ Dotted(a, b) /\ In(a, b, Digits \cup {"."})
  BY MantissaFacts DEF Pointed, Mantissa
<1>2. ~HexNumber(a, e)
  <2>1. CharAt(a + 1) # "x"
    BY <1>1, CharsDiffer DEF In
  <2> QED  BY <2>1 DEF HexNumber
<1>3. \A k \in Nat : b < k => ~Mantissa(a, k)
  BY <1>1, DottedLongest
<1>4. ASSUME NEW k \in Nat, b < k PROVE ~Scaled(a, k)
  <2> SUFFICES ASSUME NEW m \in a..k, NEW f \in a..k,
                      Mantissa(a, m), Mark(m, f), Decimal(f, k)
               PROVE  FALSE
    BY DEF Scaled
  <2>1. a < m /\ m \in Nat /\ CharAt(m) = "e" /\ m <= b
    BY <1>3, MantissaFacts DEF Mark
  <2>2. m # b
    BY <2>1
  <2>3. m \in a..(b - 1)
    BY <2>1, <2>2
  <2>4. CharAt(m) \in Digits \cup {"."}
    BY <1>1, <2>3 DEF In
  <2> QED  BY <2>1, <2>4, CharsDiffer
<1>5. \A k \in Nat : b < k => ~Double(a, k)
  BY <1>3, <1>4 DEF Double, Mantissa
<1>6. ~Float(a, e)
  <2>1. e - 1 \in Nat /\ (e - 1 = b \/ b < e - 1)
    BY <1>1
  <2> QED  BY <1>5, <2>1 DEF Float
<1> QED  BY <1>2, <1>3, <1>5, <1>6 DEF Numeric, Mantissa

LEMMA ScaledLongest ==
  ASSUME NEW a \in Nat, NEW b \in Nat, NEW e \in Nat, b < e,
         Scaled(a, b), CharAt(b) \notin Digits \cup {"f"}
  PROVE  ~Numeric(a, e)
<1>1. PICK m \in a..b, f \in a..b : Mantissa(a, m) /\ Mark(m, f) /\ Decimal(f, b)
  BY DEF Scaled
<1>2. m \in Nat /\ f \in Nat
  OBVIOUS
<1>3. /\ a < m /\ m < f /\ f < b /\ In(a, m, Digits \cup {"."}) /\ In(f, b, Digits)
      /\ CharAt(m) = "e" /\ CharAt(f) \in Digits
  BY <1>1, <1>2, MantissaFacts DEF Mark, Decimal, In
<1>4. ~HexNumber(a, e)
  <2>1. m = a + 1 \/ a + 1 \in a..(m - 1)
    BY <1>3
  <2>2. CharAt(a + 1) # "x"
    BY <1>3, <2>1, CharsDiffer DEF In
  <2> QED  BY <2>2 DEF HexNumber
<1>5. ASSUME NEW k \in Nat, m < k PROVE ~Mantissa(a, k)
  BY <1>3, <1>5, MantissaFacts, CharsDiffer DEF In
<1>6. ASSUME NEW k \in Nat, b < k PROVE ~Scaled(a, k)
  <2> SUFFICES ASSUME NEW n \in a..k, NEW g \in a..k,
                      Mantissa(a, n), Mark(n, g), Decimal(g, k)
               PROVE  FALSE
    BY DEF Scaled
  <2>1. a < n /\ n \in Nat /\ g \in Nat /\ CharAt(n) = "e" /\ n <= m
    BY <1>5, MantissaFacts DEF Mark
  <2>2. ~(n < m)
    <3>1. n < m => n \in a..(m - 1)
      BY <2>1
    <3> QED  BY <1>3, <2>1, <3>1, CharsDiffer DEF In
  <2>3. n = m
    BY <2>1, <2>2
  <2>4. CharAt(g) \in Digits
    BY DEF Decimal, In
  <2>5. g = f
    BY <1>1, <1>3, <2>3, <2>4, CharsDiffer DEF Mark
  <2>6. b \in g..(k - 1)
    BY <1>3, <1>6, <2>5
  <2> QED  BY <2>6 DEF Decimal, In
<1>7. \A k \in Nat : b < k => ~Double(a, k)
  BY <1>3, <1>5, <1>6 DEF Double, Mantissa
<1>8. ~Float(a, e)
  <2>1. e - 1 \in Nat /\ (e - 1 = b \/ b < e - 1)
    BY <1>3
  <2> QED  BY <1>7, <2>1 DEF Float
<1> QED  BY <1>3, <1>4, <1>5, <1>7, <1>8 DEF Numeric, Mantissa

LEMMA FloatLongest ==
  ASSUME NEW a \in Nat, NEW b \in Nat, NEW e \in Nat, b < e, Float(a, b)
  PROVE  ~Numeric(a, e)
<1>1. b - 1 \in Nat /\ CharAt(b - 1) = "f" /\ Double(a, b - 1)
  BY DEF Float
<1>2. /\ a + 1 < b - 1 /\ In(a, b - 1, Digits \cup {".", "e", "+", "-"})
  BY <1>1, DoubleFacts
<1>3. ~HexNumber(a, e)
  <2>1. CharAt(a + 1) # "x"
    BY <1>2, CharsDiffer DEF In
  <2> QED  BY <2>1 DEF HexNumber
<1>4. ~Decimal(a, e)
  BY <1>1, <1>2, CharsDiffer DEF Decimal, In
<1>5. ASSUME NEW k \in Nat, b <= k PROVE ~Double(a, k)
  BY <1>1, <1>2, <1>5, DoubleFacts, CharsDiffer DEF In
<1>6. ~Float(a, e)
  <2>1. e - 1 \in Nat /\ b <= e - 1
    BY <1>2
  <2> QED  BY <1>5, <2>1 DEF Float
<1> QED  BY <1>3, <1>4, <1>5, <1>6 DEF Numeric

-----------------------------------------------------------------------------
(* What is known of a token while it is read: at place l, with the flags n,*)
(* from its first character at a to the cursor at c.                       *)

Fresh(n)    == ~n.dot /\ ~n.exp /\ ~n.f32
Prefix0x(a) == CharAt(a) = "0" /\ CharAt(a + 1) = "x"
First(a)    == CharAt(a) \in Digits \/ (CharAt(a) = "." /\ CharAt(a + 1) \in Digits)

\* A number but for its suffix, at a character that does not continue it.
Ended(n, a, c) ==
  \/ n.exp /\ Scaled(a, c) /\ CharAt(c) \notin Digits
  \/ ~n.exp /\ n.dot /\ Pointed(a, c) /\ CharAt(c) \notin Digits \cup {"e"}
  \/ /\ ~n.exp /\ ~n.dot
     /\ Decimal(a, c) /\ CharAt(c) \notin Digits \cup {"e", "."} /\ ~Prefix0x(a)

WordSoFar(a, c)        == CharAt(a) \in Letters /\ In(a, c, Letters \cup Digits)
HexSoFar(n, a, c)      == Fresh(n) /\ Prefix0x(a) /\ a + 2 <= c /\ In(a + 2, c, Hex)
IntSoFar(n, a, c)      == Fresh(n) /\ First(a) /\ ~Prefix0x(a) /\ In(a, c, Digits)
FractionSoFar(n, a, c) == n.dot /\ ~n.exp /\ ~n.f32 /\ First(a) /\ Dotted(a, c)
SignNext(n, a, c)      == /\ n.exp /\ ~n.f32 /\ a < c
                          /\ Mantissa(a, c - 1) /\ CharAt(c - 1) = "e"
DigitNext(n, a, c)     == n.exp /\ ~n.f32 /\ \E m \in a..c : Mantissa(a, m) /\ Mark(m, c)
ExponentSoFar(n, a, c) == /\ n.exp /\ ~n.f32
                          /\ \E m, f \in a..c : /\ Mantissa(a, m) /\ Mark(m, f)
                                                /\ In(f, c, Digits) /\ CharAt(f) \in Digits
Complete(n, a, c)      == \/ n.f32 /\ (n.dot \/ n.exp) /\ Float(a, c)
                          \/ Fresh(n) /\ HexNumber(a, c) /\ CharAt(c) \notin Hex
                          \/ ~n.f32 /\ Ended(n, a, c) /\ CharAt(c) # "f"

SoFar(l, n, a, c) ==
  /\ l = "word" => WordSoFar(a, c)
  /\ l = "hex_first" => HexSoFar(n, a, c) /\ c = a + 2
  /\ l = "hex" => HexSoFar(n, a, c) /\ CharAt(a + 2) \in Hex
  /\ l = "int" => IntSoFar(n, a, c)
  /\ l = "frac" => FractionSoFar(n, a, c)
  /\ l = "sign" => SignNext(n, a, c)
  /\ l = "exp_first" => DigitNext(n, a, c)
  /\ l = "exp" => ExponentSoFar(n, a, c)
  /\ l = "suffix" => ~n.f32 /\ Ended(n, a, c)
  /\ l = "store" => Complete(n, a, c)

GrammarInv ==
  /\ SoFar(at, num, start, cursor)
  /\ tok.kind \notin {"NONE", "EOF", "ERROR"} => LongestMatch(tok)
  /\ tok.kind = "ERROR" => NoLegalToken(tok)

\* All of it depends on the text, which does not change.
LEMMA GrammarKept ==
  ASSUME text' = text
  PROVE  /\ \A l, n, a, c : SoFar(l, n, a, c)' <=> SoFar(l, n, a, c)
         /\ \A t : LongestMatch(t)' <=> LongestMatch(t)
         /\ \A t : NoLegalToken(t)' <=> NoLegalToken(t)
<1>1. /\ \A a, b, S : In(a, b, S)' <=> In(a, b, S)
      /\ \A a, b : Dotted(a, b)' <=> Dotted(a, b)
      /\ \A a, b : Mark(a, b)' <=> Mark(a, b)
      /\ \A a, b : HexNumber(a, b)' <=> HexNumber(a, b)
      /\ \A a : First(a)' <=> First(a)
      /\ \A a : Prefix0x(a)' <=> Prefix0x(a)
      /\ \A a : CharAt(a)' = CharAt(a)
  BY DEF CharAt, In, Dotted, Mark, HexNumber, First, Prefix0x
<1>2. \A a, b : Mantissa(a, b)' <=> Mantissa(a, b)
  BY <1>1 DEF Mantissa, Decimal, Pointed
<1>3. \A a, b : Scaled(a, b)' <=> Scaled(a, b)
  BY <1>1, <1>2 DEF Scaled, Decimal
<1>4. \A a, b : Float(a, b)' <=> Float(a, b)
  BY <1>1, <1>3 DEF Float, Double, Pointed
<1>5. \A n, a, c : Ended(n, a, c)' <=> Ended(n, a, c)
  BY <1>1, <1>3 DEF Ended, Decimal, Pointed
<1>6. \A n, a, c : Complete(n, a, c)' <=> Complete(n, a, c)
  BY <1>1, <1>4, <1>5 DEF Complete, Fresh
<1>7. \A n, a, c : /\ WordSoFar(a, c)' <=> WordSoFar(a, c)
                   /\ HexSoFar(n, a, c)' <=> HexSoFar(n, a, c)
                   /\ IntSoFar(n, a, c)' <=> IntSoFar(n, a, c)
                   /\ FractionSoFar(n, a, c)' <=> FractionSoFar(n, a, c)
  BY <1>1 DEF WordSoFar, HexSoFar, IntSoFar, FractionSoFar, Fresh
<1>8. \A n, a, c : /\ SignNext(n, a, c)' <=> SignNext(n, a, c)
                   /\ DigitNext(n, a, c)' <=> DigitNext(n, a, c)
                   /\ ExponentSoFar(n, a, c)' <=> ExponentSoFar(n, a, c)
  BY <1>1, <1>2 DEF SignNext, DigitNext, ExponentSoFar
<1>9. \A l, n, a, c : SoFar(l, n, a, c)' <=> SoFar(l, n, a, c)
  BY <1>1, <1>5, <1>6, <1>7, <1>8 DEF SoFar
<1>10. /\ \A t : LongestMatch(t)' <=> LongestMatch(t)
       /\ \A t : NoLegalToken(t)' <=> NoLegalToken(t)
  BY <1>1 DEF LongestMatch, NoLegalToken, Lexeme
<1> QED  BY <1>9, <1>10

\* A step inside of a token keeps the tokens before it.
LEMMA GoesOn ==
  ASSUME GrammarInv, text' = text, tok' = tok, SoFar(at', num', start', cursor')
  PROVE  GrammarInv'
BY GrammarKept DEF GrammarInv

-----------------------------------------------------------------------------
(* The steps inside of a token.                                            *)

LEMMA InMore ==
  ASSUME NEW S, NEW a \in Nat, NEW c \in Nat, In(a, c, S), CharAt(c) \in S
  PROVE  In(a, c + 1, S)
<1>1. ASSUME NEW k \in a..((c + 1) - 1) PROVE CharAt(k) \in S
  <2>1. k = c \/ k \in a..(c - 1)
    OBVIOUS
  <2> QED  BY <2>1 DEF In
<1> QED  BY <1>1 DEF In

LEMMA InNone == ASSUME NEW S, NEW a \in Nat PROVE In(a, a, S)
BY DEF In

\* A fraction that stops has more than its dot.
LEMMA FractionStops ==
  ASSUME NEW n, NEW a \in Nat, NEW c \in Nat, a <= c, FractionSoFar(n, a, c),
         CharAt(c) \notin Digits
  PROVE  Pointed(a, c)
<1>1. PICK d \in a..(c - 1) : CharAt(d) = "." /\ In(a, d, Digits) /\ In(d + 1, c, Digits)
  BY DEF FractionSoFar, Dotted
<1>2. c # a + 1
  <2>1. ASSUME c = a + 1 PROVE FALSE
    <3>1. d = a
      BY <2>1
    <3> QED  BY <1>1, <2>1, <3>1, CharsDiffer DEF FractionSoFar, First
  <2> QED  BY <2>1
<1>3. a + 1 < c
  BY <1>1, <1>2
<1> QED  BY <1>3 DEF Pointed, FractionSoFar

\* So do digits.
LEMMA IntegerStops ==
  ASSUME NEW n, NEW a \in Nat, NEW c \in Nat, a <= c, IntSoFar(n, a, c),
         CharAt(c) \notin Digits \cup {"."}
  PROVE  Decimal(a, c)
<1>1. a # c
  BY DEF IntSoFar, First
<1> QED  BY <1>1 DEF IntSoFar, Decimal

LEMMA NumberGrammar ==
  ASSUME LexInv, GrammarInv, Number PROVE SoFar(at', num', start', cursor')
<1>0. /\ cursor \in Nat /\ start = cursor /\ start' = start
      /\ Peek = CharAt(cursor) /\ PeekNext = CharAt(cursor + 1)
  BY Bounds DEF LexInv, Place, Number, At, Peek, PeekNext
<1>1. num' = [dot |-> FALSE, exp |-> FALSE, f32 |-> FALSE] /\ Fresh(num')
  BY DEF Number, Fresh
<1>2. First(cursor)
  BY <1>0 DEF Number, First
<1>3. CASE Ahead("0", "x")
  <2>1. at' = "hex_first" /\ cursor' = cursor + 2
    BY <1>3 DEF Number, Move
  <2>2. HexSoFar(num', cursor, cursor + 2)
    BY <1>0, <1>1, <1>3, InNone DEF Ahead, HexSoFar, Prefix0x
  <2> QED  BY <1>0, <2>1, <2>2 DEF SoFar
<1>4. CASE ~Ahead("0", "x")
  <2>1. at' = "int" /\ cursor' = cursor
    BY <1>0, <1>4 DEF Number, Move
  <2>2. IntSoFar(num', cursor, cursor)
    BY <1>0, <1>1, <1>2, <1>4, InNone DEF Ahead, IntSoFar, Prefix0x
  <2> QED  BY <1>0, <2>1, <2>2 DEF SoFar
<1> QED  BY <1>3, <1>4

LEMMA DigitGrammar ==
  ASSUME LexInv, GrammarInv, Digit PROVE SoFar(at', num', start', cursor')
<1> DEFINE a == start
           c == cursor
<1>0. a \in Nat /\ c \in Nat /\ a <= c /\ Peek = CharAt(c) /\ SoFar(at, num, a, c)
  BY Bounds DEF Peek, GrammarInv
<1>1. PICK l \in {"int", "frac", "exp", "hex"} : at = l /\ Peek \in DigitsAt(l) /\ Eat(1, l)
  BY DEF Digit, At
<1>2. at' = l /\ cursor' = c + 1 /\ start' = a /\ num' = num
  BY <1>1 DEF Eat, Move
<1> HIDE DEF a, c
<1>3. CASE l = "int"
  <2>1. IntSoFar(num, a, c) /\ CharAt(c) \in Digits
    BY <1>0, <1>1, <1>3 DEF SoFar, DigitsAt
  <2>2. IntSoFar(num, a, c + 1)
    BY <1>0, <2>1, InMore DEF IntSoFar
  <2> QED  BY <1>2, <1>3, <2>2 DEF SoFar
<1>4. CASE l = "frac"
  <2>1. FractionSoFar(num, a, c) /\ CharAt(c) \in Digits
    BY <1>0, <1>1, <1>4 DEF SoFar, DigitsAt
  <2>2. PICK d \in a..(c - 1) : CharAt(d) = "." /\ In(a, d, Digits) /\ In(d + 1, c, Digits)
    BY <2>1 DEF FractionSoFar, Dotted
  <2>3. In(d + 1, c + 1, Digits) /\ d \in a..((c + 1) - 1)
    <3>1. d + 1 \in Nat /\ d \in a..((c + 1) - 1)
      BY <1>0
    <3> QED  BY <1>0, <2>1, <2>2, <3>1, InMore
  <2>4. FractionSoFar(num, a, c + 1)
    BY <2>1, <2>2, <2>3 DEF FractionSoFar, Dotted
  <2> QED  BY <1>2, <1>4, <2>4 DEF SoFar
<1>5. CASE l = "exp"
  <2>1. ExponentSoFar(num, a, c) /\ CharAt(c) \in Digits
    BY <1>0, <1>1, <1>5 DEF SoFar, DigitsAt
  <2>2. PICK m, f \in a..c : /\ Mantissa(a, m) /\ Mark(m, f)
                             /\ In(f, c, Digits) /\ CharAt(f) \in Digits
    BY <2>1 DEF ExponentSoFar
  <2>3. In(f, c + 1, Digits) /\ m \in a..(c + 1) /\ f \in a..(c + 1)
    <3>1. f \in Nat /\ m \in a..(c + 1) /\ f \in a..(c + 1)
      BY <1>0
    <3> QED  BY <1>0, <2>1, <2>2, <3>1, InMore
  <2>4. ExponentSoFar(num, a, c + 1)
    BY <2>1, <2>2, <2>3 DEF ExponentSoFar
  <2> QED  BY <1>2, <1>5, <2>4 DEF SoFar
<1>6. CASE l = "hex"
  <2>1. HexSoFar(num, a, c) /\ CharAt(a + 2) \in Hex /\ CharAt(c) \in Hex
    BY <1>0, <1>1, <1>6 DEF SoFar, DigitsAt
  <2>2. HexSoFar(num, a, c + 1)
    BY <1>0, <2>1, InMore DEF HexSoFar
  <2> QED  BY <1>2, <1>6, <2>1, <2>2 DEF SoFar
<1> QED  BY <1>1, <1>3, <1>4, <1>5, <1>6

LEMMA MarkGrammar ==
  ASSUME LexInv, GrammarInv, Dot \/ Exponent \/ Sign PROVE SoFar(at', num', start', cursor')
<1> DEFINE a == start
           c == cursor
<1>0. /\ a \in Nat /\ c \in Nat /\ a <= c /\ Peek = CharAt(c) /\ SoFar(at, num, a, c)
      /\ num \in Flags
  BY Bounds DEF Peek, GrammarInv
<1>1. CASE Dot
  <2>1. /\ at = "int" /\ CharAt(c) = "." /\ at' = "frac" /\ cursor' = c + 1 /\ start' = a
        /\ num' = [num EXCEPT !.dot = TRUE]
    BY <1>0, <1>1 DEF Dot, At, Move
  <2> HIDE DEF a, c
  <2>2. IntSoFar(num, a, c)
    BY <1>0, <2>1 DEF SoFar
  <2>3. Dotted(a, c + 1)
    <3>1. c \in a..((c + 1) - 1) /\ In(c + 1, c + 1, Digits)
      BY <1>0, InNone
    <3> QED  BY <2>1, <2>2, <3>1 DEF IntSoFar, Dotted
  <2>4. num'.dot /\ ~num'.exp /\ ~num'.f32
    BY <1>0, <2>1, <2>2 DEF IntSoFar, Fresh, Flags
  <2>5. FractionSoFar(num', a, c + 1)
    BY <2>2, <2>3, <2>4 DEF FractionSoFar, IntSoFar
  <2> QED  BY <2>1, <2>5 DEF SoFar
<1>2. CASE Exponent
  <2>1. /\ at \in {"int", "frac"} /\ CharAt(c) = "e" /\ at' = "sign" /\ cursor' = c + 1
        /\ start' = a /\ num' = [num EXCEPT !.exp = TRUE]
    BY <1>0, <1>2 DEF Exponent, At, Move
  <2> HIDE DEF a, c
  <2>2. Mantissa(a, c) /\ ~num.f32
    <3>1. CharAt(c) \notin Digits \cup {"."}
      BY <2>1, CharsDiffer
    <3>2. CASE at = "int"
      <4>1. IntSoFar(num, a, c)
        BY <1>0, <3>2 DEF SoFar
      <4> QED  BY <1>0, <3>1, <4>1, IntegerStops DEF IntSoFar, Fresh, Mantissa
    <3>3. CASE at = "frac"
      <4>1. FractionSoFar(num, a, c)
        BY <1>0, <3>3 DEF SoFar
      <4> QED  BY <1>0, <3>1, <4>1, FractionStops DEF FractionSoFar, Mantissa
    <3> QED  BY <2>1, <3>2, <3>3
  <2>3. num'.exp /\ ~num'.f32
    BY <1>0, <2>1, <2>2 DEF Flags
  <2>4. a < c + 1 /\ (c + 1) - 1 = c
    BY <1>0
  <2>5. SignNext(num', a, c + 1)
    BY <2>1, <2>2, <2>3, <2>4 DEF SignNext
  <2> QED  BY <2>1, <2>5 DEF SoFar
<1>3. CASE Sign
  <2>1. /\ at = "sign" /\ at' = "exp_first" /\ start' = a /\ num' = num
        /\ cursor' = c + (IF CharAt(c) \in {"+", "-"} THEN 1 ELSE 0)
    BY <1>0, <1>3 DEF Sign, At, Eat, Move
  <2> HIDE DEF a, c
  <2>2. SignNext(num, a, c)
    BY <1>0, <2>1 DEF SoFar
  <2>3. Mark(c - 1, cursor')
    <3>1. (c - 1) + 1 = c /\ c + 0 = (c - 1) + 1 /\ c + 1 = (c - 1) + 2
      BY <1>0
    <3> QED  BY <2>1, <2>2, <3>1 DEF Mark, SignNext
  <2>4. c - 1 \in a..cursor'
    BY <1>0, <2>1, <2>2 DEF SignNext
  <2>5. DigitNext(num, a, cursor')
    BY <2>2, <2>3, <2>4 DEF DigitNext, SignNext
  <2> QED  BY <2>1, <2>5 DEF SoFar
<1> QED  BY <1>1, <1>2, <1>3

\* Places that lead on without a character.
LEMMA PauseGrammar ==
  ASSUME LexInv, GrammarInv,
         HexFirst \/ NoExponent \/ ExpFirst \/ ExpEnd \/ HexEnd \/ NoSuffix
  PROVE  SoFar(at', num', start', cursor')
<1> DEFINE a == start
           c == cursor
<1>0. /\ a \in Nat /\ c \in Nat /\ a <= c /\ Peek = CharAt(c) /\ SoFar(at, num, a, c)
      /\ cursor + 0 = c
  BY Bounds DEF Peek, GrammarInv
<1>1. cursor' = c /\ start' = a /\ num' = num
  BY <1>0 DEF HexFirst, NoExponent, ExpFirst, ExpEnd, HexEnd, NoSuffix, Eat, Move
<1> USE DEF At, Eat, Move
<1>2. CASE HexFirst
  <2>1. at = "hex_first" /\ at' = "hex" /\ CharAt(c) \in Hex
    BY <1>0, <1>2 DEF HexFirst
  <2> HIDE DEF a, c
  <2> QED  BY <1>0, <1>1, <2>1 DEF SoFar
<1>3. CASE NoExponent
  <2>1. /\ at \in {"frac", "int"} /\ at' = "suffix" /\ CharAt(c) \notin Digits \cup {"e"}
        /\ at = "int" => CharAt(c) # "."
    BY <1>0, <1>3 DEF NoExponent
  <2> HIDE DEF a, c
  <2>2. CASE at = "int"
    <3>1. IntSoFar(num, a, c) /\ CharAt(c) \notin Digits \cup {"."}
      BY <1>0, <2>1, <2>2 DEF SoFar
    <3>2. Decimal(a, c)
      BY <1>0, <3>1, IntegerStops
    <3>3. ~num.f32 /\ Ended(num, a, c)
      BY <2>1, <3>1, <3>2 DEF IntSoFar, Fresh, Ended
    <3> QED  BY <1>1, <2>1, <3>3 DEF SoFar
  <2>3. CASE at = "frac"
    <3>1. FractionSoFar(num, a, c)
      BY <1>0, <2>3 DEF SoFar
    <3>2. Pointed(a, c)
      BY <1>0, <2>1, <3>1, FractionStops
    <3>3. ~num.f32 /\ Ended(num, a, c)
      BY <2>1, <3>1, <3>2 DEF FractionSoFar, Ended
    <3> QED  BY <1>1, <2>1, <3>3 DEF SoFar
  <2> QED  BY <2>1, <2>2, <2>3
<1>4. CASE ExpFirst
  <2>1. at = "exp_first" /\ at' = "exp" /\ CharAt(c) \in Digits
    BY <1>0, <1>4 DEF ExpFirst
  <2> HIDE DEF a, c
  <2>2. DigitNext(num, a, c) /\ In(c, c, Digits) /\ c \in a..c
    BY <1>0, <2>1, InNone DEF SoFar
  <2>3. ExponentSoFar(num, a, c)
    BY <2>1, <2>2 DEF DigitNext, ExponentSoFar
  <2> QED  BY <1>1, <2>1, <2>3 DEF SoFar
<1>5. CASE ExpEnd
  <2>1. at = "exp" /\ at' = "suffix" /\ CharAt(c) \notin Digits
    BY <1>0, <1>5 DEF ExpEnd
  <2> HIDE DEF a, c
  <2>2. ExponentSoFar(num, a, c)
    BY <1>0, <2>1 DEF SoFar
  <2>3. PICK m, f \in a..c : /\ Mantissa(a, m) /\ Mark(m, f)
                             /\ In(f, c, Digits) /\ CharAt(f) \in Digits
    BY <2>2 DEF ExponentSoFar
  <2>4. f < c
    BY <1>0, <2>1, <2>3
  <2>5. Scaled(a, c)
    BY <2>3, <2>4 DEF Scaled, Decimal
  <2>6. ~num.f32 /\ Ended(num, a, c)
    BY <2>1, <2>2, <2>5 DEF ExponentSoFar, Ended
  <2> QED  BY <1>1, <2>1, <2>6 DEF SoFar
<1>6. CASE HexEnd
  <2>1. at = "hex" /\ at' = "store" /\ CharAt(c) \notin Hex
    BY <1>0, <1>6 DEF HexEnd, DigitsAt
  <2> HIDE DEF a, c
  <2>2. HexSoFar(num, a, c) /\ CharAt(a + 2) \in Hex
    BY <1>0, <2>1 DEF SoFar
  <2>3. a + 2 < c
    BY <1>0, <2>1, <2>2 DEF HexSoFar
  <2>4. HexNumber(a, c)
    BY <2>2, <2>3 DEF HexSoFar, HexNumber, Prefix0x
  <2>5. Complete(num, a, c)
    BY <2>1, <2>2, <2>4 DEF HexSoFar, Complete
  <2> QED  BY <1>1, <2>1, <2>5 DEF SoFar
<1>7. CASE NoSuffix
  <2>1. at = "suffix" /\ at' = "store" /\ CharAt(c) # "f"
    BY <1>0, <1>7 DEF NoSuffix
  <2> HIDE DEF a, c
  <2>2. Complete(num, a, c)
    BY <1>0, <2>1 DEF SoFar, Complete
  <2> QED  BY <1>1, <2>1, <2>2 DEF SoFar
<1> QED  BY <1>2, <1>3, <1>4, <1>5, <1>6, <1>7

LEMMA SuffixGrammar ==
  ASSUME LexInv, GrammarInv, Suffix PROVE SoFar(at', num', start', cursor')
<1> DEFINE a == start
           c == cursor
<1>0. /\ a \in Nat /\ c \in Nat /\ a <= c /\ Peek = CharAt(c) /\ SoFar(at, num, a, c)
      /\ num \in Flags
  BY Bounds DEF Peek, GrammarInv
<1>1. /\ at = "suffix" /\ CharAt(c) = "f" /\ (num.dot \/ num.exp) /\ at' = "store"
      /\ cursor' = c + 1 /\ start' = a /\ num' = [num EXCEPT !.f32 = TRUE]
  BY <1>0 DEF Suffix, At, Move
<1> HIDE DEF a, c
<1>2. Ended(num, a, c)
  BY <1>0, <1>1 DEF SoFar
<1>3. Double(a, c)
  BY <1>1, <1>2 DEF Ended, Double
<1>4. a < c + 1 /\ (c + 1) - 1 = c
  BY <1>0
<1>5. Float(a, c + 1)
  BY <1>1, <1>3, <1>4 DEF Float
<1>6. num'.f32 /\ (num'.dot \/ num'.exp)
  BY <1>0, <1>1 DEF Flags
<1>7. Complete(num', a, c + 1)
  BY <1>5, <1>6 DEF Complete
<1> QED  BY <1>1, <1>7 DEF SoFar

LEMMA WordGrammar ==
  ASSUME LexInv, GrammarInv, Word \/ WordChar PROVE SoFar(at', num', start', cursor')
<1> DEFINE a == start
           c == cursor
<1>0. /\ a \in Nat /\ c \in Nat /\ a <= c /\ Peek = CharAt(c) /\ SoFar(at, num, a, c)
      /\ cursor + 0 = c
  BY Bounds DEF Peek, GrammarInv
<1>1. CASE Word
  <2>1. /\ at = "token" /\ CharAt(c) \in Letters /\ at' = "word" /\ cursor' = c
        /\ start' = a /\ num' = num /\ c = a
    BY <1>0, <1>1 DEF Word, At, Eat, Move, LexInv, Place
  <2> HIDE DEF a, c
  <2>2. WordSoFar(a, c)
    BY <1>0, <2>1, InNone DEF WordSoFar
  <2> QED  BY <2>1, <2>2 DEF SoFar
<1>2. CASE WordChar
  <2>1. /\ at = "word" /\ CharAt(c) \in Letters \cup Digits /\ at' = "word"
        /\ cursor' = c + 1 /\ start' = a /\ num' = num
    BY <1>0, <1>2 DEF WordChar, At, Eat, Move
  <2> HIDE DEF a, c
  <2>2. WordSoFar(a, c)
    BY <1>0, <2>1 DEF SoFar
  <2>3. WordSoFar(a, c + 1)
    BY <1>0, <2>1, <2>2, InMore DEF WordSoFar
  <2> QED  BY <2>1, <2>3 DEF SoFar
<1> QED  BY <1>1, <1>2

-----------------------------------------------------------------------------
(* Handing over.                                                           *)

LEMMA HandsGrammar ==
  ASSUME LexInv, GrammarInv, NEW k, NEW end, NEW v, Deliver(k, end, v),
         k \notin {"NONE", "EOF", "ERROR"} => LongestMatch(Token(k, end, v)),
         k = "ERROR" => NoLegalToken(Token(k, end, v))
  PROVE  GrammarInv'
<1>1. text' = text /\ tok' = Token(k, end, v) /\ tok'.kind = k /\ at' \in {"idle", "skip"}
  BY DEF Deliver, Token
<1>2. SoFar(at', num', start', cursor')
  BY <1>1 DEF SoFar
<1>3. /\ tok'.kind \notin {"NONE", "EOF", "ERROR"} => LongestMatch(tok')
      /\ tok'.kind = "ERROR" => NoLegalToken(tok')
  BY <1>1
<1> QED  BY <1>1, <1>2, <1>3, GrammarKept DEF GrammarInv

\* A token spelled as its kind demands, from a to b, that nothing legal extends.
LEMMA MatchFrom ==
  ASSUME LexInv, NEW k, NEW a, NEW b, NEW v, Span(a, b), start = a,
         Spelled(k, Lexeme(a, b)), Numeric(a, b) => b - a < BufSize,
         \A e \in Nat : b < e => ~WordAt(a, e) /\ ~Numeric(a, e) /\ ~SymbolAt(a, e)
  PROVE  LongestMatch(Token(k, b, v))
<1>1. Token(k, b, v).kind = k /\ Token(k, b, v).from = a /\ Token(k, b, v).to = b
  BY DEF Token
<1>2. IsNumber(Lexeme(a, b)) => Len(Lexeme(a, b)) < BufSize
  BY NumberIs, LexemeChars
<1>3. ASSUME NEW e \in (b + 1)..Len(text) PROVE ~Legal(Lexeme(a, e))
  <2>1. e \in Nat /\ b < e /\ Span(a, e)
    BY Bounds DEF Span
  <2> QED  BY <2>1, LegalAt
<1> QED  BY <1>1, <1>2, <1>3 DEF LongestMatch

\* What begins like a number is no word and no symbol, ...
LEMMA NumbersApart ==
  ASSUME NEW a \in Nat, NEW e \in Nat, a + 1 < e, First(a)
  PROVE  ~WordAt(a, e) /\ ~SymbolAt(a, e)
<1>1. CharAt(a) \notin Letters
  BY CharsDiffer DEF First
<1>2. CharAt(a) \notin {"=", "!", "<", ">", "&", "|"}
  BY DEF First, Digits
<1> QED  BY <1>1, <1>2 DEF WordAt, SymbolAt

\* ... what begins like a word no number and no symbol, ...
LEMMA WordsApart ==
  ASSUME NEW a \in Nat, NEW e \in Nat, CharAt(a) \in Letters
  PROVE  ~Numeric(a, e) /\ ~SymbolAt(a, e)
<1>1. ~Numeric(a, e)
  BY NumericStart, CharsDiffer
<1>2. CharAt(a) \notin {"=", "!", "<", ">", "&", "|"} /\ Alone(CharAt(a)) = "ERROR"
  BY DEF Letters, Alone
<1> QED  BY <1>1, <1>2 DEF SymbolAt

\* ... and what begins like neither is a symbol or nothing.
LEMMA SymbolsApart ==
  ASSUME NEW a \in Nat, NEW e \in Nat, CharAt(a) \notin Letters, ~First(a)
  PROVE  ~WordAt(a, e) /\ ~Numeric(a, e)
BY NumericStart DEF First, WordAt

LEMMA WordHandsOver ==
  ASSUME LexInv, GrammarInv, WordEnd PROVE GrammarInv'
<1> DEFINE a == start
           c == cursor
           w == Lexeme(a, c)
           k == IF w \in DOMAIN kw_map THEN kw_map[w] ELSE "IDENT"
<1>0. /\ a \in Nat /\ c \in Nat /\ a <= c /\ c <= Len(text) /\ Len(text) \in Nat
      /\ Peek = CharAt(c) /\ SoFar(at, num, a, c)
  BY Bounds DEF Peek, GrammarInv
<1>1. at = "word" /\ CharAt(c) \notin Letters \cup Digits /\ Deliver(k, c, 0)
  BY <1>0 DEF WordEnd, At
<1>2. a = start
  OBVIOUS
<1> HIDE DEF a, c
<1>3. WordSoFar(a, c)
  BY <1>0, <1>1 DEF SoFar
<1>4. Span(a, c) /\ a < c
  BY <1>0, <1>1, <1>3 DEF WordSoFar, Span
<1>5. IsWord(w)
  BY <1>3, <1>4, WordIs DEF WordSoFar, WordAt
<1>6. Spelled(k, w)
  <2>1. \A i \in Keywords : i \notin {"IDENT", "LIT_INT", "LIT_DOUBLE", "LIT_FLOAT"}
    BY DEF Keywords, TypeWords
  <2>2. CASE w \in DOMAIN kw_map
    <3>1. k = kw_map[w] /\ k \in Keywords
      BY <2>2, LexerAssumption
    <3>2. Spelled(kw_map[w], w)
      BY <2>1, <2>2, <3>1 DEF Spelled
    <3> QED  BY <3>1, <3>2
  <2>3. CASE w \notin DOMAIN kw_map
    <3>1. Spelled("IDENT", w)
      <4>1. "IDENT" \notin Keywords
        BY <2>1
      <4> QED  BY <1>5, <2>3, <4>1 DEF Spelled
    <3> QED  BY <2>3, <3>1
  <2> QED  BY <2>2, <2>3
<1>7. ASSUME NEW e \in Nat, c < e PROVE ~WordAt(a, e) /\ ~Numeric(a, e) /\ ~SymbolAt(a, e)
  <2>1. ~WordAt(a, e)
    <3>1. c \in a..(e - 1)
      BY <1>0, <1>7
    <3> QED  BY <1>1, <3>1 DEF WordAt, In
  <2> QED  BY <1>0, <1>3, <2>1, WordsApart DEF WordSoFar
<1>8. ~Numeric(a, c)
  BY <1>0, <1>3, WordsApart DEF WordSoFar
<1> HIDE DEF k
<1>9. LongestMatch(Token(k, c, 0))
  BY <1>2, <1>4, <1>6, <1>7, <1>8, MatchFrom DEF w
<1>10. k # "ERROR"
  <2>1. \A i \in Keywords : i # "ERROR"
    BY DEF Keywords, TypeWords
  <2> QED  BY <2>1, LexerAssumption DEF k
<1> QED  BY <1>1, <1>9, <1>10, HandsGrammar

LEMMA SymbolHandsOver ==
  ASSUME LexInv, GrammarInv, Symbol PROVE GrammarInv'
<1> DEFINE a == start
           c == CharAt(a)
           d == CharAt(a + 1)
           Pairs == {"=", "!", "<", ">", "&", "|"}
<1>0. /\ a \in Nat /\ a + 1 \in Nat /\ Len(text) \in Nat /\ a + 1 <= Len(text)
      /\ cursor = a /\ Peek = c /\ PeekNext = d
  BY Bounds DEF Symbol, At, LexInv, Place, Peek, PeekNext
<1>1. /\ c \notin Letters /\ ~First(a)
      /\ IF c \in Pairs /\ d = Second(c) THEN Deliver(Doubled(c), a + 2, 0)
                                       ELSE Deliver(Alone(c), a + 1, 0)
  BY <1>0 DEF Symbol, First
<1>2. a = start
  OBVIOUS
<1> HIDE DEF a
<1>3. \A e \in Nat : ~WordAt(a, e) /\ ~Numeric(a, e)
  BY <1>0, <1>1, SymbolsApart
<1>4. \A e \in Nat : a + 2 < e => ~SymbolAt(a, e)
  BY <1>0 DEF SymbolAt
<1>5. CASE c \in Pairs /\ d = Second(c)
  <2>1. Deliver(Doubled(c), a + 2, 0)
    BY <1>1, <1>5
  <2>2. Span(a, a + 2)
    <3>1. d # NUL
      BY <1>5 DEF Second, NUL
    <3>2. a + 1 < Len(text)
      BY <1>0, <3>1 DEF CharAt
    <3> QED  BY <1>0, <3>2 DEF Span
  <2>3. IsSymbol(Lexeme(a, a + 2)) /\ Len(Lexeme(a, a + 2)) = 2 /\ Lexeme(a, a + 2)[1] = c
    <3>1. SymbolAt(a, a + 2)
      BY <1>5 DEF SymbolAt
    <3>2. (a + 2) - a = 2 /\ 1 \in 1..2 /\ a + 1 - 1 = a
      BY <1>0
    <3>3. /\ Len(Lexeme(a, a + 2)) = (a + 2) - a
          /\ \A i \in 1..((a + 2) - a) : Lexeme(a, a + 2)[i] = CharAt(a + i - 1)
      BY <2>2, LexemeChars
    <3>4. Lexeme(a, a + 2)[1] = CharAt(a + 1 - 1)
      BY <3>2, <3>3
    <3> QED  BY <2>2, <3>1, <3>2, <3>3, <3>4, SymbolIs
  <2>4. Doubled(c) \in {"EQ", "NEQ", "LE", "GE", "LOG_AND", "LOG_OR"}
    BY <1>5 DEF Doubled
  <2>5. Spelled(Doubled(c), Lexeme(a, a + 2))
    <3>1. /\ Doubled(c) \notin Keywords
          /\ Doubled(c) \notin {"IDENT", "LIT_INT", "LIT_DOUBLE", "LIT_FLOAT"}
      BY <2>4 DEF Keywords, TypeWords
    <3> QED  BY <2>3, <3>1 DEF Spelled
  <2>6. LongestMatch(Token(Doubled(c), a + 2, 0))
    BY <1>0, <1>2, <1>3, <1>4, <2>2, <2>5, MatchFrom
  <2>7. Doubled(c) # "ERROR"
    BY <2>4
  <2> QED  BY <2>1, <2>6, <2>7, HandsGrammar
<1>6. CASE ~(c \in Pairs /\ d = Second(c))
  <2>1. Deliver(Alone(c), a + 1, 0) /\ Span(a, a + 1)
    BY <1>0, <1>1, <1>6 DEF Span
  <2>2. \A e \in Nat : a + 1 < e => ~SymbolAt(a, e)
    BY <1>0, <1>6 DEF SymbolAt
  <2>3. CASE Alone(c) = "ERROR"
    <3>1. ASSUME NEW e \in (a + 1)..Len(text) PROVE ~Legal(Lexeme(a, e))
      <4>1. e \in Nat /\ a + 1 <= e /\ Span(a, e)
        BY <1>0 DEF Span
      <4>2. ~SymbolAt(a, e)
        BY <1>0, <2>2, <2>3, <4>1 DEF SymbolAt
      <4> QED  BY <1>3, <4>1, <4>2, LegalAt
    <3>2. NoLegalToken(Token(Alone(c), a + 1, 0))
      BY <1>2, <3>1 DEF NoLegalToken, Token
    <3> QED  BY <2>1, <2>3, <3>2, HandsGrammar
  <2>4. CASE Alone(c) # "ERROR"
    <3>1. IsSymbol(Lexeme(a, a + 1)) /\ Len(Lexeme(a, a + 1)) = 1 /\ Lexeme(a, a + 1)[1] = c
      <4>1. SymbolAt(a, a + 1)
        BY <2>4 DEF SymbolAt
      <4>2. (a + 1) - a = 1 /\ 1 \in 1..1 /\ a + 1 - 1 = a
        BY <1>0
      <4>3. /\ Len(Lexeme(a, a + 1)) = (a + 1) - a
          /\ \A i \in 1..((a + 1) - a) : Lexeme(a, a + 1)[i] = CharAt(a + i - 1)
      BY <2>1, LexemeChars
    <4>4. Lexeme(a, a + 1)[1] = CharAt(a + 1 - 1)
      BY <4>2, <4>3
    <4> QED  BY <2>1, <4>1, <4>2, <4>3, <4>4, SymbolIs
    <3>2. Alone(c) \in {"PLUS", "MINUS", "STAR", "SLASH", "PERCENT", "SEMICOLON", "L_PAREN",
         "R_PAREN", "COMMA", "L_BRACE", "R_BRACE", "ASSIGN", "L_BRACKET", "R_BRACKET",
         "LOG_NOT", "LT", "GT"}
      BY <2>4 DEF Alone
    <3>3. Spelled(Alone(c), Lexeme(a, a + 1))
      <4>1. /\ Alone(c) \notin Keywords
            /\ Alone(c) \notin {"IDENT", "LIT_INT", "LIT_DOUBLE", "LIT_FLOAT"}
        BY <3>2 DEF Keywords, TypeWords
      <4> QED  BY <3>1, <4>1 DEF Spelled
    <3>4. LongestMatch(Token(Alone(c), a + 1, 0))
      BY <1>0, <1>2, <1>3, <2>1, <2>2, <3>3, MatchFrom
    <3> QED  BY <2>1, <2>4, <3>4, HandsGrammar
  <2> QED  BY <2>3, <2>4
<1> QED  BY <1>5, <1>6

LEMMA StoreHandsOver ==
  ASSUME LexInv, GrammarInv, Store PROVE GrammarInv'
<1> DEFINE a == start
           c == cursor
<1>0. /\ a \in Nat /\ c \in Nat /\ a <= c /\ c <= Len(text) /\ Len(text) \in Nat
      /\ SoFar(at, num, a, c) /\ num \in Flags /\ a = start
  BY Bounds DEF GrammarInv
<1>1. at = "store" /\ c - a < BufSize
  BY DEF Store, At
<1>2. PICK k, v : /\ Deliver(k, c, v)
                  /\ k = IF num.dot \/ num.exp
                         THEN IF num.f32 THEN "LIT_FLOAT" ELSE "LIT_DOUBLE" ELSE "LIT_INT"
  BY Zenon DEF Store
<1> HIDE DEF a, c
<1>3. Complete(num, a, c) /\ Span(a, c)
  BY <1>0, <1>1 DEF SoFar, Span
<1>4. k \notin Keywords /\ k # "ERROR" /\ k # "IDENT"
  BY <1>2 DEF Keywords, TypeWords
<1> DEFINE Fits == /\ Numeric(a, c) /\ Spelled(k, Lexeme(a, c))
                   /\ \A e \in Nat : c < e => ~Numeric(a, e)
<1>5. ASSUME num.f32 /\ (num.dot \/ num.exp) /\ Float(a, c)
      PROVE  Fits
  <2>1. k = "LIT_FLOAT"
    BY <1>2, <1>5
  <2>2. Spelled("LIT_FLOAT", Lexeme(a, c))
    BY <1>3, <1>4, <1>5, <2>1, FloatAt DEF Spelled
  <2>3. \A e \in Nat : c < e => ~Numeric(a, e)
    BY <1>0, <1>5, FloatLongest
  <2> QED  BY <1>5, <2>1, <2>2, <2>3 DEF Numeric
<1>6. ASSUME Fresh(num) /\ HexNumber(a, c) /\ CharAt(c) \notin Hex
      PROVE  Fits
  <2>1. k = "LIT_INT"
    BY <1>2, <1>6 DEF Fresh
  <2>2. Spelled("LIT_INT", Lexeme(a, c))
    BY <1>3, <1>4, <1>6, <2>1, HexAt DEF Spelled
  <2>3. \A e \in Nat : c < e => ~Numeric(a, e)
    BY <1>0, <1>6, HexLongest
  <2> QED  BY <1>6, <2>1, <2>2, <2>3 DEF Numeric
<1>7. ASSUME ~num.f32 /\ Ended(num, a, c) /\ CharAt(c) # "f"
      PROVE  Fits
  <2>1. CASE num.exp /\ Scaled(a, c) /\ CharAt(c) \notin Digits
    <3>1. k = "LIT_DOUBLE" /\ Double(a, c)
      BY <1>2, <1>7, <2>1 DEF Double
    <3>2. Spelled("LIT_DOUBLE", Lexeme(a, c))
      BY <1>3, <1>4, <3>1, DoubleAt DEF Spelled
    <3>3. \A e \in Nat : c < e => ~Numeric(a, e)
      BY <1>0, <1>7, <2>1, ScaledLongest
    <3> QED  BY <3>1, <3>2, <3>3 DEF Numeric
  <2>2. CASE ~num.exp /\ num.dot /\ Pointed(a, c) /\ CharAt(c) \notin Digits \cup {"e"}
    <3>1. k = "LIT_DOUBLE" /\ Double(a, c)
      BY <1>2, <1>7, <2>2 DEF Double
    <3>2. Spelled("LIT_DOUBLE", Lexeme(a, c))
      BY <1>3, <1>4, <3>1, DoubleAt DEF Spelled
    <3>3. \A e \in Nat : c < e => ~Numeric(a, e)
      BY <1>0, <1>7, <2>2, PointedLongest
    <3> QED  BY <3>1, <3>2, <3>3 DEF Numeric
  <2>3. CASE /\ ~num.exp /\ ~num.dot /\ Decimal(a, c)
             /\ CharAt(c) \notin Digits \cup {"e", "."} /\ ~Prefix0x(a)
    <3>1. k = "LIT_INT"
      BY <1>2, <1>7, <2>3
    <3>2. Spelled("LIT_INT", Lexeme(a, c))
      BY <1>3, <1>4, <2>3, <3>1, DecimalAt DEF Spelled
    <3>3. \A e \in Nat : c < e => ~Numeric(a, e)
      BY <1>0, <1>7, <2>3, DecimalLongest DEF Prefix0x
    <3> QED  BY <2>3, <3>1, <3>2, <3>3 DEF Numeric
  <2> QED  BY <1>7, <2>1, <2>2, <2>3 DEF Ended
<1>8. Fits
  BY <1>3, <1>5, <1>6, <1>7 DEF Complete
<1>9. First(a) /\ a < c
  BY <1>0, <1>8, NumericStart DEF First
<1>10. \A e \in Nat : c < e => ~WordAt(a, e) /\ ~SymbolAt(a, e)
  BY <1>0, <1>9, NumbersApart
<1>11. LongestMatch(Token(k, c, v))
  BY <1>0, <1>1, <1>3, <1>8, <1>10, MatchFrom
<1> QED  BY <1>2, <1>4, <1>11, HandsGrammar

LEMMA RefusalHandsOver ==
  ASSUME LexInv, GrammarInv, NoHex \/ BadSuffix \/ NoExp \/ TooLong PROVE GrammarInv'
<1> DEFINE a == start
           c == cursor
           w == Lexeme(a, c)
           t == Token("ERROR", c, 0)
<1>0. /\ a \in Nat /\ c \in Nat /\ a <= c /\ c <= Len(text) /\ Len(text) \in Nat
      /\ SoFar(at, num, a, c) /\ Span(a, c) /\ Peek = CharAt(c)
  BY Bounds DEF GrammarInv, Peek, Span
<1>1. Deliver("ERROR", c, 0)
  BY DEF NoHex, BadSuffix, NoExp, TooLong, Refuse
<1>2. t.from = a /\ t.to = c
  BY DEF Token
<1>3. /\ w \in Seq(STRING) /\ Len(w) = c - a /\ DOMAIN w = 1..(c - a)
      /\ \A i \in 1..(c - a) : w[i] = CharAt(a + i - 1)
  BY <1>0, LexemeChars
<1> HIDE DEF a, c, t
<1>4. CASE NoHex
  <2>1. HexSoFar(num, a, c) /\ c = a + 2 /\ CharAt(c) \notin Hex
    BY <1>0, <1>4 DEF NoHex, At, SoFar
  <2>2. Len(w) = 2 /\ w[1] = "0" /\ w[2] = "x"
    <3>1. c - a = 2 /\ 1 \in 1..(c - a) /\ 2 \in 1..(c - a) /\ a + 1 - 1 = a
          /\ a + 2 - 1 = a + 1
      BY <1>0, <2>1
    <3> HIDE DEF w
    <3> QED  BY <1>3, <2>1, <3>1 DEF HexSoFar, Prefix0x
  <2>3. w = <<"0", "x">>
    <3> HIDE DEF w
    <3> QED  BY <1>3, <2>2, TwoElements
  <2>4. NoLegalToken(t)
    BY <1>2, <2>1, <2>3 DEF NoLegalToken
  <2> QED  BY <1>1, <2>4, HandsGrammar DEF t
<1>5. CASE BadSuffix
  <2>1. at = "suffix" /\ CharAt(c) = "f" /\ ~num.dot /\ ~num.exp
    BY <1>0, <1>5 DEF BadSuffix, At
  <2>2. Decimal(a, c)
    BY <1>0, <2>1 DEF SoFar, Ended
  <2>3. NoLegalToken(t)
    BY <1>0, <1>2, <2>1, <2>2, DecimalAt DEF NoLegalToken
  <2> QED  BY <1>1, <2>3, HandsGrammar DEF t
<1>6. CASE NoExp
  <2>1. at = "exp_first" /\ CharAt(c) \notin Digits
    BY <1>0, <1>6 DEF NoExp, At
  <2>2. PICK m \in a..c : Mantissa(a, m) /\ Mark(m, c)
    BY <1>0, <2>1 DEF SoFar, DigitNext
  <2>3. m \in Nat /\ a < m /\ m < c
    BY <1>0, <2>2, MantissaFacts DEF Mark
  <2> DEFINE i == m - a
  <2>4. i \in DOMAIN w
    BY <1>0, <1>3, <2>3
  <2>5. SubSeq(w, 1, i) = Lexeme(a, m) /\ Span(a, m)
    <3>1. /\ 1 \in 1..(c - a + 1) /\ i \in Nat /\ 1 <= i + 1 /\ i <= c - a
          /\ a + 1 - 1 = a /\ a + i = m
      BY <1>0, <2>3
    <3> HIDE DEF i
    <3> QED  BY <1>0, <3>1, LexemePart
  <2>6. SubSeq(w, i + 1, Len(w)) = Lexeme(m, c) /\ Span(m, c)
    <3>1. /\ i + 1 \in 1..(c - a + 1) /\ c - a \in Nat /\ i + 1 <= (c - a) + 1
          /\ c - a <= c - a /\ a + (i + 1) - 1 = m /\ a + (c - a) = c /\ Len(w) = c - a
      BY <1>0, <1>3, <2>3
    <3> HIDE DEF i
    <3> QED  BY ZenonT(30), <1>0, <3>1, LexemePart
  <2>7. IsMantissa(SubSeq(w, 1, i)) /\ SubSeq(w, i + 1, Len(w)) \in Marks
    BY <2>2, <2>5, <2>6, MantissaAt, MarkIs
  <2> HIDE DEF i, w
  <2>8. /\ CharAt(c) \notin Digits
        /\ \E j \in DOMAIN w : IsMantissa(SubSeq(w, 1, j)) /\ SubSeq(w, j + 1, Len(w)) \in Marks
    BY <2>1, <2>4, <2>7
  <2>9. NoLegalToken(t)
    BY <1>2, <2>8 DEF NoLegalToken, w
  <2> QED  BY <1>1, <2>9, HandsGrammar DEF t
<1>7. CASE TooLong
  <2>1. at = "store" /\ c - a >= BufSize
    BY <1>7 DEF TooLong, At, a, c
  <2>2. Complete(num, a, c)
    BY <1>0, <2>1 DEF SoFar
  <2>3. Numeric(a, c)
    BY <2>2 DEF Complete, Ended, Numeric, Double
  <2>4. NoLegalToken(t)
    BY <1>0, <1>2, <1>3, <2>1, <2>3, NumberIs DEF NoLegalToken
  <2> QED  BY <1>1, <2>4, HandsGrammar DEF t
<1> QED  BY <1>4, <1>5, <1>6, <1>7

LEMMA GrammarInvariant == LexSpec => []GrammarInv
<1>1. LexInit => GrammarInv
  BY DEF LexInit, NoToken, GrammarInv, SoFar
<1>2. LexInv /\ GrammarInv /\ [LexNext]_vars => GrammarInv'
  <2> SUFFICES ASSUME LexInv, GrammarInv, LexNext \/ UNCHANGED vars PROVE GrammarInv'
    OBVIOUS
  <2>1. CASE UNCHANGED vars
    BY <2>1, GrammarKept DEF vars, GrammarInv
  <2>2. CASE Trivia \/ LexerNext
    <3>1. text' = text /\ tok' = tok /\ at' \in {"skip", "line", "block", "token"}
      BY <2>2 DEF Trivia, LexerNext, SkipBlank, LineOpen, LineChar, LineClose, BlockOpen,
         BlockChar, BlockClose, BlockCut, SkipEnd, SkipReturn, Eat, Move
    <3>2. SoFar(at', num', start', cursor')
      BY <3>1 DEF SoFar
    <3> QED  BY <3>1, <3>2, GoesOn
  <2>3. CASE Words
    <3>1. CASE EndOfFile
      BY <3>1, HandsGrammar DEF EndOfFile
    <3>2. CASE Word \/ WordChar
      <4>1. text' = text /\ tok' = tok
        BY <3>2 DEF Word, WordChar, Eat, Move
      <4> QED  BY <3>2, <4>1, WordGrammar, GoesOn
    <3> QED  BY <2>3, <3>1, <3>2, WordHandsOver, SymbolHandsOver DEF Words
  <2>4. CASE Numbers
    <3>1. CASE Number \/ Suffix \/ Dot \/ Exponent
      <4>1. text' = text /\ tok' = tok
        BY <3>1 DEF Number, Suffix, Dot, Exponent, Move
      <4> QED  BY <3>1, <4>1, NumberGrammar, SuffixGrammar, MarkGrammar, GoesOn
    <3>2. CASE Digit \/ Sign \/ HexFirst \/ NoExponent \/ ExpFirst \/ ExpEnd \/ HexEnd \/ NoSuffix
      <4>1. text' = text /\ tok' = tok
        BY <3>2 DEF Digit, Sign, HexFirst, NoExponent, ExpFirst, ExpEnd, HexEnd, NoSuffix,
           Eat, Move
      <4> QED  BY <3>2, <4>1, DigitGrammar, MarkGrammar, PauseGrammar, GoesOn
    <3> QED  BY <2>4, <3>1, <3>2, StoreHandsOver, RefusalHandsOver DEF Numbers
  <2> QED  BY <2>1, <2>2, <2>3, <2>4 DEF LexNext, Scan
<1> QED  BY <1>1, <1>2, LexInvariant, PTL DEF LexSpec

\* For every file, keyword map and buffer, every token handed over is the longest
\* match of the grammar, of the kind its spelling demands (lexer.c:160-388).
THEOREM LexerMunch == LexSpec => []MaximalMunch
<1>1. GrammarInv => MaximalMunch
  BY DEF GrammarInv, MaximalMunch, Returned
<1> QED  BY <1>1, GrammarInvariant, PTL

\* For every file, an error token stands only where no token of the grammar
\* begins, or for a number that breaks off or outgrows the buffer
\* (lexer.c:193-249, 307-385).
THEOREM LexerRefusals == LexSpec => []RefusalsJustified
<1>1. GrammarInv => RefusalsJustified
  BY DEF GrammarInv, RefusalsJustified, Returned
<1> QED  BY <1>1, GrammarInvariant, PTL

-----------------------------------------------------------------------------
(* The values of literals.                                                 *)

LEMMA DigitValues ==
  /\ \A c \in Hex : DigitValue(c) \in 0..15
  /\ \A c \in Digits : DigitValue(c) \in 0..8
  /\ \A c \in Digits : c # "8" => DigitValue(c) \in 0..7
  /\ DigitValue("0") = 0
BY DEF Hex, Digits, DigitValue

\* Digits that the base has are all read, and weigh what they are read as.
Reading(ds, base) ==
  LET read[i \in 0..Len(ds)] == IF i = 0 THEN 0 ELSE read[i - 1] * base + DigitValue(ds[i])
  IN read[Len(ds)]

LEMMA ReadingDenotes ==
  ASSUME NEW ds \in Seq(STRING), NEW base \in Nat,
         \A i \in 1..Len(ds) : DigitValue(ds[i]) \in Nat
  PROVE  Reading(ds, base) = Denotes(ds, base) /\ Reading(ds, base) \in Nat
<1> DEFINE n == Len(ds)
           d == [i \in 1..n |-> DigitValue(ds[i])]
           read[i \in 0..n] == IF i = 0 THEN 0 ELSE read[i - 1] * base + DigitValue(ds[i])
           sum[i \in 0..n] ==
             IF i = 0 THEN 0 ELSE sum[i - 1] + DigitValue(ds[i]) * Power(base, n - i)
<1>1. n \in Nat /\ d \in [1..n -> Nat] /\ \A i \in 1..n : d[i] = DigitValue(ds[i])
  BY LenProperties
<1>2. Reading(ds, base) = read[n] /\ Denotes(ds, base) = sum[n]
  BY DEF Reading, Denotes
<1>3. Reads(read, n, base, d)
  <2> DEFINE step == [i \in 1..n |-> [x \in Nat |-> x * base + d[i]]]
  <2> HIDE DEF read, sum, d, n
  <2>1. step \in [1..n -> [Nat -> Nat]] /\ \A i \in 1..n, x \in Nat : step[i][x] = x * base + d[i]
    BY <1>1
  <2> HIDE DEF step
  <2>2. Iterates(n, Nat, 0, step)
    <3>1. 0 \in Nat
      OBVIOUS
    <3> QED  BY <1>1, <2>1, <3>1, Iteration
  <2>3. PICK f \in [0..n -> Nat] : f[0] = 0 /\ \A i \in 1..n : f[i] = step[i][f[i - 1]]
    BY <2>2 DEF Iterates
  <2>4. f = [i \in 0..n |-> IF i = 0 THEN 0 ELSE f[i - 1] * base + DigitValue(ds[i])]
    <3>1. \A i \in 1..n : i - 1 \in 0..n /\ f[i - 1] \in Nat
      BY <1>1
    <3>2. ASSUME NEW i \in 1..n PROVE f[i] = f[i - 1] * base + DigitValue(ds[i])
      <4>1. step[i][f[i - 1]] = f[i - 1] * base + d[i]
        BY <2>1, <3>1
      <4> QED  BY <1>1, <2>3, <4>1
    <3>3. \A i \in 0..n : f[i] = IF i = 0 THEN 0 ELSE f[i - 1] * base + DigitValue(ds[i])
      BY SMTT(20), <1>1, <2>3, <3>2
    <3> QED  BY <3>3
  <2>5. read = [i \in 0..n |-> IF i = 0 THEN 0 ELSE read[i - 1] * base + DigitValue(ds[i])]
    BY <2>4 DEF read
  <2> QED  BY <1>1, <2>5 DEF Reads
<1>4. Weighs(sum, n, base, d)
  <2> DEFINE step == [i \in 1..n |-> [x \in Nat |-> x + d[i] * Power(base, n - i)]]
  <2> HIDE DEF read, sum, d, n
  <2>1. step \in [1..n -> [Nat -> Nat]]
        /\ \A i \in 1..n, x \in Nat : step[i][x] = x + d[i] * Power(base, n - i)
    <3>1. ASSUME NEW i \in 1..n PROVE Power(base, n - i) \in Nat /\ d[i] \in Nat
      <4>1. n - i \in Nat
        BY <1>1
      <4> QED  BY <1>1, <4>1, PowerFacts
    <3> QED  BY <3>1
  <2> HIDE DEF step
  <2>2. Iterates(n, Nat, 0, step)
    <3>1. 0 \in Nat
      OBVIOUS
    <3> QED  BY <1>1, <2>1, <3>1, Iteration
  <2>3. PICK f \in [0..n -> Nat] : f[0] = 0 /\ \A i \in 1..n : f[i] = step[i][f[i - 1]]
    BY <2>2 DEF Iterates
  <2>4. f = [i \in 0..n |-> IF i = 0 THEN 0
                            ELSE f[i - 1] + DigitValue(ds[i]) * Power(base, n - i)]
    <3>1. \A i \in 1..n : i - 1 \in 0..n /\ f[i - 1] \in Nat
      BY <1>1
    <3>2. \A i \in 1..n : f[i] = f[i - 1] + DigitValue(ds[i]) * Power(base, n - i)
      BY <1>1, <2>1, <2>3, <3>1
    <3>3. \A i \in 0..n : f[i] = IF i = 0 THEN 0
                                 ELSE f[i - 1] + DigitValue(ds[i]) * Power(base, n - i)
      BY <1>1, <2>3, <3>2
    <3> QED  BY <3>3
  <2>5. sum = [i \in 0..n |-> IF i = 0 THEN 0
                              ELSE sum[i - 1] + DigitValue(ds[i]) * Power(base, n - i)]
    BY <2>4 DEF sum
  <2> QED  BY <1>1, <2>5 DEF Weighs
<1> HIDE DEF read, sum, d, n
<1>5. read[n] = sum[n] /\ read[n] \in Nat
  BY <1>1, <1>3, <1>4, Horner
<1> QED  BY <1>2, <1>5

\* What strtoll makes of a numeral whose digits are all of its base, when a long
\* long holds it.
LEMMA StrtollReads ==
  ASSUME NEW w, Numeral(w).digits \in Seq(STRING), Numeral(w).base \in Nat,
         \A i \in DOMAIN Numeral(w).digits :
           DigitValue(Numeral(w).digits[i]) \in 0..(Numeral(w).base - 1),
         Reading(Numeral(w).digits, Numeral(w).base) <= Power(2, 2 * IntBits - 1) - 1
  PROVE  strtoll(w) = Reading(Numeral(w).digits, Numeral(w).base)
<1> DEFINE n == Numeral(w)
           stops == {i \in DOMAIN n.digits : DigitValue(n.digits[i]) >= n.base}
           end == IF stops = {} THEN Len(n.digits) ELSE Min(stops) - 1
           value[i \in 0..end] ==
             IF i = 0 THEN 0 ELSE value[i - 1] * n.base + DigitValue(n.digits[i])
           read[i \in 0..Len(n.digits)] ==
             IF i = 0 THEN 0 ELSE read[i - 1] * n.base + DigitValue(n.digits[i])
           largest == Power(2, 2 * IntBits - 1) - 1
<1>1. strtoll(w) = IF value[end] <= largest THEN value[end] ELSE largest
  BY Zenon DEF strtoll
<1>2. Reading(n.digits, n.base) = read[Len(n.digits)]
  BY Zenon DEF Reading
<1>3. end = Len(n.digits)
  <2>1. stops = {}
    <3> HIDE DEF n
    <3> QED  BY DEF n
  <2> QED  BY <2>1, Zenon
<1>4. value = read
  <2> HIDE DEF end
  <2> QED  BY <1>3, Zenon
<1> HIDE DEF value, read, end, n
<1> QED  BY <1>1, <1>2, <1>3, <1>4 DEF n

\* A literal an int holds is handed over with what it denotes.
LEMMA LiteralValue ==
  ASSUME NEW w \in Seq(STRING), NEW ds \in Seq(STRING), NEW base \in Nat,
         Numeral(w) = [base |-> base, digits |-> ds],
         \A i \in 1..Len(ds) : DigitValue(ds[i]) \in 0..(base - 1),
         Denotes(ds, base) < Power(2, IntBits - 1)
  PROVE  TwosComplement(IntBits, strtoll(w)) = Denotes(ds, base)
<1> DEFINE v == Denotes(ds, base)
<1>1. Reading(ds, base) = v /\ v \in Nat
  <2>1. \A i \in 1..Len(ds) : DigitValue(ds[i]) \in Nat
    OBVIOUS
  <2> QED  BY <2>1, ReadingDenotes
<1>2. IntBits \in Nat \ {0}
  BY LexerAssumption
<1>3. Power(2, IntBits - 1) \in Nat /\ Power(2, IntBits - 1) <= Power(2, 2 * IntBits - 1)
      /\ Power(2, 2 * IntBits - 1) \in Nat
  <2>1. IntBits - 1 \in Nat /\ 2 * IntBits - 1 \in Nat /\ IntBits - 1 <= 2 * IntBits - 1
    BY <1>2
  <2> QED  BY <2>1, PowersOfTwo
<1> HIDE DEF v
<1>4. strtoll(w) = v
  <2>1. /\ Numeral(w).digits = ds /\ Numeral(w).base = base
        /\ DOMAIN ds = 1..Len(ds)
    BY LenProperties
  <2>2. v <= Power(2, 2 * IntBits - 1) - 1
    BY <1>1, <1>3 DEF v
  <2> QED  BY <1>1, <2>1, <2>2, StrtollReads
<1>5. v \in (-Power(2, IntBits - 1))..(Power(2, IntBits - 1) - 1)
  BY <1>1, <1>3 DEF v
<1>6. TwosComplement(IntBits, v) = v
  <2>1. v \in Int
    BY <1>1
  <2> QED  BY <1>2, <1>5, <2>1, TwosComplementFacts
<1> QED  BY <1>4, <1>6 DEF v

LEMMA StoreExact ==
  ASSUME LexInv, GrammarInv, GrammarInv', Store, tok'.kind = "LIT_INT" PROVE ExactValue(tok')
<1> DEFINE w == Lexeme(start, cursor)
           n == Numeral(w)
           octal == Len(w) > 1 /\ w[1] = "0" /\ ~IsHex(w)
           value == IF IsHex(w) THEN Denotes(SubSeq(w, 3, Len(w)), 16)
                    ELSE Denotes(w, IF octal THEN 8 ELSE 10)
<1>1. /\ text' = text /\ tok'.from = start /\ tok'.to = cursor
      /\ tok'.value = TwosComplement(IntBits, strtoll(w))
  BY DEF Store, Deliver, Token
<1>2. w \in Seq(STRING) /\ Len(w) \in Nat /\ DOMAIN w = 1..Len(w)
  <2>1. Span(start, cursor)
    BY Bounds DEF Span
  <2> QED  BY <2>1, LexemeChars, LenProperties
<1>3. IsHex(w) \/ IsDecimal(w)
  <2>1. LongestMatch(tok')
    BY GrammarKept, <1>1 DEF GrammarInv
  <2>2. Spelled("LIT_INT", w)
    BY <1>1, <2>1 DEF LongestMatch
  <2>3. "LIT_INT" \notin Keywords
    BY DEF Keywords, TypeWords
  <2> QED  BY <2>2, <2>3 DEF Spelled
<1> HIDE DEF w
<1>4. ASSUME value < Power(2, IntBits - 1), ~(octal /\ \E i \in DOMAIN w : w[i] = "8")
      PROVE  TwosComplement(IntBits, strtoll(w)) = value
  <2>1. CASE IsHex(w)
    <3> DEFINE ds == SubSeq(w, 3, Len(w))
    <3>1. /\ Len(w) > 2 /\ w[1] = "0" /\ w[2] = "x" /\ AllIn(ds, Hex)
      BY <2>1 DEF IsHex
    <3>2. ds \in Seq(STRING)
      <4>1. \A i \in 3..Len(w) : w[i] \in STRING
        BY <1>2, ElementOfSeq
      <4>2. 3 \in Int /\ Len(w) \in Int
        BY <1>2
      <4> QED  BY <4>1, <4>2, SubSeqProperties
    <3>3. n = [base |-> 16, digits |-> ds]
      BY SMTT(20), <1>2, <3>1 DEF Numeral
    <3> HIDE DEF ds
    <3>4. \A i \in 1..Len(ds) : DigitValue(ds[i]) \in 0..(16 - 1)
      BY <3>1, <3>2, LenProperties, DigitValues DEF AllIn
    <3>5. value = Denotes(ds, 16)
      BY <2>1 DEF ds
    <3> QED  BY <1>2, <1>4, <3>2, <3>3, <3>4, <3>5, LiteralValue
  <2>2. CASE ~IsHex(w)
    <3>1. w # <<>> /\ \A i \in 1..Len(w) : w[i] \in Digits
      BY <1>2, <1>3, <2>2 DEF IsDecimal, AllIn
    <3>2. Len(w) >= 1
      BY <1>2, <3>1, EmptySeq
    <3>3. CASE octal
      <4>1. w[2] # "x"
        <5>1. 2 \in 1..Len(w)
          BY <1>2, <3>3
        <5> QED  BY <3>1, <5>1, CharsDiffer
      <4>2. n = [base |-> 8, digits |-> w]
        BY <1>2, <3>3, <4>1 DEF Numeral
      <4>3. \A i \in 1..Len(w) : DigitValue(w[i]) \in 0..(8 - 1)
        BY <1>2, <1>4, <3>1, <3>3, DigitValues
      <4>4. value = Denotes(w, 8)
        BY <2>2, <3>3
      <4> QED  BY <1>2, <1>4, <4>2, <4>3, <4>4, LiteralValue
    <3>4. CASE ~octal
      <4>1. w[1] # "0" \/ Len(w) = 1
        BY <1>2, <2>2, <3>2, <3>4
      <4>2. n = [base |-> 10, digits |-> w]
        BY <4>1 DEF Numeral
      <4>3. \A i \in 1..Len(w) : DigitValue(w[i]) \in 0..(10 - 1)
        BY <1>2, <3>1, DigitValues
      <4>4. value = Denotes(w, 10)
        BY <2>2, <3>4
      <4> QED  BY <1>2, <1>4, <4>2, <4>3, <4>4, LiteralValue
    <3> QED  BY <3>3, <3>4
  <2> QED  BY <2>1, <2>2
<1> QED  BY <1>1, <1>4 DEF ExactValue, w

ValueInv == tok.kind = "LIT_INT" => ExactValue(tok)

\* An integer literal that was handed over keeps its value.
LEMMA ValueKept == ASSUME text' = text PROVE \A t : ExactValue(t)' <=> ExactValue(t)
BY DEF ExactValue, Lexeme

LEMMA ValueInvariant == LexSpec => []ValueInv
<1>1. LexInit => ValueInv
  BY DEF LexInit, NoToken, ValueInv
<1>2. LexInv /\ GrammarInv /\ GrammarInv' /\ ValueInv /\ [LexNext]_vars => ValueInv'
  <2> SUFFICES ASSUME LexInv, GrammarInv, GrammarInv', ValueInv, LexNext \/ UNCHANGED vars
               PROVE  ValueInv'
    OBVIOUS
  <2>1. CASE text' = text /\ tok' = tok
    BY <2>1, ValueKept DEF ValueInv
  <2>2. CASE text' = text /\ tok'.kind # "LIT_INT"
    BY <2>2 DEF ValueInv
  <2>3. CASE Store
    <3>1. text' = text
      BY <2>3 DEF Store, Deliver
    <3> QED  BY <2>3, <3>1, StoreExact, ValueKept DEF ValueInv
  <2>4. CASE UNCHANGED vars
    BY <2>1, <2>4 DEF vars
  <2>5. CASE Trivia \/ LexerNext
    <3>1. text' = text /\ tok' = tok
      BY <2>5 DEF Trivia, LexerNext, SkipBlank, LineOpen, LineChar, LineClose, BlockOpen,
         BlockChar, BlockClose, BlockCut, SkipEnd, SkipReturn, Eat, Move
    <3> QED  BY <2>1, <3>1
  <2>6. CASE Words
    <3>1. CASE Word \/ WordChar
      BY <2>1, <3>1 DEF Word, WordChar, Eat, Move
    <3>2. CASE EndOfFile
      BY <2>2, <3>2 DEF EndOfFile, Deliver, Token
    <3>3. CASE WordEnd
      <4>1. \A i \in Keywords \cup {"IDENT"} : i # "LIT_INT"
        BY DEF Keywords, TypeWords
      <4> QED  BY <2>2, <3>3, <4>1, LexerAssumption DEF WordEnd, Deliver, Token
    <3>4. CASE Symbol
      <4>1. Alone(Peek) # "LIT_INT"
        BY DEF Alone
      <4>2. Peek \in {"=", "!", "<", ">", "&", "|"} => Doubled(Peek) # "LIT_INT"
        BY DEF Doubled
      <4> QED  BY <2>2, <3>4, <4>1, <4>2 DEF Symbol, Deliver, Token
    <3> QED  BY <2>6, <3>1, <3>2, <3>3, <3>4 DEF Words
  <2>7. CASE Numbers
    <3>1. CASE NoHex \/ BadSuffix \/ NoExp \/ TooLong
      BY <2>2, <3>1 DEF NoHex, BadSuffix, NoExp, TooLong, Refuse, Deliver, Token
    <3>2. CASE Number \/ Suffix \/ Dot \/ Exponent
      BY <2>1, <3>2 DEF Number, Suffix, Dot, Exponent, Move
    <3>3. CASE Digit \/ Sign \/ HexFirst \/ NoExponent \/ ExpFirst \/ ExpEnd \/ HexEnd \/ NoSuffix
      BY <2>1, <3>3 DEF Digit, Sign, HexFirst, NoExponent, ExpFirst, ExpEnd, HexEnd, NoSuffix,
         Eat, Move
    <3> QED  BY <2>3, <2>7, <3>1, <3>2, <3>3 DEF Numbers
  <2> QED  BY <2>4, <2>5, <2>6, <2>7 DEF LexNext, Scan
<1> QED  BY <1>1, <1>2, LexInvariant, GrammarInvariant, PTL DEF LexSpec

\* For every file and every width of an int, an integer literal that an int can
\* hold has the value its digits denote in the base its prefix says (lexer.c:269).
THEOREM LexerValue == LexSpec => []ValueExact
<1>1. ValueInv => ValueExact
  BY DEF ValueInv, ValueExact, Returned
<1> QED  BY <1>1, ValueInvariant, PTL

-----------------------------------------------------------------------------
(* Every call ends.                                                        *)

\* A loop that has read all it can is ahead of what follows it.
PauseTable ==
  /\ Pause \in 0..7 /\ (Pause = 0 <=> at = "idle")
  /\ at = "skip" => Pause = 3
  /\ at = "token" => Pause = 2
  /\ at = "store" => Pause = 4
  /\ at = "suffix" => Pause = 5
  /\ at \in {"hex_first", "exp_first"} => Pause = 6
  /\ at = "sign" => Pause = 7
  /\ at = "line" => Pause = IF Peek \notin {"\n", NUL} THEN 1 ELSE 6
  /\ at = "block" => Pause = IF Peek # NUL THEN 1 ELSE 6
  /\ at = "word" => Pause = IF Peek \in Letters \cup Digits THEN 1 ELSE 6
  /\ at = "int" => Pause = IF Peek \in Digits \cup {".", "e"} THEN 1 ELSE 6
  /\ at = "frac" => Pause = IF Peek \in Digits \cup {"e"} THEN 1 ELSE 6
  /\ at \in {"exp", "hex"} => Pause = IF Peek \in DigitsAt(at) THEN 1 ELSE 6

LEMMA PauseFacts == PauseTable /\ PauseTable'
BY DEF PauseTable, Pause, LoopReads

\* A step that reads does less than eight more, one that does not pauses less.
LEMMA WorkFacts ==
  ASSUME LexInv, LexInv', text' = text,
         cursor < cursor' \/ (cursor = cursor' /\ Pause' < Pause), at # "idle"
  PROVE  Work' \in Nat /\ Work' < Work
<1>1. /\ Len(text) \in Nat /\ cursor \in 0..Len(text) /\ cursor' \in 0..Len(text)
  BY TextLength DEF LexInv, LexTypeOK
<1>2. Pause \in 1..7 /\ Pause' \in 0..7
  BY PauseFacts DEF PauseTable
<1> QED  BY <1>1, <1>2 DEF Work

LEMMA EatWork ==
  ASSUME LexInv, LexInv', NEW n \in 1..2, NEW l, Move(n, l), at # "idle"
  PROVE  Work' \in Nat /\ Work' < Work
<1>1. text' = text /\ cursor < cursor'
  BY DEF Move, LexInv, LexTypeOK
<1> QED  BY <1>1, WorkFacts

\* Without reading the scanner goes on at l, where it sees the same character.
LEMMA PassWork ==
  ASSUME LexInv, LexInv', NEW l, Move(0, l), at # "idle", Pause' < Pause
  PROVE  Work' \in Nat /\ Work' < Work
<1>1. text' = text /\ cursor = cursor'
  BY DEF Move, LexInv, LexTypeOK
<1> QED  BY <1>1, WorkFacts

LEMMA SamePeek ==
  ASSUME LexInv, NEW l, Move(0, l)
  PROVE  Peek' = Peek /\ at' = l
BY DEF Move, Peek, CharAt, LexInv, LexTypeOK

LEMMA TriviaWork ==
  ASSUME LexInv, LexInv', Trivia PROVE Work' \in Nat /\ Work' < Work
<1> USE DEF At, Eat
<1>1. CASE SkipBlank \/ LineChar \/ BlockOpen \/ BlockChar \/ BlockClose
  BY <1>1, EatWork DEF SkipBlank, LineChar, BlockOpen, BlockChar, BlockClose
<1>2. CASE LineOpen
  <2>1. Move(0, "line") /\ at = "skip" /\ Peek = "/"
    BY <1>2 DEF LineOpen, Ahead
  <2>2. Peek' = "/" /\ at' = "line"
    BY <2>1, SamePeek
  <2>3. Pause' = 1 /\ Pause = 3
    BY <2>1, <2>2, PauseFacts DEF NUL, PauseTable
  <2> QED  BY <2>1, <2>3, PassWork
<1>3. CASE LineClose
  <2>1. Move(0, "skip") /\ at = "line" /\ Peek \in {"\n", NUL}
    BY <1>3 DEF LineClose
  <2>2. at' = "skip"
    BY <2>1, SamePeek
  <2>3. Pause' = 3 /\ Pause = 6
    BY <2>1, <2>2, PauseFacts DEF PauseTable
  <2> QED  BY <2>1, <2>3, PassWork
<1>4. CASE BlockCut \/ SkipEnd
  <2>1. Move(0, "token") /\ (at = "skip" \/ (at = "block" /\ Peek = NUL))
    BY <1>4 DEF BlockCut, SkipEnd, SkipReturn
  <2>2. at' = "token"
    BY <2>1, SamePeek
  <2>3. Pause' = 2 /\ Pause > 2 /\ at # "idle"
    BY <2>1, <2>2, PauseFacts DEF PauseTable
  <2> QED  BY <2>1, <2>3, PassWork
<1> QED  BY <1>1, <1>2, <1>3, <1>4 DEF Trivia

\* Handing a token over reads, or returns, or came from further on than "skip".
LEMMA DeliverWork ==
  ASSUME LexInv, LexInv', NEW k, NEW end, NEW v, Deliver(k, end, v), at # "idle",
         end = cursor /\ k = "ERROR" => Pause > 3,
         end = cursor \/ (end \in Nat /\ cursor < end)
  PROVE  Work' \in Nat /\ Work' < Work
<1>1. /\ text' = text /\ cursor' = end
      /\ IF k = "ERROR" THEN at' = "skip" ELSE at' = "idle"
  BY DEF Deliver
<1>2. k = "ERROR" => Pause' = 3
  BY <1>1, PauseFacts DEF PauseTable
<1>3. k # "ERROR" => Pause' = 0
  BY <1>1, PauseFacts DEF PauseTable
<1>4. Pause \in 1..7
  BY PauseFacts DEF PauseTable
<1> QED  BY <1>1, <1>2, <1>3, <1>4, WorkFacts

LEMMA WordsWork ==
  ASSUME LexInv, LexInv', Words PROVE Work' \in Nat /\ Work' < Work
<1> USE DEF At, Eat
<1>0. cursor \in Nat /\ cursor + 1 \in Nat /\ cursor + 2 \in Nat
  BY Bounds
<1>1. CASE EndOfFile
  <2>1. Deliver("EOF", cursor, 0) /\ at # "idle"
    BY <1>1 DEF EndOfFile
  <2> QED  BY <2>1, DeliverWork
<1>2. CASE Word
  <2>1. Move(0, "word") /\ at = "token" /\ Peek \in Letters
    BY <1>2 DEF Word
  <2>2. Peek' \in Letters /\ at' = "word"
    BY <2>1, SamePeek
  <2>3. Pause' = 1 /\ Pause = 2
    BY <2>1, <2>2, PauseFacts DEF Letters, PauseTable
  <2> QED  BY <2>1, <2>3, PassWork
<1>3. CASE WordChar
  BY <1>3, EatWork DEF WordChar
<1>4. CASE WordEnd
  <2>1. PICK k : Deliver(k, cursor, 0) /\ at = "word" /\ Peek \notin Letters \cup Digits
    BY <1>4 DEF WordEnd
  <2>2. Pause = 6
    BY <2>1, PauseFacts DEF PauseTable
  <2> QED  BY <2>1, <2>2, DeliverWork
<1>5. CASE Symbol
  <2>1. PICK n \in 1..2 : \E k : Deliver(k, cursor + n, 0)
    BY <1>5 DEF Symbol
  <2>2. PICK k : Deliver(k, cursor + n, 0)
    BY <2>1
  <2>3. at = "token" /\ cursor + n \in Nat /\ cursor < cursor + n /\ cursor # cursor + n
    BY <1>0, <1>5, <2>1 DEF Symbol
  <2>4. at # "idle" /\ Pause = 2
    BY <2>3, PauseFacts DEF PauseTable
  <2> QED  BY <2>2, <2>3, <2>4, DeliverWork
<1> QED  BY <1>1, <1>2, <1>3, <1>4, <1>5 DEF Words

LEMMA NumbersWork ==
  ASSUME LexInv, LexInv', Numbers PROVE Work' \in Nat /\ Work' < Work
<1> USE DEF At, Eat
<1>1. CASE Number
  <2>1. at = "token" /\ Pause = 2 /\ Peek \in Digits \cup {"."}
        /\ (Move(2, "hex_first") \/ Move(0, "int"))
    BY <1>1, PauseFacts DEF Number, PauseTable
  <2>2. CASE Move(0, "int")
    <3>1. Peek' \in Digits \cup {"."} /\ at' = "int"
      BY <2>1, <2>2, SamePeek
    <3>2. Pause' = 1
      BY <3>1, PauseFacts DEF PauseTable
    <3> QED  BY <2>1, <2>2, <3>2, PassWork
  <2>3. CASE Move(2, "hex_first")
    BY <2>1, <2>3, EatWork
  <2> QED  BY <2>1, <2>2, <2>3
<1>2. CASE HexFirst
  <2>1. Move(0, "hex") /\ at = "hex_first" /\ Peek \in Hex
    BY <1>2 DEF HexFirst
  <2>2. Peek' \in DigitsAt("hex") /\ at' = "hex"
    BY <2>1, SamePeek DEF DigitsAt
  <2>3. Pause' = 1 /\ Pause = 6
    BY <2>1, <2>2, PauseFacts DEF PauseTable
  <2> QED  BY <2>1, <2>3, PassWork
<1>3. CASE NoHex \/ NoExp \/ BadSuffix \/ TooLong
  <2>1. Deliver("ERROR", cursor, 0) /\ at \in {"hex_first", "exp_first", "suffix", "store"}
    BY <1>3 DEF NoHex, NoExp, BadSuffix, TooLong, Refuse
  <2>2. Pause > 3 /\ at # "idle"
    BY <2>1, PauseFacts DEF PauseTable
  <2> QED  BY <2>1, <2>2, DeliverWork
<1>4. CASE Digit
  BY <1>4, EatWork DEF Digit
<1>5. CASE Dot \/ Exponent
  BY <1>5, EatWork DEF Dot, Exponent
<1>6. CASE NoExponent
  <2>1. /\ Move(0, "suffix") /\ at \in {"int", "frac"} /\ (at = "int" => Peek # ".")
        /\ Peek \notin Digits \cup {"e"}
    BY <1>6 DEF NoExponent
  <2>2. at' = "suffix"
    BY <2>1, SamePeek
  <2>3. Pause' = 5 /\ Pause = 6
    BY <2>1, <2>2, PauseFacts DEF PauseTable
  <2> QED  BY <2>1, <2>3, PassWork
<1>7. CASE Sign
  <2>1. (Move(0, "exp_first") \/ Move(1, "exp_first")) /\ at = "sign" /\ Pause = 7
    BY <1>7, PauseFacts DEF Sign, PauseTable
  <2>2. CASE Move(0, "exp_first")
    <3>1. at' = "exp_first" /\ Pause' = 6
      BY <2>2, SamePeek, PauseFacts DEF PauseTable
    <3> QED  BY <2>1, <2>2, <3>1, PassWork
  <2> QED  BY <2>1, <2>2, EatWork
<1>8. CASE ExpFirst
  <2>1. Move(0, "exp") /\ at = "exp_first" /\ Peek \in Digits
    BY <1>8 DEF ExpFirst
  <2>2. Peek' \in DigitsAt("exp") /\ at' = "exp"
    BY <2>1, SamePeek DEF DigitsAt
  <2>3. Pause' = 1 /\ Pause = 6
    BY <2>1, <2>2, PauseFacts DEF PauseTable
  <2> QED  BY <2>1, <2>3, PassWork
<1>9. CASE ExpEnd
  <2>1. Move(0, "suffix") /\ at = "exp" /\ Peek \notin DigitsAt("exp")
    BY <1>9 DEF ExpEnd, DigitsAt
  <2>2. at' = "suffix"
    BY <2>1, SamePeek
  <2>3. Pause' = 5 /\ Pause = 6
    BY <2>1, <2>2, PauseFacts DEF PauseTable
  <2> QED  BY <2>1, <2>3, PassWork
<1>10. CASE HexEnd
  <2>1. Move(0, "store") /\ at = "hex" /\ Peek \notin DigitsAt("hex")
    BY <1>10 DEF HexEnd
  <2>2. at' = "store"
    BY <2>1, SamePeek
  <2>3. Pause' = 4 /\ Pause = 6
    BY <2>1, <2>2, PauseFacts DEF PauseTable
  <2> QED  BY <2>1, <2>3, PassWork
<1>11. CASE Suffix
  BY <1>11, EatWork DEF Suffix
<1>12. CASE NoSuffix
  <2>1. Move(0, "store") /\ at = "suffix"
    BY <1>12 DEF NoSuffix
  <2>2. at' = "store"
    BY <2>1, SamePeek
  <2>3. Pause' = 4 /\ Pause = 5
    BY <2>1, <2>2, PauseFacts DEF PauseTable
  <2> QED  BY <2>1, <2>3, PassWork
<1>13. CASE Store
  <2>1. PICK k, v : Deliver(k, cursor, v) /\ at = "store"
    BY <1>13 DEF Store
  <2>2. Pause > 3
    BY <2>1, PauseFacts DEF PauseTable
  <2> QED  BY <2>1, <2>2, DeliverWork
<1> QED  BY <1>1, <1>2, <1>3, <1>4, <1>5, <1>6, <1>7, <1>8, <1>9, <1>10, <1>11, <1>12, <1>13
         DEF Numbers

\* For every file a call of lexer_next, and of advance around it, is over after
\* eight steps for each character it reads and seven more (lexer.c:113-388).
THEOREM LexerLinear == LexSpec => ScansLinear
<1>1. LexInv /\ LexInv' /\ [LexNext]_vars =>
        [at # "idle" => Work' \in Nat /\ Work' < Work]_vars
  <2> SUFFICES ASSUME LexInv, LexInv', LexNext, at # "idle"
               PROVE  Work' \in Nat /\ Work' < Work
    BY DEF vars
  <2>1. CASE LexerNext
    BY <2>1 DEF LexerNext, At
  <2>2. CASE Scan
    BY <2>2, TriviaWork, WordsWork, NumbersWork DEF Scan
  <2> QED  BY <2>1, <2>2 DEF LexNext
<1> QED  BY <1>1, LexInvariant, PTL DEF LexSpec, ScansLinear
================================================================================
