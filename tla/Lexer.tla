-------------------------------- MODULE Lexer --------------------------------
(***************************************************************************)
(* The scanner of src/src/lexer.c and the loop of the parser's advance     *)
(* that calls it.  The text is a sequence of characters; one step is one   *)
(* iteration of a loop of lexer_next or one of its decisions, and at names *)
(* the place the scanner stands at between two steps.  Positions count     *)
(* from 0, as in the code: character i of the file is text[i + 1].         *)
(*                                                                         *)
(* Characters stand for those treated alike: "g" and "i" for letters that  *)
(* are not hexadecimal digits, "a" for those that are and mean nothing     *)
(* else in a number, "1" and "8" for digits that are octal and not, " "    *)
(* for all blanks but the line feed, lower case for upper case.            *)
(***************************************************************************)
EXTENDS Context, Tokens, MachineInts

CONSTANTS Texts,    \* the files
          kw_map,   \* the keyword map: from spellings to token kinds
          BufSize,  \* the size of scan_number's buffer, 128 in the code
          IntBits   \* the width of an int; a long long is twice as wide

ASSUME LexerAssumption ==
  /\ Texts \subseteq Seq(STRING) /\ BufSize \in Nat /\ IntBits \in Nat \ {0}
  /\ \A w \in DOMAIN kw_map : kw_map[w] \in Keywords

NUL     == "NUL"
Blanks  == {" ", "\n"}
Digits  == {"0", "1", "8"}
Letters == {"_", "a", "e", "f", "g", "i", "x"}
Hex     == Digits \cup {"a", "e", "f"}

VARIABLES text,    \* the file's content, fixed
          cursor,  \* l->cursor
          at,      \* where lexer_next stands; "idle" outside of it
          start,   \* where the token being scanned began
          num,     \* has_dot, has_exponent and is_float_32 of scan_number
          tok,     \* the last token lexer_next returned
          curr,    \* the last one advance stored in p->curr
          ctx      \* the error reporter

vars == <<text, cursor, at, start, num, tok, curr, ctx>>

At(l) == at = l

-----------------------------------------------------------------------------
(* Reading the text (lexer.c:54-82).                                       *)

CharAt(i) == IF i < Len(text) THEN text[i + 1] ELSE NUL
Peek     == CharAt(cursor)
PeekNext == CharAt(cursor + 1)
Ahead(c, d) == Peek = c /\ PeekNext = d

\* Read n characters and go on at l; the caller says what becomes of the rest.
Move(n, l) == cursor' = cursor + n /\ at' = l /\ UNCHANGED <<text, tok, curr, ctx>>
Eat(n, l)  == Move(n, l) /\ UNCHANGED <<start, num>>

Token(k, end, v) == [kind |-> k, from |-> start, to |-> end, value |-> v]

Fault_ErrorToParser(k, end, v) ==
  /\ cursor' = end
  /\ tok' = Token(k, end, v)
  /\ ctx' = (IF k = "ERROR" THEN ctx_error(ctx) ELSE ctx)
  /\ at' = "idle" /\ curr' = tok'
  /\ UNCHANGED <<text, start, num>>

\* lexer_next returns; an ERROR token has reported itself, and advance calls
\* again until the token is another.
Deliver(k, end, v) ==
  /\ cursor' = end
  /\ tok' = Token(k, end, v)
  /\ IF k = "ERROR" THEN at' = "skip" /\ ctx' = ctx_error(ctx) /\ UNCHANGED curr
                    ELSE at' = "idle" /\ curr' = tok' /\ UNCHANGED ctx
  /\ UNCHANGED <<text, start, num>>

Refuse == Deliver("ERROR", cursor, 0)

-----------------------------------------------------------------------------
(* Blanks and comments (lexer.c:111-152).                                  *)

\* advance calls lexer_next.
LexerNext == At("idle") /\ Eat(0, "skip")

SkipBlank == At("skip") /\ Peek \in Blanks /\ Eat(1, "skip")

LineOpen == At("skip") /\ Ahead("/", "/") /\ Eat(0, "line")

LineChar  == At("line") /\ Peek \notin {"\n", NUL} /\ Eat(1, "line")

Fault_TakeLineEnd == At("line") /\ Peek \in {"\n", NUL} /\ Eat(1, "skip")

LineClose == At("line") /\ Peek \in {"\n", NUL} /\ Eat(0, "skip")

Fault_ReuseStar == At("skip") /\ Ahead("/", "*") /\ Eat(1, "block")

BlockOpen  == At("skip") /\ Ahead("/", "*") /\ Eat(2, "block")
BlockChar  == At("block") /\ Peek # NUL /\ ~Ahead("*", "/") /\ Eat(1, "block")
BlockClose == At("block") /\ Ahead("*", "/") /\ Eat(2, "skip")

\* skip_whitespace returns: the token, or the end of the file, begins here.
SkipReturn == start' = cursor /\ UNCHANGED num /\ Move(0, "token")

Fault_SpinInComment == At("block") /\ Peek = NUL /\ Eat(0, "block")

\* A comment that nothing closes ends with the file, or with a NUL in it.
BlockCut == At("block") /\ Peek = NUL /\ SkipReturn

SkipEnd ==
  At("skip") /\ Peek \notin Blanks /\ ~Ahead("/", "/") /\ ~Ahead("/", "*") /\ SkipReturn

-----------------------------------------------------------------------------
(* Words and punctuation (lexer.c:160-184, 278-388).                       *)

Fault_NulIsEnd == At("token") /\ Peek = NUL /\ Deliver("EOF", cursor, 0)

EndOfFile == At("token") /\ cursor >= Len(text) /\ Deliver("EOF", cursor, 0)

Word     == At("token") /\ Peek \in Letters /\ Eat(0, "word")
WordChar == At("word") /\ Peek \in Letters \cup Digits /\ Eat(1, "word")

Lexeme(from, to) == SubSeq(text, from + 1, to)

WordEnd ==
  /\ At("word") /\ Peek \notin Letters \cup Digits
  /\ LET w == Lexeme(start, cursor) IN
     Deliver(IF w \in DOMAIN kw_map THEN kw_map[w] ELSE "IDENT", cursor, 0)

\* A character on its own, ...
Alone(c) ==
  CASE c = "+" -> "PLUS"       [] c = "-" -> "MINUS"      [] c = "*" -> "STAR"
    [] c = "/" -> "SLASH"      [] c = "%" -> "PERCENT"    [] c = ";" -> "SEMICOLON"
    [] c = "(" -> "L_PAREN"    [] c = ")" -> "R_PAREN"    [] c = "," -> "COMMA"
    [] c = "{" -> "L_BRACE"    [] c = "}" -> "R_BRACE"    [] c = "=" -> "ASSIGN"
    [] c = "[" -> "L_BRACKET"  [] c = "]" -> "R_BRACKET"  [] c = "!" -> "LOG_NOT"
    [] c = "<" -> "LT"         [] c = ">" -> "GT"         [] OTHER -> "ERROR"

\* ... and followed by the one that makes it two.
Second(c) == IF c \in {"&", "|"} THEN c ELSE "="
Doubled(c) ==
  CASE c = "=" -> "EQ"  [] c = "!" -> "NEQ"      [] c = "<" -> "LE"
    [] c = ">" -> "GE"  [] c = "&" -> "LOG_AND"  [] c = "|" -> "LOG_OR"

Symbol ==
  /\ At("token") /\ cursor < Len(text) /\ Peek \notin Letters \cup Digits
  /\ ~(Peek = "." /\ PeekNext \in Digits)
  /\ IF Peek \in {"=", "!", "<", ">", "&", "|"} /\ PeekNext = Second(Peek)
     THEN Deliver(Doubled(Peek), cursor + 2, 0)
     ELSE Deliver(Alone(Peek), cursor + 1, 0)

-----------------------------------------------------------------------------
(* Numbers (lexer.c:186-270).                                              *)

Number ==
  /\ At("token")
  /\ Peek \in Digits \/ (Peek = "." /\ PeekNext \in Digits)
  /\ num' = [dot |-> FALSE, exp |-> FALSE, f32 |-> FALSE] /\ UNCHANGED start
  /\ IF Ahead("0", "x") THEN Move(2, "hex_first") ELSE Move(0, "int")

HexFirst == At("hex_first") /\ Peek \in Hex /\ Eat(0, "hex")
NoHex    == At("hex_first") /\ Peek \notin Hex /\ Refuse

Fault_HexIsDecimal(l) == Digits

\* char_is_hex and char_is_digit.
DigitsAt(l) == IF l = "hex" THEN Hex ELSE Digits

Digit ==
  \E l \in {"int", "frac", "exp", "hex"} : At(l) /\ Peek \in DigitsAt(l) /\ Eat(1, l)

Dot ==
  /\ At("int") /\ Peek = "."
  /\ num' = [num EXCEPT !.dot = TRUE] /\ UNCHANGED start /\ Move(1, "frac")

Exponent ==
  /\ At("int") \/ At("frac")
  /\ Peek = "e"
  /\ num' = [num EXCEPT !.exp = TRUE] /\ UNCHANGED start /\ Move(1, "sign")

NoExponent ==
  /\ At("frac") \/ (At("int") /\ Peek # ".")
  /\ Peek \notin Digits \cup {"e"} /\ Eat(0, "suffix")

Sign == At("sign") /\ Eat(IF Peek \in {"+", "-"} THEN 1 ELSE 0, "exp_first")

ExpFirst == At("exp_first") /\ Peek \in Digits /\ Eat(0, "exp")
NoExp    == At("exp_first") /\ Peek \notin Digits /\ Refuse
ExpEnd   == At("exp") /\ Peek \notin Digits /\ Eat(0, "suffix")
HexEnd   == At("hex") /\ Peek \notin DigitsAt("hex") /\ Eat(0, "store")

Suffix ==
  /\ At("suffix") /\ Peek = "f" /\ (num.dot \/ num.exp)
  /\ num' = [num EXCEPT !.f32 = TRUE] /\ UNCHANGED start /\ Move(1, "store")

Fault_NoSuffixAfterExp ==
  At("suffix") /\ Peek = "f" /\ ~num.dot /\ Refuse

Fault_RereadNumber ==
  At("suffix") /\ Peek = "f" /\ ~num.dot /\ ~num.exp /\ Deliver("ERROR", start, 0)

\* The suffix stays unread: the next token is a word that begins with it.
BadSuffix == At("suffix") /\ Peek = "f" /\ ~num.dot /\ ~num.exp /\ Refuse

NoSuffix == At("suffix") /\ Peek # "f" /\ Eat(0, "store")

TooLong == At("store") /\ cursor - start >= BufSize /\ Refuse

DigitValue(c) == CASE c = "0" -> 0 [] c = "1" -> 1 [] c = "8" -> 8
                   [] c = "a" -> 10 [] c = "e" -> 14 [] c = "f" -> 15

Fault_AlwaysDecimal(w) == [base |-> 10, digits |-> SelectSeq(w, LAMBDA c : c \in Digits)]

\* strtoll with base 0: the prefix chooses the base.
Numeral(w) ==
  IF w[1] # "0" \/ Len(w) = 1 THEN [base |-> 10, digits |-> w]
  ELSE IF w[2] = "x" THEN [base |-> 16, digits |-> SubSeq(w, 3, Len(w))]
  ELSE [base |-> 8, digits |-> w]

\* It stops at the first character that is no digit of that base, and at the
\* largest long long.
strtoll(w) ==
  LET n     == Numeral(w)
      stops == {i \in DOMAIN n.digits : DigitValue(n.digits[i]) >= n.base}
      end   == IF stops = {} THEN Len(n.digits) ELSE Min(stops) - 1
      value[i \in 0..end] ==
        IF i = 0 THEN 0 ELSE value[i - 1] * n.base + DigitValue(n.digits[i])
      largest == Power(2, 2 * IntBits - 1) - 1
  IN IF value[end] <= largest THEN value[end] ELSE largest

Store ==
  /\ At("store") /\ cursor - start < BufSize
  /\ IF num.dot \/ num.exp
     THEN Deliver(IF num.f32 THEN "LIT_FLOAT" ELSE "LIT_DOUBLE", cursor, 0)
     ELSE Deliver("LIT_INT", cursor, TwosComplement(IntBits, strtoll(Lexeme(start, cursor))))

-----------------------------------------------------------------------------
NoToken == [kind |-> "NONE", from |-> 0, to |-> 0, value |-> 0]

\* lexer_init; the parser has read nothing yet.
LexInit ==
  /\ text \in Texts /\ cursor = 0 /\ at = "idle" /\ start = 0
  /\ num = [dot |-> FALSE, exp |-> FALSE, f32 |-> FALSE]
  /\ tok = NoToken /\ curr = NoToken /\ ctx = CtxInit

Trivia == SkipBlank \/ LineOpen \/ LineChar \/ LineClose \/ BlockOpen \/ BlockChar
            \/ BlockClose \/ BlockCut \/ SkipEnd

Words == EndOfFile \/ Word \/ WordChar \/ WordEnd \/ Symbol

Numbers == Number \/ HexFirst \/ NoHex \/ Digit \/ Dot \/ Exponent \/ NoExponent \/ Sign
             \/ ExpFirst \/ NoExp \/ ExpEnd \/ HexEnd \/ Suffix \/ BadSuffix \/ NoSuffix
             \/ TooLong \/ Store

\* A call that began runs on; when the next one comes is the parser's matter.
Scan == Trivia \/ Words \/ Numbers

LexNext == LexerNext \/ Scan

LexSpec == LexInit /\ [][LexNext]_vars

FairLexSpec == LexSpec /\ WF_vars(Scan)

-----------------------------------------------------------------------------
(* Properties.                                                             *)

Labels == {"idle", "skip", "line", "block", "token", "word", "hex_first", "hex", "int", "frac",
           "sign", "exp_first", "exp", "suffix", "store"}
Kinds  == TokenKinds \cup {"ERROR", "NONE"}

\* The cursor never leaves the text (lexer.c:77-78 and 130-139 advance it
\* without looking), and the span of a token is a piece of the text already read.
LexTypeOK ==
  /\ cursor \in 0..Len(text) /\ start \in 0..cursor /\ at \in Labels
  /\ num \in [dot : BOOLEAN, exp : BOOLEAN, f32 : BOOLEAN] /\ ctx \in ContextType
  /\ \A t \in {tok, curr} : t.kind \in Kinds /\ t.to \in 0..cursor /\ t.from \in 0..t.to

(* The tokens of the language, as a grammar over whole spellings.          *)

AllIn(w, S) == \A i \in DOMAIN w : w[i] \in S

IsWord(w)    == w # <<>> /\ w[1] \in Letters /\ AllIn(w, Letters \cup Digits)
IsHex(w)     == Len(w) > 2 /\ w[1] = "0" /\ w[2] = "x" /\ AllIn(SubSeq(w, 3, Len(w)), Hex)
IsDecimal(w) == w # <<>> /\ AllIn(w, Digits)
IsPointed(w) == /\ Len(w) > 1
                /\ \E i \in DOMAIN w : w[i] = "." /\ \A j \in DOMAIN w \ {i} : w[j] \in Digits
IsMantissa(w) == IsDecimal(w) \/ IsPointed(w)
Marks         == {<<"e">>, <<"e", "+">>, <<"e", "-">>}
IsScaled(w)   == \E i \in DOMAIN w, e \in Marks :
                   /\ i + Len(e) < Len(w)
                   /\ IsMantissa(SubSeq(w, 1, i)) /\ SubSeq(w, i + 1, i + Len(e)) = e
                   /\ IsDecimal(SubSeq(w, i + Len(e) + 1, Len(w)))
IsDouble(w)   == IsPointed(w) \/ IsScaled(w)
IsFloat(w)    == w # <<>> /\ Last(w) = "f" /\ IsDouble(Front(w))
IsNumber(w)   == IsHex(w) \/ IsDecimal(w) \/ IsDouble(w) \/ IsFloat(w)
IsSymbol(w)   == \/ Len(w) = 1 /\ Alone(w[1]) # "ERROR"
                 \/ Len(w) = 2 /\ w[1] \in {"=", "!", "<", ">", "&", "|"} /\ w[2] = Second(w[1])

Legal(w) == IsWord(w) \/ IsNumber(w) \/ IsSymbol(w)

Spelled(k, w) ==
  CASE k = "IDENT"      -> IsWord(w) /\ w \notin DOMAIN kw_map
    [] k = "LIT_INT"    -> IsHex(w) \/ IsDecimal(w)
    [] k = "LIT_DOUBLE" -> IsDouble(w)
    [] k = "LIT_FLOAT"  -> IsFloat(w)
    [] k \in Keywords    -> w \in DOMAIN kw_map /\ kw_map[w] = k
    [] OTHER            -> IsSymbol(w) /\ k = IF Len(w) = 1 THEN Alone(w[1]) ELSE Doubled(w[1])

Returned == tok.kind \notin {"NONE", "EOF"} /\ cursor = tok.to

\* The longest match: the token is spelled as its kind demands, fits the buffer
\* when it is a number, and nothing longer could have been taken.
LongestMatch(t) ==
  LET w == Lexeme(t.from, t.to) IN
  /\ Spelled(t.kind, w)
  /\ IsNumber(w) => Len(w) < BufSize
  /\ \A end \in (t.to + 1)..Len(text) : ~Legal(Lexeme(t.from, end))

\* The token begins nothing legal, or is a number broken off where it had to go
\* on, or one too long for the buffer and its terminator.
NoLegalToken(t) ==
  LET w    == Lexeme(t.from, t.to)
      next == CharAt(t.to)
  IN \/ \A end \in (t.from + 1)..Len(text) : ~Legal(Lexeme(t.from, end))
     \/ w = <<"0", "x">> /\ next \notin Hex
     \/ IsDecimal(w) /\ next = "f"
     \/ /\ next \notin Digits
        /\ \E i \in DOMAIN w : IsMantissa(SubSeq(w, 1, i)) /\ SubSeq(w, i + 1, Len(w)) \in Marks
     \/ IsNumber(w) /\ Len(w) >= BufSize

\* Every token that is not an error is the longest match (lexer.c:160-388).
MaximalMunch == Returned /\ tok.kind # "ERROR" => LongestMatch(tok)

\* Nothing is refused that is legal (lexer.c:193-249, 307-385).
RefusalsJustified == Returned /\ tok.kind = "ERROR" => NoLegalToken(tok)

\* What digits of a base denote: the sum of each times the weight of its place.
Denotes(ds, base) ==
  LET sum[i \in 0..Len(ds)] ==
        IF i = 0 THEN 0
        ELSE sum[i - 1] + DigitValue(ds[i]) * Power(base, Len(ds) - i)
  IN sum[Len(ds)]

\* A literal that an int can hold has the value it denotes, in the base its
\* prefix says.  An octal one with an 8 denotes nothing.
ExactValue(t) ==
  LET w     == Lexeme(t.from, t.to)
      octal == Len(w) > 1 /\ w[1] = "0" /\ ~IsHex(w)
      value == IF IsHex(w) THEN Denotes(SubSeq(w, 3, Len(w)), 16)
               ELSE Denotes(w, IF octal THEN 8 ELSE 10)
  IN value < Power(2, IntBits - 1) /\ ~(octal /\ \E i \in DOMAIN w : w[i] = "8")
       => t.value = value

\* Every integer literal handed over has the value it denotes (lexer.c:269).
ValueExact == Returned /\ tok.kind = "LIT_INT" => ExactValue(tok)

\* One blank or one comment, from position i to position j.
LineComment(i, j)  == /\ CharAt(i) = "/" /\ CharAt(i + 1) = "/" /\ j >= i + 2 /\ CharAt(j) \in {"\n", NUL}
                      /\ \A k \in i..(j - 1) : CharAt(k) \notin {"\n", NUL}
Closing(k)         == CharAt(k) = "*" /\ CharAt(k + 1) = "/"
Inside(i, j)       == \A k \in i..(j - 1) : CharAt(k) # NUL /\ ~Closing(k)
BlockComment(i, j) == /\ CharAt(i) = "/" /\ CharAt(i + 1) = "*" /\ j >= i + 4
                      /\ Inside(i + 2, j - 2) /\ Closing(j - 2)
CutComment(i, j)   == /\ CharAt(i) = "/" /\ CharAt(i + 1) = "*" /\ j >= i + 2
                      /\ Inside(i + 2, j) /\ CharAt(j) = NUL
Piece(i, j) == \/ j = i + 1 /\ CharAt(i) \in Blanks
               \/ LineComment(i, j) \/ BlockComment(i, j) \/ CutComment(i, j)

\* Nothing but blanks and comments between positions a and b: it can be cut into
\* such pieces.
Gap(a, b) ==
  \E cuts \in SUBSET (a..b) :
    /\ {a, b} \subseteq cuts
    /\ \A i \in cuts \ {b} : \E j \in cuts : i < j /\ Piece(i, j)

\* Between two tokens lie blanks and comments only: with SpansInOrder, every
\* character is in one token or one of those.  In particular only a comment
\* that nothing closes swallows code silently (lexer.c:111-152).
Tiling == [][tok' # tok => Gap(tok.to, tok'.from)]_vars

\* Tokens come in the order of the text, none is empty or overlaps the one
\* before, whatever cursor-- the scanner did (lexer.c:292, 297, 310), and the end of
\* the file is returned there and nowhere else (lexer.c:54-66, 284).
SpansInOrder ==
  [][tok' # tok =>
       /\ tok.to <= tok'.from
       /\ IF tok'.kind = "EOF" THEN tok'.from = Len(text) ELSE tok'.from < tok'.to]_vars

\* Every call of lexer_next returns, and so does advance, whatever the file.
Scans == at # "idle" ~> at = "idle"

\* Does the loop the scanner is in go round once more?
LoopReads ==
  CASE at = "line"  -> Peek \notin {"\n", NUL}
    [] at = "block" -> Peek # NUL
    [] at = "word"  -> Peek \in Letters \cup Digits
    [] at = "int"   -> Peek \in Digits \cup {".", "e"}
    [] at = "frac"  -> Peek \in Digits \cup {"e"}
    [] OTHER        -> Peek \in DigitsAt(at)

\* A bound on the steps until the next character is read or the call returns.
Pause ==
  CASE at = "idle"   -> 0  [] at = "token" -> 2  [] at = "skip" -> 3  [] at = "store" -> 4
    [] at = "suffix" -> 5  [] at \in {"hex_first", "exp_first"} -> 6  [] at = "sign" -> 7
    [] OTHER -> IF LoopReads THEN 1 ELSE 6

Work == 8 * (Len(text) - cursor) + Pause

\* A call takes at most eight steps for each character it reads and seven more:
\* no step goes back in the text, and no error, cut comment or number broken off
\* sends the scanner round without reading (lexer.c:113-152, 186-270, 278-388).
ScansLinear == [][at # "idle" => Work' \in Nat /\ Work' < Work]_vars

\* What the parser relies on: tokens of its own kinds only, complaints on the
\* side, and an end of file that stays (parser.c:28-36).
Source == INSTANCE TokenSource WITH curr <- curr.kind

ImplementsTokenSource == Source!SourceSpec
=============================================================================
