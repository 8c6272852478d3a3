# cact: TLA+ models, checks and proofs

cactc is the front end of a compiler for CACT, a strict subset of C: a lexer, a
recursive descent parser with panic-mode recovery, and a semantic analysis that
runs while the parser builds the tree. It is one thread; what makes it hard to
get right is not concurrency but *protocol*: four pieces of mutable state (the
chain of scopes, the return type of the current function, the parser's panic
flag, the reporter's latch) that some twenty recursive routines must leave
consistent on every path, including those taken in the middle of an error; a
scanner that looks two characters ahead in a text that may end anywhere; and an
exit status computed at the very end from what all of that left behind.

Paths below are relative to the repository; its C files are in `src/`.

## 1. Inventory

| Component | State | Operations | Talks to |
|---|---|---|---|
| Error reporter, `src/context.c` | `had_error`, `panic_mode` | `ctx_error` | called by lexer, parser, sema |
| Types, `src/type.c` | type objects in an arena, with size and alignment; five global primitives; parameter vectors of function types | `types_init`, `types_deinit`, `type_array_of`, `type_func_new`, `type_eq`, `type_is_arithmetic` | used by parser and sema |
| Symbol table, `src/sema.c` 33-91 | chain of scopes, each a map of names to symbols | `sema_scope_enter`, `_leave`, `sema_define_var`, `sema_lookup` | called by the parser; reports redefinitions |
| Checks, `src/sema.c` 93-183 | `curr_func_ret` (set by the parser) | `sema_analyze_binary`, `_assign`, `_return` | called by the parser as it builds nodes; report |
| Parser, `src/parser.c` | `curr`, `prev`, `panic_mode`, the C call stack, the vector of globals | `parser_init`, `parser_parse` and its 20 recursive routines | pulls tokens from the lexer, drives sema |
| Lexer, `src/lexer.c` | cursor in the source text | `lexer_init`, `lexer_next` and the scanners under it | pulled by the parser's `advance`; reports straight to the reporter |
| Driver, `src/main.c` | arguments, input name, exit status | `main`, `run_compile` | reads the file, runs the pipeline, reads `had_error` |
| Tree, `include/ast.h` | nodes in an arena | none (write-only) | |
| fluf, `vendor/fluf` | arena, vectors, maps, interner | | an empty submodule: external |

Hard behaviours:

* **Recovery.** `synchronize` skips tokens, closing braces included, without
  unwinding anything. Loops in `parse_block`, `parse_func` and `parser_parse`
  must make progress from whatever token they are left at.
* **NULL as a result.** A failed parse returns NULL, and callers differ: some
  test it, some store it, some dereference it.
* **Two panic flags.** The parser's is cleared by `synchronize`, the reporter's
  never. The lexer sets only the reporter's.
* **State around calls.** `curr_func_ret` and the scope of a function are set
  up and torn down around everything a function can contain.
* **Values read from the wrong place.** A parameter's name comes from `p->prev`
  whatever that token is; the operand of `return;` from uninitialized memory.
* **The end of the text.** `peek` answers NUL past the end and at a NUL byte;
  `match` and the comment loops move the cursor without looking; every loop of
  the scanner must still stop. Refused literals leave their rest unread.
* **Silence.** `advance` drops ERROR tokens, recovery clears the parser's flag,
  `parser_parse` returns nodes after an error: only `had_error` remembers, and
  the exit status must not be taken from anywhere else.

What makes each component correct is stated as the properties of section 5;
`PROJECT.json` ("hazards") ties each to the lines where it would bite.

## 2. Modules

An arrow points from a module to those that extend it; an abstract
specification stands under the module that implements it.

```
Context -> Scopes -> Sema -> Parser -> Driver -> MCDriver               (runs)
             |        ^        |`- MCParser  `-------.
             |        |        `- ParserProofs -> DriverProofs
             |   Types, Tokens       |- ParserProgressProofs
             |                       `- ParserValueProofs
             |- MCScopes, ScopesProofs ------'
         ScopedEnv                             Facts -> the proof modules
Context, Tokens, MachineInts -> Lexer -> MCLexer, LexerProofs
                                  |
                             TokenSource
MachineInts -> TypeObjects -> MCTypeObjects, TypeObjectProofs
                    |
                  Types
```

* **Types** (`type.c`). A type is a record: the primitive at its core, the
  dimensions wrapped around it in the order of wrapping, and a function's name.
  The parser only builds arrays over primitives and functions returning them,
  so nothing else exists. NULL is a type of its own.
* **TypeObjects** (`type.c`). The same file as it is written: objects with
  addresses, allocated and filled one after another, compared by address or by
  structure, with sizes in ints of a bounded width. `T == INSTANCE Types` gives
  each object its value, and `ValuesAgree` says that `Types`, which the parser is
  modelled on, tells no more and no less than the objects do.
* **Tokens** (`token.def`, tables of `parser.c`). Which tokens start a
  declaration or a statement, stop `synchronize`, bind how tightly.
* **Context** (`context.c`). The reporter as a record, `ctx_error` as a function
  on it; `printed` counts diagnostics.
* **ScopedEnv**. The abstract specification of the symbol table: a stack of
  total environments; entering copies, leaving restores, declaring changes one
  name of the innermost once. No chain, no search.
* **Scopes** (`sema.c` 33-91). The chain itself, `sema_lookup` searching from
  the inside out. `ScopesSpec` lets a client call the operations in any order.
  `Env == INSTANCE ScopedEnv WITH ...` maps each open scope to what lookup
  finds from there.
* **Sema** (`sema.c` 93-183). The three analyses as functions from operands to a
  verdict: the resulting type and whether something is reported.
* **Parser** (`parser.c`, all of it). A pushdown machine; see section 3.
* **Lexer** (`lexer.c`, and `advance` of `parser.c`). The scanner over the
  characters of a text; see section 4.
* **TokenSource**. What `advance` promises its caller: token kinds the parser
  knows, complaints on the side, and an end of file after which nothing moves.
  `Lexer` implements it, and `Parser`'s own `advance` is built on no more.
* **Driver** (`main.c`). The argument loop, reading the file, the parser run to
  its end as one phase of the process, the exit status. A NULL dereference ends
  the process with 139, as a shell reports a SIGSEGV. It composes with `Parser`
  directly: `Compile` is any step of the parser.
* **MachineInts**. Powers, and what a number becomes that does not fit.
* **MCScopes**, **MCParser**, **MCTypeObjects**, **MCLexer**, **MCDriver**: instances for TLC.
* **Facts**: lemmas on sequences, least elements, induction, powers and digits.
  **ScopesProofs**, **LexerProofs**, **ParserProofs**, **ParserProgressProofs**,
  **ParserValueProofs**, **TypeObjectProofs**, **DriverProofs**: theorems.

## 3. How Parser corresponds to the code

`stack` is the C call stack: a record (frame) per active function, whose field
`at` names the point where it will resume, other fields hold the locals still
needed. A function that ends in `return g(...)` has nothing left to do when `g`
returns, so the two share a frame (`parse_expr` and `parse_binary`, `parse_unary`
and `parse_primary`, `parse_stmt` and `parse_block`, `parse_top_level` and
`parse_func`, ...); a function that only looks as if it ended there, as
`parse_stmt` after `n->else_branch = parse_stmt(p)` or after a loop's body, keeps
its own (`stmt_end`). `Activations` says at each place for how many functions a frame
stands, and `CallDepth` adds them up: that is the depth of the C stack, in functions of
the parser. `ret` is the value the last return handed back. `Call`, `Return`,
`Goto` and `Resume` move between points; an action runs from one point to the
next and reads at most one token, so its name is that of a stretch of code:
`ParamName` is `consume(IDENT)` plus the read of `p->prev.value.name`,
`FuncEnter` is lines 672-673, and so on (the "map" of `PROJECT.json` has the
lines of each).

Simplifications, and why they lose nothing:

* `parse_block`'s and `parse_func`'s loops are the same code; one set of
  actions serves both (frames `block` and `body`), with an end of its own each.
  They close the scope and consume the brace in opposite order; one step does
  both, and nothing can look in between.
* Two reports in one step count once. The reporter prints the first report of a
  compilation and nothing after it, so the order of reports cannot be seen.
* A statement's node is not returned: whether it is NULL only decides whether it
  is appended to a list nobody reads.
* The name a union reads as, when it holds a number, is any name; when the lexer
  stored nothing, the designated initializer zeroes it: `JunkName`.
* `return;` reads an operand that was never written: `Garbage` says which of
  NULL, a readable node and a wild pointer it may be.
* Before `parser_init` nothing was read: `prev` starts as `;` or as something
  else, the only difference `synchronize` can see.
* The built-ins of `install_builtins` whose names are in `Names` are in the
  global scope from the start.
* Two symbols of one name never both have function type in reach, so
  function types are told apart by name and their parameter vectors are the map
  `params`.

The lexer is a source of tokens: `Prefix` first, then up to `FreeTokens` tokens
of `Alphabet` or the end of the file at any point, then the end of the file. In
each step it may also have skipped an invalid character, which reports. That
this is what the real scanner looks like from the parser is
`ImplementsTokenSource`, shown of `Lexer`.

## 4. How Lexer corresponds to the code

One step is one iteration of a loop of `lexer_next`, or one of its decisions;
`at` names the place in the code, `start` and `cursor` are the token's first
character and the next one to read. Positions count from 0 as in the code; past
the end `CharAt` is NUL, as `peek` has it. `advance`'s loop is around it: an
ERROR token has reported itself and the scanner goes straight on.

* A character stands for the class of those the scanner treats alike (the
  comment at the head of the module lists them); NUL is one of them, and a
  text may contain it.
* Each `cursor--` (names, numbers, lone dots) follows a read that only told
  where to go; the model decides by looking and does not move.
* A keyword is what `kw_map` says of a spelling; the run has one keyword.
* Integer literals keep their value: `strtoll` chooses the base by the prefix,
  stops at the first character that is no digit of it and at the largest long
  long; the cast to int keeps the low `IntBits` bits. Reals keep their kind only.

## 5. Runs

| Run | Instance | Checks |
|---|---|---|
| `scopes` | any order of operations, depth up to 3 | `ScopesTypeOK`, `GlobalIffOutermost`, `BindingsStable`, `ImplementsScopedEnv` |
| `parser_decls` | 10 tokens of global declarations and functions | `TypeOK`, `ScopeBalance`, `ReturnContext`, `ErrorLatch`, `DepthLinear`, `NoSilentCrash`, `BindingsStable`, `ParsesLinear` |
| `parser_stmts` | a body of 7 tokens with `if`, `else` and `while`, invalid characters, any garbage | `ScopeBalance`, `ReturnContext`, `ErrorLatch`, `LexicalScoping`, `DepthLinear`, `ParsesLinear` |
| `parser_exprs` | a body with an array, a use of `!`, `%` and a call, then 6 tokens of expressions | `NoSilentCrash`, `OperandsTyped`, `DepthLinear`, `OperatorGrouping` |
| `types` | up to 4 types over the primitives; `IntBits` 6 | `ValuesAgree`, `SizesCount`, `EqualMeansSameLayout` |
| `lexer` | all texts of up to 5 characters of integers, 5 of reals, 6 of comments, 3 of everything else; `BufSize` 5, `IntBits` 7 | `LexTypeOK`, `MaximalMunch`, `RefusalsJustified`, `ValueExact`, `Tiling`, `SpansInOrder`, `Scans`, `ScansLinear`, `ImplementsTokenSource` |
| `driver` | all 21 command lines of up to 2 words, a body of 5 tokens, fair | `StatusTellsOutcome`, `NoErrorForgotten`, `Exits` |

* `BindingsStable`: while a scope is open, none of its bindings changes,
  whatever happens in or under it.
* `ImplementsScopedEnv`: lookup over the chain *is* lexical scoping.
* `LexicalScoping`: seen through lookup, every step of the parser is one
  operation of `ScopedEnv` or none; no path of recovery pops two scopes at once,
  or declares in a scope that is not the innermost.
* `ScopeBalance`: the number of open scopes is one plus the number of active
  blocks and functions, on every recovery path.
* `ReturnContext`: returns are judged by the function they stand in.
* `ErrorLatch`: the two panic flags, `had_error` and the printed line agree.
* `NoSilentCrash`: a NULL dereference is always preceded by a diagnostic;
  `OperandsTyped` is the reason.
* `OperatorGrouping`: of the operators waiting for their right operand each
  binds tighter than the one before, and a finished operand is not followed by
  one that should have taken it. The tree is write-only, so no diagnostic and no
  exit status would tell if `1 - 2 - 3` came out wrong.
* `DepthLinear`: at most two functions of the parser are active, and four more for
  every token read, whatever nests: statements in `else` branches and loops no less
  than operands, blocks and initializers.
* `ParsesLinear`: every step lowers `Work`: 48 for each token that is left, 6 for
  each stage a loop is away from reading the one at hand, and what the calls
  that are open still cost. So parsing ends, and no recovery comes round to the
  token it was at.
* `ValuesAgree`: types built at different places of the program compare equal
  exactly when they denote the same value, while parameter vectors still grow.
* `SizesCount`, `EqualMeansSameLayout`: an array has the size of all its elements,
  cut to an int once whatever overflowed on the way, and types that compare equal
  can be copied over each other.
* `MaximalMunch`, `RefusalsJustified`: the scanner against a grammar of whole
  spellings that knows nothing of cursors: every token is the longest legal one,
  and what is refused has no legal prefix, or is a number broken off, or too long
  for the buffer.
* `Tiling` with `SpansInOrder`: every character of the file is in one token or in
  a blank or comment between two, once, whatever was put back or refused.
* `ValueExact`: a literal that an int can hold has the value it denotes.
* `Scans`: every call of the scanner returns, on any text. `ScansLinear` says how
  soon: after at most eight steps for each character it reads and seven more.
* `StatusTellsOutcome`: exit 0 of a process that compiled means that nothing was
  wrong, 1 that it was said; one that did not compile answers a `-h` anywhere on its
  command line with 0 and everything else with 1. `NoErrorForgotten`: no recovery in
  between launders an error.
* `Exits`: the process comes to its end; recovery never spins.

**Bounds.** Depth three gives an outer, a middle and an inner scope, so that a
binding can be shadowed and reached over a scope that does not bind it. The
token bounds let each parser run finish every construct it is about and then
make one more error in it: ten tokens hold `int a[2] = {...}` and the start of a
second declaration, or a function with a parameter, `int a(int a) {}`, and one
more token; seven in a body hold a block in an `if` with an `else` at which the file
ends, or a loop in an `else`, or a loop's block with a declaration broken off. One name is enough at the top level, where what matters is whether two
names are the same; the bodies tell a variable, a function, a built-in and the
junk name apart. Longer streams and more names are what the theorems of section 6
are for.

Four types beyond the primitives are an array of arrays built twice, or two
functions with an array as parameter each. In six bits a length of 3 multiplies
an int's 4 bytes to 12, then past 31, and -9 is a length that the cast of a
literal made negative.

A buffer of five holds four characters and the terminator, so texts of five are
one too long: the boundary that is at 127 and 128 in the code. Seven bits of
int make `0xff` too large and `0x1f` not, so that the cast is seen to cut. Six
characters are the shortest text in which `/*/` is followed by a comment's end
and one more character. Each of the scanner's parts has an alphabet of its own,
because the parts only meet at the start of a token, which three characters
reach. Two words are an option and its word, in either order, or two words of which the
last one counts.

**Fairness.** `FairDriverSpec` assumes weak fairness of the process's step, and
`FairLexSpec` of the steps of a call that has begun (when the next one begins is
the parser's matter). Both say that a thread that can run keeps running: there
is one thread, it waits for nothing, and the file is finite and was read
before.

### What the repository says and the code does not do

| Run | Says | Does |
|---|---|---|
| `each_error` | README.md:73: multiple errors reported in a single run | the reporter's latch is never cleared: one line at most |
| `survives_errors` | README.md:73: continue parsing after an error | `2 + ;` dereferences NULL in `sema_analyze_binary` |
| `empty_on_error` | include/parser.h:62: an empty vector on error | the nodes collected so far are returned |
| `literal_inits` | samples 19, 20, 23 must be rejected | any expression of the right type initializes a variable |
| `output_compiled` | main.c:43: `-o <file>` names the output file | the option is skipped and its word becomes the input |

Every property of a passing run has a mutant in `PROJECT.json`: a deliberate
mistake (`Fault_*` in the modules) under which the run reports that property.

## 6. Proofs

The theorems hold for every value of the constants that satisfies the named
assumptions `UnboundAssumption`, `ParserAssumption`, `LexerAssumption`,
`TypeObjectsAssumption` and `DriverAssumption`: any set of names, any token stream
of any length, any text, any buffer size, any width of an int, any number of types
with any lengths that an int can hold, any command line. What a theorem assumes
beyond that is in its statement.

| Theorem | Property | Beyond the named assumptions |
|---|---|---|
| `ScopesType` | `ScopesTypeOK` | |
| `ScopesGlobal` | `GlobalIffOutermost` | |
| `ScopesStable` | `BindingsStable`, of `ScopesSpec` | |
| `ScopesRefineEnv` | `ImplementsScopedEnv` | |
| `ParserLatch` | `ErrorLatch` | |
| `ParserScopeBalance` | `ScopeBalance` | |
| `ParserReturnContext` | `ReturnContext` | |
| `ParserDepthLinear` | `DepthLinear` | |
| `ParserLinear` | `ParsesLinear` | |
| `ParserType` | `TypeOK` | symbols may have any type (`TypeSet`) |
| `ParserNoSilentCrash` | `NoSilentCrash` | `"wild"` not in `Garbage` |
| `ParserOperandsTyped` | `OperandsTyped` | |
| `ParserGrouping` | `OperatorGrouping` | |
| `ParserBindingsStable` | `BindingsStable`, of `Parser` | symbols may have any type (`TypeSet`) |
| `ParserLexicalScoping` | `LexicalScoping` | symbols may have any type (`TypeSet`) |
| `LexerType` | `LexTypeOK` | |
| `LexerSpans` | `SpansInOrder` | |
| `LexerRefinesSource` | `ImplementsTokenSource` | |
| `LexerTiling` | `Tiling` | |
| `LexerMunch` | `MaximalMunch` | |
| `LexerRefusals` | `RefusalsJustified` | |
| `LexerValue` | `ValueExact` | |
| `LexerLinear` | `ScansLinear` | |
| `ArenaInvariant` | (`ArenaInv`, for the three below) | |
| `TypesAgree` | `ValuesAgree` | |
| `TypeSizes` | `SizesCount` | |
| `TypeLayout` | `EqualMeansSameLayout` | |
| `DriverStatus` | `StatusTellsOutcome` | |
| `DriverForgetsNothing` | `NoErrorForgotten` | |

**Induction.** Several definitions are recursive functions: what a spelling
denotes, how many elements an array has, what the stack costs, which value a type
object has. Facts about them go by the least counterexample (`LeastElement`,
`UpToInduction` of `Facts`), and `Iteration` gives such a function its defining
equation, so that no induction principle is taken from elsewhere.

**Symbol table.** The type invariant is inductive, and `GlobalIffOutermost` is
inductive beside it. The refinement needs what lookup returns after each
operation: `MaxFacts` gives the nearest scope, and lookup from depth *d* depends
on the first *d* scopes only. `ExtendIsAppend` and `ShortenIsFront` turn those
pointwise facts into the `Append` and `Front` of the abstract stack.

**Latch** (`ParserProofs`). `LatchInv` says that tokens are tokens and the flags
agree. `Later(c)` says it of a reporter state *c* no less alarmed than the present
one; it is closed under every way of reporting, so each action needs only the
lemma for its kind (`IdleLatch`, `MatchLatch`, `ConsumeLatch`, `PanicLatch`, ...).
`LatchStep` adds that `had_error` is never taken back.

**Stack** (`ParserProofs`). `ScopeBalance` is not inductive: to know that
popping a block's frame closes that block's scope one must know which frames can
be below it. `StackOK` says where frames stand: the root at the bottom,
`parse_top_level` or `parse_func` second, statements only above an open body,
`func_enter` on top. `DataOK` adds the count of scopes, the return type and the
function's symbol in the outermost scope. Steps that open and close nothing are
*quiet* and keep all that at once; `BlockOpen`, `BlockEnd`, `FuncOpen`, `FuncEnter`,
`BodyEnd` and `GlobalsEnd` have a lemma each.

**Depth** (`ParserProgressProofs`). `DepthLinear` looks only at how many functions are
active; to keep it one must know how many more can become so before the next token is
read. `Need` gives each place of the code the number of functions that can be active
from its frame on, its own included, without reading one: seven at the head of a block,
from which a statement's expression can get to an operand, four at a `binary`, and only
those of the frame itself where a token must be consumed first. `DepthInv` says
that there is a function *h*, the sums of the activations up to each frame
(`Rises`), that leaves each frame the room it needs (`Roomy`); that frames
made on a brace are there only while it has not been read; and that precedences
are numbers. The token at hand does not count as read (`Used`): it is what pays for the
step that consumes it. `BoundReplace`, `BoundCall` and `BoundPop` say what becomes of
*h* when the stack changes, `Gained` how much a step reads, and `CallDeep`, `GotoDeep`
and `ReturnDeep` reduce each action to the needs of the places it leaves and reaches.
`TotalIs` finally makes the last value of *h* the sum that `CallDepth` is.

**Progress** (`ParserProgressProofs`). A bounded stack does not mean that parsing
ends: a loop can call and be returned to for ever. `Cost` gives each place of the
code the steps that it can still take without reading a token or returning, calls
included, and `CostOf` adds them up over the stack, so that a call, a return or a
step inside a function lowers the sum. Only the loops of a block and of the top
level call again without having read anything; `Stage` counts how far they are
from reading the token at hand, and falls each time they come round: a block that
finds no statement is in panic, so it synchronizes, after which it is not in panic
and finds a statement or the end; the top level finds that no declaration starts
here, synchronizes, and if that did not move, skips. `ProgressInv` is what makes these arguments
hold: a skipping loop stands only where it was called from, always with the panic
flag down, a declaration of the top level directly above its root, and no more
tokens are read than there are. `Pays` is the budget of a step, and `GotoWorks`, `CallWorks`,
`ReturnWorks`, `ResumeWorks` reduce each action to the costs of the places involved.

**Values** (`ParserValueProofs`). What crashes is far from what caused it: the
operand that is NULL when an operator is built was returned many steps before.
The invariant ties the two by one parameter, whether an error is known. `Shaped(f,
e)` gives the locals of each frame their sets, in which NULL and the NULL type occur
only if *e*. `Over(f, g)` relates a frame to the one above it: who waits for an
operand is below a function that returns one, and the operand of an operator of
precedence *p* is parsed at *p* + 1. `Ready` says what the frame on top may
rely on. A step is judged by the reporter *after* it (`Heard`), because a step that
returns NULL reports at the same time; `LatchStep` says that what was known stays
known. `CallMoved`, `ReturnMoved` and `ResumeMoved` then reduce each action to the
shape of the frames it builds. `"wild"` must be excluded from `Garbage`, because a
program with a `return;` and no error may then die: that is what the code does.

**Scoping** (`ParserValueProofs`). `ScopesProofs` shows of each operation of the
table that bindings are kept and that it maps to a step of `ScopedEnv`. It remains
to see that a step of the parser is at most one of them (`TableMove`): most touch
no scope, and for the three that define a symbol the invariant of the values gives
what the table expects of its client, a name and a type, also when the name came
out of a token that is no identifier.

**Lexer** (`LexerProofs`). `LexInv` adds to the types where the cursor is relative
to the token's start at each place of the code (`Place`), that the last token ended
before the one being read began, and that an end of file stays. Every step either
slides the cursor or gives a token (`Slide`, `Give`). Four invariants stand on it.

* *Tiling.* `GapInv` says what lies between the last token and the cursor: blanks
  and whole comments (`Gap`), or these and a comment cut off at the cursor. A gap
  can be continued, and its end decides what the next step may find.
* *Longest match.* The grammar of `MaximalMunch` is about whole spellings; the
  scanner knows three flags and a place. `GrammarInv` joins the two: `SoFar` gives,
  for each place, the shape of what was read (digits, digits with a dot, a mantissa
  and an exponent mark, ...) as a statement on the positions from `start` to
  `cursor`. It is needed at every place, as what was read three loops ago decides
  whether a suffix is legal now. When a token is handed over, `SoFar` says that it is
  legal, and the character that stopped each loop that none longer is; when one is
  refused, that nothing from here on is legal, or that it is a number broken off
  or too long.
* *Values.* `Horner` shows that multiplying by the base and adding a digit computes
  the sum of digits by their weights, as long as the largest long long is not
  reached; `TwosComplementFacts` that the cast keeps what an int holds.
* *Progress.* `PauseFacts` gives the steps that are possible at each place before a
  character is read, so `Work` falls in every step of a call.

**Type objects** (`TypeObjectProofs`). `type_eq` and the value of a type follow
pointers, so nothing can be said of them until it is known that the chains end.
`ArenaInv` says so: an array is over an older object that is no function, and
parameters, which may be younger than their function, are no functions
either. By induction on addresses `Values` and `type_eq` have the equations that
their recursions say they have (`EqSolution`), and compare alike. Sizes are equal
modulo 2^`IntBits`: cutting a product at each step or once at the end leaves the same low bits
(`TwosComplementCongruent`), and alignments divide what was cut, because they are
powers of two. `TypeLayout` then follows from equal values, not from another
induction.

**Driver** (`DriverProofs`). A behaviour of the driver is one of the parser with
pauses (`ParserInside`), so the parser's invariants hold inside. `ArgsInv` keeps
what the loop has seen of the command line, `OutcomeInv` links exit status, command
line and reporter; once alarmed the process stays alarmed.

**Model-checked only**: `Exits` and `Scans`, the two liveness properties. Fairness is
stated with ENABLED, which the prover does not reason about. `ParsesLinear` and
`ScansLinear` prove what they rest on: a number that every step lowers. Every safety
property of the passing runs is proved.

## 7. Not modelled

* Values of real literals (`strtof`, `strtod`) and their range errors: nothing
  reads them.
* File positions and the text of diagnostics; `token.c` and the names of tokens.
* Signed overflow in `type_array_of` (type.c:74) is undefined in C. `TypeObjects`
  takes the outcome compilers produce, the low bits of the product; nothing in the
  program reads it. `Parser` itself leaves sizes out.
* The tree. It is only written; how operators group is `OperatorGrouping`.
* `fluf`: maps are functions, vectors sequences or counters, the interner is the
  identity on names. Running out of memory is not modelled.
* The build and test scripts.

## 8. Plan

Every operation that changes state is modelled, and every safety property of the
runs is proved. What could follow:

1. Real literals by value, once something reads them: then `strtod`'s rounding
   matters as `strtoll`'s base does now.
2. The tree as an object, once a later phase of the compiler reads it; today only
   the order in which operators are combined can be wrong, which
   `OperatorGrouping` covers.
3. A measure for the driver as `Work` is for the parser, so that `Exits` too is
   proved up to fairness; and `TokenSource` as a property of `Parser`, so that the
   theorems of the two sides meet in one specification.
4. The shape of array types against C's order of dimensions (parser.c:545), and what
   may be assigned to besides a plain variable (sema.c:148), once the documents say
   which is meant.
