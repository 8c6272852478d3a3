----------------------------- MODULE DriverProofs -----------------------------
(***************************************************************************)
(* The exit status, for every command line, every file and every behaviour *)
(* of the scanner.                                                         *)
(***************************************************************************)
EXTENDS Driver, ParserProofs

\* The driver's steps are the parser's, or leave the parser alone.
LEMMA ParserInside == DriverSpec => Spec
<1>1. DriverInit => Init
  BY DEF DriverInit
<1>2. [DriverNext]_allVars => [Next]_vars
  BY DEF DriverNext, Run, Gone, Outside, allVars, Next, NoArgs, Help, Arg, NoInput, ArgsDone,
         ReadFails, ReadFile, Compile, Finish, Killed
<1> QED  BY <1>1, <1>2, PTL DEF DriverSpec, Spec

LEMMA ParserInvariants == DriverSpec => [](LatchInv /\ StackInv)
BY ParserInside, LatchInvariant, StackInvariant, PTL

\* The parser returns in one place only.
LEMMA ReturnsAtEnd ==
  ASSUME LatchInv, StackInv, Step
  PROVE  /\ status = "run"
         /\ status' = "done" => GlobalsEnd
<1>1. ASSUME BlockOpen \/ BlockEnd \/ FuncOpen \/ FuncEnter \/ BodyEnd
      PROVE  status = "run" /\ status' # "done"
  BY <1>1 DEF BlockOpen, BlockEnd, FuncOpen, FuncEnter, BodyEnd, AtBlock, At
<1>2. ASSUME QuietStep PROVE status = "run" /\ status' # "done"
  BY <1>2 DEF QuietStep
<1>3. ASSUME GlobalsEnd PROVE status = "run"
  BY <1>3 DEF GlobalsEnd, At
<1>4. CASE Expressions
  BY <1>2, <1>4, ExpressionsQuiet
<1>5. CASE Statements
  BY <1>1, <1>2, <1>5, StatementsQuiet
<1>6. CASE Declarations
  BY <1>2, <1>6, DeclarationsQuiet DEF LatchInv
<1>7. CASE Functions
  BY <1>1, <1>2, <1>7, FunctionsQuiet
<1>8. CASE TopLevel
  BY <1>2, <1>3, <1>8, TopLevelQuiet
<1> QED  BY <1>4, <1>5, <1>6, <1>7, <1>8 DEF Step

\* No step of the parser takes an error back.
LEMMA StepAlarm == ASSUME LatchInv, Step, ctx.had_error PROVE ctx'.had_error
BY ExpressionsLatch, StatementsLatch, DeclarationsLatch, FunctionsLatch, TopLevelLatch
   DEF Step, LatchStep

LEMMA EndStays == ASSUME GlobalsEnd PROVE curr'.kind = "EOF"
<1>1. Kind = "EOF" /\ advance(ctx)
  BY DEF GlobalsEnd, Match
<1>2. curr' \in {Tok("EOF")}
  BY <1>1 DEF advance, Upcoming
<1> QED  BY <1>2 DEF Tok

-----------------------------------------------------------------------------
\* What the driver knows of its command line and of the parser, and what it made
\* of that.
Asked == "-h" \in Range(args)

ArgsInv ==
  /\ args \in Seq(ArgWords) /\ next \in Nat \ {0}
  /\ phase = "args" => \A i \in 1..(next - 1) : i \in DOMAIN args => args[i] # "-h"
  /\ phase \in {"read", "compile"} => ~Asked

OutcomeInv ==
  /\ phase \in {"args", "read"} => status = "run"
  /\ phase # "exit" => code = -1
  /\ status = "done" => curr.kind = "EOF"
  /\ phase = "exit" =>
       IF Asked               THEN code = 0 /\ status = "run"
       ELSE IF status = "run" THEN code = 1
       ELSE /\ code = 0 => status = "done" /\ ~ctx.had_error
            /\ code = 1 => ctx.had_error

\* The loop looked at every word.
LEMMA NoneAsked == ASSUME ArgsInv, phase = "args", next = Len(args) + 1 PROVE ~Asked
<1>1. /\ args \in Seq(ArgWords)
      /\ \A i \in 1..(next - 1) : i \in DOMAIN args => args[i] # "-h"
  BY DEF ArgsInv
<1>2. \A i \in DOMAIN args : i \in 1..(next - 1)
  <2>1. args \in Seq(ArgWords)
    BY <1>1
  <2>2. Len(args) \in Nat /\ DOMAIN args = 1..Len(args)
    BY ONLY <2>1
  <2> QED  BY <2>2
<1>3. \A i \in DOMAIN args : args[i] # "-h"
  BY <1>1, <1>2
<1> QED  BY <1>3 DEF Asked, Range

\* What a step does with the command line.
LEMMA ArgSteps ==
  ASSUME DriverNext \/ UNCHANGED allVars
  PROVE  /\ args' = args
         /\ \/ Arg
            \/ ArgsDone
            \/ next' = next /\ phase' \in {phase, "exit"}
            \/ next' = next /\ phase = "read" /\ phase' = "compile"
<1>1. CASE NoArgs \/ Help \/ NoInput \/ ReadFails \/ Finish \/ Killed
  BY <1>1 DEF NoArgs, Help, NoInput, ReadFails, Finish, Killed, Exit, Outside
<1>2. CASE Arg \/ ArgsDone
  BY <1>2 DEF Arg, ArgsDone, Outside
<1>3. CASE ReadFile
  BY <1>3 DEF ReadFile, Outside
<1>4. CASE Compile
  BY <1>4 DEF Compile, driverVars
<1>5. CASE UNCHANGED allVars
  BY <1>5 DEF allVars, driverVars
<1>6. CASE Gone
  BY <1>5, <1>6 DEF Gone
<1> QED  BY <1>1, <1>2, <1>3, <1>4, <1>5, <1>6 DEF DriverNext, Run

LEMMA ArgsKept ==
  ASSUME ArgsInv, DriverNext \/ UNCHANGED allVars PROVE ArgsInv'
<1>1. args' = args /\ (Asked' <=> Asked)
  BY ArgSteps DEF Asked
<1>2. CASE Arg
  <2>1. /\ phase = "args" /\ phase' = phase /\ next \in Nat \ {0} /\ next' = next + 1
        /\ args[next] # "-h" /\ \A i \in 1..(next - 1) : i \in DOMAIN args => args[i] # "-h"
    BY <1>2 DEF Arg, AtArg, ArgsInv
  <2>2. \A i \in 1..(next' - 1) : i = next \/ i \in 1..(next - 1)
    BY <2>1
  <2>3. next' \in Nat \ {0} /\ phase' \notin {"read", "compile"}
    BY <2>1
  <2>4. \A i \in 1..(next' - 1) : i \in DOMAIN args' => args'[i] # "-h"
    BY <1>1, <2>1, <2>2
  <2> QED  BY <1>1, <2>3, <2>4 DEF ArgsInv
<1>3. CASE ArgsDone
  <2>1. phase = "args" /\ phase' = "read" /\ next' = next /\ next = Len(args) + 1
    BY <1>3 DEF ArgsDone
  <2> QED  BY <1>1, <2>1, NoneAsked DEF ArgsInv
<1>4. CASE next' = next /\ phase' \in {phase, "exit"}
  BY <1>1, <1>4 DEF ArgsInv
<1>5. CASE next' = next /\ phase = "read" /\ phase' = "compile"
  BY <1>1, <1>5 DEF ArgsInv
<1> QED  BY <1>2, <1>3, <1>4, <1>5, ArgSteps

\* Without the parser.
Beside == NoArgs \/ Help \/ Arg \/ NoInput \/ ArgsDone \/ ReadFails \/ ReadFile

LEMMA BesideOutcome == ASSUME ArgsInv, OutcomeInv, Beside PROVE OutcomeInv'
<1>1. phase \in {"args", "read"} /\ status = "run" /\ UNCHANGED vars /\ args' = args
  BY DEF OutcomeInv, Beside, NoArgs, Help, AtArg, Arg, NoInput, ArgsDone, ReadFails, ReadFile,
         Outside
<1>2. status' = "run" /\ (Asked' <=> Asked)
  BY <1>1 DEF vars, Asked
<1>3. phase' = "exit" => code' = IF Asked THEN 0 ELSE 1
  <2>1. CASE NoArgs
    BY <2>1 DEF NoArgs, Exit, Asked, Range
  <2>2. CASE Help
    BY <2>2 DEF Help, AtArg, Exit, Asked, Range
  <2>3. CASE NoInput
    BY <2>3, NoneAsked DEF NoInput, Exit
  <2>4. CASE ReadFails
    BY <2>4 DEF ReadFails, Exit, ArgsInv
  <2>5. CASE Arg \/ ArgsDone \/ ReadFile
    BY <2>5 DEF Arg, AtArg, ArgsDone, ReadFile
  <2> QED  BY <2>1, <2>2, <2>3, <2>4, <2>5 DEF Beside
<1>4. phase' = "exit" \/ code' = -1
  BY <1>1 DEF OutcomeInv, Beside, NoArgs, Help, Arg, NoInput, ArgsDone, ReadFails, ReadFile,
         Exit
<1> QED  BY <1>2, <1>3, <1>4 DEF OutcomeInv

LEMMA OutcomeKept ==
  ASSUME LatchInv, StackInv, ArgsInv, OutcomeInv, DriverNext \/ UNCHANGED allVars
  PROVE  OutcomeInv'
<1>1. CASE UNCHANGED allVars
  BY <1>1 DEF allVars, driverVars, vars, lexVars, OutcomeInv, Asked
<1>2. CASE Gone
  BY <1>1, <1>2 DEF Gone
<1>3. CASE Beside
  BY <1>3, BesideOutcome
<1>4. CASE Compile
  <2>1. phase = "compile" /\ phase' = "compile" /\ code' = code /\ Step
    BY <1>4 DEF Compile, driverVars
  <2>2. status' = "done" => curr'.kind = "EOF"
    BY <2>1, ReturnsAtEnd, EndStays
  <2> QED  BY <2>1, <2>2 DEF OutcomeInv
<1>5. CASE Finish
  <2>1. /\ status = "done" /\ status' = status /\ curr' = curr /\ ctx' = ctx /\ ~Asked'
        /\ phase' = "exit" /\ code' = IF ctx.had_error THEN 1 ELSE 0
    BY <1>5 DEF Finish, Exit, Outside, vars, lexVars, ArgsInv, Asked
  <2> QED  BY <2>1 DEF OutcomeInv
<1>6. CASE Killed
  <2>1. status = "crashed" /\ status' = status /\ phase' = "exit" /\ code' = 139 /\ ~Asked'
    BY <1>6 DEF Killed, Exit, Outside, vars, ArgsInv, Asked
  <2> QED  BY <2>1 DEF OutcomeInv
<1> QED  BY <1>1, <1>2, <1>3, <1>4, <1>5, <1>6 DEF DriverNext, Run, Beside

LEMMA OutcomeInvariant == DriverSpec => [](ArgsInv /\ OutcomeInv)
<1>1. DriverInit => ArgsInv /\ OutcomeInv
  <2> SUFFICES ASSUME DriverInit PROVE ArgsInv /\ OutcomeInv
    OBVIOUS
  <2>1. /\ args \in Seq(ArgWords) /\ next = 1 /\ phase = "args"
        /\ code = -1 /\ status = "run"
    BY DriverAssumption DEF DriverInit, Init
  <2>2. next = 1
    BY <2>1
  <2>3. (\A i \in 1..(next - 1) : FALSE) /\ next \in Nat \ {0}
    BY ONLY <2>2
  <2>4. ArgsInv
    BY <2>1, <2>3 DEF ArgsInv
  <2> QED  BY <2>1, <2>4 DEF OutcomeInv
<1>2. ArgsInv /\ [DriverNext]_allVars => ArgsInv'
  BY ArgsKept
<1>3. LatchInv /\ StackInv /\ ArgsInv /\ OutcomeInv /\ [DriverNext]_allVars => OutcomeInv'
  BY OutcomeKept
<1> QED  BY <1>1, <1>2, <1>3, ParserInvariants, PTL DEF DriverSpec

\* For every command line and every file, 0 after compiling is the status of a
\* parse that reached the end of the file with every scope closed and nothing
\* printed, and 1 that of one that said why; without compiling, 0 is the answer to
\* -h wherever it stands, and 1 to everything else (main.c:61-80, 102-136).
THEOREM DriverStatus == DriverSpec => []StatusTellsOutcome
<1>1. LatchInv /\ StackInv /\ OutcomeInv => StatusTellsOutcome
  <2> SUFFICES ASSUME LatchInv, StackInv, OutcomeInv, phase = "exit"
               PROVE  StatusTellsOutcome
    BY DEF StatusTellsOutcome
  <2>1. /\ ctx.had_error => ctx.printed = 1
        /\ ~ctx.had_error => ctx.printed = 0
    BY DEF LatchInv, Later
  <2>2. status = "done" => scopes = <<>>
    BY DEF StackInv
  <2> QED  BY <2>1, <2>2 DEF OutcomeInv, StatusTellsOutcome, Asked
<1> QED  BY <1>1, ParserInvariants, OutcomeInvariant, PTL

-----------------------------------------------------------------------------
\* An error is known, and the process will not hide it.
Alarm == phase \in {"compile", "exit"} /\ ctx.had_error /\ code # 0

LEMMA AlarmStays ==
  ASSUME LatchInv, Alarm, DriverNext \/ UNCHANGED allVars PROVE Alarm'
<1>1. CASE UNCHANGED allVars
  BY <1>1 DEF allVars, driverVars, vars, Alarm
<1>2. CASE Gone
  BY <1>1, <1>2 DEF Gone
<1>3. CASE Beside
  BY <1>3 DEF Alarm, Beside, NoArgs, Help, AtArg, Arg, NoInput, ArgsDone, ReadFails, ReadFile
<1>4. CASE Compile
  BY <1>4, StepAlarm DEF Compile, driverVars, Alarm
<1>5. CASE Finish
  BY <1>5 DEF Finish, Exit, Outside, vars, Alarm
<1>6. CASE Killed
  BY <1>6 DEF Killed, Exit, Outside, vars, Alarm
<1> QED  BY <1>1, <1>2, <1>3, <1>4, <1>5, <1>6 DEF DriverNext, Run, Beside

\* For every file: from the first report, or the first panic, no behaviour of
\* parser and driver leads to the exit status 0 (main.c:78, parser.c:38-50).
THEOREM DriverForgetsNothing == DriverSpec => NoErrorForgotten
<1>1. LatchInv /\ OutcomeInv =>
        (phase = "compile" /\ (ctx.had_error \/ panic_mode) => Alarm)
  BY DEF LatchInv, Later, OutcomeInv, Alarm
<1>2. LatchInv /\ Alarm /\ [DriverNext]_allVars => Alarm'
  BY AlarmStays
<1>3. Alarm => code # 0
  BY DEF Alarm
<1> QED  BY <1>1, <1>2, <1>3, ParserInvariants, OutcomeInvariant, PTL
         DEF DriverSpec, NoErrorForgotten
=============================================================================
