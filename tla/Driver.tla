-------------------------------- MODULE Driver --------------------------------
(***************************************************************************)
(* The program of src/src/main.c around the parser: the argument loop, the *)
(* file, the pipeline and the exit status.  The parser's variables hold    *)
(* what parser_init will find from the start; nothing looks at them before *)
(* the file has been read.                                                 *)
(***************************************************************************)
EXTENDS Parser

\* "-h" stands for --help too, "" for the empty word.
ArgWords == {"-h", "-o", "word", ""}

CONSTANT ArgLists   \* command lines: sequences of words without the program's name

ASSUME DriverAssumption == ArgLists \subseteq Seq(ArgWords)

VARIABLES args, next,  \* the command line, the loop's i
          input,       \* the index of the word in input_file, 0 for NULL
          phase,       \* "args", "read", "compile", "exit"
          code         \* the exit status, -1 while running, 139 for SIGSEGV

driverVars == <<args, next, input, phase, code>>
allVars    == <<vars, driverVars>>

\* The front end has not been touched.
Outside == UNCHANGED <<vars, args>>

Exit(c) == phase' = "exit" /\ code' = c

\* Usage, and nothing else, without arguments (main.c:102-105).
NoArgs ==
  /\ phase = "args" /\ args = <<>> /\ Exit(1)
  /\ Outside /\ UNCHANGED <<next, input>>

AtArg == phase = "args" /\ next \in DOMAIN args

Help == AtArg /\ args[next] = "-h" /\ Exit(0) /\ Outside /\ UNCHANGED <<next, input>>

\* The last word that does not start with a dash is the input; other options,
\* -o among them, are skipped and whatever follows them is a word.
Arg ==
  /\ AtArg /\ args[next] # "-h"
  /\ input' = IF args[next] = "-o" THEN input ELSE next
  /\ next' = next + 1
  /\ Outside /\ UNCHANGED <<phase, code>>

Fault_NothingIsFine ==
  /\ phase = "args" /\ args # <<>> /\ next = Len(args) + 1 /\ input = 0 /\ Exit(0)
  /\ Outside /\ UNCHANGED <<next, input>>

NoInput ==
  /\ phase = "args" /\ args # <<>> /\ next = Len(args) + 1 /\ input = 0 /\ Exit(1)
  /\ Outside /\ UNCHANGED <<next, input>>

ArgsDone ==
  /\ phase = "args" /\ next = Len(args) + 1 /\ input # 0 /\ phase' = "read"
  /\ Outside /\ UNCHANGED <<next, input, code>>

\* No such file, or no memory for it: logged, but not with the reporter.
ReadFails == phase = "read" /\ Exit(1) /\ Outside /\ UNCHANGED <<next, input>>

ReadFile ==
  /\ phase = "read" /\ args[input] # "" /\ phase' = "compile"
  /\ Outside /\ UNCHANGED <<next, input, code>>

\* parser_parse runs.
Compile == phase = "compile" /\ Step /\ UNCHANGED driverVars

Fault_AskParser ==
  /\ phase = "compile" /\ status = "done" /\ Exit(IF panic_mode THEN 1 ELSE 0)
  /\ Outside /\ UNCHANGED <<next, input>>

Fault_CountNodes ==
  /\ phase = "compile" /\ status = "done" /\ Exit(IF globals > 0 THEN 0 ELSE 1)
  /\ Outside /\ UNCHANGED <<next, input>>

\* It returned: run_compile asks the reporter, and main exits with the answer.
Finish ==
  /\ phase = "compile" /\ status = "done" /\ Exit(IF ctx.had_error THEN 1 ELSE 0)
  /\ Outside /\ UNCHANGED <<next, input>>

\* It dereferenced NULL.
Killed ==
  /\ phase = "compile" /\ status = "crashed" /\ Exit(139)
  /\ Outside /\ UNCHANGED <<next, input>>

Gone == phase = "exit" /\ UNCHANGED allVars

DriverInit ==
  /\ Init /\ args \in ArgLists /\ next = 1 /\ input = 0
  /\ phase = "args" /\ code = -1

Run == \/ NoArgs \/ Help \/ Arg \/ NoInput \/ ArgsDone \/ ReadFails \/ ReadFile
       \/ Compile \/ Finish \/ Killed

DriverNext == Run \/ Gone

\* One thread, no wait: the process moves on until it is gone.
DriverSpec     == DriverInit /\ [][DriverNext]_allVars
FairDriverSpec == DriverSpec /\ WF_allVars(Run)

-----------------------------------------------------------------------------
(* Properties.                                                             *)

\* An error is never forgotten: once anything was reported or the parser has
\* been in panic, the process does not exit with 0, however much it recovered
\* and whatever it collected since (main.c:78-80, 131-136; parser.c:411-413).
NoErrorForgotten ==
  [](phase = "compile" /\ (ctx.had_error \/ panic_mode) => [](code # 0))

\* Exit 0 of a process that compiled means that the parser came to its end, with
\* every scope closed, and printed nothing; exit 1, that it said why.  A process
\* that did not get there exits with 0 if help was asked for anywhere on its
\* command line, behind input files and other options too, and never after
\* compiling; with 1 if not: no words, no input, no such file (main.c:61-80,
\* 102-122, 131-136).
StatusTellsOutcome ==
  phase = "exit" =>
    IF "-h" \in Range(args) THEN code = 0 /\ status = "run"
    ELSE IF status = "run"   THEN code = 1
    ELSE /\ code = 0 => status = "done" /\ ctx.printed = 0 /\ curr.kind = "EOF" /\ scopes = <<>>
         /\ code = 1 => ctx.printed > 0

\* The process comes to its end, whatever the file: no loop of the parser or of
\* its recovery spins without reading (parser.c:78-98, 409-455, 717-764,
\* 852-876), and nothing after it waits.
Exits == <>(phase = "exit")

\* The usage text: the word after -o is the output file.  So it must not be
\* compiled.
OutputNotCompiled ==
  phase = "compile" => input = 1 \/ args[input - 1] # "-o"
=============================================================================
