------------------------------ MODULE DshShell ------------------------------
(***************************************************************************)
(* The local shells: the loop of 3-ShellP1's main(), and of                *)
(* exec_local_cmd_loop() in 4-ShellP2 and 5-ShellP3 (6-RShell runs the     *)
(* latter without -s or -c).  One step takes one line, with the process it *)
(* starts: the shell waits for it.  What a pipeline's processes do while   *)
(* the shell waits is the subject of the module Pipeline.                  *)
(*                                                                         *)
(* The programs: "echo" writes its arguments, "cat" the contents of the    *)
(* files it is given or else of its standard input.  Other words are no    *)
(* programs.  "d" is a directory in the first one, every other name can be *)
(* a file, with or without "./" before it.                                 *)
(***************************************************************************)
EXTENDS DshParse, Integers

CONSTANTS
  Versions,    \* which of the shells "P1", "P2", "P3"
  FirstLines,  \* the lines the first may be
  LaterLines,  \* the lines that may follow
  MaxLines,    \* bound: lines typed
  Faults       \* pipe() and fork() may fail

ASSUME VersionsAssumption == Versions \subseteq {"P1", "P2", "P3"}
ASSUME LinesAssumption ==
  FirstLines \cup LaterLines \subseteq Seq(STRING) /\ MaxLines \in Nat /\ Faults \in BOOLEAN

VARIABLES
  version,   \* which shell it is; stays as it is
  status,    \* "starts", "prompt", "ended", "crashed"
  line,      \* the lines typed so far
  list,      \* what the parser made of the last line that reached it
  cmd,       \* the command buffer of P2 and P3, see Parsed()
  buffer,    \* cmd._cmd_buffer is not NULL
  rc,        \* rc of the loop
  last,      \* P2: last_return_code
  cwd,       \* the shell's directory
  files,     \* the contents of the files there are, by directory and name
  zombies    \* children nobody has waited for

vars == <<version, status, line, list, cmd, buffer, rc, last, cwd, files, zombies>>

Dir == <<"d">>
EmptyCmd == [argv |-> <<>>, in |-> None, out |-> None, append |-> FALSE]
Name(c) == IF c.argv = <<>> THEN <<>> ELSE c.argv[1]
Runs(name) == name \in {<<"echo">>, <<"cat">>}

(* Two names can be one file: "./" before a name changes nothing. *)
Bare(name) == IF Len(name) > 2 /\ SubSeq(name, 1, 2) = <<".", "/">> THEN SubSeq(name, 3, Len(name)) ELSE name
Place(name) == <<cwd, Bare(name)>>
IsDir(place) == place = <<<<>>, Dir>>

-----------------------------------------------------------------------------
(***************************************************************************)
(* exec_cmd() of 5-ShellP3: the child, from fork() to the end of its       *)
(* program.                                                                *)
(***************************************************************************)
(* open() of the output file with O_CREAT and O_APPEND or O_TRUNC. *)
Opened(c) ==
  LET out == Place(c.out) IN
  IF c.out = None THEN files
  ELSE [p \in DOMAIN files \cup {out} |->
          IF p = out /\ (~c.append \/ p \notin DOMAIN files) THEN <<>> ELSE files[p]]

(* What the program writes, when the files are as in f: a file that is its output, by *)
(* whatever name, is refused by cat, and a directory cannot be read.                  *)
Output(c, f) ==
  LET Contents(n) == IF Place(n) \in DOMAIN f /\ Place(n) # Place(c.out) THEN f[Place(n)] ELSE <<>>
  IN CASE Name(c) = <<"echo">> -> Tail(c.argv)
       [] Name(c) # <<"echo">> /\ Len(c.argv) > 1 ->
            FlattenSeq([i \in 1..Len(c.argv) - 1 |-> Contents(c.argv[i + 1])])
       [] OTHER -> IF c.in = None THEN <<>> ELSE Contents(c.in)

(* The tests before execvp(): the names are compared, not the files, and open() takes a  *)
(* directory for reading.  Nothing is opened for writing when a test fails.              *)
CanRedirect(c) ==
  /\ c.in = None \/ c.in # c.out
  /\ c.in # None => Place(c.in) \in DOMAIN files \/ IsDir(Place(c.in))
  /\ c.out # <<>> /\ ~IsDir(Place(c.out))

(* The output file has been opened when execvp() fails. *)
After(c) ==
  IF ~CanRedirect(c) THEN files
  ELSE IF c.out = None \/ ~Runs(Name(c)) THEN Opened(c)
  ELSE [Opened(c) EXCEPT ![Place(c.out)] = @ \o Output(c, Opened(c))]

(* Mutant: the wait status is taken as it is, without WEXITSTATUS. *)
ExitStatusRaw(c) ==
  CASE c.argv = <<>> -> {-1}
    [] Runs(Name(c)) -> {-1, 0, 256}
    [] OTHER -> {126 * 256, 127 * 256}

(* What waitpid() of 4-ShellP2 may tell: the program's status or that of a failed     *)
(* execvp(), or -1 for a signal, as in a child that has no name to execute.           *)
ExitStatus(c) ==
  CASE c.argv = <<>> -> {-1}
    [] Runs(Name(c)) -> {-1, 0, 1}
    [] OTHER -> {126, 127}

-----------------------------------------------------------------------------
(***************************************************************************)
(* The loop.                                                               *)
(***************************************************************************)
Typed(l, v) ==
  /\ status = "prompt" /\ version = v /\ Len(line) < MaxLines
  /\ line' = Append(line, l)
  /\ UNCHANGED version
Loops(code) == rc' = code /\ UNCHANGED status
Ends(code) == rc' = code /\ status' = "ended"
NothingRun == UNCHANGED <<files, last, cwd, zombies>>
NoParse == UNCHANGED <<list, cmd, buffer>>

(* The buffers are allocated, or not. *)
Start ==
  /\ status = "starts"
  /\ \/ status' = "prompt" /\ UNCHANGED rc
     \/ version # "P1" /\ Ends("ERR_MEMORY")
  /\ UNCHANGED <<version, line>> /\ NoParse /\ NothingRun

(* fgets() finds the end of the input. *)
EndOfInput ==
  /\ status = "prompt"
  /\ Ends(rc)
  /\ UNCHANGED <<version, line>> /\ NoParse /\ NothingRun

(* 3-ShellP1: the line is taken apart and shown, or ends the loop when it is "exit". *)
ShowP1(l) ==
  /\ Typed(l, "P1")
  /\ IF l = <<"exit">> THEN Ends(rc) /\ UNCHANGED list
     ELSE list' = SplitLine(l) /\ Loops(list'.rc)
  /\ NothingRun /\ UNCHANGED <<cmd, buffer>>

(* An empty line, which P3 skips, or a blank one: no parser goes on. *)
NoCommand(l) ==
  /\ Typed(l, version) /\ version # "P1" /\ NoLeading(l) = <<>>
  /\ IF version = "P3" /\ l = <<>> THEN Loops(rc) ELSE Loops("WARN_NO_CMDS")
  /\ NothingRun /\ NoParse

(* 4-ShellP2: strcpy() to the command buffer, which may be gone. *)
CrashP2(l) ==
  /\ Typed(l, "P2") /\ NoLeading(l) # <<>> /\ ~buffer
  /\ status' = "crashed"
  /\ UNCHANGED rc /\ NothingRun /\ NoParse

(* Mutant: the NULL is put one place further on. *)
SurvivesLess(c) == Len(c.argv) < ArgvMax - 1

(* The NULL behind the last argument is written over _cmd_buffer when argv is full. *)
Survives(c) == Len(c.argv) < ArgvMax

ParseP2(l, c) ==
  /\ Typed(l, "P2") /\ NoLeading(l) # <<>> /\ buffer
  /\ c = BuildCmdBuffP2(l)
  /\ buffer' = Survives(c)
  /\ list' = [rc |-> "OK", commands |-> <<c>>]

(* chdir() to the first argument. *)
ChangesDir(c) == cwd' = IF Len(c.argv) > 1 /\ Bare(c.argv[2]) = Dir THEN Dir ELSE cwd

BuiltInsP2 == {<<"exit">>, <<"cd">>, <<"rc">>, <<"dragon">>}

(* exec_built_in_cmd(): the command buffer is not cleared. *)
BuiltInP2(l) ==
  LET c == BuildCmdBuffP2(l) IN
  /\ ParseP2(l, c) /\ Name(c) \in BuiltInsP2
  /\ cmd' = c
  /\ IF Name(c) = <<"exit">> THEN Ends("OK_EXIT") ELSE Loops("OK")
  /\ IF Name(c) = <<"cd">> THEN ChangesDir(c) ELSE UNCHANGED cwd
  /\ UNCHANGED <<files, last, zombies>>

(* fork(), execvp() and waitpid(), or fork() fails; then clear_cmd_buff(). *)
ExternalP2(l) ==
  LET c == BuildCmdBuffP2(l) IN
  /\ ParseP2(l, c) /\ Name(c) \notin BuiltInsP2
  /\ cmd' = EmptyCmd
  /\ \/ Loops("OK") /\ last' \in ExitStatus(c)
     \/ Faults /\ Loops("ERR_EXEC_CMD") /\ UNCHANGED last
  /\ UNCHANGED <<files, cwd, zombies>>

(* 5-ShellP3: the redirections that are in the command buffer already stay there unless *)
(* the line has others.                                                                 *)
ParseP3(l) ==
  /\ Typed(l, "P3") /\ NoLeading(l) # <<>> /\ ~Contains(l, "|")
  /\ cmd' = BuildCmdBuffP3(l, cmd)
  /\ list' = [rc |-> "OK", commands |-> <<cmd'>>]
  /\ UNCHANGED <<buffer, last, zombies>>

IsBuiltIn(c) == Name(c) \in {<<"exit">>, <<"cd">>}

BuiltInP3(l) ==
  /\ ParseP3(l) /\ IsBuiltIn(cmd')
  /\ \/ Name(cmd') = <<"exit">> /\ Ends("OK_EXIT") /\ UNCHANGED cwd
     \/ Name(cmd') = <<"cd">> /\ Loops("OK") /\ ChangesDir(cmd')
  /\ UNCHANGED files

ExternalP3(l) ==
  /\ ParseP3(l) /\ ~IsBuiltIn(cmd')
  /\ \/ Loops("OK") /\ files' = After(cmd')
     \/ Faults /\ Loops("ERR_EXEC_CMD") /\ UNCHANGED files
  /\ UNCHANGED cwd

(* A line with pipes: its commands have buffers of their own. *)
ParseListP3(l) ==
  /\ Typed(l, "P3") /\ NoLeading(l) # <<>> /\ Contains(l, "|")
  /\ list' = BuildCmdListP3(l)
  /\ UNCHANGED <<cmd, buffer, last>>

NotRun(l) ==
  /\ ParseListP3(l) /\ list'.rc # "OK"
  /\ Loops(list'.rc)
  /\ UNCHANGED <<files, cwd, zombies>>

(* One command and an empty segment: it is run as a line of its own would be. *)
SingleP3(l) ==
  /\ ParseListP3(l) /\ Len(list'.commands) = 1
  /\ LET c == list'.commands[1] IN
     \/ Name(c) = <<"exit">> /\ Ends("OK_EXIT") /\ UNCHANGED <<files, cwd>>
     \/ Name(c) = <<"cd">> /\ Loops("OK") /\ ChangesDir(c) /\ UNCHANGED files
     \/ ~IsBuiltIn(c) /\ Loops("OK") /\ files' = After(c) /\ UNCHANGED cwd
     \/ ~IsBuiltIn(c) /\ Faults /\ Loops("ERR_EXEC_CMD") /\ UNCHANGED <<files, cwd>>
  /\ UNCHANGED zombies

(* The loop over the commands comes to command i without meeting a built-in. *)
NoBuiltInBefore(commands, i) == \A j \in 1..i - 1 : ~IsBuiltIn(commands[j])

(* exec_pipeline(): redirections are not looked at. *)
PipelineRuns(l) ==
  /\ ParseListP3(l) /\ Len(list'.commands) > 1
  /\ NoBuiltInBefore(list'.commands, Len(list'.commands) + 1)
  /\ Loops("OK")
  /\ UNCHANGED <<files, cwd, zombies>>

(* A built-in of a pipeline is run, cd with its effect, before it is refused; the *)
(* children forked before it are not waited for.                                  *)
PipelineMeets(l) ==
  /\ ParseListP3(l) /\ Len(list'.commands) > 1
  /\ \E first \in 1..Len(list'.commands) :
     LET c == list'.commands[first]
     IN /\ IsBuiltIn(c) /\ NoBuiltInBefore(list'.commands, first)
        /\ IF first = 1 /\ Name(c) = <<"exit">> THEN Ends("OK_EXIT") ELSE Loops("ERR_EXEC_CMD")
        /\ IF Name(c) = <<"cd">> THEN ChangesDir(c) ELSE UNCHANGED cwd
        /\ zombies' = zombies + first - 1
  /\ UNCHANGED files

(* pipe() or fork() fails, before the first built-in. *)
PipelineFails(l) ==
  /\ Faults /\ ParseListP3(l) /\ Len(list'.commands) > 1
  /\ Loops("ERR_EXEC_CMD")
  /\ \E forked \in 0..Len(list'.commands) - 1 :
       NoBuiltInBefore(list'.commands, forked + 1) /\ zombies' = zombies + forked
  /\ UNCHANGED <<files, cwd>>

-----------------------------------------------------------------------------
Init ==
  /\ version \in Versions
  /\ status = "starts" /\ line = <<>> /\ rc = "OK" /\ list = NoList("OK")
  /\ cmd = EmptyCmd /\ buffer = TRUE /\ last = 0
  /\ cwd = <<>> /\ files = [p \in {<<<<>>, <<"f">>>>} |-> <<<<"text">>>>] /\ zombies = 0

Next ==
  \/ Start \/ EndOfInput
  \/ \E l \in IF line = <<>> THEN FirstLines ELSE LaterLines :
       \/ ShowP1(l) \/ NoCommand(l)
       \/ CrashP2(l) \/ BuiltInP2(l) \/ ExternalP2(l)
       \/ BuiltInP3(l) \/ ExternalP3(l)
       \/ NotRun(l) \/ SingleP3(l) \/ PipelineRuns(l) \/ PipelineMeets(l) \/ PipelineFails(l)

Spec == Init /\ [][Next]_vars

-----------------------------------------------------------------------------
TypeOK ==
  /\ version \in Versions /\ status \in {"starts", "prompt", "ended", "crashed"}
  /\ rc \in {"OK", "OK_EXIT", "WARN_NO_CMDS", "ERR_TOO_MANY_COMMANDS",
             "ERR_CMD_OR_ARGS_TOO_BIG", "ERR_MEMORY", "ERR_EXEC_CMD"}
  /\ Len(list.commands) <= CmdMax
  /\ version # "P1" => \A i \in DOMAIN list.commands :
                         Len(list.commands[i].argv) <= IF version = "P2" THEN ArgvMax ELSE ArgvMax - 1
  /\ last \in -1..255 /\ cwd \in {<<>>, Dir} /\ zombies \in Nat

(* How a user writes an argument: in quotes when it is empty or has a blank. *)
Quoted(a) == a = <<>> \/ Contains(a, Blank)
Written(argv) ==
  FlattenSeq([i \in DOMAIN argv |->
                (IF i = 1 THEN <<>> ELSE <<Blank>>)
                \o (IF Quoted(argv[i]) THEN <<Quote>> \o argv[i] \o <<Quote>> ELSE argv[i])])

WrittenArgs == {<<"echo">>, <<"f">>, <<"f", Blank, "d">>, <<>>}
WrittenLine == [argv \in UNION {[1..n -> WrittenArgs] : n \in 1..ArgvMax + 1} |-> Written(argv)]

(* The command that is run has the arguments the user wrote, as many as argv can   *)
(* hold (build_cmd_buff()); 3-ShellP1 knows no quotes.                             *)
ArgumentsArrive ==
  \A argv \in DOMAIN WrittenLine :
    (/\ line # <<>> /\ status = "prompt" /\ Last(line) = WrittenLine[argv]
     /\ version = "P1" => ~\E i \in DOMAIN argv : Quoted(argv[i]))
    => LET room == CASE version = "P1" -> Len(argv) [] version = "P2" -> ArgvMax [] OTHER -> ArgvMax - 1
       IN list.commands[1].argv = SubSeq(argv, 1, IF Len(argv) < room THEN Len(argv) ELSE room)

(* 4-ShellP2 loses its command buffer, and crashes at the next command, after a     *)
(* line with CMD_ARGV_MAX words (dshlib.c:105, 132) and after no other: nothing else *)
(* a user types without quotes takes the shell down.                                *)
CrashAfterFullLine ==
  (~buffer \/ status = "crashed") /\ (\A i \in DOMAIN line : ~Contains(line[i], Quote))
  => version = "P2" /\ \E i \in DOMAIN line : Len(Tokens(line[i], Blank)) >= ArgvMax

(* ">>" takes nothing from a file (dshlib.c:115-129): as long as every ">" a user    *)
(* types is part of one, what a file has stays at its beginning.                      *)
Appending(l) ==
  \A i \in DOMAIN l : l[i] = ">" => (i > 1 /\ l[i - 1] = ">") \/ (i < Len(l) /\ l[i + 1] = ">")
AppendKeeps ==
  [][ (\A i \in DOMAIN line' : Appending(line'[i]))
      => \A p \in DOMAIN files : IsPrefix(files[p], files'[p]) ]_vars

(* A redirection typed without blanks behind an argument that needs no quotes leaves *)
(* the arguments as they are and names the file (dshlib.c:115-129); behind a blank or *)
(* a quote it leaves an empty argument, and the file's name may become one.           *)
Redirected(argv) == WrittenLine[argv] \o <<">", "f">>
RedirectedArrive ==
  \A argv \in DOMAIN WrittenLine :
    /\ version = "P3" /\ line # <<>> /\ status = "prompt" /\ Last(line) = Redirected(argv)
    /\ Len(argv) < ArgvMax /\ ~Quoted(Last(argv))
    => list.commands[1].argv = argv /\ list.commands[1].out = <<"f">>

(* A command without a redirection reads and writes the terminal, as "cat out.txt"  *)
(* in 5-ShellP3/readme.md:101-102 does after "> out.txt".                           *)
RedirectionsOfTheLine ==
  \A i \in DOMAIN list.commands :
    version = "P3" /\ ~Contains(Last(line), "<") /\ ~Contains(Last(line), ">")
    => list.commands[i].in = None /\ list.commands[i].out = None
=============================================================================
