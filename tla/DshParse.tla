------------------------------ MODULE DshParse ------------------------------
(***************************************************************************)
(* How the three local shells of the course take a line apart: the parsers *)
(* of 3-ShellP1, 4-ShellP2 and 5-ShellP3 (6-RShell has 5-ShellP3's).       *)
(*                                                                         *)
(* A line is a sequence of symbols: the separators and marks the parsers   *)
(* look for and, as symbols of their own, the words of programs and files. *)
(* Words without a blank between them are one argument.  The parsers of    *)
(* 4-ShellP2 and 5-ShellP3 work in place: an argument is a pointer into    *)
(* the buffer, its text goes on to the next NUL byte, and a byte that is   *)
(* overwritten by a NUL cuts whatever argument runs over it.  Position     *)
(* Len(line) + 1 is the NUL at the end, beyond it is what earlier lines    *)
(* have left in the buffer.                                                *)
(***************************************************************************)
EXTENDS Naturals, FiniteSets, SequencesExt

CONSTANTS
  CmdMax,    \* CMD_MAX, the most commands of a pipeline
  ArgvMax,   \* CMD_ARGV_MAX, the size of argv
  ExeMax     \* EXE_MAX, the size of a command's name in 3-ShellP1

ASSUME BoundsAssumption == {CmdMax, ArgvMax, ExeMax} \subseteq Nat \ {0, 1}

Blank == " "
Quote == "\""
Junk == <<"leftover">>
None == <<"none">>       \* a redirection that is not there

(* The members of a finite set of numbers, the least first. *)
InOrder(S) == [k \in 1..Cardinality(S) |-> CHOOSE i \in S : Cardinality({j \in S : j <= i}) = k]

(* What strtok_r() returns one after the other: the longest pieces without sep. *)
Starts(s, sep) == {i \in 1..Len(s) : s[i] # sep /\ (i = 1 \/ s[i - 1] = sep)}
Tokens(s, sep) ==
  LET Piece(i) == SubSeq(s, i, Min({j \in i..Len(s) : s[j] = sep} \cup {Len(s) + 1}) - 1)
  IN [k \in 1..Cardinality(Starts(s, sep)) |-> Piece(InOrder(Starts(s, sep))[k])]

-----------------------------------------------------------------------------
(***************************************************************************)
(* 3-ShellP1: the name and the arguments of every command, as an argv.      *)
(***************************************************************************)
NoLeading(s) == SubSeq(s, Min({i \in DOMAIN s : s[i] # Blank} \cup {Len(s) + 1}), Len(s))

(* The segment is copied into exe, EXE_MAX bytes, and runs on into args, which keeps *)
(* the excess, all blanks, of a command without arguments.                           *)
Command(segment) ==
  LET exe == NoLeading(segment)
      words == Tokens(exe, Blank)
      excess == IF Len(exe) > ExeMax THEN <<SubSeq(exe, ExeMax + 1, Len(exe))>> ELSE <<>>
  IN CASE Len(words) = 0 -> [argv |-> <<<<>>>>]
       [] Len(words) = 1 -> [argv |-> words \o excess]
       [] OTHER -> [argv |-> words]

NoList(code) == [rc |-> code, commands |-> <<>>]

(* split_commands() and build_cmd_list(): a segment of blanks is a command without a *)
(* name.  That the arguments are too long cannot happen, as fgets() takes ARG_MAX.   *)
SplitLine(line) ==
  LET segments == Tokens(line, "|")
      commands == [i \in DOMAIN segments |-> Command(segments[i])]
  IN CASE Len(segments) > CmdMax -> NoList("ERR_TOO_MANY_COMMANDS")
       [] Len(segments) <= CmdMax /\ \E i \in DOMAIN commands : Len(commands[i].argv[1]) >= ExeMax ->
            NoList("ERR_CMD_OR_ARGS_TOO_BIG")
       [] OTHER -> [rc |-> IF commands = <<>> THEN "WARN_NO_CMDS" ELSE "OK", commands |-> commands]

-----------------------------------------------------------------------------
(***************************************************************************)
(* The buffer of 4-ShellP2 and 5-ShellP3: nul holds the positions that     *)
(* were overwritten, argv the positions where arguments start.             *)
(***************************************************************************)
Char(line, nul, p) == IF p \in nul \/ p > Len(line) THEN "NUL" ELSE line[p]
Text(line, nul, p) ==
  IF p > Len(line) + 1 THEN Junk
  ELSE SubSeq(line, p, Min({q \in p..Len(line) + 1 : Char(line, nul, q) = "NUL"}) - 1)

Scan == [start |-> 0, token |-> 1, quoted |-> FALSE, argv |-> <<>>, nul |-> {},
         in |-> None, out |-> None, append |-> FALSE]
Push(r) == [r EXCEPT !.argv = Append(@, r.start)]
Cut(r, p) == [r EXCEPT !.nul = @ \cup {p}]

Parsed(line, r) ==
  [argv |-> [i \in DOMAIN r.argv |-> Text(line, r.nul, r.argv[i])],
   in |-> r.in, out |-> r.out, append |-> r.append]

(* 4-ShellP2; start 0 is a null pointer. *)
StepP2(line, r, p) ==
  LET c == line[p] IN
  CASE c = Quote /\ ~r.quoted -> [r EXCEPT !.quoted = TRUE, !.start = p + 1]
    [] c = Quote /\ r.quoted -> [Push(Cut(r, p)) EXCEPT !.quoted = FALSE, !.start = 0]
    [] c = Blank /\ ~r.quoted ->
         IF r.start # 0 THEN [Push(Cut(r, p)) EXCEPT !.start = 0] ELSE r
    [] OTHER -> IF r.start = 0 THEN [r EXCEPT !.start = p] ELSE r

(* Mutant: append_output is set to what follows this very ">". *)
AppendFlagFresh(flag, appends) == appends

(* append_output is set and not reset: the second ">" of ">>", which the loop meets again *)
(* as a redirection of its own, leaves it.                                                *)
AppendFlag(flag, appends) == flag \/ appends

(* Mutant: no NUL is put over the mark. *)
RedirectUncut(line, r, p, mark) ==
  LET appends == mark = "out" /\ Char(line, r.nul, p + 1) = ">"
      from == IF appends THEN p + 2 ELSE p + 1
      first == Min({q \in from..Len(line) + 1 : Char(line, r.nul, q) # Blank})
      behind == Min({q \in first..Len(line) + 1 : Char(line, r.nul, q) \in {Blank, "NUL"}})
      file == Text(line, r.nul \cup {behind}, first)
      s == [Cut(Push(r), behind) EXCEPT !.start = behind + 1]
  IN IF mark = "in" THEN [s EXCEPT !.in = file]
     ELSE [s EXCEPT !.out = file, !.append = AppendFlag(@, appends)]

(* The name behind < or >: the blanks before it are skipped, a NUL is put behind it. *)
Redirect(line, r, p, mark) ==
  LET appends == mark = "out" /\ Char(line, r.nul, p + 1) = ">"
      from == IF appends THEN p + 2 ELSE p + 1
      first == Min({q \in from..Len(line) + 1 : Char(line, r.nul, q) # Blank})
      behind == Min({q \in first..Len(line) + 1 : Char(line, r.nul, q) \in {Blank, "NUL"}})
      file == Text(line, r.nul \cup {behind}, first)
      s == [Cut(Push(Cut(r, p)), behind) EXCEPT !.start = behind + 1]
  IN IF mark = "in" THEN [s EXCEPT !.in = file]
     ELSE [s EXCEPT !.out = file, !.append = AppendFlag(@, appends)]

(* Mutant: "start" stays where it was after a blank. *)
StepP3Sticks(line, r, p) ==
  LET c == line[p] IN
  CASE c = Quote /\ ~r.quoted -> [r EXCEPT !.quoted = TRUE, !.start = p + 1]
    [] c = Quote /\ r.quoted -> [Push(Cut(r, p)) EXCEPT !.quoted = FALSE, !.start = p + 1]
    [] c = Blank /\ ~r.quoted ->
         IF r.start # p THEN [Push(Cut(r, p)) EXCEPT !.start = p + 1] ELSE r
    [] c = "<" /\ ~r.quoted -> Redirect(line, r, p, "in")
    [] c = ">" /\ ~r.quoted -> Redirect(line, r, p, "out")
    [] OTHER -> r

(* 5-ShellP3.  The token stays behind when a redirection has moved start on. *)
StepP3(line, r, p) ==
  LET c == line[p] IN
  CASE c = Quote /\ ~r.quoted -> [r EXCEPT !.quoted = TRUE, !.start = p + 1]
    [] c = Quote /\ r.quoted -> [Push(Cut(r, p)) EXCEPT !.quoted = FALSE, !.start = p + 1]
    [] c = Blank /\ ~r.quoted ->
         [(IF r.start # p THEN Push(Cut(r, p)) ELSE r) EXCEPT !.start = p + 1]
    [] c = "<" /\ ~r.quoted -> Redirect(line, r, p, "in")
    [] c = ">" /\ ~r.quoted -> Redirect(line, r, p, "out")
    [] OTHER -> r

(* One step for every symbol of the line while fewer than limit arguments are found, *)
(* up to the first NUL: where the scan is after the first n symbols.                  *)
ScanUpTo(line, parser, base, limit) ==
  LET scan[n \in 0..Len(line)] ==
        IF n = 0 THEN base
        ELSE LET r == scan[n - 1] IN
             IF r.token = n /\ Char(line, r.nul, n) # "NUL" /\ Len(r.argv) < limit
             THEN [(IF parser = "P2" THEN StepP2(line, r, n) ELSE StepP3(line, r, n)) EXCEPT !.token = n + 1]
             ELSE r
  IN scan
ScanLine(line, parser, base, limit) == ScanUpTo(line, parser, base, limit)[Len(line)]

(* All ArgvMax places may be taken; the NULL behind them is the shell's business. *)
BuildCmdBuffP2(typed) ==
  LET line == NoLeading(typed)
      r == ScanLine(line, "P2", Scan, ArgvMax)
  IN Parsed(line, IF r.start # 0 /\ Char(line, r.nul, r.start) # "NUL" /\ Len(r.argv) < ArgvMax
                  THEN Push(r) ELSE r)

(* old: the redirections of the command buffer before the line is parsed into it. *)
BuildCmdBuffP3(typed, old) ==
  LET line == NoLeading(typed)
      base == [Scan EXCEPT !.start = 1, !.in = old.in, !.out = old.out, !.append = old.append]
      r == ScanLine(line, "P3", base, ArgvMax - 1)
  IN Parsed(line, IF r.start < r.token /\ Char(line, r.nul, r.start) # "NUL" /\ Len(r.argv) < ArgvMax - 1
                  THEN Push(r) ELSE r)

(* build_cmd_list() of 5-ShellP3: a blank segment is skipped, every command has a new  *)
(* buffer, the limit is reached when something is left after CmdMax commands.          *)
BuildCmdListP3(line) ==
  LET segments == Tokens(line, "|")
      full == InOrder({i \in DOMAIN segments : NoLeading(segments[i]) # <<>>})
      new == [in |-> None, out |-> None, append |-> FALSE]
  IN IF Len(full) >= CmdMax /\ full[CmdMax] < Len(segments) THEN NoList("ERR_TOO_MANY_COMMANDS")
     ELSE [rc |-> IF full = <<>> THEN "WARN_NO_CMDS" ELSE "OK",
           commands |-> [k \in DOMAIN full |-> BuildCmdBuffP3(segments[full[k]], new)]]
=============================================================================
