------------------------------ MODULE FileDemos ------------------------------
(***************************************************************************)
(* The programs of the demos that move bytes from one place to another:    *)
(*   "sc"      file-cp-sc.c, a copy with read() and write()                *)
(*   "libc"    file-cp-libc.c, a copy with fread() and fwrite()            *)
(*   "memmap"  file-cp-memmap.c, a copy between two mapped files           *)
(*   "async"   file-read-async.c, one aio_read() that is waited for in a   *)
(*             loop                                                        *)
(*   "fifo"    pipe-writer.c, run in several terminals, and pipe-reader.c  *)
(*                                                                         *)
(* Byte i of the input file is the number i; 0 is what malloc() left in    *)
(* the buffer and, in the FIFO, the byte at the end of a string.           *)
(***************************************************************************)
EXTENDS Integers, FiniteSets, SequencesExt

CONSTANTS
  Programs,     \* the programs that are run
  Sizes,        \* sizes of the input file
  Arguments,    \* what atoi() makes of the argument, the buffer's size
  IntMax,       \* the largest int
  Writers,      \* the terminals in which pipe-writer is run
  Lines,        \* the lines typed at them, as sequences of bytes
  MaxLines,     \* bound: lines typed
  Capacity,     \* what the FIFO holds
  ReadSize,     \* sizeof(buffer) of pipe-reader
  MaxFaults     \* bound: calls that fail

ASSUME ProgramsAssumption == Programs \subseteq {"sc", "libc", "memmap", "async", "fifo"}
ASSUME SizesAssumption ==
  /\ IntMax \in Nat /\ Sizes \subseteq Nat /\ Arguments \subseteq -(IntMax + 1)..IntMax
  /\ {Capacity, MaxLines, MaxFaults} \subseteq Nat /\ ReadSize \in Nat \ {0}
ASSUME LinesAssumption == \A l \in Lines : l \in Seq(Nat \ {0}) /\ Len(l) < ReadSize

VARIABLES
  program,   \* the program, the size of the file and the argument stay as they are
  size, arg,
  pc,        \* where the copy is, or the reader of the FIFO
  pos,       \* the offset in the input file
  buff,      \* the buffer, <<>> when it is not allocated
  dest,      \* the output file
  aio,       \* the transfer of aio_read(): "none", "running", "finished" or "failed"
  overrun,   \* a transfer wrote into a buffer that had been freed
  made,      \* the FIFO has been made at its path
  fifo,      \* the bytes in the FIFO
  writers,   \* the writers that have it open
  typed,     \* lines typed so far
  sent,      \* the messages the FIFO has taken
  lost,      \* those of them that went with the last writer, before there was a reader
  shown,     \* the messages the reader has printed
  cut,       \* a read() ended within a message
  faults     \* failed calls so far

copy == <<pos, buff, dest>>
queue == <<made, fifo, writers, typed, sent, lost, shown, cut>>
given == <<program, size, arg>>
vars == <<given, pc, copy, aio, overrun, queue, faults>>

Smaller(a, b) == IF a < b THEN a ELSE b
Input == [i \in 1..size |-> i]
(* What is left of a number that is stored in an int. *)
ToInt(n) == ((n + IntMax + 1) % (2 * (IntMax + 1))) - (IntMax + 1)
(* An argument that is no number is 0, for which the default is taken. *)
Bsz == IF arg = 0 THEN 1 ELSE arg
(* What read() puts into the buffer when n bytes are left: the rest stays as it was. *)
Filled(n) == [i \in 1..Bsz |-> IF i <= n THEN pos + i ELSE buff[i]]

Fault == faults < MaxFaults /\ faults' = faults + 1
Goes(from, to) == pc = from /\ pc' = to /\ UNCHANGED given
Stays == UNCHANGED <<aio, overrun>> /\ UNCHANGED queue

-----------------------------------------------------------------------------
(***************************************************************************)
(* The copies.                                                             *)
(***************************************************************************)
(* main() up to the loop: the buffer, the input file, the output file. *)
Starts ==
  /\ arg >= 0 /\ Goes("start", "read")
  /\ buff' = [i \in 1..Bsz |-> 0] /\ dest' = <<>>
  /\ UNCHANGED <<pos, faults>> /\ Stays

(* A negative size is a huge one to malloc(), which fails; or it fails otherwise, or an *)
(* open() does, and the output may have been emptied by then.                            *)
StartsNot ==
  /\ Goes("start", "failed")
  /\ \/ arg < 0 /\ UNCHANGED <<dest, faults>>
     \/ Fault /\ dest' \in {dest, <<>>}
  /\ UNCHANGED <<pos, buff>> /\ Stays

OpenFiles == program \in {"sc", "libc"} /\ (Starts \/ StartsNot)

(* Read a block; nothing left, or an error, ends the loop. *)
ReadSc ==
  LET n == Smaller(Bsz, size - pos) IN
  /\ program = "sc"
  /\ \/ n > 0 /\ Goes("read", "write") /\ UNCHANGED faults
     \/ n = 0 /\ Goes("read", "done") /\ UNCHANGED faults
     \/ Goes("read", "done") /\ Fault
  /\ pos' = IF faults' > faults THEN pos ELSE pos + n
  /\ buff' = IF faults' > faults THEN buff ELSE Filled(n)
  /\ UNCHANGED dest /\ Stays

(* Mutant: only whole blocks are written. *)
WriteScWhole ==
  /\ program = "sc" /\ Goes("write", "read")
  /\ dest' = IF pos % Bsz = 0 THEN dest \o buff ELSE dest
  /\ UNCHANGED <<pos, buff, faults>> /\ Stays

(* The whole buffer is written however much has been read; the result that is tested *)
(* for an error is read()'s, and a write() that is short ends the loop.               *)
WriteSc ==
  /\ program = "sc"
  /\ \/ Goes("write", "read") /\ dest' = dest \o buff /\ UNCHANGED faults
     \/ /\ Goes("write", "done") /\ Fault
        /\ \E n \in 0..(Bsz - 1) : dest' = dest \o SubSeq(buff, 1, n)
  /\ UNCHANGED <<pos, buff>> /\ Stays

(* fread() of one item of bsz bytes: 0 when there are fewer left. *)
ReadLibc ==
  /\ program = "libc"
  /\ \/ size - pos >= Bsz /\ Goes("read", "write") /\ UNCHANGED faults
     \/ size - pos < Bsz /\ Goes("read", "done") /\ UNCHANGED faults
     \/ Goes("read", "done") /\ Fault
  /\ IF pc' = "write" THEN pos' = pos + Bsz /\ buff' = Filled(Bsz) ELSE UNCHANGED <<pos, buff>>
  /\ UNCHANGED dest /\ Stays

WriteLibc ==
  /\ program = "libc"
  /\ \/ Goes("write", "read") /\ dest' = dest \o buff /\ UNCHANGED faults
     \/ /\ Goes("write", "done") /\ Fault
        /\ \E n \in 0..(Bsz - 1) : dest' = dest \o SubSeq(buff, 1, n)
  /\ UNCHANGED <<pos, buff>> /\ Stays

(* Both files are mapped, the output after it has been given the input's size; a file *)
(* that is empty cannot be mapped.                                                      *)
MapFiles ==
  /\ program = "memmap"
  /\ \/ /\ size > 0 /\ Goes("start", "read") /\ UNCHANGED faults
        /\ dest' = [i \in 1..size |-> 0]
     \/ size = 0 /\ Goes("start", "failed") /\ UNCHANGED <<dest, faults>>
     \/ /\ Goes("start", "failed") /\ Fault
        /\ dest' \in {dest, <<>>, [i \in 1..size |-> 0]}
  /\ UNCHANGED <<pos, buff>> /\ Stays

(* No size is given, or -1, which stands for that: memcpy() of everything. *)
OneShot == arg \in {0, -1}
CopyAtOnce ==
  /\ program = "memmap" /\ OneShot /\ Goes("read", "done")
  /\ dest' = Input
  /\ UNCHANGED <<pos, buff, faults>> /\ Stays

(* What is left is counted in an int; each window is copied, until nothing is. A window *)
(* of a negative size makes memcpy() run beyond the maps, whatever it has copied then.   *)
CopyWindow ==
  LET remaining == ToInt(size) - pos
      n == Smaller(arg, remaining)
      Copied(bytes) == dest' = [i \in 1..size |-> IF i \in bytes THEN i ELSE dest[i]]
  IN
  /\ program = "memmap" /\ ~OneShot
  /\ \/ remaining > 0 /\ arg > 0 /\ Goes("read", "read")
        /\ Copied((pos + 1)..(pos + n)) /\ pos' = pos + n
     \/ remaining > 0 /\ arg < 0 /\ Goes("read", "crashed") /\ UNCHANGED pos
        /\ \E bytes \in SUBSET (1..size) : Copied(bytes)
     \/ remaining <= 0 /\ Goes("read", "done") /\ UNCHANGED <<pos, dest>>
  /\ UNCHANGED <<buff, faults>> /\ Stays

-----------------------------------------------------------------------------
(***************************************************************************)
(* The asynchronous read.                                                  *)
(***************************************************************************)
OpenInput == program = "async" /\ (Starts \/ StartsNot)

(* aio_read() takes the request; if it does not, the loop looks into a null pointer. *)
AsyncRead ==
  /\ program = "async"
  /\ \/ Goes("read", "poll") /\ aio' = "running" /\ UNCHANGED faults
     \/ Goes("read", "crashed") /\ Fault /\ UNCHANGED aio
  /\ UNCHANGED overrun /\ UNCHANGED copy /\ UNCHANGED queue

(* The library's thread reads, whatever the program does meanwhile; its read may fail. *)
Transfer ==
  /\ program = "async" /\ aio = "running"
  /\ \/ /\ aio' = "finished" /\ UNCHANGED faults
        /\ overrun' = (buff = <<>>)
        /\ buff' = IF buff = <<>> THEN buff ELSE Filled(Smaller(Bsz, size))
     \/ aio' = "failed" /\ Fault /\ UNCHANGED <<overrun, buff>>
  /\ UNCHANGED <<pc, pos, dest>> /\ UNCHANGED given /\ UNCHANGED queue

(* Mutant: aio_error() is asked once. *)
PollOnce ==
  /\ program = "async" /\ Goes("poll", "free")
  /\ UNCHANGED faults /\ UNCHANGED copy /\ Stays

(* aio_error() until the transfer is no longer in progress: an error ends the loop too. *)
Poll ==
  /\ program = "async" /\ aio # "running" /\ Goes("poll", "free")
  /\ UNCHANGED faults /\ UNCHANGED copy /\ Stays

Free ==
  /\ program = "async" /\ Goes("free", "done")
  /\ buff' = <<>>
  /\ UNCHANGED <<pos, dest, faults>> /\ Stays

-----------------------------------------------------------------------------
(***************************************************************************)
(* The FIFO.  The writers have it open for reading too, so that a writer   *)
(* without a reader is not refused.                                        *)
(***************************************************************************)
(* pipe-writer is started: the FIFO is made unless it is there, and opened, which a      *)
(* reader may be waiting for. Either call may fail.                                        *)
StartWriter(w) ==
  /\ program = "fifo" /\ w \notin writers
  /\ \/ /\ writers' = writers \union {w} /\ made' = TRUE /\ UNCHANGED faults
        /\ pc' = IF pc = "opening" THEN "read" ELSE pc
     \/ Fault /\ (UNCHANGED made \/ made' = TRUE) /\ UNCHANGED <<pc, writers>>
  /\ UNCHANGED <<aio, overrun, fifo, typed, sent, lost, shown, cut>> /\ UNCHANGED given /\ UNCHANGED copy

(* A line and its end are written at once; what does not fit is dropped, although the *)
(* program says that it is buffered.                                                   *)
WriteLine(w) ==
  /\ program = "fifo" /\ w \in writers /\ typed < MaxLines
  /\ \E line \in Lines :
       LET fits == Len(fifo) + Len(line) + 1 <= Capacity IN
       /\ fifo' = IF fits THEN fifo \o Append(line, 0) ELSE fifo
       /\ sent' = IF fits THEN Append(sent, line) ELSE sent
  /\ typed' = typed + 1
  /\ UNCHANGED <<pc, aio, overrun, made, writers, lost, shown, cut, faults>>
  /\ UNCHANGED given /\ UNCHANGED copy

(* Ctrl-D, the terminal is closed, or a write() fails: with the last end of the FIFO its *)
(* bytes are gone.                                                                         *)
WriterLeaves(w) ==
  /\ program = "fifo" /\ w \in writers /\ writers' = writers \ {w}
  /\ fifo' = IF writers' = {} /\ pc # "read" THEN <<>> ELSE fifo
  /\ lost' = IF writers' = {} /\ pc = "start" THEN sent ELSE lost
  /\ UNCHANGED <<pc, aio, overrun, made, typed, sent, shown, cut, faults>>
  /\ UNCHANGED given /\ UNCHANGED copy

(* open() waits for a writer; without the FIFO, or if it fails, the reader ends. *)
OpenFifo ==
  /\ program = "fifo"
  /\ \/ made /\ Goes("start", IF writers = {} THEN "opening" ELSE "read") /\ UNCHANGED faults
     \/ ~made /\ Goes("start", "failed") /\ UNCHANGED faults
     \/ Goes("start", "failed") /\ Fault
  /\ UNCHANGED copy /\ Stays

(* Mutant: the bytes are one message up to the first end of a string. *)
EchoReceivedMsgOnce(bytes) ==
  <<SubSeq(bytes, 1, (CHOOSE i \in 1..Len(bytes) : bytes[i] = 0 /\ \A j \in 1..(i - 1) : bytes[j] # 0) - 1)>>

(* The strings that end within the first n bytes, and the bytes of the one that does not. *)
EchoedUpTo(bytes) ==
  LET echoed[n \in 0..Len(bytes)] ==
        IF n = 0 THEN [strings |-> <<>>, now |-> <<>>]
        ELSE IF bytes[n] = 0
          THEN [strings |-> Append(echoed[n - 1].strings, echoed[n - 1].now), now |-> <<>>]
          ELSE [strings |-> echoed[n - 1].strings, now |-> Append(echoed[n - 1].now, bytes[n])]
  IN echoed
(* The strings one after another in what has been read, which ends with a 0. *)
EchoReceivedMsg(bytes) == EchoedUpTo(bytes)[Len(bytes)].strings

(* read() takes what there is, up to the size of the buffer, and the last byte of it *)
(* is made the end of a string; nothing comes when the writers are gone. A reader that *)
(* ends and has the last end takes the bytes with it.                                   *)
ReadFifo ==
  LET n == Smaller(ReadSize, Len(fifo)) IN
  /\ program = "fifo"
  /\ \/ /\ n > 0 /\ Goes("read", "read") /\ UNCHANGED faults
        /\ fifo' = SubSeq(fifo, n + 1, Len(fifo))
        /\ shown' = shown \o EchoReceivedMsg(Append(SubSeq(fifo, 1, n - 1), 0))
        /\ cut' = (cut \/ fifo[n] # 0)
     \/ /\ n = 0 /\ writers = {} /\ Goes("read", "done") /\ UNCHANGED <<faults, fifo, shown, cut>>
     \/ /\ Goes("read", "done") /\ Fault /\ UNCHANGED <<shown, cut>>
        /\ fifo' = IF writers = {} THEN <<>> ELSE fifo
  /\ UNCHANGED <<aio, overrun, made, writers, typed, sent, lost>> /\ UNCHANGED copy

-----------------------------------------------------------------------------
Init ==
  /\ program \in Programs /\ size \in Sizes /\ arg \in Arguments
  /\ program = "fifo" => size = 0 /\ arg = 0
  /\ pc = "start" /\ pos = 0 /\ buff = <<>>
  /\ dest \in IF program = "fifo" THEN {<<>>} ELSE {<<>>, <<size + 1>>}
  /\ aio = "none" /\ overrun = FALSE
  /\ made \in (IF program = "fifo" THEN BOOLEAN ELSE {FALSE})
  /\ fifo = <<>> /\ writers = {} /\ typed = 0
  /\ sent = <<>> /\ lost = <<>> /\ shown = <<>> /\ cut = FALSE /\ faults = 0

CopySc == ReadSc \/ WriteSc
CopyLibc == ReadLibc \/ WriteLibc
CopyMemmap == MapFiles \/ CopyAtOnce \/ CopyWindow
ReadAsync == OpenInput \/ AsyncRead \/ Poll \/ Free
PipeWriter(w) == StartWriter(w) \/ WriteLine(w) \/ WriterLeaves(w)
PipeReader == OpenFifo \/ ReadFifo

Next ==
  \/ OpenFiles \/ CopySc \/ CopyLibc \/ CopyMemmap \/ ReadAsync \/ Transfer
  \/ PipeReader \/ \E w \in Writers : PipeWriter(w)

Spec == Init /\ [][Next]_vars

-----------------------------------------------------------------------------
(* The copy agrees with the input as far as both go, however a call has failed. When   *)
(* none has, read() and write() leave nothing out and add less than a block, fread()    *)
(* and fwrite() add nothing and leave out less than a block (file-cp-sc.c:139,           *)
(* file-cp-libc.c:118), and a mapped copy is the input, but with windows only as long    *)
(* as the size is an int (file-cp-memmap.c:96): beyond, a part stays zero, although       *)
(* "Done - copied %ld bytes" (116) is printed with all of it.                             *)
CopiesRight ==
  program \in {"sc", "libc", "memmap"} /\ pc \notin {"start", "failed"} =>
    /\ program # "memmap" =>
         SubSeq(dest, 1, Smaller(Len(dest), size)) = SubSeq(Input, 1, Smaller(Len(dest), size))
    /\ pc = "done" /\ faults = 0 =>
         /\ program = "memmap" => (dest = Input <=> OneShot \/ size <= IntMax)
         /\ program = "sc" => Len(dest) - size \in 0..(Bsz - 1)
         /\ program = "libc" => size - Len(dest) \in 0..(Bsz - 1)

(* The transfer never writes into a buffer that has been freed; when the program goes *)
(* on it has ended, and unless its read has failed the block is in the buffer           *)
(* (file-read-async.c:117-131).                                                          *)
BufferStays ==
  /\ ~overrun
  /\ pc = "free" =>
       /\ aio \in {"finished", "failed"}
       /\ aio = "finished" =>
            SubSeq(buff, 1, Smaller(Bsz, size)) = SubSeq(Input, 1, Smaller(Bsz, size))

(* As long as no read() has ended within a message, the reader shows the messages the *)
(* FIFO has taken, each whole and in order, however writers come and go; the only ones *)
(* it misses are the first, up to the last one that was there when the last writer left *)
(* before the reader came (pipe-writer.c:47, pipe-reader.c:34). It has shown all the     *)
(* others when it has emptied the FIFO (pipe-reader.c:46-50).                             *)
MessagesKept ==
  ~cut => /\ IsPrefix(lost \o shown, sent)
          /\ pc = "read" /\ fifo = <<>> => lost \o shown = sent
=============================================================================
