-------------------------- MODULE FileDemos_proofs --------------------------
(***************************************************************************)
(* Theorems about the copies of FileDemos and its asynchronous read, for   *)
(* every size of the file, every buffer and any number of failing calls,   *)
(* and about the FIFO, for any number of writers, messages and sizes.      *)
(***************************************************************************)
EXTENDS FileDemos, SequenceTheorems, WellFoundedInduction, TLAPS

(***************************************************************************)
(* The inductive invariants.  A sequence agrees with the input when each   *)
(* of its elements that the input has is the input's.                      *)
(***************************************************************************)
Agrees(s) == s \in Seq(Int) /\ \A i \in 1..Len(s) : i <= size => s[i] = i

(* The block that begins after the first n bytes and ends with byte m of the input. *)
Block(n, m) == buff \in [1..Bsz -> Int] /\ \A i \in 1..Bsz : n + i <= m => buff[i] = n + i

(* A copy that has a buffer has been given no negative size for it. *)
Numbers ==
  /\ size \in Nat /\ arg \in Int /\ pos \in Nat /\ faults \in Nat
  /\ arg < 0 /\ program \in {"sc", "libc", "async"} => pc \in {"start", "failed"}

(* file-cp-sc.c: what is written is what has been read, up to the last block's rest. *)
ScInv ==
  /\ pc \in {"start", "read", "write", "done", "failed"}
  /\ pc = "start" => pos = 0
  /\ pc \in {"read", "write", "done"} => Agrees(dest)
  /\ pc \in {"read", "write"} => buff \in [1..Bsz -> Int]
  /\ pc = "read" => pos = Smaller(Len(dest), size) /\ Len(dest) - size < Bsz
  /\ pc = "write" =>
       Len(dest) < size /\ pos = Smaller(Len(dest) + Bsz, size) /\ Block(Len(dest), size)
  /\ pc = "done" /\ faults = 0 => Len(dest) - size \in 0..(Bsz - 1)

(* file-cp-libc.c: whole blocks only. *)
LibcInv ==
  /\ pc \in {"start", "read", "write", "done", "failed"}
  /\ pc = "start" => pos = 0
  /\ pc \in {"read", "write", "done"} => Agrees(dest)
  /\ pc \in {"read", "write"} => buff \in [1..Bsz -> Int]
  /\ pc = "read" => pos = Len(dest) /\ pos <= size
  /\ pc = "write" => pos = Len(dest) + Bsz /\ pos <= size /\ Block(Len(dest), size)
  /\ pc = "done" /\ faults = 0 => size - Len(dest) \in 0..(Bsz - 1)

(* file-cp-memmap.c: the windows before pos have been copied, and nothing else. *)
MemmapInv ==
  /\ pc \in {"start", "read", "done", "failed", "crashed"}
  /\ pc = "start" => pos = 0
  /\ pc = "read" =>
       /\ pos = 0 \/ pos <= ToInt(size)
       /\ dest \in [1..size -> Int] /\ \A i \in 1..size : dest[i] = IF i <= pos THEN i ELSE 0
  /\ pc = "done" => (dest = Input <=> OneShot \/ size <= IntMax)

(* file-read-async.c: the buffer is freed after the transfer. *)
AsyncInv ==
  /\ pc \in {"start", "read", "poll", "free", "done", "failed", "crashed"}
  /\ pos = 0 /\ ~overrun
  /\ pc \in {"start", "read", "failed", "crashed"} => aio = "none"
  /\ pc = "poll" => aio \in {"running", "finished", "failed"}
  /\ pc \in {"free", "done"} => aio \in {"finished", "failed"}
  /\ pc \in {"read", "poll", "free"} => buff \in [1..Bsz -> Int]
  /\ pc \in {"poll", "free"} /\ aio = "finished" => Block(0, size)

CopyInv ==
  /\ program \in Programs /\ Numbers
  /\ program = "sc" => ScInv
  /\ program = "libc" => LibcInv
  /\ program = "memmap" => MemmapInv
  /\ program = "async" => AsyncInv
  /\ program # "async" => ~overrun /\ pc # "free"

(***************************************************************************)
(* The sequences.                                                          *)
(***************************************************************************)
LEMMA BszPositive == ASSUME Numbers, arg >= 0 PROVE Bsz \in Nat \ {0}
  BY DEF Numbers, Bsz

(* An int is not above IntMax, and holds the numbers up to it. *)
LEMMA ToIntRange ==
  ASSUME NEW n \in Nat
  PROVE  ToInt(n) \in Int /\ ToInt(n) <= IntMax /\ (n <= IntMax => ToInt(n) = n)
  BY SizesAssumption DEF ToInt

LEMMA SmallerIs ==
  ASSUME NEW a \in Int, NEW b \in Int
  PROVE  Smaller(a, b) \in {a, b} /\ Smaller(a, b) <= a /\ Smaller(a, b) <= b
  BY DEF Smaller

LEMMA InputSeq == ASSUME Numbers PROVE Input \in Seq(Int) /\ Len(Input) = size /\ \A i \in 1..size : Input[i] = i
  BY DEF Numbers, Input

(* Two sequences that have the same first n elements have the same prefix. *)
LEMMA SamePrefix ==
  ASSUME NEW s \in Seq(Int), NEW t \in Seq(Int), NEW n \in Nat, n <= Len(s), n <= Len(t),
         \A i \in 1..n : s[i] = t[i]
  PROVE  SubSeq(s, 1, n) = SubSeq(t, 1, n)
<1>1. n \in Int /\ 1 \in Int
  OBVIOUS
<1>2. \A i \in 1..n : s[i] \in Int /\ t[i] \in Int
  BY LenProperties
<1>3. /\ SubSeq(s, 1, n) \in Seq(Int) /\ Len(SubSeq(s, 1, n)) = n
      /\ \A i \in 1..n : SubSeq(s, 1, n)[i] = s[i]
  BY <1>1, <1>2, SubSeqProperties
<1>4. /\ SubSeq(t, 1, n) \in Seq(Int) /\ Len(SubSeq(t, 1, n)) = n
      /\ \A i \in 1..n : SubSeq(t, 1, n)[i] = t[i]
  BY <1>1, <1>2, SubSeqProperties
<1> QED BY <1>3, <1>4, SeqEqual

LEMMA AgreesPrefix ==
  ASSUME Numbers, NEW s, Agrees(s)
  PROVE  SubSeq(s, 1, Smaller(Len(s), size)) = SubSeq(Input, 1, Smaller(Len(s), size))
<1>1. Len(s) \in Nat /\ size \in Nat /\ s \in Seq(Int)
  BY LenProperties DEF Agrees, Numbers
<1>2. Smaller(Len(s), size) \in Nat /\ Smaller(Len(s), size) <= Len(s) /\ Smaller(Len(s), size) <= size
  BY <1>1 DEF Smaller
<1>3. Input \in Seq(Int) /\ Len(Input) = size /\ \A i \in 1..size : Input[i] = i
  BY InputSeq
<1>4. \A i \in 1..Smaller(Len(s), size) : s[i] = Input[i]
  BY <1>1, <1>2, <1>3 DEF Agrees
<1> QED BY <1>1, <1>2, <1>3, <1>4, SamePrefix

(* What a read of n bytes makes of the buffer. *)
LEMMA FilledBlock ==
  ASSUME Numbers, arg >= 0, buff \in [1..Bsz -> Int], NEW n \in Nat
  PROVE  /\ Filled(n) \in [1..Bsz -> Int]
         /\ \A i \in 1..Bsz : i <= n => Filled(n)[i] = pos + i
  BY BszPositive DEF Filled, Numbers

(* The first n bytes of the buffer are written. *)
LEMMA AgreesAppend ==
  ASSUME Numbers, arg >= 0, Agrees(dest), Block(Len(dest), size), NEW n \in 0..Bsz, NEW part \in Seq(Int),
         Len(part) = n, \A i \in 1..n : part[i] = buff[i]
  PROVE  Agrees(dest \o part) /\ Len(dest \o part) = Len(dest) + n
<1>1. dest \in Seq(Int) /\ Len(dest) \in Nat /\ size \in Nat /\ Bsz \in Nat /\ n \in Nat
  BY BszPositive, LenProperties DEF Agrees, Numbers
<1>2. /\ dest \o part \in Seq(Int) /\ Len(dest \o part) = Len(dest) + n
      /\ \A i \in 1..Len(dest) + n : (dest \o part)[i] = IF i <= Len(dest) THEN dest[i] ELSE part[i - Len(dest)]
  BY <1>1, ConcatProperties
<1>3. ASSUME NEW i \in 1..Len(dest) + n, i <= size PROVE (dest \o part)[i] = i
  <2>1. CASE i <= Len(dest)
    BY <1>1, <1>2, <1>3, <2>1 DEF Agrees
  <2>2. CASE i > Len(dest)
    <3>1. i - Len(dest) \in 1..n /\ i - Len(dest) \in 1..Bsz /\ Len(dest) + (i - Len(dest)) = i
      BY <1>1, <2>2
    <3>2. buff[i - Len(dest)] = i
      BY <1>3, <3>1 DEF Block
    <3> QED BY <1>1, <1>2, <2>2, <3>1, <3>2
  <2> QED BY <1>1, <2>1, <2>2
<1> QED BY <1>1, <1>2, <1>3 DEF Agrees

LEMMA BlockAppend ==
  ASSUME Numbers, arg >= 0, Agrees(dest), Block(Len(dest), size)
  PROVE  Agrees(dest \o buff) /\ Len(dest \o buff) = Len(dest) + Bsz
<1>1. Bsz \in Nat /\ buff \in Seq(Int) /\ Len(buff) = Bsz
  BY BszPositive DEF Block
<1> QED BY <1>1, AgreesAppend

LEMMA PartAppend ==
  ASSUME Numbers, arg >= 0, Agrees(dest), Block(Len(dest), size), NEW n \in 0..(Bsz - 1)
  PROVE  Agrees(dest \o SubSeq(buff, 1, n))
<1>1. Bsz \in Nat /\ n \in 0..Bsz /\ n \in Int /\ 1 \in Int
  BY BszPositive
<1>2. \A i \in 1..n : buff[i] \in Int
  BY <1>1 DEF Block
<1>3. /\ SubSeq(buff, 1, n) \in Seq(Int) /\ Len(SubSeq(buff, 1, n)) = n
      /\ \A i \in 1..n : SubSeq(buff, 1, n)[i] = buff[i]
  BY <1>1, <1>2, SubSeqProperties
<1> QED BY <1>1, <1>3, AgreesAppend

(***************************************************************************)
(* The steps.                                                              *)
(***************************************************************************)
LEMMA GivenStays == ASSUME [Next]_vars PROVE UNCHANGED given
  BY DEF Next, OpenFiles, Starts, StartsNot, CopySc, ReadSc, WriteSc, CopyLibc, ReadLibc, WriteLibc, CopyMemmap,
     MapFiles, CopyAtOnce, CopyWindow, ReadAsync, OpenInput, AsyncRead, Poll, Free, Transfer, PipeReader, OpenFifo, ReadFifo,
     PipeWriter, StartWriter, WriteLine, WriterLeaves, Goes, given, vars

LEMMA NumbersStep == ASSUME Numbers, [Next]_vars PROVE Numbers'
<1>1. size' = size /\ arg' = arg /\ program' = program
  BY GivenStays DEF given
<1>2. pos \in Nat /\ size \in Nat /\ arg \in Int /\ (arg >= 0 => Bsz \in Nat \ {0})
  BY BszPositive DEF Numbers
<1>3. faults' \in Nat
  <2>1. faults \in Nat
    BY DEF Numbers
  <2>2. CASE OpenFiles \/ CopySc \/ CopyLibc
    BY <2>1, <2>2 DEF OpenFiles, Starts, StartsNot, CopySc, ReadSc, WriteSc, CopyLibc, ReadLibc, WriteLibc, Fault
  <2>3. CASE CopyMemmap
    BY <2>1, <2>3 DEF CopyMemmap, MapFiles, CopyAtOnce, CopyWindow, Fault
  <2>4. CASE ReadAsync \/ Transfer
    BY <2>1, <2>4 DEF ReadAsync, OpenInput, Starts, StartsNot, AsyncRead, Poll, Free, Transfer, Fault
  <2>5. CASE PipeReader \/ (\E w \in Writers : PipeWriter(w))
    <3>1. CASE OpenFifo
      BY <2>1, <3>1 DEF OpenFifo, Fault
    <3>2. CASE ReadFifo
      BY <2>1, <3>2 DEF ReadFifo, Fault
    <3>3. ASSUME NEW w \in Writers, PipeWriter(w) PROVE faults' \in Nat
      BY <2>1, <3>3 DEF PipeWriter, StartWriter, WriteLine, WriterLeaves, Fault
    <3> QED BY <2>5, <3>1, <3>2, <3>3 DEF PipeReader
  <2> QED BY <2>1, <2>2, <2>3, <2>4, <2>5 DEF Next, vars
<1>4. ASSUME arg < 0, program \in {"sc", "libc", "async"} PROVE pc' \in {"start", "failed"}
  <2>1. pc \in {"start", "failed"}
    BY <1>4 DEF Numbers
  <2>2. CASE OpenFiles \/ CopySc \/ CopyLibc
    BY <1>2, <1>4, <2>1, <2>2 DEF OpenFiles, Starts, StartsNot, CopySc, ReadSc, WriteSc, CopyLibc, ReadLibc, WriteLibc, Goes
  <2>3. CASE ReadAsync \/ Transfer
    BY <1>2, <1>4, <2>1, <2>3 DEF ReadAsync, OpenInput, Starts, StartsNot, AsyncRead, Poll, Free, Transfer, Goes
  <2>4. ~CopyMemmap /\ ~PipeReader /\ ~\E w \in Writers : PipeWriter(w)
    BY <1>4 DEF CopyMemmap, MapFiles, CopyAtOnce, CopyWindow, PipeReader, OpenFifo, ReadFifo, PipeWriter, StartWriter,
       WriteLine, WriterLeaves
  <2> QED BY <2>1, <2>2, <2>3, <2>4 DEF Next, vars
<1>5. pos' \in Nat
  <2>1. CASE UNCHANGED pos
    BY <1>2, <2>1
  <2>2. CASE ReadSc
    <3>1. arg >= 0
      BY <1>2, <2>2 DEF ReadSc, Goes, Numbers
    <3> QED BY <1>2, <2>2, <3>1 DEF ReadSc, Smaller
  <2>3. CASE ReadLibc
    <3>1. arg >= 0
      BY <1>2, <2>3 DEF ReadLibc, Goes, Numbers
    <3> QED BY <1>2, <2>3, <3>1 DEF ReadLibc
  <2>4. CASE CopyWindow
    <3>1. ToInt(size) \in Int
      BY <1>2, ToIntRange
    <3> QED BY <1>2, <2>4, <3>1 DEF CopyWindow, Smaller
  <2>5. UNCHANGED pos \/ ReadSc \/ ReadLibc \/ CopyWindow
    BY DEF Next, OpenFiles, Starts, StartsNot, CopySc, WriteSc, CopyLibc, WriteLibc, CopyMemmap,
       MapFiles, CopyAtOnce, ReadAsync, OpenInput, AsyncRead, Poll, Free, Transfer, PipeReader, OpenFifo, ReadFifo,
       PipeWriter, StartWriter, WriteLine, WriterLeaves, copy, vars
  <2> QED BY <2>1, <2>2, <2>3, <2>4, <2>5
<1> QED BY <1>1, <1>2, <1>3, <1>4, <1>5 DEF Numbers

(* What the predicates say after a step that leaves the file's size and the argument. *)
LEMMA PrimedDefs ==
  ASSUME UNCHANGED given
  PROVE  /\ Bsz' = Bsz /\ Input' = Input
         /\ Agrees(dest)' <=> Agrees(dest')
         /\ Block(Len(dest), size)' <=>
              buff' \in [1..Bsz -> Int] /\ \A i \in 1..Bsz : Len(dest') + i <= size => buff'[i] = Len(dest') + i
         /\ Block(0, size)' <=> buff' \in [1..Bsz -> Int] /\ \A i \in 1..Bsz : 0 + i <= size => buff'[i] = 0 + i
  BY DEF given, Bsz, Input, Agrees, Block

(* The loop that ends short or with an error keeps what agrees, and an error is counted. *)
LEMMA ScStep ==
  ASSUME Numbers, arg >= 0, program = "sc", ScInv, [Next]_vars
  PROVE  ScInv'
<1>1. UNCHANGED given /\ program' = "sc" /\ size' = size
  BY GivenStays DEF given
<1>2. Numbers' /\ size \in Nat /\ pos \in Nat /\ Bsz \in Nat /\ Bsz > 0 /\ faults \in Nat /\ faults' \in Nat
  BY NumbersStep, BszPositive DEF Numbers
<1>3. Starts \/ StartsNot \/ ReadSc \/ WriteSc \/ UNCHANGED <<pc, copy, faults>>
  BY DEF Next, OpenFiles, CopySc, CopyLibc, ReadLibc, WriteLibc, CopyMemmap,
     MapFiles, CopyAtOnce, CopyWindow, ReadAsync, OpenInput, AsyncRead, Poll, Free, Transfer, PipeReader, OpenFifo, ReadFifo,
     PipeWriter, StartWriter, WriteLine, WriterLeaves, vars
<1>4. Bsz' = Bsz /\ (Agrees(dest)' <=> Agrees(dest')) /\ (dest' = dest => (Agrees(dest)' <=> Agrees(dest)))
  BY <1>1, PrimedDefs DEF Agrees
<1>5. CASE Starts
  <2>1. pc = "start" /\ pc' = "read" /\ dest' = <<>> /\ pos' = 0 /\ buff' \in [1..Bsz -> Int]
    BY <1>5 DEF Starts, Goes, ScInv
  <2>2. Agrees(dest') /\ Len(dest') = 0
    BY <2>1 DEF Agrees
  <2>3. pos' = Smaller(Len(dest'), size') /\ Len(dest') - size' < Bsz'
    BY <1>1, <1>2, <1>4, <2>1, <2>2 DEF Smaller
  <2>4. (pos = Smaller(Len(dest), size))'
    BY <2>3 DEF Smaller
  <2> QED BY <1>4, <2>1, <2>2, <2>3, <2>4 DEF ScInv
<1>6. CASE StartsNot
  BY <1>6 DEF StartsNot, Goes, ScInv
<1>7. CASE ReadSc
  <2> DEFINE n == Smaller(Bsz, size - pos)
  <2>1. pc = "read" /\ dest' = dest /\ Agrees(dest) /\ buff \in [1..Bsz -> Int] /\ pos = Smaller(Len(dest), size)
        /\ Len(dest) - size < Bsz
    BY <1>7 DEF ReadSc, Goes, ScInv
  <2>2. Len(dest) \in Nat /\ pos <= Len(dest) /\ pos <= size
    BY <1>2, <2>1, LenProperties DEF Agrees, Smaller
  <2>3. CASE n > 0 /\ pc' = "write" /\ faults' = faults
    <3>1. pos' = pos + n /\ buff' = Filled(n)
      BY <1>2, <1>7, <2>3 DEF ReadSc
    <3>2. pos = Len(dest) /\ Len(dest) < size /\ n \in Nat /\ n <= Bsz /\ (pos + n = size \/ n = Bsz)
      <4>1. n = Bsz \/ n = size - pos
        BY DEF Smaller
      <4>2. pos < size /\ n <= Bsz
        BY <1>2, <2>3, <4>1 DEF Smaller
      <4>3. pos = Len(dest)
        BY <1>2, <2>1, <2>2, <4>2 DEF Smaller
      <4> HIDE DEF n
      <4> QED BY <1>2, <2>3, <4>1, <4>2, <4>3
    <3>3. pos' = Smaller(Len(dest) + Bsz, size)
      BY <1>2, <2>2, <3>1, <3>2 DEF Smaller
    <3>4. buff' \in [1..Bsz -> Int] /\ \A i \in 1..Bsz : i <= n => buff'[i] = Len(dest) + i
      BY <2>1, <3>1, <3>2, FilledBlock
    <3>5. \A i \in 1..Bsz : Len(dest) + i <= size => i <= n
      BY <1>2, <2>2, <3>2
    <3>6. Block(Len(dest), size)'
      BY <1>1, <2>1, <3>4, <3>5, PrimedDefs
    <3>7. (pos = Smaller(Len(dest) + Bsz, size))' /\ (Len(dest) < size)'
      BY <1>1, <1>4, <2>1, <3>2, <3>3 DEF Smaller
    <3> QED BY <1>4, <2>1, <2>3, <3>4, <3>6, <3>7 DEF ScInv
  <2>4. CASE n = 0 /\ pc' = "done" /\ faults' = faults
    <3>1. Len(dest) - size \in 0..(Bsz - 1)
      BY <1>2, <2>1, <2>2, <2>4 DEF Smaller
    <3> QED BY <1>1, <1>4, <2>1, <2>4, <3>1 DEF ScInv
  <2>5. CASE pc' = "done" /\ faults' = faults + 1
    BY <1>2, <1>4, <2>1, <2>5 DEF ScInv
  <2> QED BY <1>7, <2>3, <2>4, <2>5 DEF ReadSc, Goes, Fault
<1>8. CASE WriteSc
  <2>1. pc = "write" /\ Agrees(dest) /\ Block(Len(dest), size) /\ pos' = pos /\ buff' = buff
        /\ buff \in [1..Bsz -> Int] /\ pos = Smaller(Len(dest) + Bsz, size) /\ Len(dest) < size
    BY <1>8 DEF WriteSc, Goes, ScInv
  <2>2. CASE pc' = "read" /\ dest' = dest \o buff /\ faults' = faults
    <3>1. Agrees(dest') /\ Len(dest') = Len(dest) + Bsz
      BY <2>1, <2>2, BlockAppend
    <3>2. (pos = Smaller(Len(dest), size))' /\ (Len(dest) - size < Bsz)'
      <4>1. Len(dest) \in Nat
        BY <2>1, LenProperties DEF Agrees
      <4>2. Len(dest') - size < Bsz
        BY <1>2, <2>1, <3>1, <4>1
      <4>3. pos' = Smaller(Len(dest'), size)
        BY <2>1, <3>1
      <4> QED BY <1>1, <1>4, <4>2, <4>3 DEF Smaller
    <3> QED BY <1>4, <2>1, <2>2, <3>1, <3>2 DEF ScInv
  <2>3. CASE pc' = "done" /\ faults' = faults + 1 /\ \E n \in 0..(Bsz - 1) : dest' = dest \o SubSeq(buff, 1, n)
    BY <1>2, <1>4, <2>1, <2>3, PartAppend DEF ScInv
  <2> QED BY <1>8, <2>2, <2>3 DEF WriteSc, Goes, Fault
<1>9. CASE UNCHANGED <<pc, copy, faults>>
  BY <1>1, <1>4, <1>9 DEF copy, ScInv, Block, Smaller
<1> QED BY <1>3, <1>5, <1>6, <1>7, <1>8, <1>9

LEMMA LibcStep ==
  ASSUME Numbers, arg >= 0, program = "libc", LibcInv, [Next]_vars
  PROVE  LibcInv'
<1>1. UNCHANGED given /\ program' = "libc" /\ size' = size
  BY GivenStays DEF given
<1>2. size \in Nat /\ pos \in Nat /\ Bsz \in Nat /\ Bsz > 0 /\ faults \in Nat
  BY BszPositive DEF Numbers
<1>3. Starts \/ StartsNot \/ ReadLibc \/ WriteLibc \/ UNCHANGED <<pc, copy, faults>>
  BY DEF Next, OpenFiles, CopySc, CopyLibc, ReadSc, WriteSc, CopyMemmap,
     MapFiles, CopyAtOnce, CopyWindow, ReadAsync, OpenInput, AsyncRead, Poll, Free, Transfer, PipeReader, OpenFifo, ReadFifo,
     PipeWriter, StartWriter, WriteLine, WriterLeaves, vars
<1>4. Bsz' = Bsz /\ (Agrees(dest)' <=> Agrees(dest')) /\ (dest' = dest => (Agrees(dest)' <=> Agrees(dest)))
  BY <1>1, PrimedDefs DEF Agrees
<1>5. CASE Starts
  <2>1. pc = "start" /\ pc' = "read" /\ dest' = <<>> /\ pos' = 0 /\ buff' \in [1..Bsz -> Int]
    BY <1>5 DEF Starts, Goes, LibcInv
  <2>2. Agrees(dest') /\ Len(dest') = 0
    BY <2>1 DEF Agrees
  <2> QED BY <1>1, <1>2, <1>4, <2>1, <2>2 DEF LibcInv
<1>6. CASE StartsNot
  BY <1>6 DEF StartsNot, Goes, LibcInv
<1>7. CASE ReadLibc
  <2>1. /\ pc = "read" /\ dest' = dest /\ Agrees(dest) /\ buff \in [1..Bsz -> Int]
        /\ pos = Len(dest) /\ pos <= size
    BY <1>7 DEF ReadLibc, Goes, LibcInv
  <2>2. CASE size - pos >= Bsz /\ pc' = "write" /\ faults' = faults
    <3>1. pos' = pos + Bsz /\ buff' = Filled(Bsz)
      BY <1>7, <2>2 DEF ReadLibc
    <3>2. buff' \in [1..Bsz -> Int] /\ \A i \in 1..Bsz : buff'[i] = Len(dest) + i
      <4>1. buff' \in [1..Bsz -> Int] /\ \A i \in 1..Bsz : i <= Bsz => buff'[i] = pos + i
        BY <1>2, <2>1, <3>1, FilledBlock
      <4> QED BY <1>2, <2>1, <4>1
    <3>3. Block(Len(dest), size)'
      BY <1>1, <2>1, <3>2, PrimedDefs
    <3>4. pos' = Len(dest) + Bsz /\ pos' <= size
      BY <1>2, <2>1, <2>2, <3>1
    <3> QED BY <1>1, <1>4, <2>1, <2>2, <3>2, <3>3, <3>4 DEF LibcInv
  <2>3. CASE size - pos < Bsz /\ pc' = "done" /\ faults' = faults
    <3>1. size - Len(dest) \in 0..(Bsz - 1)
      BY <1>2, <2>1, <2>3
    <3> QED BY <1>1, <1>4, <2>1, <2>3, <3>1 DEF LibcInv
  <2>4. CASE pc' = "done" /\ faults' = faults + 1
    BY <1>2, <1>4, <2>1, <2>4 DEF LibcInv
  <2> QED BY <1>7, <2>2, <2>3, <2>4 DEF ReadLibc, Goes, Fault
<1>8. CASE WriteLibc
  <2>1. /\ pc = "write" /\ Agrees(dest) /\ Block(Len(dest), size) /\ pos' = pos /\ buff' = buff
        /\ buff \in [1..Bsz -> Int] /\ pos = Len(dest) + Bsz /\ pos <= size
    BY <1>8 DEF WriteLibc, Goes, LibcInv
  <2>2. CASE pc' = "read" /\ dest' = dest \o buff /\ faults' = faults
    <3>1. Agrees(dest') /\ Len(dest') = Len(dest) + Bsz
      BY <2>1, <2>2, BlockAppend
    <3> QED BY <1>1, <1>4, <2>1, <2>2, <3>1 DEF LibcInv
  <2>3. CASE pc' = "done" /\ faults' = faults + 1 /\ \E n \in 0..(Bsz - 1) : dest' = dest \o SubSeq(buff, 1, n)
    BY <1>2, <1>4, <2>1, <2>3, PartAppend DEF LibcInv
  <2> QED BY <1>8, <2>2, <2>3 DEF WriteLibc, Goes, Fault
<1>9. CASE UNCHANGED <<pc, copy, faults>>
  BY <1>1, <1>4, <1>9 DEF copy, LibcInv, Block
<1> QED BY <1>3, <1>5, <1>6, <1>7, <1>8, <1>9

(* Each window begins where the last one ended; they end where the int says that    *)
(* nothing is left, which is the end of the file unless its size is no int.            *)
LEMMA MemmapStep ==
  ASSUME Numbers, program = "memmap", MemmapInv, [Next]_vars
  PROVE  MemmapInv'
<1>1. UNCHANGED given /\ program' = "memmap" /\ size' = size /\ arg' = arg
  BY GivenStays DEF given
<1>2. /\ size \in Nat /\ pos \in Nat /\ arg \in Int /\ IntMax \in Nat
      /\ ToInt(size) \in Int /\ ToInt(size) <= IntMax /\ (size <= IntMax => ToInt(size) = size)
  BY ToIntRange, SizesAssumption DEF Numbers
<1>3. MapFiles \/ CopyAtOnce \/ CopyWindow \/ UNCHANGED <<pc, copy>>
  BY DEF Next, OpenFiles, CopySc, CopyLibc, ReadSc, WriteSc, ReadLibc, WriteLibc, CopyMemmap,
     ReadAsync, OpenInput, AsyncRead, Poll, Free, Transfer, PipeReader, OpenFifo, ReadFifo,
     PipeWriter, StartWriter, WriteLine, WriterLeaves, vars
<1>4. Input' = Input /\ OneShot' = OneShot /\ ToInt(size)' = ToInt(size)
  BY <1>1 DEF Input, OneShot, ToInt
<1>5. CASE MapFiles
  <2>1. pc = "start" /\ pos' = 0
    BY <1>5 DEF MapFiles, Goes, MemmapInv
  <2>2. CASE pc' = "failed"
    BY <2>2 DEF MemmapInv
  <2>3. CASE size > 0 /\ pc' = "read" /\ dest' = [i \in 1..size |-> 0]
    BY <1>1, <1>2, <2>1, <2>3 DEF MemmapInv
  <2> QED BY <1>5, <2>2, <2>3 DEF MapFiles, Goes
<1>6. CASE CopyAtOnce
  <2>1. pc' = "done" /\ dest' = Input /\ OneShot
    BY <1>6 DEF CopyAtOnce, Goes
  <2> QED BY <1>1, <1>4, <2>1 DEF MemmapInv
<1>7. CASE CopyWindow
  <2> DEFINE remaining == ToInt(size) - pos
             n == Smaller(arg, remaining)
  <2>1. /\ pc = "read" /\ (pos = 0 \/ pos <= ToInt(size))
        /\ dest \in [1..size -> Int] /\ \A i \in 1..size : dest[i] = IF i <= pos THEN i ELSE 0
    BY <1>7 DEF CopyWindow, Goes, MemmapInv
  <2>2. CASE /\ remaining > 0 /\ arg > 0 /\ Goes("read", "read") /\ pos' = pos + n
             /\ dest' = [i \in 1..size |-> IF i \in (pos + 1)..(pos + n) THEN i ELSE dest[i]]
    <3>1. n \in Nat /\ pos + n <= ToInt(size) /\ pos + n \in Nat
      BY <1>2, <2>2 DEF Smaller
    <3> HIDE DEF n
    <3>2. dest' \in [1..size -> Int]
      BY <1>2, <2>1, <2>2
    <3>3. ASSUME NEW i \in 1..size PROVE dest'[i] = IF i <= pos + n THEN i ELSE 0
      <4>1. dest'[i] = IF i \in (pos + 1)..(pos + n) THEN i ELSE dest[i]
        BY <2>2
      <4>2. dest[i] = IF i <= pos THEN i ELSE 0
        BY <2>1
      <4> QED BY <1>2, <3>1, <4>1, <4>2
    <3>4. pc' = "read"
      BY <2>2 DEF Goes
    <3> QED BY <1>1, <1>4, <2>2, <3>1, <3>2, <3>3, <3>4 DEF MemmapInv
  <2>3. CASE Goes("read", "crashed")
    BY <2>3 DEF Goes, MemmapInv
  <2>4. CASE remaining <= 0 /\ ~OneShot /\ Goes("read", "done") /\ UNCHANGED <<pos, dest>>
    <3>1. CASE size <= IntMax
      <4>1. ASSUME NEW i \in 1..size PROVE dest[i] = i
        BY <1>2, <2>1, <2>4, <3>1
      <4>2. dest = Input
        BY <2>1, <4>1 DEF Input
      <4> QED BY <1>1, <1>4, <2>4, <3>1, <4>2 DEF MemmapInv, Goes
    <3>2. CASE ~(size <= IntMax)
      <4>1. size \in 1..size /\ ~(size <= pos)
        BY <1>2, <2>1, <3>2
      <4>2. dest[size] = 0 /\ Input[size] = size /\ size # 0
        BY <1>2, <2>1, <3>2, <4>1 DEF Input
      <4>3. dest # Input
        BY <4>2
      <4> QED BY <1>1, <1>4, <2>4, <3>2, <4>3 DEF MemmapInv, Goes
    <3> QED BY <3>1, <3>2
  <2>5. \/ /\ remaining > 0 /\ arg > 0 /\ Goes("read", "read") /\ pos' = pos + n
           /\ dest' = [i \in 1..size |-> IF i \in (pos + 1)..(pos + n) THEN i ELSE dest[i]]
        \/ Goes("read", "crashed")
        \/ remaining <= 0 /\ ~OneShot /\ Goes("read", "done") /\ UNCHANGED <<pos, dest>>
    BY <1>7 DEF CopyWindow
  <2> HIDE DEF remaining, n
  <2> QED BY <2>2, <2>3, <2>4, <2>5
<1>8. CASE UNCHANGED <<pc, copy>>
  BY <1>1, <1>4, <1>8 DEF copy, MemmapInv
<1> QED BY <1>3, <1>5, <1>6, <1>7, <1>8

(* The program frees the buffer after the transfer, and the transfer is the only one. *)
LEMMA AsyncStep ==
  ASSUME Numbers, arg >= 0, program = "async", AsyncInv, [Next]_vars
  PROVE  AsyncInv'
<1>1. UNCHANGED given /\ size' = size
  BY GivenStays DEF given
<1>2. size \in Nat /\ Bsz \in Nat /\ Bsz > 0 /\ pos = 0 /\ Bsz' = Bsz
  BY <1>1, BszPositive, PrimedDefs DEF Numbers, AsyncInv
<1>3. buff' = buff => (Block(0, size)' <=> Block(0, size))
  BY <1>1, <1>2 DEF Block
<1>4. \/ Starts \/ StartsNot \/ AsyncRead \/ Poll \/ Free \/ Transfer
      \/ UNCHANGED <<pc, copy, aio, overrun>>
  BY DEF Next, OpenFiles, CopySc, CopyLibc, ReadSc, WriteSc, ReadLibc, WriteLibc, CopyMemmap, MapFiles, CopyAtOnce, CopyWindow,
     ReadAsync, OpenInput, PipeReader, OpenFifo, ReadFifo, PipeWriter, StartWriter, WriteLine, WriterLeaves, vars
<1>5. CASE Starts
  <2>1. buff' \in [1..Bsz -> Int]
    BY <1>5 DEF Starts
  <2> QED BY <1>2, <1>5, <2>1 DEF Starts, Goes, Stays, AsyncInv
<1>6. CASE StartsNot
  BY <1>6 DEF StartsNot, Goes, Stays, AsyncInv
<1>7. CASE AsyncRead
  BY <1>2, <1>7 DEF AsyncRead, Goes, copy, AsyncInv
<1>8. CASE Poll
  BY <1>2, <1>3, <1>8 DEF Poll, Goes, Stays, copy, AsyncInv
<1>9. CASE Free
  BY <1>2, <1>9 DEF Free, Goes, Stays, AsyncInv
<1>10. CASE Transfer
  <2>1. pc = "poll" /\ pc' = "poll" /\ pos' = 0 /\ buff \in [1..Bsz -> Int]
    BY <1>2, <1>10 DEF Transfer, AsyncInv
  <2>2. buff # <<>>
    <3>1. 1 \in DOMAIN buff /\ 1 \notin DOMAIN <<>>
      BY <1>2, <2>1
    <3> QED BY <3>1
  <2>3. CASE overrun' = (buff = <<>>) /\ aio' = "finished" /\ buff' = Filled(Smaller(Bsz, size))
    <3>1. Smaller(Bsz, size) \in Nat /\ \A i \in 1..Bsz : 0 + i <= size => i <= Smaller(Bsz, size)
      BY <1>2 DEF Smaller
    <3>2. buff' \in [1..Bsz -> Int] /\ \A i \in 1..Bsz : 0 + i <= size => buff'[i] = 0 + i
      BY <1>2, <2>1, <2>3, <3>1, FilledBlock
    <3>3. Block(0, size)'
      BY <1>1, <3>2, PrimedDefs
    <3> QED BY <1>2, <2>1, <2>2, <2>3, <3>2, <3>3 DEF AsyncInv
  <2>4. CASE aio' = "failed" /\ UNCHANGED <<overrun, buff>>
    BY <1>2, <2>1, <2>4 DEF AsyncInv
  <2> QED BY <1>10, <2>2, <2>3, <2>4 DEF Transfer
<1>11. CASE UNCHANGED <<pc, copy, aio, overrun>>
  BY <1>2, <1>3, <1>11 DEF copy, AsyncInv
<1> QED BY <1>4, <1>5, <1>6, <1>7, <1>8, <1>9, <1>10, <1>11

(* malloc() refuses a negative size. *)
LEMMA NegativeStep ==
  ASSUME Numbers, arg < 0, [Next]_vars
  PROVE  /\ program = "sc" /\ ScInv => ScInv'
         /\ program = "libc" /\ LibcInv => LibcInv'
         /\ program = "async" /\ AsyncInv => AsyncInv'
<1>1. arg \in Int /\ ~(arg >= 0) /\ (program \in {"sc", "libc", "async"} => pc \in {"start", "failed"})
  BY DEF Numbers
<1>2. ASSUME program \in {"sc", "libc", "async"}
      PROVE  StartsNot \/ UNCHANGED <<pc, copy, aio, overrun>> \/ Transfer
  <2>1. CASE OpenFiles \/ CopySc \/ CopyLibc
    BY <1>1, <1>2, <2>1 DEF OpenFiles, Starts, CopySc, ReadSc, WriteSc, CopyLibc, ReadLibc, WriteLibc, Goes
  <2>2. CASE ReadAsync
    BY <1>1, <1>2, <2>2 DEF ReadAsync, OpenInput, Starts, AsyncRead, Poll, Free, Goes
  <2>3. ~CopyMemmap /\ ~PipeReader /\ ~\E w \in Writers : PipeWriter(w)
    BY <1>2 DEF CopyMemmap, MapFiles, CopyAtOnce, CopyWindow, PipeReader, OpenFifo, ReadFifo, PipeWriter, StartWriter,
       WriteLine, WriterLeaves
  <2> QED BY <2>1, <2>2, <2>3 DEF Next, vars
<1>3. program = "async" /\ AsyncInv => ~Transfer
  BY <1>1 DEF AsyncInv, Transfer
<1>4. Transfer => program = "async"
  BY DEF Transfer
<1>5. UNCHANGED given
  BY GivenStays
<1> QED BY <1>1, <1>2, <1>3, <1>4, <1>5 DEF StartsNot, Goes, Stays, copy, given, ScInv, LibcInv, AsyncInv

LEMMA CopyStep == CopyInv /\ [Next]_vars => CopyInv'
<1> SUFFICES ASSUME CopyInv, [Next]_vars PROVE CopyInv'
  OBVIOUS
<1>1. program' = program /\ Numbers' /\ Numbers /\ program \in Programs
  BY GivenStays, NumbersStep DEF given, CopyInv
<1>2. program # "async" => ~overrun' /\ pc' # "free"
  BY DEF CopyInv, Next, OpenFiles, Starts, StartsNot, CopySc, ReadSc, WriteSc, CopyLibc, ReadLibc, WriteLibc, CopyMemmap,
     MapFiles, CopyAtOnce, CopyWindow, ReadAsync, OpenInput, AsyncRead, Poll, Free, Transfer, PipeReader, OpenFifo, ReadFifo,
     PipeWriter, StartWriter, WriteLine, WriterLeaves, Goes, Stays, vars
<1>3. CASE arg >= 0
  BY <1>1, <1>2, <1>3, ScStep, LibcStep, MemmapStep, AsyncStep DEF CopyInv
<1>4. CASE arg < 0
  BY <1>1, <1>2, <1>4, NegativeStep, MemmapStep DEF CopyInv
<1>5. arg \in Int
  BY <1>1 DEF Numbers
<1> QED BY <1>3, <1>4, <1>5

(***************************************************************************)
(* What each copy has written at each place of its loop holds in every     *)
(* reachable state.                                                        *)
(***************************************************************************)
THEOREM CopyInvariant == Spec => []CopyInv
<1>1. Init => CopyInv
  <2> SUFFICES ASSUME Init PROVE CopyInv
    OBVIOUS
  <2>1. Numbers
    BY SizesAssumption DEF Init, Numbers
  <2> QED BY <2>1 DEF Init, CopyInv, ScInv, LibcInv, MemmapInv, AsyncInv
<1> QED BY <1>1, CopyStep, PTL DEF Spec

(* The copies agree with the input wherever a call fails; without a failure the one   *)
(* with read() and write() adds less than a block, the one with fread() and fwrite()   *)
(* leaves out less than a block (file-cp-sc.c:139, file-cp-libc.c:118), and the mapped *)
(* copy is the input exactly when it is made at once or the size is an int               *)
(* (file-cp-memmap.c:96), for any size of the file and any size of the window.           *)
THEOREM CopiesAgree == Spec => []CopiesRight
<1>1. CopyInv => CopiesRight
  <2> SUFFICES ASSUME CopyInv, program \in {"sc", "libc", "memmap"}, pc \notin {"start", "failed"}
               PROVE  /\ program # "memmap" =>
                           SubSeq(dest, 1, Smaller(Len(dest), size)) = SubSeq(Input, 1, Smaller(Len(dest), size))
                      /\ pc = "done" /\ faults = 0 =>
                           /\ program = "memmap" => (dest = Input <=> OneShot \/ size <= IntMax)
                           /\ program = "sc" => Len(dest) - size \in 0..(Bsz - 1)
                           /\ program = "libc" => size - Len(dest) \in 0..(Bsz - 1)
    BY DEF CopiesRight
  <2>1. program # "memmap" => Agrees(dest)
    BY DEF CopyInv, ScInv, LibcInv
  <2>2. program # "memmap" =>
          SubSeq(dest, 1, Smaller(Len(dest), size)) = SubSeq(Input, 1, Smaller(Len(dest), size))
    BY <2>1, AgreesPrefix DEF CopyInv
  <2> QED BY <2>2 DEF CopyInv, ScInv, LibcInv, MemmapInv
<1> QED BY <1>1, CopyInvariant, PTL

(* aio_read() never writes into a buffer that has been freed, and when the loop over  *)
(* aio_error() has ended the transfer has too: with the block in the buffer, or with   *)
(* an error, which ends the loop as well (file-read-async.c:117-131).                   *)
THEOREM BufferKept == Spec => []BufferStays
<1>1. CopyInv => BufferStays
  <2> SUFFICES ASSUME CopyInv PROVE BufferStays
    OBVIOUS
  <2>1. ~overrun
    BY DEF CopyInv, AsyncInv
  <2>2. ASSUME pc = "free", aio = "finished"
        PROVE  SubSeq(buff, 1, Smaller(Bsz, size)) = SubSeq(Input, 1, Smaller(Bsz, size))
    <3>1. Block(0, size) /\ Numbers /\ arg >= 0
      BY <2>2 DEF CopyInv, AsyncInv, Numbers
    <3>2. Bsz \in Nat /\ size \in Nat /\ buff \in Seq(Int) /\ Len(buff) = Bsz
      BY <3>1, BszPositive DEF Block, Numbers
    <3>3. Input \in Seq(Int) /\ Len(Input) = size /\ \A i \in 1..size : Input[i] = i
      BY <3>1, InputSeq
    <3>4. Smaller(Bsz, size) \in Nat /\ Smaller(Bsz, size) <= Bsz /\ Smaller(Bsz, size) <= size
      BY <3>2 DEF Smaller
    <3>5. \A i \in 1..Smaller(Bsz, size) : buff[i] = Input[i]
      <4>1. ASSUME NEW i \in 1..Smaller(Bsz, size) PROVE buff[i] = Input[i]
        <5>1. i \in 1..Bsz /\ i \in 1..size /\ 0 + i <= size /\ 0 + i = i
          BY <3>2, <3>4
        <5> QED BY <3>1, <3>3, <5>1 DEF Block
      <4> QED BY <4>1
    <3> QED BY <3>2, <3>3, <3>4, <3>5, SamePrefix
  <2>3. pc = "free" => aio \in {"finished", "failed"}
    BY DEF CopyInv, AsyncInv
  <2> QED BY <2>1, <2>2, <2>3 DEF BufferStays
<1> QED BY <1>1, CopyInvariant, PTL

-----------------------------------------------------------------------------
(***************************************************************************)
(* The FIFO.  EchoedUpTo is defined by recursion on the bytes; that it is  *)
(* what its definition says, and what it makes of two sequences one behind *)
(* the other, is shown by taking the least number where it is not.         *)
(***************************************************************************)
LEMMA LeastNumber ==
  ASSUME NEW T, T \subseteq Nat, T # {}
  PROVE  \E x \in T : \A y \in T : ~(y < x)
<1> DEFINE R == OpToRel(<, Nat)
<1>1. IsWellFoundedOn(R, Nat)
  BY NatLessThanWellFounded
<1>2. \E x \in T : \A y \in T : <<y, x>> \notin R
  <2> HIDE DEF R
  <2> QED BY <1>1, WFMin
<1>3. \A x, y \in Nat : y < x => <<y, x>> \in R
  BY DEF OpToRel
<1> QED BY <1>2, <1>3

(* One byte more of echo_received_msg()'s loop, given what F says of the bytes before. *)
NextEchoed(bytes, F, n) ==
  IF n = 0 THEN [strings |-> <<>>, now |-> <<>>]
  ELSE IF bytes[n] = 0
    THEN [strings |-> Append(F[n - 1].strings, F[n - 1].now), now |-> <<>>]
    ELSE [strings |-> F[n - 1].strings, now |-> Append(F[n - 1].now, bytes[n])]

(* EchoedUpTo(bytes) is what its definition says: there is such a function. *)
LEMMA EchoedDefined ==
  ASSUME NEW bytes, Len(bytes) \in Nat
  PROVE  EchoedUpTo(bytes) = [n \in 0..Len(bytes) |-> NextEchoed(bytes, EchoedUpTo(bytes), n)]
<1> DEFINE L == Len(bytes)
           T == {m \in 0..L : ~\E F : DOMAIN F = 0..L /\ \A n \in 0..m : F[n] = NextEchoed(bytes, F, n)}
<1>1. L \in Nat
  OBVIOUS
<1> HIDE DEF L
<1>2. T = {}
  <2> SUFFICES ASSUME T # {} PROVE FALSE
    OBVIOUS
  <2>1. PICK m \in T : \A l \in T : ~(l < m)
    <3>1. T \subseteq Nat
      BY <1>1
    <3> HIDE DEF T
    <3> QED BY <3>1, LeastNumber
  <2>2. m \in 0..L /\ m \in Nat
    BY <1>1
  <2>3. CASE m = 0
    <3> DEFINE F == [n \in 0..L |-> NextEchoed(bytes, <<>>, 0)]
    <3>1. DOMAIN F = 0..L /\ \A n \in 0..m : F[n] = NextEchoed(bytes, F, n)
      BY <2>2, <2>3 DEF NextEchoed
    <3> QED BY <3>1
  <2>4. CASE m > 0
    <3>1. m - 1 \in 0..L /\ m - 1 < m
      BY <1>1, <2>2, <2>4
    <3>2. m - 1 \notin T
      BY <2>1, <3>1
    <3>3. PICK G : DOMAIN G = 0..L /\ \A n \in 0..(m - 1) : G[n] = NextEchoed(bytes, G, n)
      BY <3>1, <3>2
    <3> DEFINE F == [n \in 0..L |-> IF n = m THEN NextEchoed(bytes, G, m) ELSE G[n]]
    <3>4. DOMAIN F = 0..L /\ F[m] = NextEchoed(bytes, G, m) /\ \A n \in 0..L : n # m => F[n] = G[n]
      BY <2>2
    <3> HIDE DEF F
    <3>5. ASSUME NEW n \in 0..m PROVE F[n] = NextEchoed(bytes, F, n)
      <4>1. n = 0 \/ (n - 1 \in 0..L /\ n - 1 # m)
        BY <1>1, <2>2
      <4>2. NextEchoed(bytes, F, n) = NextEchoed(bytes, G, n)
        BY <3>4, <4>1 DEF NextEchoed
      <4>3. CASE n = m
        BY <3>4, <4>2, <4>3
      <4>4. CASE n # m
        <5>1. n \in 0..L /\ n \in 0..(m - 1)
          BY <1>1, <2>2, <4>4
        <5> QED BY <3>3, <3>4, <4>2, <4>4, <5>1
      <4> QED BY <4>3, <4>4
    <3> QED BY <3>4, <3>5
  <2> QED BY <2>2, <2>3, <2>4
<1>3. \E F : DOMAIN F = 0..L /\ \A n \in 0..L : F[n] = NextEchoed(bytes, F, n)
  <2>1. L \in 0..L
    BY <1>1
  <2> QED BY <1>2, <2>1
<1>4. \E F : F = [n \in 0..L |-> NextEchoed(bytes, F, n)]
  <2>1. PICK G : \A n \in 0..L : G[n] = NextEchoed(bytes, G, n)
    BY <1>3
  <2> DEFINE F == [n \in 0..L |-> NextEchoed(bytes, G, n)]
  <2>2. \A n \in 0..L : F[n] = G[n]
    BY <2>1
  <2>3. ASSUME NEW n \in 0..L PROVE NextEchoed(bytes, F, n) = NextEchoed(bytes, G, n)
    <3>1. n = 0 \/ n - 1 \in 0..L
      BY <1>1
    <3> HIDE DEF F
    <3> QED BY <2>2, <3>1 DEF NextEchoed
  <2>4. F = [n \in 0..L |-> NextEchoed(bytes, F, n)]
    <3> DEFINE H == [n \in 0..L |-> NextEchoed(bytes, F, n)]
    <3>1. \A n \in 0..L : H[n] = F[n]
      BY <2>3
    <3>2. DOMAIN H = DOMAIN F /\ H = [n \in DOMAIN H |-> H[n]] /\ F = [n \in DOMAIN F |-> F[n]]
      OBVIOUS
    <3> QED BY <3>1, <3>2
  <2> QED BY <2>4
<1>5. EchoedUpTo(bytes) = CHOOSE F : F = [n \in 0..L |-> NextEchoed(bytes, F, n)]
  BY DEF EchoedUpTo, NextEchoed, L
<1> QED BY <1>4, <1>5 DEF L

(* A 0 ends the string at hand. *)
NextString(byte, before, after) ==
  /\ byte = 0 => after.strings = Append(before.strings, before.now) /\ after.now = <<>>
  /\ byte # 0 => after.strings = before.strings /\ after.now = Append(before.now, byte)

LEMMA EchoedStep ==
  ASSUME NEW bytes \in Seq(Nat)
  PROVE  /\ EchoedUpTo(bytes)[0].strings = <<>> /\ EchoedUpTo(bytes)[0].now = <<>>
         /\ \A n \in 1..Len(bytes) :
              NextString(bytes[n], EchoedUpTo(bytes)[n - 1], EchoedUpTo(bytes)[n])
<1> DEFINE E == EchoedUpTo(bytes)
<1>1. Len(bytes) \in Nat
  BY LenProperties
<1>2. \A n \in 0..Len(bytes) : E[n] = NextEchoed(bytes, E, n)
  BY <1>1, EchoedDefined
<1> HIDE DEF E
<1>3. E[0] = [strings |-> <<>>, now |-> <<>>]
  <2>1. 0 \in 0..Len(bytes)
    BY <1>1
  <2> QED BY <1>2, <2>1 DEF NextEchoed
<1>4. ASSUME NEW n \in 1..Len(bytes) PROVE NextString(bytes[n], E[n - 1], E[n])
  <2>1. n \in 0..Len(bytes) /\ n # 0
    BY <1>1
  <2>2. E[n] = NextEchoed(bytes, E, n)
    BY <1>2, <2>1
  <2>3. CASE bytes[n] = 0
    <3>1. E[n] = [strings |-> Append(E[n - 1].strings, E[n - 1].now), now |-> <<>>]
      BY <2>1, <2>2, <2>3 DEF NextEchoed
    <3> QED BY <2>3, <3>1 DEF NextString
  <2>4. CASE bytes[n] # 0
    <3>1. E[n] = [strings |-> E[n - 1].strings, now |-> Append(E[n - 1].now, bytes[n])]
      BY <2>1, <2>2, <2>4 DEF NextEchoed
    <3> QED BY <2>4, <3>1 DEF NextString
  <2> QED BY <2>3, <2>4
<1> QED BY <1>3, <1>4 DEF E

(* Strings are sequences of bytes. *)
LEMMA EchoedType ==
  ASSUME NEW bytes \in Seq(Nat)
  PROVE  \A n \in 0..Len(bytes) :
           EchoedUpTo(bytes)[n].strings \in Seq(Seq(Nat)) /\ EchoedUpTo(bytes)[n].now \in Seq(Nat)
<1> DEFINE E == EchoedUpTo(bytes)
           T == {n \in 0..Len(bytes) : ~(E[n].strings \in Seq(Seq(Nat)) /\ E[n].now \in Seq(Nat))}
<1>1. Len(bytes) \in Nat /\ \A i \in 1..Len(bytes) : bytes[i] \in Nat
  BY LenProperties
<1>2. /\ E[0].strings = <<>> /\ E[0].now = <<>>
      /\ \A n \in 1..Len(bytes) : NextString(bytes[n], E[n - 1], E[n])
  BY EchoedStep
<1>3. SUFFICES ASSUME T # {} PROVE FALSE
  OBVIOUS
<1> HIDE DEF E
<1>4. PICK n \in T : \A m \in T : ~(m < n)
  <2>1. T \subseteq Nat
    BY <1>1
  <2> HIDE DEF T
  <2> QED BY <1>3, <2>1, LeastNumber
<1>5. CASE n = 0
  <2>1. <<>> \in Seq(Seq(Nat)) /\ <<>> \in Seq(Nat)
    OBVIOUS
  <2> QED BY <1>2, <1>4, <1>5, <2>1
<1>6. CASE n # 0
  <2>1. n \in 1..Len(bytes) /\ n - 1 \in 0..Len(bytes) /\ n - 1 < n
    BY <1>1, <1>4, <1>6
  <2>2. E[n - 1].strings \in Seq(Seq(Nat)) /\ E[n - 1].now \in Seq(Nat)
    BY <1>4, <2>1
  <2>3. /\ Append(E[n - 1].strings, E[n - 1].now) \in Seq(Seq(Nat)) /\ <<>> \in Seq(Nat)
        /\ Append(E[n - 1].now, bytes[n]) \in Seq(Nat)
    BY <1>1, <2>1, <2>2
  <2>4. NextString(bytes[n], E[n - 1], E[n])
    BY <1>2, <2>1
  <2>5. E[n].strings \in Seq(Seq(Nat)) /\ E[n].now \in Seq(Nat)
    BY <2>2, <2>3, <2>4 DEF NextString
  <2> QED BY <1>4, <2>5
<1> QED BY <1>5, <1>6

(* \o as an operator whose facts can be cited. *)
Cat(s, t) == s \o t
LEMMA CatIs ==
  ASSUME NEW S, NEW s \in Seq(S), NEW t \in Seq(S)
  PROVE  /\ Cat(s, t) \in Seq(S) /\ Len(Cat(s, t)) = Len(s) + Len(t)
         /\ \A i \in 1..Len(s) + Len(t) : Cat(s, t)[i] = IF i <= Len(s) THEN s[i] ELSE t[i - Len(s)]
  BY ConcatProperties DEF Cat

(* It is associative. *)
LEMMA CatThree ==
  ASSUME NEW S, NEW s \in Seq(S), NEW t \in Seq(S),  NEW u \in Seq(S)
  PROVE  Cat(Cat(s, t), u) = Cat(s, Cat(t, u))
<1> DEFINE l == Cat(Cat(s, t), u)
           r == Cat(s, Cat(t, u))
<1>1. Len(s) \in Nat /\ Len(t) \in Nat /\ Len(u) \in Nat
  BY LenProperties
<1>2. /\ Cat(s, t) \in Seq(S) /\ Len(Cat(s, t)) = Len(s) + Len(t)
      /\ \A i \in 1..Len(s) + Len(t) : Cat(s, t)[i] = IF i <= Len(s) THEN s[i] ELSE t[i - Len(s)]
  BY CatIs
<1>3. /\ Cat(t, u) \in Seq(S) /\ Len(Cat(t, u)) = Len(t) + Len(u)
      /\ \A i \in 1..Len(t) + Len(u) : Cat(t, u)[i] = IF i <= Len(t) THEN t[i] ELSE u[i - Len(t)]
  BY CatIs
<1>4. /\ l \in Seq(S) /\ Len(l) = Len(s) + Len(t) + Len(u)
      /\ \A i \in 1..Len(s) + Len(t) + Len(u) :
           l[i] = IF i <= Len(s) + Len(t) THEN Cat(s, t)[i] ELSE u[i - (Len(s) + Len(t))]
  <2> DEFINE p == Cat(s, t)
  <2>1. p \in Seq(S) /\ Len(p) = Len(s) + Len(t)
    BY <1>2
  <2> HIDE DEF p
  <2>2. ASSUME NEW q \in Seq(S)
        PROVE  /\ Cat(q, u) \in Seq(S) /\ Len(Cat(q, u)) = Len(q) + Len(u)
               /\ \A i \in 1..Len(q) + Len(u) : Cat(q, u)[i] = IF i <= Len(q) THEN q[i] ELSE u[i - Len(q)]
    BY CatIs
  <2>3. /\ Cat(p, u) \in Seq(S) /\ Len(Cat(p, u)) = Len(p) + Len(u)
        /\ \A i \in 1..Len(p) + Len(u) : Cat(p, u)[i] = IF i <= Len(p) THEN p[i] ELSE u[i - Len(p)]
    BY <2>1, <2>2
  <2> QED BY <2>1, <2>3 DEF p
<1>5. /\ r \in Seq(S) /\ Len(r) = Len(s) + (Len(t) + Len(u))
      /\ \A i \in 1..Len(s) + (Len(t) + Len(u)) : r[i] = IF i <= Len(s) THEN s[i] ELSE Cat(t, u)[i - Len(s)]
  <2> DEFINE q == Cat(t, u)
             x == Cat(s, q)
  <2>1. q \in Seq(S) /\ Len(q) = Len(t) + Len(u)
    BY <1>3
  <2> HIDE DEF q
  <2>5. ASSUME NEW p \in Seq(S)
        PROVE  /\ Cat(s, p) \in Seq(S) /\ Len(Cat(s, p)) = Len(s) + Len(p)
               /\ \A i \in 1..Len(s) + Len(p) : Cat(s, p)[i] = IF i <= Len(s) THEN s[i] ELSE p[i - Len(s)]
    BY CatIs
  <2>2. /\ x \in Seq(S) /\ Len(x) = Len(s) + Len(q)
        /\ \A i \in 1..Len(s) + Len(q) : x[i] = IF i <= Len(s) THEN s[i] ELSE q[i - Len(s)]
    BY <2>1, <2>5
  <2> HIDE DEF x
  <2> DEFINE e == Len(t) + Len(u)
  <2>3. Len(q) = e
    BY <2>1
  <2> HIDE DEF e
  <2>4. /\ x \in Seq(S) /\ Len(x) = Len(s) + e
        /\ \A i \in 1..Len(s) + e : x[i] = IF i <= Len(s) THEN s[i] ELSE q[i - Len(s)]
    BY <2>2, <2>3
  <2> QED BY <2>4 DEF x, q, e
<1> HIDE DEF l, r
<1>6. ASSUME NEW i \in 1..Len(l) PROVE l[i] = r[i]
  <2>1. i \in 1..(Len(s) + Len(t) + Len(u)) /\ i \in 1..(Len(s) + (Len(t) + Len(u)))
    BY <1>1, <1>4
  <2>2. CASE i <= Len(s)
    <3>1. i <= Len(s) + Len(t) /\ i \in 1..(Len(s) + Len(t))
      BY <1>1, <2>1, <2>2
    <3> QED BY <1>2, <1>4, <1>5, <2>1, <2>2, <3>1
  <2>3. CASE ~(i <= Len(s)) /\ i <= Len(s) + Len(t)
    <3>1. i \in 1..(Len(s) + Len(t)) /\ i - Len(s) \in 1..(Len(t) + Len(u)) /\ i - Len(s) <= Len(t)
      BY <1>1, <2>1, <2>3
    <3> QED BY <1>2, <1>3, <1>4, <1>5, <2>1, <2>3, <3>1
  <2>4. CASE ~(i <= Len(s) + Len(t))
    <3>1. /\ ~(i <= Len(s)) /\ i - Len(s) \in 1..(Len(t) + Len(u)) /\ ~(i - Len(s) <= Len(t))
          /\ i - Len(s) - Len(t) = i - (Len(s) + Len(t))
      BY <1>1, <2>1, <2>4
    <3> QED BY <1>3, <1>4, <1>5, <2>1, <2>4, <3>1
  <2> QED BY <2>2, <2>3, <2>4
<1>7. Len(l) = Len(r)
  BY <1>1, <1>4, <1>5
<1> QED BY <1>4, <1>5, <1>6, <1>7, SeqEqual DEF l, r
LEMMA AddCat ==
  ASSUME NEW S, NEW s \in Seq(S), NEW t \in Seq(S), NEW e \in S
  PROVE  Append(Cat(s, t), e) = Cat(s, Append(t, e))
<1>1. Append(t, e) = t \o <<e>> /\ <<e>> \in Seq(S) /\ s \o t \in Seq(S)
  OBVIOUS
<1>2. Append(s \o t, e) = (s \o t) \o <<e>>
  BY <1>1
<1> QED BY <1>1, <1>2, ConcatAssociative DEF Cat

(* Bytes behind a string's end are strings of their own. *)
LEMMA EchoedConcat ==
  ASSUME NEW a \in Seq(Nat), NEW b \in Seq(Nat), a = <<>> \/ a[Len(a)] = 0
  PROVE  EchoReceivedMsg(a \o b) = EchoReceivedMsg(a) \o EchoReceivedMsg(b)
<1> DEFINE A == EchoedUpTo(a)
           B == EchoedUpTo(b)
           C == EchoedUpTo(a \o b)
           T == {n \in 0..Len(a) : ~(C[n].strings = A[n].strings /\ C[n].now = A[n].now)}
           U == {n \in 0..Len(b) : ~(C[Len(a) + n].strings = A[Len(a)].strings \o B[n].strings
                                      /\ C[Len(a) + n].now = B[n].now)}
<1>1. Len(a) \in Nat /\ Len(b) \in Nat
  BY LenProperties
<1>2. /\ a \o b \in Seq(Nat) /\ Len(a \o b) = Len(a) + Len(b)
      /\ \A i \in 1..Len(a) : (a \o b)[i] = a[i]
      /\ \A i \in 1..Len(b) : (a \o b)[Len(a) + i] = b[i]
  <2>1. /\ a \o b \in Seq(Nat) /\ Len(a \o b) = Len(a) + Len(b)
        /\ \A i \in 1..Len(a) + Len(b) : (a \o b)[i] = IF i <= Len(a) THEN a[i] ELSE b[i - Len(a)]
    BY ConcatProperties
  <2>2. ASSUME NEW i \in 1..Len(b) PROVE (a \o b)[Len(a) + i] = b[i]
    <3>1. Len(a) + i \in 1..Len(a) + Len(b) /\ ~(Len(a) + i <= Len(a)) /\ Len(a) + i - Len(a) = i
      BY <1>1
    <3> QED BY <2>1, <3>1
  <2> QED BY <1>1, <2>1, <2>2
<1>3. /\ A[0].strings = <<>> /\ A[0].now = <<>>
      /\ \A n \in 1..Len(a) : NextString(a[n], A[n - 1], A[n])
  BY EchoedStep
<1>4. /\ B[0].strings = <<>> /\ B[0].now = <<>>
      /\ \A n \in 1..Len(b) : NextString(b[n], B[n - 1], B[n])
  BY EchoedStep
<1>5. /\ C[0].strings = <<>> /\ C[0].now = <<>>
      /\ \A n \in 1..(Len(a) + Len(b)) : NextString((a \o b)[n], C[n - 1], C[n])
  BY <1>2, EchoedStep
<1>6. /\ \A n \in 0..Len(a) : A[n].strings \in Seq(Seq(Nat)) /\ A[n].now \in Seq(Nat)
      /\ \A n \in 0..Len(b) : B[n].strings \in Seq(Seq(Nat)) /\ B[n].now \in Seq(Nat)
  BY EchoedType
<1> HIDE DEF A, B, C
<1>7. T = {}
  <2> SUFFICES ASSUME T # {} PROVE FALSE
    OBVIOUS
  <2>1. PICK n \in T : \A m \in T : ~(m < n)
    <3>1. T \subseteq Nat
      BY <1>1
    <3> HIDE DEF T
    <3> QED BY <3>1, LeastNumber
  <2>2. n # 0
    BY <1>3, <1>5, <2>1
  <2>3. n \in 1..Len(a) /\ n \in 1..(Len(a) + Len(b)) /\ n - 1 \in 0..Len(a) /\ n - 1 < n
    BY <1>1, <2>1, <2>2
  <2>4. C[n - 1].strings = A[n - 1].strings /\ C[n - 1].now = A[n - 1].now /\ (a \o b)[n] = a[n]
    BY <1>2, <2>1, <2>3
  <2>5. NextString(a[n], A[n - 1], A[n]) /\ NextString(a[n], C[n - 1], C[n])
    BY <1>3, <1>5, <2>3, <2>4
  <2>6. C[n].strings = A[n].strings /\ C[n].now = A[n].now
    BY <2>4, <2>5 DEF NextString
  <2> QED BY <2>1, <2>6
<1>8. C[Len(a)].strings = A[Len(a)].strings /\ C[Len(a)].now = <<>>
  <2>1. Len(a) \in 0..Len(a)
    BY <1>1
  <2>2. CASE a = <<>>
    <3>1. A[Len(a)].now = <<>>
      BY <1>3, <2>2
    <3> QED BY <1>7, <2>1, <3>1
  <2>3. CASE a # <<>>
    <3>1. Len(a) \in 1..Len(a) /\ a[Len(a)] = 0
      BY <1>1, <2>3, EmptySeq
    <3>2. A[Len(a)].now = <<>>
      BY <1>3, <3>1 DEF NextString
    <3> QED BY <1>7, <2>1, <3>2
  <2> QED BY <2>2, <2>3
<1>9. U = {}
  <2> SUFFICES ASSUME U # {} PROVE FALSE
    OBVIOUS
  <2>1. PICK n \in U : \A m \in U : ~(m < n)
    <3>1. U \subseteq 0..Len(b)
      BY Zenon
    <3> HIDE DEF U
    <3>2. U \subseteq Nat
      BY <1>1, <3>1
    <3> QED BY <3>2, LeastNumber
  <2>2. A[Len(a)].strings \in Seq(Seq(Nat))
    BY <1>1, <1>6
  <2>3. n # 0
    <3>1. A[Len(a)].strings \o <<>> = A[Len(a)].strings
      BY <2>2, ConcatEmptySeq
    <3>2. Len(a) + 0 = Len(a) /\ B[0].strings = <<>> /\ B[0].now = <<>>
      BY <1>1, <1>4
    <3> QED BY <1>8, <2>1, <3>1, <3>2
  <2>4. /\ n \in 1..Len(b) /\ n - 1 \in 0..Len(b) /\ n - 1 < n
        /\ Len(a) + n \in 1..(Len(a) + Len(b)) /\ (Len(a) + n) - 1 = Len(a) + (n - 1)
    <3>1. n \in 0..Len(b)
      BY Zenon
    <3> HIDE DEF U
    <3> QED BY <1>1, <2>3, <3>1
  <2> DEFINE m == Len(a) + n
             l == Len(a) + (n - 1)
  <2>5. C[l].strings = A[Len(a)].strings \o B[n - 1].strings /\ C[l].now = B[n - 1].now
    BY <2>1, <2>4
  <2>6. NextString(b[n], C[l], C[m])
    BY <1>2, <1>5, <2>4
  <2>7. NextString(b[n], B[n - 1], B[n])
    BY <1>4, <2>4
  <2>8. B[n - 1].strings \in Seq(Seq(Nat)) /\ B[n - 1].now \in Seq(Nat)
    BY <1>6, <2>4
  <2> HIDE DEF m, l
  <2>9. Append(A[Len(a)].strings \o B[n - 1].strings, B[n - 1].now)
          = A[Len(a)].strings \o Append(B[n - 1].strings, B[n - 1].now)
    <3> DEFINE s == A[Len(a)].strings
               t == B[n - 1].strings
               e == B[n - 1].now
    <3>1. s \in Seq(Seq(Nat)) /\ t \in Seq(Seq(Nat)) /\ e \in Seq(Nat)
      BY <2>2, <2>8
    <3> HIDE DEF s, t, e
    <3>2. Append(Cat(s, t), e) = Cat(s, Append(t, e))
      BY <3>1, AddCat
    <3> QED BY <3>2 DEF s, t, e, Cat
  <2>10. C[m].strings = A[Len(a)].strings \o B[n].strings /\ C[m].now = B[n].now
    <3>1. CASE b[n] = 0
      BY <2>5, <2>6, <2>7, <2>9, <3>1 DEF NextString
    <3>2. CASE b[n] # 0
      BY <2>5, <2>6, <2>7, <3>2 DEF NextString
    <3> QED BY <3>1, <3>2
  <2> QED BY <2>1, <2>10 DEF m
<1>10. Len(b) \in 0..Len(b)
  BY <1>1
<1>11. C[Len(a \o b)].strings = A[Len(a)].strings \o B[Len(b)].strings
  BY <1>2, <1>9, <1>10
<1> QED BY <1>11 DEF EchoReceivedMsg, A, B, C

(* A line with its end is that line. *)
LEMMA EchoedLine ==
  ASSUME NEW line \in Seq(Nat \ {0})
  PROVE  Append(line, 0) \in Seq(Nat) /\ EchoReceivedMsg(Append(line, 0)) = <<line>>
<1> DEFINE b == Append(line, 0)
           E == EchoedUpTo(b)
           T == {n \in 0..Len(line) : ~(E[n].strings = <<>> /\ E[n].now \in Seq(Nat) /\ Len(E[n].now) = n
                                         /\ \A i \in 1..n : E[n].now[i] = line[i])}
<1>1. Len(line) \in Nat /\ line \in Seq(Nat) /\ \A i \in 1..Len(line) : line[i] \in Nat \ {0}
  BY LenProperties, SeqMonotonic
<1>2. /\ b \in Seq(Nat) /\ Len(b) = Len(line) + 1 /\ b[Len(line) + 1] = 0
      /\ \A i \in 1..Len(line) : b[i] = line[i]
  BY <1>1
<1>3. /\ E[0].strings = <<>> /\ E[0].now = <<>>
      /\ \A n \in 1..Len(b) : NextString(b[n], E[n - 1], E[n])
  BY <1>2, EchoedStep
<1> HIDE DEF E, b
<1>4. T = {}
  <2> SUFFICES ASSUME T # {} PROVE FALSE
    OBVIOUS
  <2>1. PICK n \in T : \A m \in T : ~(m < n)
    <3>1. T \subseteq Nat
      BY <1>1
    <3> HIDE DEF T
    <3> QED BY <3>1, LeastNumber
  <2>2. n # 0
    <3>1. <<>> \in Seq(Nat) /\ Len(<<>>) = 0 /\ 1..0 = {}
      OBVIOUS
    <3>2. SUFFICES ASSUME n = 0 PROVE FALSE
      OBVIOUS
    <3>3. E[n].strings = <<>> /\ E[n].now = <<>>
      BY <1>3, <3>2
    <3>4. E[n].now \in Seq(Nat) /\ Len(E[n].now) = n /\ \A i \in 1..n : E[n].now[i] = line[i]
      BY <3>1, <3>2, <3>3
    <3> QED BY <2>1, <3>3, <3>4
  <2>3. n \in 1..Len(line) /\ n \in 1..Len(b) /\ n - 1 \in 0..Len(line) /\ n - 1 < n
    BY <1>1, <1>2, <2>1, <2>2
  <2>4. /\ E[n - 1].strings = <<>> /\ E[n - 1].now \in Seq(Nat) /\ Len(E[n - 1].now) = n - 1
        /\ \A i \in 1..(n - 1) : E[n - 1].now[i] = line[i]
    BY <2>1, <2>3
  <2>5. b[n] = line[n] /\ line[n] \in Nat /\ line[n] # 0
    BY <1>1, <1>2, <2>3
  <2>6. E[n].strings = <<>> /\ E[n].now = Append(E[n - 1].now, line[n])
    BY <1>3, <2>3, <2>4, <2>5 DEF NextString
  <2>7. /\ E[n].now \in Seq(Nat) /\ Len(E[n].now) = n
        /\ \A i \in 1..n : E[n].now[i] = line[i]
    <3> DEFINE s == E[n - 1].now
               t == E[n].now
    <3>1. s \in Seq(Nat) /\ Len(s) = n - 1 /\ t = Append(s, line[n]) /\ \A i \in 1..(n - 1) : s[i] = line[i]
      BY <2>4, <2>6
    <3> HIDE DEF s, t
    <3>2. /\ t \in Seq(Nat) /\ Len(t) = n /\ t[n] = line[n]
          /\ \A i \in 1..(n - 1) : t[i] = s[i]
      BY <2>3, <2>5, <3>1, AppendProperties
    <3>3. \A i \in 1..n : i = n \/ i \in 1..(n - 1)
      BY <2>3
    <3>4. t \in Seq(Nat) /\ Len(t) = n /\ \A i \in 1..n : t[i] = line[i]
      BY <3>1, <3>2, <3>3
    <3> QED BY <3>4 DEF t
  <2> QED BY <2>1, <2>6, <2>7
<1>5. E[Len(line)].strings = <<>> /\ E[Len(line)].now = line
  <2>1. Len(line) \in 0..Len(line)
    BY <1>1
  <2>2. /\ E[Len(line)].strings = <<>> /\ E[Len(line)].now \in Seq(Nat) /\ Len(E[Len(line)].now) = Len(line)
        /\ \A i \in 1..Len(line) : E[Len(line)].now[i] = line[i]
    BY <1>4, <2>1
  <2> QED BY <1>1, <2>2, SeqEqual
<1>6. E[Len(b)].strings = <<line>>
  <2>1. Len(b) \in 1..Len(b) /\ Len(b) - 1 = Len(line) /\ b[Len(b)] = 0
    BY <1>1, <1>2
  <2>2. NextString(b[Len(b)], E[Len(b) - 1], E[Len(b)])
    BY <1>3, <2>1
  <2>3. NextString(0, E[Len(line)], E[Len(b)])
    BY <2>1, <2>2
  <2>4. E[Len(b)].strings = Append(E[Len(line)].strings, E[Len(line)].now)
    BY <2>3 DEF NextString
  <2> QED BY <1>5, <2>4
<1> QED BY <1>2, <1>6 DEF EchoReceivedMsg, E, b

LEMMA EchoedNothing == EchoReceivedMsg(<<>>) = <<>>
<1>1. <<>> \in Seq(Nat) /\ Len(<<>>) = 0
  OBVIOUS
<1>2. EchoedUpTo(<<>>)[0].strings = <<>>
  BY <1>1, EchoedStep
<1> QED BY <1>1, <1>2 DEF EchoReceivedMsg

LEMMA EchoedStrings == ASSUME NEW bytes \in Seq(Nat) PROVE EchoReceivedMsg(bytes) \in Seq(Seq(Nat))
<1>1. Len(bytes) \in 0..Len(bytes)
  BY LenProperties
<1> QED BY <1>1, EchoedType DEF EchoReceivedMsg

-----------------------------------------------------------------------------
(***************************************************************************)
(* What the FIFO has taken has been shown or is in it, as long as every    *)
(* read() ended with a message: no message is in it in parts.               *)
(***************************************************************************)
Ends(bytes) == bytes = <<>> \/ bytes[Len(bytes)] = 0

FifoInv ==
  /\ fifo \in Seq(Nat) /\ faults \in Nat
  /\ sent \in Seq(Seq(Nat)) /\ lost \in Seq(Seq(Nat)) /\ shown \in Seq(Seq(Nat))
  /\ program # "fifo" => sent = <<>> /\ lost = <<>> /\ shown = <<>>
  /\ program = "fifo" =>
       /\ pc \in {"start", "opening", "read", "done", "failed"}
       /\ pc \in {"start", "opening"} => shown = <<>>
       /\ pc = "opening" => writers = {}
       /\ ~cut => /\ Ends(fifo)
                  /\ IsPrefix(lost \o shown, sent)
                  /\ pc \in {"start", "opening", "read"} => sent = (lost \o shown) \o EchoReceivedMsg(fifo)

LEMMA PrefixOfConcat ==
  ASSUME NEW S, NEW s \in Seq(S), NEW t \in Seq(S)
  PROVE  IsPrefix(s, s \o t)
<1>1. Len(s) \in Nat /\ Len(t) \in Nat
  BY LenProperties
<1>2. /\ s \o t \in Seq(S) /\ Len(s \o t) = Len(s) + Len(t)
      /\ \A i \in 1..Len(s) + Len(t) : (s \o t)[i] = IF i <= Len(s) THEN s[i] ELSE t[i - Len(s)]
  BY ConcatProperties
<1>3. \A i \in 1..Len(s) : s[i] \in S /\ (s \o t)[i] = s[i] /\ (s \o t)[i] \in S
  BY <1>1, <1>2, LenProperties
<1>4. 1 \in Int /\ Len(s) \in Int /\ Len(s) - 1 + 1 = Len(s) /\ \A i \in 1..Len(s) : 1 + i - 1 = i
  BY <1>1
<1>5. /\ SubSeq(s, 1, Len(s)) \in Seq(S) /\ Len(SubSeq(s, 1, Len(s))) = Len(s)
      /\ \A i \in 1..Len(s) : SubSeq(s, 1, Len(s))[i] = s[i]
  BY <1>1, <1>3, <1>4, SubSeqProperties
<1>6. /\ SubSeq(s \o t, 1, Len(s)) \in Seq(S) /\ Len(SubSeq(s \o t, 1, Len(s))) = Len(s)
      /\ \A i \in 1..Len(s) : SubSeq(s \o t, 1, Len(s))[i] = (s \o t)[i]
  BY <1>1, <1>3, <1>4, SubSeqProperties
<1>7. SubSeq(s, 1, Len(s)) = SubSeq(s \o t, 1, Len(s))
  BY <1>3, <1>5, <1>6, SeqEqual
<1> QED BY <1>1, <1>2, <1>7 DEF IsPrefix

(* What follows a prefix. *)
LEMMA RestOfPrefix ==
  ASSUME NEW S, NEW s \in Seq(S), NEW t \in Seq(S), IsPrefix(s, t)
  PROVE  \E u \in Seq(S) : t = s \o u
<1> DEFINE u == SubSeq(t, Len(s) + 1, Len(t))
<1>1. Len(s) \in Nat /\ Len(t) \in Nat /\ Len(s) <= Len(t) /\ s = SubSeq(t, 1, Len(s))
  BY LenProperties DEF IsPrefix
<1>2. \A i \in 1..Len(t) : t[i] \in S
  BY LenProperties
<1>3. \A i \in 1..Len(s) : s[i] = t[i]
  <2>1. \A i \in 1..Len(s) : SubSeq(t, 1, Len(s))[i] = t[i]
    <3>1. 1 \in Int /\ Len(s) \in Int /\ Len(s) - 1 + 1 = Len(s) /\ \A i \in 1..Len(s) : 1 + i - 1 = i /\ t[i] \in S
      BY <1>1, <1>2
    <3> QED BY <3>1, SubSeqProperties
  <2> QED BY <1>1, <2>1
<1>4. /\ u \in Seq(S) /\ Len(u) = Len(t) - Len(s)
      /\ \A i \in 1..(Len(t) - Len(s)) : u[i] = t[Len(s) + i]
  <2>1. /\ Len(s) + 1 \in Int /\ Len(t) \in Int /\ \A i \in (Len(s) + 1)..Len(t) : t[i] \in S
    BY <1>1, <1>2
  <2>2. /\ u \in Seq(S) /\ Len(u) = (IF Len(s) + 1 <= Len(t) THEN Len(t) - (Len(s) + 1) + 1 ELSE 0)
        /\ \A i \in 1..(Len(t) - (Len(s) + 1) + 1) : u[i] = t[(Len(s) + 1) + i - 1]
    BY <2>1, SubSeqProperties
  <2>3. /\ Len(t) - (Len(s) + 1) + 1 = Len(t) - Len(s) /\ (~(Len(s) + 1 <= Len(t)) => Len(t) - Len(s) = 0)
        /\ \A i \in 1..(Len(t) - Len(s)) : (Len(s) + 1) + i - 1 = Len(s) + i
    BY <1>1
  <2> QED BY <2>2, <2>3
<1> HIDE DEF u
<1>5. /\ s \o u \in Seq(S) /\ Len(s \o u) = Len(s) + Len(u)
      /\ \A i \in 1..Len(s) + Len(u) : (s \o u)[i] = IF i <= Len(s) THEN s[i] ELSE u[i - Len(s)]
  BY <1>4, ConcatProperties
<1>6. Len(s) + Len(u) = Len(t)
  BY <1>1, <1>4
<1>7. ASSUME NEW i \in 1..Len(t) PROVE (s \o u)[i] = t[i]
  <2>1. CASE i <= Len(s)
    BY <1>3, <1>5, <1>6, <2>1
  <2>2. CASE ~(i <= Len(s))
    <3>1. i - Len(s) \in 1..(Len(t) - Len(s)) /\ Len(s) + (i - Len(s)) = i
      BY <1>1, <2>2
    <3> QED BY <1>4, <1>5, <1>6, <2>2, <3>1
  <2> QED BY <2>1, <2>2
<1>8. t = s \o u
  BY <1>5, <1>6, <1>7, SeqEqual
<1> QED BY <1>4, <1>8

LEMMA FifoStep == FifoInv /\ [Next]_vars => FifoInv'
<1> SUFFICES ASSUME FifoInv, [Next]_vars PROVE FifoInv'
  OBVIOUS
<1>1. program' = program
  BY DEF Next, OpenFiles, Starts, StartsNot, CopySc, ReadSc, WriteSc, CopyLibc, ReadLibc, WriteLibc, CopyMemmap,
     MapFiles, CopyAtOnce, CopyWindow, ReadAsync, OpenInput, AsyncRead, Poll, Free, Transfer, PipeReader, OpenFifo, ReadFifo,
     PipeWriter, StartWriter, WriteLine, WriterLeaves, Goes, given, vars
<1>2. CASE program # "fifo"
  <2>1. UNCHANGED <<fifo, sent, lost, shown>> /\ faults' \in Nat
    BY <1>2 DEF FifoInv, Next, OpenFiles, Starts, StartsNot, CopySc, ReadSc, WriteSc, CopyLibc, ReadLibc, WriteLibc,
       CopyMemmap, MapFiles, CopyAtOnce, CopyWindow, ReadAsync, OpenInput, AsyncRead, Poll, Free, Transfer, PipeReader, OpenFifo,
       ReadFifo, PipeWriter, StartWriter, WriteLine, WriterLeaves, Goes, Fault, Stays, queue, vars
  <2> QED BY <1>1, <1>2, <2>1 DEF FifoInv
<1>3. CASE program = "fifo"
  <2>1. \/ OpenFifo \/ ReadFifo \/ (\E w \in Writers : StartWriter(w) \/ WriteLine(w) \/ WriterLeaves(w))
        \/ UNCHANGED vars
    BY <1>3 DEF Next, OpenFiles, Starts, StartsNot, CopySc, ReadSc, WriteSc, CopyLibc, ReadLibc, WriteLibc,
       CopyMemmap, MapFiles, CopyAtOnce, CopyWindow, ReadAsync, OpenInput, AsyncRead, Poll, Free, Transfer, PipeReader, PipeWriter,
       FifoInv
  <2> DEFINE Strs == Seq(Seq(Nat))
  <2>2. /\ fifo \in Seq(Nat) /\ sent \in Strs /\ lost \in Strs /\ shown \in Strs /\ faults \in Nat
        /\ pc \in {"start", "opening", "read", "done", "failed"}
        /\ pc \in {"start", "opening"} => shown = <<>>
        /\ pc = "opening" => writers = {}
        /\ ~cut => /\ Ends(fifo)
                   /\ IsPrefix(lost \o shown, sent)
                   /\ pc \in {"start", "opening", "read"} => sent = (lost \o shown) \o EchoReceivedMsg(fifo)
    BY <1>3 DEF FifoInv
  <2> DEFINE Kept ==
        /\ fifo' \in Seq(Nat) /\ sent' \in Strs /\ lost' \in Strs /\ shown' \in Strs /\ faults' \in Nat
        /\ pc' \in {"start", "opening", "read", "done", "failed"}
        /\ pc' \in {"start", "opening"} => shown' = <<>>
        /\ pc' = "opening" => writers' = {}
        /\ ~cut' => /\ Ends(fifo')
                    /\ IsPrefix(lost' \o shown', sent')
                    /\ pc' \in {"start", "opening", "read"} =>
                         sent' = (lost' \o shown') \o EchoReceivedMsg(fifo')
  <2>3. Kept => FifoInv'
    BY <1>1, <1>3 DEF FifoInv, Ends, EchoReceivedMsg, EchoedUpTo
  <2> HIDE DEF Strs
  <2> DEFINE base == lost \o shown
  <2>9. base \in Strs
    BY <2>2, ConcatProperties DEF Strs
  <2>10. <<>> \in Seq(Nat) /\ <<>> \in Strs /\ Ends(<<>>) /\ EchoReceivedMsg(<<>>) = <<>>
    BY EchoedNothing DEF Ends, Strs
  <2>4. CASE OpenFifo
    <3>1. UNCHANGED <<fifo, sent, lost, shown, cut, writers>> /\ pc = "start"
      BY <2>4 DEF OpenFifo, Goes, Stays, queue
    <3>2. \/ pc' = "opening" /\ writers = {} /\ faults' = faults
          \/ pc' = "read" /\ faults' = faults
          \/ pc' = "failed" /\ faults' \in {faults, faults + 1}
      BY <2>4 DEF OpenFifo, Goes, Fault
    <3> QED BY <2>2, <2>3, <3>1, <3>2
  <2>5. CASE UNCHANGED vars
    BY <2>2, <2>3, <2>5 DEF vars, queue
  <2>11. ASSUME NEW w \in Writers, StartWriter(w) PROVE FifoInv'
    <3>1. UNCHANGED <<fifo, sent, lost, shown, cut>>
      BY <2>11 DEF StartWriter
    <3>2. \/ pc' = pc /\ pc # "opening" /\ faults' = faults
          \/ pc = "opening" /\ pc' = "read" /\ faults' = faults
          \/ UNCHANGED <<pc, writers>> /\ faults' = faults + 1
      BY <2>11 DEF StartWriter, Fault
    <3> QED BY <2>2, <2>3, <3>1, <3>2
  <2>6. ASSUME NEW w \in Writers, WriterLeaves(w) PROVE FifoInv'
    <3>1. UNCHANGED <<pc, sent, shown, cut, faults>> /\ w \in writers /\ writers' = writers \ {w}
          /\ fifo' = (IF writers' = {} /\ pc # "read" THEN <<>> ELSE fifo)
          /\ lost' = (IF writers' = {} /\ pc = "start" THEN sent ELSE lost)
      BY <2>6 DEF WriterLeaves
    <3>2. CASE writers' = {} /\ pc = "start"
      <4>1. fifo' = <<>> /\ lost' = sent /\ shown' = <<>> /\ sent' = sent /\ pc' = "start"
        BY <2>2, <3>1, <3>2
      <4>2. sent \o <<>> = sent /\ IsPrefix(sent, sent)
        <5>1. sent \o <<>> = sent
          BY <2>2, ConcatEmptySeq DEF Strs
        <5> QED BY <2>2, <2>10, <5>1, PrefixOfConcat DEF Strs
      <4>3. lost' \o shown' = sent /\ (lost' \o shown') \o EchoReceivedMsg(fifo') = sent
        BY <2>10, <4>1, <4>2
      <4> QED BY <2>2, <2>3, <2>10, <3>1, <4>1, <4>2, <4>3
    <3>3. CASE writers' = {} /\ pc \in {"done", "failed"}
      BY <2>2, <2>3, <2>10, <3>1, <3>3
    <3>4. CASE ~(writers' = {} /\ pc # "read")
      BY <2>2, <2>3, <3>1, <3>4
    <3> QED BY <2>2, <3>1, <3>2, <3>3, <3>4
  <2>7. ASSUME NEW w \in Writers, WriteLine(w) PROVE FifoInv'
    <3>1. PICK line \in Lines :
            LET fits == Len(fifo) + Len(line) + 1 <= Capacity IN
            /\ fifo' = IF fits THEN fifo \o Append(line, 0) ELSE fifo
            /\ sent' = IF fits THEN Append(sent, line) ELSE sent
      BY <2>7 DEF WriteLine
    <3>2. UNCHANGED <<pc, writers, lost, shown, cut, faults>> /\ w \in writers /\ pc # "opening"
      BY <2>2, <2>7 DEF WriteLine
    <3>3. CASE UNCHANGED <<fifo, sent>>
      BY <2>2, <2>3, <3>2, <3>3
    <3>4. CASE fifo' = fifo \o Append(line, 0) /\ sent' = Append(sent, line)
      <4> DEFINE m == Append(line, 0)
      <4>1. line \in Seq(Nat) /\ m \in Seq(Nat) /\ EchoReceivedMsg(m) = <<line>> /\ Len(m) = Len(line) + 1
            /\ m[Len(line) + 1] = 0 /\ Len(line) \in Nat
        <5>1. line \in Seq(Nat \ {0}) /\ line \in Seq(Nat)
          BY LinesAssumption, SeqMonotonic
        <5> QED BY <5>1, EchoedLine, LenProperties
      <4> HIDE DEF m
      <4>2. fifo' \in Seq(Nat) /\ sent' \in Strs /\ Len(fifo) \in Nat
        <5>1. line \in Seq(Nat)
          BY <4>1
        <5> QED BY <2>2, <3>4, <4>1, <5>1 DEF m, Strs
      <4>3. Ends(fifo')
        <5>1. /\ Len(fifo \o m) = Len(fifo) + Len(m)
              /\ \A i \in 1..Len(fifo) + Len(m) :
                   (fifo \o m)[i] = IF i <= Len(fifo) THEN fifo[i] ELSE m[i - Len(fifo)]
          BY <2>2, <4>1, ConcatProperties
        <5>2. /\ Len(fifo) + Len(m) \in 1..Len(fifo) + Len(m) /\ ~(Len(fifo) + Len(m) <= Len(fifo))
              /\ Len(fifo) + Len(m) - Len(fifo) = Len(line) + 1
          BY <4>1, <4>2
        <5>3. fifo' = fifo \o m
          BY <3>4 DEF m
        <5> QED BY <4>1, <5>1, <5>2, <5>3 DEF Ends
      <4>4. ASSUME ~cut, pc \in {"start", "read"} PROVE sent' = base \o EchoReceivedMsg(fifo')
        <5>1. Ends(fifo) /\ sent = base \o EchoReceivedMsg(fifo)
          BY <2>2, <4>4
        <5>2. EchoReceivedMsg(fifo') = EchoReceivedMsg(fifo) \o <<line>>
          BY <2>2, <3>4, <4>1, <5>1, EchoedConcat DEF Ends, m
        <5>3. EchoReceivedMsg(fifo) \in Strs /\ <<line>> \in Strs
          BY <2>2, <4>1, EchoedStrings DEF Strs
        <5>4. (base \o EchoReceivedMsg(fifo)) \o <<line>> = base \o (EchoReceivedMsg(fifo) \o <<line>>)
          <6> DEFINE x == EchoReceivedMsg(fifo)
                     y == <<line>>
          <6>1. base \in Seq(Seq(Nat)) /\ x \in Seq(Seq(Nat)) /\ y \in Seq(Seq(Nat))
            BY <2>9, <5>3 DEF Strs
          <6> HIDE DEF x, y, base
          <6>2. Cat(Cat(base, x), y) = Cat(base, Cat(x, y))
            BY <6>1, CatThree
          <6> QED BY <6>2 DEF x, y, Cat
        <5>5. sent' = sent \o <<line>>
          BY <2>2, <3>4, <4>1 DEF Strs
        <5> QED BY <5>1, <5>2, <5>4, <5>5
      <4>5. ASSUME ~cut PROVE IsPrefix(base, sent')
        <5>1. PICK rest \in Strs : sent = base \o rest
          <6> HIDE DEF base
          <6>1. IsPrefix(base, sent)
            BY <2>2, <4>5 DEF base
          <6>2. base \in Seq(Seq(Nat)) /\ sent \in Seq(Seq(Nat))
            BY <2>2, <2>9 DEF Strs
          <6>3. \E rest \in Seq(Seq(Nat)) : sent = base \o rest
            BY <6>1, <6>2, RestOfPrefix
          <6> QED BY <6>3 DEF Strs
        <5>2. sent' = sent \o <<line>> /\ <<line>> \in Strs
          BY <2>2, <3>4, <4>1 DEF Strs
        <5> HIDE DEF base
        <5>3. sent' = base \o (rest \o <<line>>) /\ rest \o <<line>> \in Strs
          <6> DEFINE y == <<line>>
          <6>1. base \in Seq(Seq(Nat)) /\ rest \in Seq(Seq(Nat)) /\ y \in Seq(Seq(Nat))
            BY <2>9, <5>1, <5>2 DEF Strs
          <6> HIDE DEF y
          <6>2. Cat(Cat(base, rest), y) = Cat(base, Cat(rest, y)) /\ Cat(rest, y) \in Seq(Seq(Nat))
            BY <6>1, CatThree, CatIs
          <6> QED BY <5>1, <5>2, <6>2 DEF y, Cat, Strs
        <5> QED BY <2>9, <5>3, PrefixOfConcat DEF Strs
      <4>6. lost' \o shown' = base
        BY <3>2
      <4> HIDE DEF base
      <4> QED BY <2>2, <2>3, <3>2, <4>2, <4>3, <4>4, <4>5, <4>6
    <3> QED BY <3>1, <3>3, <3>4
  <2>8. CASE ReadFifo
    <3> DEFINE n == Smaller(ReadSize, Len(fifo))
    <3>1. UNCHANGED <<writers, sent, lost>> /\ Len(fifo) \in Nat /\ n \in Nat /\ n <= Len(fifo)
          /\ (n = 0 => fifo = <<>>)
      <4>1. UNCHANGED <<writers, sent, lost>>
        BY <2>8 DEF ReadFifo
      <4>2. Len(fifo) \in Nat /\ (Len(fifo) = 0 => fifo = <<>>)
        BY <2>2, EmptySeq, LenProperties
      <4> QED BY <4>1, <4>2, SizesAssumption DEF Smaller
    <3> HIDE DEF n
    <3>2. CASE /\ n > 0 /\ Goes("read", "read") /\ UNCHANGED faults
               /\ fifo' = SubSeq(fifo, n + 1, Len(fifo))
               /\ shown' = shown \o EchoReceivedMsg(Append(SubSeq(fifo, 1, n - 1), 0))
               /\ cut' = (cut \/ fifo[n] # 0)
      <4> DEFINE a == SubSeq(fifo, 1, n)
                 b == SubSeq(fifo, n + 1, Len(fifo))
                 c == Append(SubSeq(fifo, 1, n - 1), 0)
      <4>1. pc = "read" /\ pc' = "read" /\ n \in 1..Len(fifo)
        BY <3>1, <3>2 DEF Goes
      <4>2. /\ a \in Seq(Nat) /\ b \in Seq(Nat) /\ c \in Seq(Nat) /\ Len(a) = n /\ a[n] = fifo[n]
            /\ a \o b = fifo /\ (fifo[n] = 0 => c = a)
            /\ (Ends(fifo) => Ends(b))
        <5>1. /\ 1 \in Int /\ n \in Int /\ n - 1 \in Int /\ n + 1 \in Int /\ Len(fifo) \in Int
              /\ \A i \in 1..Len(fifo) : fifo[i] \in Nat
          BY <2>2, <3>1, LenProperties
        <5>2. /\ a \in Seq(Nat) /\ Len(a) = n /\ \A i \in 1..n : a[i] = fifo[i]
          <6>1. \A i \in 1..n : fifo[i] \in Nat
            BY <3>1, <5>1
          <6>2. /\ a \in Seq(Nat) /\ Len(a) = (IF 1 <= n THEN n - 1 + 1 ELSE 0)
                /\ \A i \in 1..(n - 1 + 1) : a[i] = fifo[1 + i - 1]
            BY <5>1, <6>1, SubSeqProperties
          <6>3. n - 1 + 1 = n /\ 1 <= n /\ \A i \in 1..n : 1 + i - 1 = i
            BY <4>1, <3>1
          <6> QED BY <6>2, <6>3
        <5>3. /\ b \in Seq(Nat) /\ Len(b) = Len(fifo) - n
              /\ \A i \in 1..(Len(fifo) - n) : b[i] = fifo[n + i]
          <6>1. \A i \in (n + 1)..Len(fifo) : fifo[i] \in Nat
            BY <3>1, <5>1
          <6>2. /\ b \in Seq(Nat) /\ Len(b) = (IF n + 1 <= Len(fifo) THEN Len(fifo) - (n + 1) + 1 ELSE 0)
                /\ \A i \in 1..(Len(fifo) - (n + 1) + 1) : b[i] = fifo[(n + 1) + i - 1]
            BY <5>1, <6>1, SubSeqProperties
          <6>3. /\ Len(fifo) - (n + 1) + 1 = Len(fifo) - n /\ (~(n + 1 <= Len(fifo)) => Len(fifo) - n = 0)
                /\ \A i \in 1..(Len(fifo) - n) : (n + 1) + i - 1 = n + i
            BY <4>1, <3>1
          <6> QED BY <6>2, <6>3
        <5>4. /\ SubSeq(fifo, 1, n - 1) \in Seq(Nat) /\ Len(SubSeq(fifo, 1, n - 1)) = n - 1
              /\ \A i \in 1..(n - 1) : SubSeq(fifo, 1, n - 1)[i] = fifo[i]
          <6>1. \A i \in 1..(n - 1) : fifo[i] \in Nat
            BY <3>1, <5>1
          <6>2. /\ SubSeq(fifo, 1, n - 1) \in Seq(Nat)
                /\ Len(SubSeq(fifo, 1, n - 1)) = (IF 1 <= n - 1 THEN n - 1 - 1 + 1 ELSE 0)
                /\ \A i \in 1..(n - 1 - 1 + 1) : SubSeq(fifo, 1, n - 1)[i] = fifo[1 + i - 1]
            BY <5>1, <6>1, SubSeqProperties
          <6>3. n - 1 - 1 + 1 = n - 1 /\ (~(1 <= n - 1) => n - 1 = 0) /\ \A i \in 1..(n - 1) : 1 + i - 1 = i
            BY <4>1, <3>1
          <6> QED BY <6>2, <6>3
        <5>5. c \in Seq(Nat) /\ Len(c) = n /\ c[n] = 0 /\ \A i \in 1..(n - 1) : c[i] = fifo[i]
          <6> DEFINE d == SubSeq(fifo, 1, n - 1)
          <6>1. d \in Seq(Nat) /\ Len(d) = n - 1 /\ \A i \in 1..(n - 1) : d[i] = fifo[i]
            BY <5>4
          <6>2. c = Append(d, 0)
            OBVIOUS
          <6> HIDE DEF c, d
          <6> QED BY <4>1, <3>1, <6>1, <6>2
        <5> HIDE DEF a, b, c
        <5>6. a \o b = fifo
          <6>1. /\ a \o b \in Seq(Nat) /\ Len(a \o b) = Len(a) + Len(b)
                /\ \A i \in 1..Len(a) + Len(b) : (a \o b)[i] = IF i <= Len(a) THEN a[i] ELSE b[i - Len(a)]
            BY <5>2, <5>3, ConcatProperties
          <6>2. Len(a) + Len(b) = Len(fifo)
            BY <3>1, <5>2, <5>3
          <6>3. ASSUME NEW i \in 1..Len(fifo) PROVE (a \o b)[i] = fifo[i]
            <7>1. CASE i <= n
              <8>1. i \in 1..n
                BY <7>1, <3>1
              <8> QED BY <5>2, <6>1, <6>2, <7>1, <8>1
            <7>2. CASE ~(i <= n)
              <8>1. i - n \in 1..(Len(fifo) - n) /\ n + (i - n) = i
                BY <7>2, <3>1
              <8> QED BY <5>2, <5>3, <6>1, <6>2, <7>2, <8>1
            <7> QED BY <7>1, <7>2
          <6> QED BY <2>2, <6>1, <6>2, <6>3, SeqEqual
        <5>7. fifo[n] = 0 => c = a
          <6> SUFFICES ASSUME fifo[n] = 0 PROVE c = a
            OBVIOUS
          <6>1. \A i \in 1..n : i = n \/ i \in 1..(n - 1)
            BY <3>1, <4>1
          <6>2. n \in 1..n
            BY <3>1, <4>1
          <6>3. \A i \in 1..Len(c) : c[i] = a[i]
            BY <5>2, <5>5, <6>1, <6>2
          <6> QED BY <5>2, <5>5, <6>3, SeqEqual
        <5>8. Ends(fifo) => Ends(b)
          <6> SUFFICES ASSUME Ends(fifo), b # <<>> PROVE b[Len(b)] = 0
            BY DEF Ends
          <6>1. Len(b) \in Nat \ {0}
            BY <5>3, EmptySeq
          <6>2. Len(b) \in 1..(Len(fifo) - n) /\ n + Len(b) = Len(fifo) /\ Len(fifo) > 0
            BY <3>1, <5>3, <6>1
          <6>3. b[Len(b)] = fifo[Len(fifo)]
            BY <5>3, <6>2
          <6>4. fifo # <<>>
            BY <6>2
          <6> QED BY <6>3, <6>4 DEF Ends
        <5>9. a[n] = fifo[n]
          BY <3>1, <4>1, <5>2
        <5> QED BY <5>2, <5>3, <5>5, <5>6, <5>7, <5>8, <5>9
      <4>3. fifo' = b /\ shown' = shown \o EchoReceivedMsg(c) /\ cut' = (cut \/ fifo[n] # 0)
        BY <3>2
      <4> HIDE DEF a, b, c
      <4>4. EchoReceivedMsg(c) \in Strs /\ EchoReceivedMsg(b) \in Strs
        BY <4>2, EchoedStrings DEF Strs
      <4>5. fifo' \in Seq(Nat) /\ shown' \in Strs
        BY <2>2, <4>2, <4>3, <4>4 DEF Strs
      <4>6. lost' \o shown' = base \o EchoReceivedMsg(c)
        <5> DEFINE x == EchoReceivedMsg(c)
        <5>1. lost \in Seq(Seq(Nat)) /\ shown \in Seq(Seq(Nat)) /\ x \in Seq(Seq(Nat))
          BY <2>2, <4>4 DEF Strs
        <5> HIDE DEF x
        <5>2. Cat(Cat(lost, shown), x) = Cat(lost, Cat(shown, x))
          BY <5>1, CatThree
        <5> QED BY <3>1, <4>3, <5>2 DEF x, Cat
      <4>7. ASSUME ~cut'
            PROVE  /\ Ends(fifo') /\ sent = (lost' \o shown') \o EchoReceivedMsg(fifo')
                   /\ IsPrefix(lost' \o shown', sent)
        <5>1. ~cut /\ fifo[n] = 0 /\ Ends(fifo) /\ sent = base \o EchoReceivedMsg(fifo)
          BY <2>2, <4>1, <4>3, <4>7
        <5>2. EchoReceivedMsg(a \o b) = EchoReceivedMsg(a) \o EchoReceivedMsg(b)
          BY <4>2, <5>1, EchoedConcat
        <5>3. sent = base \o (EchoReceivedMsg(c) \o EchoReceivedMsg(b))
          BY <4>2, <5>1, <5>2
        <5> HIDE DEF base
        <5> DEFINE x == EchoReceivedMsg(c)
                   y == EchoReceivedMsg(b)
        <5>4. base \in Seq(Seq(Nat)) /\ x \in Seq(Seq(Nat)) /\ y \in Seq(Seq(Nat))
          BY <2>9, <4>4 DEF Strs
        <5>5. lost' \o shown' = base \o x /\ sent = base \o (x \o y) /\ fifo' = b
          BY <4>3, <4>6, <5>3
        <5>6. Ends(fifo') /\ EchoReceivedMsg(fifo') = y
          BY <4>2, <4>3, <5>1
        <5> HIDE DEF x, y
        <5>7. Cat(Cat(base, x), y) = Cat(base, Cat(x, y)) /\ Cat(base, x) \in Seq(Seq(Nat))
          BY <5>4, CatThree, CatIs
        <5>8. sent = (base \o x) \o y /\ base \o x \in Seq(Seq(Nat))
          BY <5>5, <5>7 DEF Cat
        <5> QED BY <5>4, <5>5, <5>6, <5>8, PrefixOfConcat
      <4> QED BY <2>2, <2>3, <3>1, <3>2, <4>1, <4>5, <4>7
    <3>3. CASE n = 0 /\ writers = {} /\ Goes("read", "done") /\ UNCHANGED <<faults, fifo, shown, cut>>
      <4>1. pc' = "done"
        BY <3>3 DEF Goes
      <4> QED BY <2>2, <2>3, <3>1, <3>3, <4>1
    <3>4. CASE /\ Goes("read", "done") /\ Fault /\ UNCHANGED <<shown, cut>>
               /\ fifo' = IF writers = {} THEN <<>> ELSE fifo
      <4>1. pc' = "done" /\ faults' = faults + 1 /\ fifo' \in {<<>>, fifo}
        BY <3>4 DEF Goes, Fault
      <4> QED BY <2>2, <2>3, <2>10, <3>1, <3>4, <4>1
    <3> QED BY <2>8, <3>2, <3>3, <3>4 DEF ReadFifo, n
  <2> QED BY <2>1, <2>4, <2>5, <2>6, <2>7, <2>8, <2>11
<1> QED BY <1>2, <1>3

(* What the FIFO has taken went before there was a reader, or has been shown or is in  *)
(* the FIFO until the reader stops, in this order, however writers come and go.          *)
THEOREM FifoInvariant == Spec => []FifoInv
<1>1. Init => FifoInv
  <2> SUFFICES ASSUME Init PROVE FifoInv
    OBVIOUS
  <2>1. fifo = <<>> /\ sent = <<>> /\ lost = <<>> /\ shown = <<>> /\ faults = 0 /\ pc = "start" /\ cut = FALSE
    BY DEF Init
  <2>2. <<>> \in Seq(Seq(Nat)) /\ <<>> \in Seq(Nat) /\ <<>> \o <<>> = <<>> /\ IsPrefix(<<>>, <<>>)
    BY DEF IsPrefix
  <2> QED BY <2>1, <2>2, EchoedNothing DEF FifoInv, Ends
<1> QED BY <1>1, FifoStep, PTL DEF Spec

(* For any number of writers that come and go, and any messages and sizes: as long as   *)
(* no read() has ended within a message, the reader shows the messages the FIFO has      *)
(* taken, each whole and in order, but for those that went with the last writer before   *)
(* there was a reader, and all of them when it has emptied the FIFO                       *)
(* (pipe-reader.c:46-50, pipe-writer.c:20-47).                                            *)
THEOREM MessagesWhole == Spec => []MessagesKept
<1>1. FifoInv => MessagesKept
  <2> SUFFICES ASSUME FifoInv, ~cut
               PROVE  IsPrefix(lost \o shown, sent) /\ (pc = "read" /\ fifo = <<>> => lost \o shown = sent)
    BY DEF MessagesKept
  <2>1. lost \o shown \in Seq(Seq(Nat))
    BY ConcatProperties DEF FifoInv
  <2>2. (lost \o shown) \o <<>> = lost \o shown
    BY <2>1, ConcatEmptySeq
  <2>3. IsPrefix(<<>>, <<>>) /\ <<>> \o <<>> = <<>>
    BY DEF IsPrefix
  <2> QED BY <2>2, <2>3, EchoedNothing DEF FifoInv
<1> QED BY <1>1, FifoInvariant, PTL
=============================================================================
