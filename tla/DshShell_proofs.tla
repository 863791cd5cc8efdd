--------------------------- MODULE DshShell_proofs ---------------------------
(***************************************************************************)
(* Theorems about DshShell, for every bound, every line and every file:    *)
(* the sizes of what the parsers make of a line, the arguments of a line   *)
(* that is written from arguments, which every parser finds again, and     *)
(* what ">>" leaves of a file.  A scan is a recursive function of the      *)
(* number of symbols read: what is true of it is shown for the least       *)
(* number of which it might not be.                                        *)
(***************************************************************************)
EXTENDS DshShell, SequenceTheorems, FiniteSetTheorems, WellFoundedInduction, TLAPS

-----------------------------------------------------------------------------
(***************************************************************************)
(* Numbers in order.                                                       *)
(***************************************************************************)
LEMMA LeastNumber ==
  ASSUME NEW T, T \subseteq Nat, T # {}
  PROVE  \E x \in T : \A y \in T : ~(y < x)
<1> DEFINE R == OpToRel(<, Nat)
<1>1. IsWellFoundedOn(R, Nat)
  BY NatLessThanWellFounded
<1>2. \E x \in T : \A y \in T : <<y, x>> \notin R
  <2> HIDE DEF R
  <2> QED BY <1>1, WFMin
<1>3. \A x, y \in Nat : y < x => <<y, x>> \in R
  BY DEF OpToRel
<1> QED BY <1>2, <1>3

LEMMA MinIs ==
  ASSUME NEW T, T \subseteq Nat, T # {}
  PROVE  Min(T) \in T /\ \A y \in T : Min(T) <= y
<1>1. \E x \in T : \A y \in T : x <= y
  <2>1. PICK x \in T : \A y \in T : ~(y < x)
    BY LeastNumber
  <2>2. \A y \in T : x <= y
    BY <2>1
  <2> QED BY <2>2
<1> QED BY <1>1 DEF Min

(* A function on 1..m is a sequence of length m. *)
LEMMA FunctionLen ==
  ASSUME NEW m \in Nat, NEW f, f = [i \in 1..m |-> f[i]]
  PROVE  Len(f) = m /\ DOMAIN f = 1..m /\ f \in Seq({f[i] : i \in 1..m})
<1> DEFINE S == {f[i] : i \in 1..m}
<1>1. f \in [1..m -> S]
  OBVIOUS
<1> HIDE DEF S
<1>2. f \in Seq(S)
  BY <1>1, SeqDef
<1>3. Len(f) \in Nat /\ DOMAIN f = 1..Len(f) /\ DOMAIN f = 1..m
  BY <1>1, <1>2, LenProperties
<1>4. Len(f) = m
  <2>1. CASE m = 0
    BY <1>3, <2>1
  <2>2. CASE m > 0
    <3>1. m \in 1..Len(f)
      BY <1>3, <2>2
    <3>2. Len(f) \in 1..m
      BY <1>3, <3>1
    <3> QED BY <1>3, <3>1, <3>2
  <2> QED BY <2>1, <2>2
<1> QED BY <1>2, <1>3, <1>4 DEF S

(* The numbers of S up to i. *)
UpTo(S, i) == {j \in S : j <= i}

LEMMA UpToIs ==
  ASSUME NEW n \in Nat, NEW S, S \subseteq 1..n, NEW i \in Nat
  PROVE  /\ IsFiniteSet(S) /\ Cardinality(S) \in Nat
         /\ IsFiniteSet(UpTo(S, i)) /\ Cardinality(UpTo(S, i)) \in Nat
         /\ i >= n => UpTo(S, i) = S
         /\ UpTo(S, 0) = {}
         /\ i + 1 \in S => Cardinality(UpTo(S, i + 1)) = Cardinality(UpTo(S, i)) + 1
         /\ i + 1 \notin S => Cardinality(UpTo(S, i + 1)) = Cardinality(UpTo(S, i))
<1>1. IsFiniteSet(S) /\ Cardinality(S) \in Nat
  <2>1. IsFiniteSet(1..n)
    BY FS_Interval
  <2> QED BY <2>1, FS_Subset, FS_CardinalityType
<1>2. UpTo(S, i) \in SUBSET S
  BY DEF UpTo
<1>3. IsFiniteSet(UpTo(S, i)) /\ Cardinality(UpTo(S, i)) \in Nat
  BY <1>1, <1>2, FS_Subset, FS_CardinalityType
<1>6. \A j \in S : j \in Nat /\ 1 <= j /\ j <= n
  OBVIOUS
<1>4. ASSUME i >= n PROVE UpTo(S, i) = S
  <2>1. \A j \in S : j <= i
    BY <1>4, <1>6
  <2> QED BY <2>1 DEF UpTo
<1>5. UpTo(S, 0) = {}
  <2>1. \A j \in S : ~(j <= 0)
    BY <1>6
  <2> QED BY <2>1 DEF UpTo
<1>7. CASE i + 1 \in S
  <2>1. UpTo(S, i + 1) = UpTo(S, i) \cup {i + 1} /\ i + 1 \notin UpTo(S, i)
    <3>1. \A j \in S : j <= i + 1 <=> j <= i \/ j = i + 1
      BY <1>6
    <3>2. ~(i + 1 <= i)
      OBVIOUS
    <3> QED BY <1>7, <3>1, <3>2 DEF UpTo
  <2>2. Cardinality(UpTo(S, i) \cup {i + 1}) = Cardinality(UpTo(S, i)) + 1
    BY <1>3, <2>1, FS_AddElement
  <2> QED BY <1>1, <1>3, <1>4, <1>5, <1>7, <2>1, <2>2
<1>8. CASE i + 1 \notin S
  <2>1. UpTo(S, i + 1) = UpTo(S, i)
    <3>1. \A j \in S : j <= i + 1 <=> j <= i
      BY <1>6, <1>8
    <3> QED BY <3>1 DEF UpTo
  <2> QED BY <1>1, <1>3, <1>4, <1>5, <1>8, <2>1
<1> QED BY <1>7, <1>8

Counts(S, n, i) ==
  /\ Cardinality(S) \in Nat /\ Cardinality(UpTo(S, i)) \in Nat
  /\ i + 1 \in S => Cardinality(UpTo(S, i + 1)) = Cardinality(UpTo(S, i)) + 1
  /\ i + 1 \notin S => Cardinality(UpTo(S, i + 1)) = Cardinality(UpTo(S, i))

LEMMA UpToCounts ==
  ASSUME NEW n \in Nat, NEW S, S \subseteq 1..n, NEW i \in Nat
  PROVE  Counts(S, n, i)
<1>1. Cardinality(S) \in Nat /\ Cardinality(UpTo(S, i)) \in Nat
  BY UpToIs
<1>2. i + 1 \in S => Cardinality(UpTo(S, i + 1)) = Cardinality(UpTo(S, i)) + 1
  BY UpToIs
<1>3. i + 1 \notin S => Cardinality(UpTo(S, i + 1)) = Cardinality(UpTo(S, i))
  BY UpToIs
<1> QED BY <1>1, <1>2, <1>3 DEF Counts

(* The k-th member is a member with k - 1 before it. *)
LEMMA InOrderIs ==
  ASSUME NEW n \in Nat, NEW S, S \subseteq 1..n, NEW k \in 1..Cardinality(S)
  PROVE  InOrder(S)[k] \in S /\ Cardinality(UpTo(S, InOrder(S)[k])) = k
<1> DEFINE C(i) == Cardinality(UpTo(S, i))
           T == {i \in Nat : C(i) >= k}
<1>2. ASSUME NEW i \in Nat
      PROVE  /\ Cardinality(S) \in Nat /\ C(i) \in Nat
             /\ i + 1 \in S => C(i + 1) = C(i) + 1
             /\ i + 1 \notin S => C(i + 1) = C(i)
             /\ i >= n => C(i) = Cardinality(S)
             /\ C(0) = 0
  <2>1. UpTo(S, 0) = {}
    BY UpToIs
  <2>2. C(0) = 0
    BY <2>1, FS_EmptySet
  <2>3. /\ Cardinality(S) \in Nat /\ C(i) \in Nat
        /\ i + 1 \in S => C(i + 1) = C(i) + 1
        /\ i + 1 \notin S => C(i + 1) = C(i)
    <3>1. Counts(S, n, i)
      BY UpToCounts
    <3> QED BY <3>1 DEF Counts
  <2>4. i >= n => UpTo(S, i) = S
    BY UpToIs
  <2>5. i >= n => C(i) = Cardinality(S)
    BY <2>4, Zenon
  <2> HIDE DEF C
  <2> QED BY <2>2, <2>3, <2>5
<1>1. Cardinality(S) \in Nat /\ k \in Nat /\ k >= 1 /\ k <= Cardinality(S)
  <2>1. Cardinality(S) \in Nat
    BY <1>2
  <2> QED BY <2>1
<1>3. C(0) = 0 /\ C(n) = Cardinality(S)
  <2>1. n >= n
    OBVIOUS
  <2> QED BY <1>2, <2>1
<1> HIDE DEF C
<1>4. T # {} /\ T \subseteq Nat
  BY <1>1, <1>3
<1>5. PICK i \in T : \A j \in T : ~(j < i)
  <2> HIDE DEF T
  <2> QED BY <1>4, LeastNumber
<1>6. i \in Nat /\ i # 0 /\ C(i) >= k
  BY <1>1, <1>3, <1>5
<1>7. i - 1 \in Nat /\ (i - 1) + 1 = i /\ ~(C(i - 1) >= k)
  BY <1>5, <1>6
<1>8. i \in S /\ C(i) = k
  BY <1>1, <1>2, <1>6, <1>7
<1>9. \E x \in S : Cardinality({j \in S : j <= x}) = k
  BY <1>8 DEF C, UpTo
<1>10. InOrder(S)[k] = CHOOSE x \in S : Cardinality({j \in S : j <= x}) = k
  BY DEF InOrder
<1> QED BY <1>9, <1>10 DEF UpTo

LEMMA InOrderLen ==
  ASSUME NEW n \in Nat, NEW S, S \subseteq 1..n
  PROVE  Len(InOrder(S)) = Cardinality(S) /\ DOMAIN InOrder(S) = 1..Cardinality(S) /\ Cardinality(S) \in Nat
<1>1. Cardinality(S) \in Nat
  <2>1. 0 \in Nat
    OBVIOUS
  <2> QED BY <2>1, UpToIs
<1>2. InOrder(S) = [k \in 1..Cardinality(S) |-> InOrder(S)[k]]
  BY DEF InOrder
<1> QED BY <1>1, <1>2, FunctionLen

LEMMA TokensLen ==
  ASSUME NEW s, Len(s) \in Nat, NEW sep
  PROVE  /\ Len(Tokens(s, sep)) = Cardinality(Starts(s, sep)) /\ Len(Tokens(s, sep)) \in Nat
         /\ DOMAIN Tokens(s, sep) = 1..Len(Tokens(s, sep))
<1>1. Starts(s, sep) \subseteq 1..Len(s)
  BY DEF Starts
<1>2. Cardinality(Starts(s, sep)) \in Nat
  BY <1>1, InOrderLen
<1>3. Tokens(s, sep) = [k \in 1..Cardinality(Starts(s, sep)) |-> Tokens(s, sep)[k]]
  BY DEF Tokens
<1> QED BY <1>2, <1>3, FunctionLen

-----------------------------------------------------------------------------
(***************************************************************************)
(* The scans of 4-ShellP2 and 5-ShellP3.                                   *)
(***************************************************************************)
(* One round of the scanning loops given where the scan was. *)
NextPlace(l, parser, limit, r, n) ==
  IF r.token = n /\ Char(l, r.nul, n) # "NUL" /\ Len(r.argv) < limit
  THEN [(IF parser = "P2" THEN StepP2(l, r, n) ELSE StepP3(l, r, n)) EXCEPT !.token = n + 1]
  ELSE r
NextScan(l, parser, base, limit, F, n) ==
  IF n = 0 THEN base ELSE NextPlace(l, parser, limit, F[n - 1], n)

(* ScanUpTo is what its definition says: there is such a function. *)
LEMMA ScanDefined ==
  ASSUME NEW l, NEW parser, NEW base, NEW limit, Len(l) \in Nat
  PROVE  ScanUpTo(l, parser, base, limit)
           = [n \in 0..Len(l) |-> NextScan(l, parser, base, limit, ScanUpTo(l, parser, base, limit), n)]
<1> DEFINE L == Len(l)
           N(F, n) == NextScan(l, parser, base, limit, F, n)
           T == {m \in 0..L : ~\E F : DOMAIN F = 0..L /\ \A n \in 0..m : F[n] = N(F, n)}
<1>1. L \in Nat
  OBVIOUS
<1>0. ASSUME NEW F, NEW G, NEW n, n = 0 \/ F[n - 1] = G[n - 1] PROVE N(F, n) = N(G, n)
  BY <1>0 DEF NextScan
<1> HIDE DEF L, N
<1>2. T = {}
  <2> SUFFICES ASSUME T # {} PROVE FALSE
    OBVIOUS
  <2>1. PICK m \in T : \A k \in T : ~(k < m)
    <3>1. T \subseteq Nat
      BY <1>1
    <3> HIDE DEF T
    <3> QED BY <3>1, LeastNumber
  <2>2. m \in 0..L /\ m \in Nat
    BY <1>1
  <2>3. CASE m = 0
    <3> DEFINE F == [n \in 0..L |-> N(<<>>, 0)]
    <3>1. N(F, 0) = N(<<>>, 0)
      BY <1>0
    <3>2. DOMAIN F = 0..L /\ F[0] = N(<<>>, 0)
      BY <2>2, <2>3
    <3>3. \A n \in 0..m : n = 0
      BY <2>3
    <3> HIDE DEF F
    <3>4. DOMAIN F = 0..L /\ \A n \in 0..m : F[n] = N(F, n)
      BY <3>1, <3>2, <3>3
    <3> QED BY <3>4
  <2>4. CASE m > 0
    <3>1. m - 1 \in 0..L /\ m - 1 < m
      BY <1>1, <2>2, <2>4
    <3>2. m - 1 \notin T
      BY <2>1, <3>1
    <3>3. PICK G : DOMAIN G = 0..L /\ \A n \in 0..(m - 1) : G[n] = N(G, n)
      BY <3>1, <3>2
    <3> DEFINE F == [n \in 0..L |-> IF n = m THEN N(G, m) ELSE G[n]]
    <3>4. DOMAIN F = 0..L /\ F[m] = N(G, m) /\ \A n \in 0..L : n # m => F[n] = G[n]
      BY <2>2
    <3> HIDE DEF F
    <3>5. ASSUME NEW n \in 0..m PROVE F[n] = N(F, n)
      <4>1. n = 0 \/ (n - 1 \in 0..L /\ n - 1 # m)
        BY <1>1, <2>2
      <4>2. N(F, n) = N(G, n)
        <5>1. n = 0 \/ F[n - 1] = G[n - 1]
          BY <3>4, <4>1
        <5> QED BY <1>0, <5>1
      <4>3. CASE n = m
        BY <3>4, <4>2, <4>3
      <4>4. CASE n # m
        <5>1. n \in 0..L /\ n \in 0..(m - 1)
          BY <1>1, <2>2, <4>4
        <5> QED BY <3>3, <3>4, <4>2, <4>4, <5>1
      <4> QED BY <4>3, <4>4
    <3> QED BY <3>4, <3>5
  <2> QED BY <2>2, <2>3, <2>4
<1>3. \E F : DOMAIN F = 0..L /\ \A n \in 0..L : F[n] = N(F, n)
  <2>1. L \in 0..L
    BY <1>1
  <2> QED BY <1>2, <2>1
<1>4. \E F : F = [n \in 0..L |-> N(F, n)]
  <2>1. PICK G : \A n \in 0..L : G[n] = N(G, n)
    BY <1>3
  <2> DEFINE F == [n \in 0..L |-> N(G, n)]
  <2>2. \A n \in 0..L : F[n] = G[n]
    BY <2>1
  <2>3. ASSUME NEW n \in 0..L PROVE N(F, n) = N(G, n)
    <3>1. n = 0 \/ n - 1 \in 0..L
      BY <1>1
    <3> HIDE DEF F
    <3> QED BY <1>0, <2>2, <3>1
  <2>4. F = [n \in 0..L |-> N(F, n)]
    <3> DEFINE H == [n \in 0..L |-> N(F, n)]
    <3>1. \A n \in 0..L : H[n] = F[n]
      BY <2>3
    <3>2. DOMAIN H = DOMAIN F /\ H = [n \in DOMAIN H |-> H[n]] /\ F = [n \in DOMAIN F |-> F[n]]
      OBVIOUS
    <3> QED BY <3>1, <3>2
  <2> QED BY <2>4
<1>5. ScanUpTo(l, parser, base, limit) = CHOOSE F : F = [n \in 0..L |-> N(F, n)]
  BY DEF ScanUpTo, NextScan, NextPlace, L, N
<1>6. ScanUpTo(l, parser, base, limit) = [n \in 0..L |-> N(ScanUpTo(l, parser, base, limit), n)]
  BY <1>4, <1>5
<1> QED BY <1>6 DEF L, N

LEMMA ScanStep ==
  ASSUME NEW l, NEW parser, NEW base, NEW limit, Len(l) \in Nat
  PROVE  LET S == ScanUpTo(l, parser, base, limit) IN
         S[0] = base /\ \A n \in 1..Len(l) : S[n] = NextPlace(l, parser, limit, S[n - 1], n)
<1> DEFINE S == ScanUpTo(l, parser, base, limit)
<1>1. \A n \in 0..Len(l) : S[n] = NextScan(l, parser, base, limit, S, n)
  BY ScanDefined
<1> HIDE DEF S
<1>2. 0 \in 0..Len(l) /\ \A n \in 1..Len(l) : n \in 0..Len(l) /\ n # 0
  OBVIOUS
<1>3. S[0] = base /\ \A n \in 1..Len(l) : S[n] = NextPlace(l, parser, limit, S[n - 1], n)
  BY <1>1, <1>2 DEF NextScan
<1> QED BY <1>3 DEF S

(***************************************************************************)
(* A place of the scan.                                                    *)
(***************************************************************************)
IsPlace(r) ==
  /\ DOMAIN r = {"start", "token", "quoted", "argv", "nul", "in", "out", "append"}
  /\ r.start \in Nat /\ r.argv \in Seq(Nat)

LEMMA PushIs ==
  ASSUME NEW r, IsPlace(r)
  PROVE  /\ IsPlace(Push(r)) /\ Push(r).argv = Append(r.argv, r.start) /\ Len(Push(r).argv) = Len(r.argv) + 1
         /\ Push(r).start = r.start /\ Push(r).quoted = r.quoted /\ Push(r).token = r.token
  BY DEF IsPlace, Push

LEMMA CutIs ==
  ASSUME NEW r, NEW p, IsPlace(r)
  PROVE  /\ IsPlace(Cut(r, p)) /\ Cut(r, p).argv = r.argv
         /\ Cut(r, p).start = r.start /\ Cut(r, p).quoted = r.quoted /\ Cut(r, p).token = r.token
  BY DEF IsPlace, Cut

(* A step finds one argument at most. *)
Grows(r, s) == IsPlace(s) /\ Len(s.argv) <= Len(r.argv) + 1

LEMMA StepP2Grows ==
  ASSUME NEW l, NEW r, IsPlace(r), NEW p \in Nat
  PROVE  Grows(r, StepP2(l, r, p))
<1>1. /\ IsPlace(Push(Cut(r, p))) /\ Len(Push(Cut(r, p)).argv) = Len(r.argv) + 1
  BY PushIs, CutIs
<1>2. Len(r.argv) \in Nat
  BY DEF IsPlace
<1> DEFINE q == Push(Cut(r, p))
<1>3. Grows(r, r) /\ Grows(r, q)
  BY <1>1, <1>2 DEF Grows
<1> HIDE DEF q
<1>4. ASSUME NEW s, Grows(r, s), NEW b, NEW i \in Nat
      PROVE  /\ Grows(r, [s EXCEPT !.quoted = b, !.start = i]) /\ Grows(r, [s EXCEPT !.start = i])
  BY <1>4 DEF Grows, IsPlace
<1>5. p + 1 \in Nat /\ 0 \in Nat
  OBVIOUS
<1> QED BY <1>3, <1>4, <1>5 DEF StepP2, q

LEMMA RedirectGrows ==
  ASSUME NEW l, Len(l) \in Nat, NEW r, IsPlace(r), NEW p \in 1..Len(l), NEW mark
  PROVE  Grows(r, Redirect(l, r, p, mark))
<1> DEFINE appends == mark = "out" /\ Char(l, r.nul, p + 1) = ">"
           from == IF appends THEN p + 2 ELSE p + 1
           F == {q \in from..Len(l) + 1 : Char(l, r.nul, q) # Blank}
           first == Min(F)
           B == {q \in first..Len(l) + 1 : Char(l, r.nul, q) \in {Blank, "NUL"}}
           behind == Min(B)
           file == Text(l, r.nul \cup {behind}, first)
           s == [Cut(Push(Cut(r, p)), behind) EXCEPT !.start = behind + 1]
<1>1. Char(l, r.nul, Len(l) + 1) = "NUL" /\ Len(l) + 1 > Len(l)
  BY DEF Char
<1>2. from \in Nat /\ from <= Len(l) + 1
  <2>1. appends => p + 1 <= Len(l)
    BY DEF Char
  <2> HIDE DEF appends
  <2> QED BY <2>1
<1> HIDE DEF appends, from
<1>3. F \subseteq Nat /\ Len(l) + 1 \in F /\ \A q \in F : q <= Len(l) + 1
  <2>1. F \subseteq Nat /\ \A q \in F : q <= Len(l) + 1
    BY <1>2
  <2>2. Len(l) + 1 \in from..Len(l) + 1
    BY <1>2
  <2>3. Char(l, r.nul, Len(l) + 1) # Blank
    BY <1>1 DEF Blank
  <2> QED BY <2>1, <2>2, <2>3
<1> HIDE DEF F
<1>4. first \in Nat /\ first <= Len(l) + 1
  BY <1>3, MinIs
<1> HIDE DEF first
<1>5. B \subseteq Nat /\ Len(l) + 1 \in B
  BY <1>1, <1>4
<1> HIDE DEF B
<1>6. behind \in Nat
  BY <1>5, MinIs
<1> HIDE DEF behind, file
<1> DEFINE q == Cut(Push(Cut(r, p)), behind)
<1>7. IsPlace(q) /\ Len(q.argv) = Len(r.argv) + 1
  BY PushIs, CutIs
<1>8. s = [q EXCEPT !.start = behind + 1]
  OBVIOUS
<1> HIDE DEF q, s
<1>9. IsPlace(s) /\ Len(s.argv) = Len(r.argv) + 1
  BY <1>6, <1>7, <1>8 DEF IsPlace
<1>10. /\ IsPlace([s EXCEPT !.in = file]) /\ [s EXCEPT !.in = file].argv = s.argv
       /\ \A b : IsPlace([s EXCEPT !.out = file, !.append = b]) /\ [s EXCEPT !.out = file, !.append = b].argv = s.argv
  BY <1>9 DEF IsPlace
<1>11. Redirect(l, r, p, mark) = IF mark = "in" THEN [s EXCEPT !.in = file]
                                 ELSE [s EXCEPT !.out = file, !.append = AppendFlag(@, appends)]
  BY DEF Redirect, s, q, file, behind, B, first, F, from, appends
<1>12. [s EXCEPT !.out = file, !.append = AppendFlag(@, appends)] = [s EXCEPT !.out = file, !.append = AppendFlag(s.append, appends)]
  BY <1>9 DEF IsPlace
<1>13. Len(s.argv) <= Len(r.argv) + 1
  BY <1>9 DEF IsPlace
<1> QED BY <1>10, <1>11, <1>12, <1>13 DEF Grows

LEMMA StepP3Grows ==
  ASSUME NEW l, Len(l) \in Nat, NEW r, IsPlace(r), NEW p \in 1..Len(l)
  PROVE  Grows(r, StepP3(l, r, p))
<1>1. /\ IsPlace(Push(Cut(r, p))) /\ Len(Push(Cut(r, p)).argv) = Len(r.argv) + 1
  BY PushIs, CutIs
<1>2. Len(r.argv) \in Nat
  BY DEF IsPlace
<1> DEFINE q == Push(Cut(r, p))
<1>3. Grows(r, r) /\ Grows(r, q)
  BY <1>1, <1>2 DEF Grows
<1> HIDE DEF q
<1>4. ASSUME NEW s, Grows(r, s), NEW b, NEW i \in Nat
      PROVE  /\ Grows(r, [s EXCEPT !.quoted = b, !.start = i]) /\ Grows(r, [s EXCEPT !.start = i])
  BY <1>4 DEF Grows, IsPlace
<1>5. p + 1 \in Nat
  OBVIOUS
<1>6. Grows(r, Redirect(l, r, p, "in")) /\ Grows(r, Redirect(l, r, p, "out"))
  BY RedirectGrows
<1> QED BY <1>3, <1>4, <1>5, <1>6 DEF StepP3, q

(* No scan finds more arguments than the limit. *)
LEMMA ScanBounded ==
  ASSUME NEW l, Len(l) \in Nat, NEW parser, NEW base, IsPlace(base), base.argv = <<>>, NEW limit \in Nat
  PROVE  \A n \in 0..Len(l) : LET r == ScanUpTo(l, parser, base, limit)[n] IN IsPlace(r) /\ Len(r.argv) <= limit
<1> DEFINE S == ScanUpTo(l, parser, base, limit)
           T == {n \in 0..Len(l) : ~(IsPlace(S[n]) /\ Len(S[n].argv) <= limit)}
<1>1. S[0] = base /\ \A n \in 1..Len(l) : S[n] = NextPlace(l, parser, limit, S[n - 1], n)
  BY ScanStep
<1>2. SUFFICES ASSUME T # {} PROVE FALSE
  OBVIOUS
<1> HIDE DEF S
<1>3. PICK n \in T : \A m \in T : ~(m < n)
  <2>1. T \subseteq Nat
    OBVIOUS
  <2> HIDE DEF T
  <2> QED BY <1>2, <2>1, LeastNumber
<1>4. n # 0
  <2>1. Len(<<>>) <= limit
    OBVIOUS
  <2> QED BY <1>1, <1>3, <2>1
<1>5. n \in 1..Len(l) /\ n - 1 \in 0..Len(l) /\ n - 1 < n
  BY <1>3, <1>4
<1> DEFINE r == S[n - 1]
<1>6. IsPlace(r) /\ Len(r.argv) <= limit
  BY <1>3, <1>5
<1>7. S[n] = NextPlace(l, parser, limit, r, n)
  BY <1>1, <1>5
<1> HIDE DEF r
<1>8. CASE S[n] = r
  BY <1>3, <1>6, <1>8
<1>9. CASE Len(r.argv) < limit /\ \E s : Grows(r, s) /\ S[n] = [s EXCEPT !.token = n + 1]
  <2>1. PICK s : Grows(r, s) /\ S[n] = [s EXCEPT !.token = n + 1]
    BY <1>9
  <2>2. IsPlace(S[n]) /\ S[n].argv = s.argv
    BY <2>1 DEF Grows, IsPlace
  <2>3. Len(s.argv) \in Nat /\ Len(r.argv) \in Nat
    BY <1>6, <2>1 DEF Grows, IsPlace
  <2>4. Len(s.argv) <= limit
    BY <1>9, <2>1, <2>3 DEF Grows
  <2> QED BY <1>3, <2>2, <2>4
<1>10. Grows(r, StepP2(l, r, n)) /\ Grows(r, StepP3(l, r, n))
  BY <1>5, <1>6, StepP2Grows, StepP3Grows
<1> QED BY <1>7, <1>8, <1>9, <1>10 DEF NextPlace

-----------------------------------------------------------------------------
(***************************************************************************)
(* What the parsers return.                                                *)
(***************************************************************************)
Lines == Seq(STRING)

LEMMA LineIs ==
  ASSUME NEW s \in Lines
  PROVE  Len(s) \in Nat /\ DOMAIN s = 1..Len(s) /\ \A i \in 1..Len(s) : s[i] \in STRING
  BY LenProperties DEF Lines

LEMMA PieceIs ==
  ASSUME NEW s \in Lines, NEW i \in Nat, NEW j \in Nat, 1 <= i, j <= Len(s), i <= j + 1
  PROVE  /\ SubSeq(s, i, j) \in Lines /\ Len(SubSeq(s, i, j)) = j - i + 1
         /\ \A k \in 1..(j - i + 1) : SubSeq(s, i, j)[k] = s[i + k - 1]
<1>1. \A k \in i..j : s[k] \in STRING
  BY LineIs
<1>2. i \in Int /\ j \in Int
  OBVIOUS
<1>3. /\ SubSeq(s, i, j) \in Seq(STRING) /\ Len(SubSeq(s, i, j)) = (IF i <= j THEN j - i + 1 ELSE 0)
      /\ \A k \in 1..(j - i + 1) : SubSeq(s, i, j)[k] = s[i + k - 1]
  BY <1>1, <1>2, SubSeqProperties
<1>4. ~(i <= j) => j - i + 1 = 0
  OBVIOUS
<1> QED BY <1>3, <1>4 DEF Lines

(* What is left of a line begins behind its blanks. *)
LEMMA NoLeadingIs ==
  ASSUME NEW s \in Lines
  PROVE  /\ NoLeading(s) \in Lines
         /\ \E k \in 0..Len(s) : /\ NoLeading(s) = SubSeq(s, k + 1, Len(s)) /\ Len(NoLeading(s)) = Len(s) - k
                                 /\ \A i \in 1..k : s[i] = Blank
                                 /\ \A i \in 1..(Len(s) - k) : NoLeading(s)[i] = s[k + i]
<1> DEFINE T == {i \in DOMAIN s : s[i] # Blank} \cup {Len(s) + 1}
           m == Min(T)
<1>1. Len(s) \in Nat /\ DOMAIN s = 1..Len(s)
  BY LineIs
<1>2. T \subseteq Nat /\ Len(s) + 1 \in T /\ \A i \in T : 1 <= i /\ i <= Len(s) + 1
  BY <1>1
<1>3. \A i \in 1..Len(s) : i \notin T => s[i] = Blank
  BY <1>1
<1>4. NoLeading(s) = SubSeq(s, m, Len(s))
  BY DEF NoLeading
<1> HIDE DEF T
<1>5. m \in T /\ \A i \in T : m <= i
  BY <1>2, MinIs
<1>6. m \in Nat /\ 1 <= m /\ m <= Len(s) + 1
  BY <1>2, <1>5
<1> HIDE DEF m
<1> DEFINE k == m - 1
<1>7. k \in 0..Len(s) /\ m = k + 1
  BY <1>1, <1>6
<1>8. \A i \in 1..k : s[i] = Blank
  <2>1. \A i \in 1..k : i \in 1..Len(s) /\ ~(m <= i)
    BY <1>1, <1>6
  <2> QED BY <1>3, <1>5, <2>1
<1>9. /\ SubSeq(s, m, Len(s)) \in Lines /\ Len(SubSeq(s, m, Len(s))) = Len(s) - m + 1
      /\ \A i \in 1..(Len(s) - m + 1) : SubSeq(s, m, Len(s))[i] = s[m + i - 1]
  <2>1. m <= Len(s) + 1 /\ Len(s) <= Len(s)
    BY <1>1, <1>6
  <2> QED BY <1>1, <1>6, <2>1, PieceIs
<1>10. Len(s) - m + 1 = Len(s) - k /\ \A i \in 1..(Len(s) - k) : m + i - 1 = k + i
  BY <1>1, <1>6
<1> HIDE DEF k
<1> DEFINE n == NoLeading(s)
<1>11. n \in Lines /\ n = SubSeq(s, k + 1, Len(s)) /\ Len(n) = Len(s) - k
  BY <1>4, <1>7, <1>9, <1>10
<1>12. \A i \in 1..(Len(s) - k) : n[i] = s[k + i]
  BY <1>4, <1>9, <1>10
<1> HIDE DEF n
<1>13. n \in Lines /\ \E x \in 0..Len(s) : /\ n = SubSeq(s, x + 1, Len(s)) /\ Len(n) = Len(s) - x
                                           /\ \A i \in 1..x : s[i] = Blank
                                           /\ \A i \in 1..(Len(s) - x) : n[i] = s[x + i]
  BY <1>7, <1>8, <1>11, <1>12
<1> QED BY <1>13 DEF n

LEMMA TokensIs ==
  ASSUME NEW s \in Lines, NEW sep
  PROVE  /\ Len(Tokens(s, sep)) = Cardinality(Starts(s, sep)) /\ Len(Tokens(s, sep)) \in Nat
         /\ DOMAIN Tokens(s, sep) = 1..Len(Tokens(s, sep))
         /\ \A k \in DOMAIN Tokens(s, sep) : Tokens(s, sep)[k] \in Lines
<1>1. Len(s) \in Nat /\ Starts(s, sep) \subseteq 1..Len(s)
  BY LineIs DEF Starts
<1>2. /\ Len(Tokens(s, sep)) = Cardinality(Starts(s, sep)) /\ Len(Tokens(s, sep)) \in Nat
      /\ DOMAIN Tokens(s, sep) = 1..Len(Tokens(s, sep))
  BY <1>1, TokensLen
<1>3. ASSUME NEW k \in 1..Cardinality(Starts(s, sep)) PROVE Tokens(s, sep)[k] \in Lines
  <2> DEFINE i == InOrder(Starts(s, sep))[k]
             T == {j \in i..Len(s) : s[j] = sep} \cup {Len(s) + 1}
             e == Min(T)
  <2>1. i \in Starts(s, sep)
    BY <1>1, InOrderIs
  <2>2. i \in Nat /\ 1 <= i /\ i <= Len(s)
    BY <1>1, <2>1
  <2>3. Tokens(s, sep)[k] = SubSeq(s, i, e - 1)
    BY DEF Tokens
  <2> HIDE DEF i
  <2>4. T \subseteq Nat /\ T # {} /\ \A j \in T : i <= j /\ j <= Len(s) + 1
    BY <1>1, <2>2
  <2> HIDE DEF T
  <2>5. e \in Nat /\ i <= e /\ e <= Len(s) + 1
    BY <2>4, MinIs
  <2> HIDE DEF e
  <2>6. e - 1 \in Nat /\ e - 1 <= Len(s) /\ i <= e - 1 + 1
    BY <1>1, <2>2, <2>5
  <2>7. SubSeq(s, i, e - 1) \in Lines
    BY <2>2, <2>6, PieceIs
  <2> QED BY <2>3, <2>7
<1> QED BY <1>2, <1>3

(***************************************************************************)
(* The commands.                                                           *)
(***************************************************************************)
LEMMA ParsedLen ==
  ASSUME NEW l, NEW r, IsPlace(r)
  PROVE  Len(Parsed(l, r).argv) = Len(r.argv) /\ Len(r.argv) \in Nat
<1> DEFINE f == Parsed(l, r).argv
           m == Len(r.argv)
<1>1. m \in Nat /\ DOMAIN r.argv = 1..m
  BY LenProperties DEF IsPlace
<1>2. f = [i \in DOMAIN r.argv |-> Text(l, r.nul, r.argv[i])]
  BY DEF Parsed
<1> HIDE DEF f, m
<1>3. f = [i \in 1..m |-> f[i]]
  BY <1>1, <1>2
<1>4. Len(f) = m
  BY <1>1, <1>3, FunctionLen
<1> QED BY <1>1, <1>4 DEF f, m

(* The argument at the end of the line is found when there is room for it. *)
LEMMA LastPushed ==
  ASSUME NEW l, Len(l) \in Nat, NEW parser, NEW base, IsPlace(base), base.argv = <<>>, NEW limit \in Nat, NEW c,
         LET r == ScanLine(l, parser, base, limit) IN
         c = Parsed(l, r) \/ (Len(r.argv) < limit /\ c = Parsed(l, Push(r)))
  PROVE  Len(c.argv) \in Nat /\ Len(c.argv) <= limit
<1> DEFINE r == ScanLine(l, parser, base, limit)
<1>1. Len(l) \in 0..Len(l)
  OBVIOUS
<1>2. IsPlace(r) /\ Len(r.argv) <= limit
  BY <1>1, ScanBounded DEF ScanLine
<1> HIDE DEF r
<1>3. CASE c = Parsed(l, r)
  BY <1>2, <1>3, ParsedLen
<1>4. CASE Len(r.argv) < limit /\ c = Parsed(l, Push(r))
  <2>1. IsPlace(Push(r)) /\ Len(Push(r).argv) = Len(r.argv) + 1
    BY <1>2, PushIs
  <2>2. Len(r.argv) \in Nat
    BY <1>2, ParsedLen
  <2>3. Len(c.argv) = Len(r.argv) + 1
    BY <1>4, <2>1, ParsedLen
  <2> QED BY <1>4, <2>2, <2>3
<1> QED BY <1>3, <1>4 DEF r

(* argv has room for CMD_ARGV_MAX arguments; 5-ShellP3 keeps the last for the NULL. *)
LEMMA BuildP2Bounded ==
  ASSUME NEW typed \in Lines
  PROVE  Len(BuildCmdBuffP2(typed).argv) \in Nat /\ Len(BuildCmdBuffP2(typed).argv) <= ArgvMax
<1> DEFINE l == NoLeading(typed)
           r == ScanLine(l, "P2", Scan, ArgvMax)
           c == BuildCmdBuffP2(typed)
<1>1. Len(l) \in Nat
  BY NoLeadingIs, LineIs
<1>2. IsPlace(Scan) /\ Scan.argv = <<>>
  BY DEF Scan, IsPlace
<1>3. ArgvMax \in Nat
  BY BoundsAssumption
<1>4. c = Parsed(l, r) \/ (Len(r.argv) < ArgvMax /\ c = Parsed(l, Push(r)))
  BY DEF BuildCmdBuffP2
<1> HIDE DEF c, l
<1>5. Len(c.argv) \in Nat /\ Len(c.argv) <= ArgvMax
  BY <1>1, <1>2, <1>3, <1>4, LastPushed
<1> QED BY <1>5 DEF c

LEMMA BuildP3Bounded ==
  ASSUME NEW typed \in Lines, NEW old
  PROVE  Len(BuildCmdBuffP3(typed, old).argv) \in Nat /\ Len(BuildCmdBuffP3(typed, old).argv) <= ArgvMax - 1
<1> DEFINE l == NoLeading(typed)
           base == [Scan EXCEPT !.start = 1, !.in = old.in, !.out = old.out, !.append = old.append]
           r == ScanLine(l, "P3", base, ArgvMax - 1)
           c == BuildCmdBuffP3(typed, old)
<1>1. Len(l) \in Nat
  BY NoLeadingIs, LineIs
<1>2. IsPlace(base) /\ base.argv = <<>>
  BY DEF Scan, IsPlace
<1>3. ArgvMax - 1 \in Nat
  BY BoundsAssumption
<1>4. c = Parsed(l, r) \/ (Len(r.argv) < ArgvMax - 1 /\ c = Parsed(l, Push(r)))
  BY DEF BuildCmdBuffP3
<1> HIDE DEF c, l, base
<1>5. Len(c.argv) \in Nat /\ Len(c.argv) <= ArgvMax - 1
  BY <1>1, <1>2, <1>3, <1>4, LastPushed
<1> QED BY <1>5 DEF c

(* What a parser may return: not too many commands, none with too many arguments. *)
ParserCodes == {"OK", "WARN_NO_CMDS", "ERR_TOO_MANY_COMMANDS", "ERR_CMD_OR_ARGS_TOO_BIG"}
Fits(v, x) ==
  /\ Len(x.commands) <= CmdMax
  /\ v # "P1" => \A i \in DOMAIN x.commands :
                   Len(x.commands[i].argv) <= IF v = "P2" THEN ArgvMax ELSE ArgvMax - 1

LEMMA NoListFits == ASSUME NEW v, NEW code PROVE Fits(v, NoList(code)) /\ NoList(code).rc = code
<1>1. CmdMax \in Nat /\ Len(<<>>) = 0 /\ DOMAIN <<>> = {}
  BY BoundsAssumption
<1> QED BY <1>1 DEF NoList, Fits

LEMMA SplitFits ==
  ASSUME NEW l \in Lines
  PROVE  Fits("P1", SplitLine(l)) /\ SplitLine(l).rc \in ParserCodes
<1> DEFINE segments == Tokens(l, "|")
           commands == [i \in DOMAIN segments |-> Command(segments[i])]
<1>1. Len(segments) \in Nat /\ DOMAIN segments = 1..Len(segments)
  BY TokensIs
<1>2. commands = [i \in 1..Len(segments) |-> commands[i]]
  BY <1>1
<1>3. Len(commands) = Len(segments)
  <2> HIDE DEF commands
  <2> QED BY <1>1, <1>2, FunctionLen
<1>4. CmdMax \in Nat
  BY BoundsAssumption
<1> DEFINE found == [rc |-> IF commands = <<>> THEN "WARN_NO_CMDS" ELSE "OK", commands |-> commands]
<1>5. \/ SplitLine(l) = NoList("ERR_TOO_MANY_COMMANDS") \/ SplitLine(l) = NoList("ERR_CMD_OR_ARGS_TOO_BIG")
      \/ Len(segments) <= CmdMax /\ SplitLine(l) = found
  <2>1. CASE Len(segments) > CmdMax
    BY <2>1 DEF SplitLine
  <2>2. CASE Len(segments) <= CmdMax /\ \E i \in DOMAIN commands : Len(commands[i].argv[1]) >= ExeMax
    BY <1>1, <1>4, <2>2 DEF SplitLine
  <2>3. CASE Len(segments) <= CmdMax /\ ~\E i \in DOMAIN commands : Len(commands[i].argv[1]) >= ExeMax
    BY <1>1, <1>4, <2>3 DEF SplitLine
  <2> QED BY <1>1, <1>4, <2>1, <2>2, <2>3
<1>6. found.commands = commands /\ found.rc \in ParserCodes
  BY DEF ParserCodes
<1> HIDE DEF found, commands, segments
<1>7. Len(segments) <= CmdMax => Fits("P1", found)
  BY <1>3, <1>6 DEF Fits
<1>8. "ERR_TOO_MANY_COMMANDS" \in ParserCodes /\ "ERR_CMD_OR_ARGS_TOO_BIG" \in ParserCodes
  BY DEF ParserCodes
<1> QED BY <1>5, <1>6, <1>7, <1>8, NoListFits

LEMMA ListP3Fits ==
  ASSUME NEW l \in Lines
  PROVE  Fits("P3", BuildCmdListP3(l)) /\ BuildCmdListP3(l).rc \in ParserCodes
<1> DEFINE segments == Tokens(l, "|")
           S == {i \in DOMAIN segments : NoLeading(segments[i]) # <<>>}
           full == InOrder(S)
           new == [in |-> None, out |-> None, append |-> FALSE]
           commands == [k \in DOMAIN full |-> BuildCmdBuffP3(segments[full[k]], new)]
           found == [rc |-> IF full = <<>> THEN "WARN_NO_CMDS" ELSE "OK", commands |-> commands]
<1>1. /\ Len(segments) \in Nat /\ DOMAIN segments = 1..Len(segments)
      /\ \A k \in DOMAIN segments : segments[k] \in Lines
  BY TokensIs
<1>2. BuildCmdListP3(l) = IF Len(full) >= CmdMax /\ full[CmdMax] < Len(segments)
                          THEN NoList("ERR_TOO_MANY_COMMANDS") ELSE found
  BY DEF BuildCmdListP3
<1>3. found.commands = commands /\ found.rc \in ParserCodes
  BY DEF ParserCodes
<1> HIDE DEF segments
<1>4. S \subseteq 1..Len(segments)
  BY <1>1
<1> HIDE DEF S
<1>5. Len(full) = Cardinality(S) /\ DOMAIN full = 1..Cardinality(S) /\ Cardinality(S) \in Nat
  BY <1>1, <1>4, InOrderLen
<1>6. \A k \in 1..Cardinality(S) : full[k] \in S /\ Cardinality(UpTo(S, full[k])) = k
  BY <1>1, <1>4, InOrderIs
<1> HIDE DEF full, new
<1>7. commands = [k \in 1..Cardinality(S) |-> commands[k]]
  BY <1>5
<1>8. \A k \in 1..Cardinality(S) : Len(commands[k].argv) <= ArgvMax - 1
  <2>1. ASSUME NEW k \in 1..Cardinality(S) PROVE Len(commands[k].argv) <= ArgvMax - 1
    <3>1. full[k] \in DOMAIN segments
      BY <1>1, <1>4, <1>6
    <3>2. segments[full[k]] \in Lines
      BY <1>1, <3>1
    <3>3. commands[k] = BuildCmdBuffP3(segments[full[k]], new)
      BY <1>5
    <3> QED BY <3>2, <3>3, BuildP3Bounded
  <2> QED BY <2>1
<1> HIDE DEF commands
<1>9. Len(commands) = Cardinality(S) /\ DOMAIN commands = 1..Cardinality(S)
  BY <1>5, <1>7, FunctionLen
<1>10. CmdMax \in Nat /\ CmdMax >= 1
  BY BoundsAssumption
<1>11. ASSUME ~(Len(full) >= CmdMax /\ full[CmdMax] < Len(segments)) PROVE Cardinality(S) <= CmdMax
  <2> SUFFICES ASSUME Cardinality(S) > CmdMax PROVE FALSE
    BY <1>5, <1>10
  <2>1. CmdMax \in 1..Cardinality(S) /\ Len(full) >= CmdMax
    BY <1>5, <1>10
  <2> DEFINE i == full[CmdMax]
  <2>2. i \in S /\ Cardinality(UpTo(S, i)) = CmdMax /\ ~(i < Len(segments))
    BY <1>6, <1>11, <2>1
  <2> HIDE DEF i
  <2>3. i \in Nat /\ i >= Len(segments)
    BY <1>1, <1>4, <2>2
  <2>4. UpTo(S, i) = S
    BY <1>1, <1>4, <2>3, UpToIs
  <2> QED BY <1>5, <1>10, <2>2, <2>4
<1> HIDE DEF found
<1>12. ASSUME Cardinality(S) <= CmdMax PROVE Fits("P3", found)
  BY <1>3, <1>8, <1>9, <1>12 DEF Fits
<1>13. "ERR_TOO_MANY_COMMANDS" \in ParserCodes
  BY DEF ParserCodes
<1> QED BY <1>2, <1>3, <1>11, <1>12, <1>13, NoListFits

LEMMA OneFits ==
  ASSUME NEW v \in {"P2", "P3"}, NEW c, NEW x, x = [rc |-> "OK", commands |-> <<c>>],
         Len(c.argv) <= IF v = "P2" THEN ArgvMax ELSE ArgvMax - 1
  PROVE  Fits(v, x)
<1>1. CmdMax \in Nat /\ 1 <= CmdMax
  BY BoundsAssumption
<1>2. Len(x.commands) = 1 /\ \A i \in DOMAIN x.commands : x.commands[i] = c
  OBVIOUS
<1> QED BY <1>1, <1>2 DEF Fits

-----------------------------------------------------------------------------
(***************************************************************************)
(* The children nobody has waited for.                                     *)
(***************************************************************************)
Unwaited == zombies \in Nat

(* Only a pipeline that fails adds to them. *)
LEMMA UnwaitedStep ==
  ASSUME Unwaited, [Next]_vars
  PROVE  Unwaited'
<1> USE DEF Unwaited
<1>1. CASE UNCHANGED zombies
  BY <1>1
<1>2. ASSUME NEW l, PipelineMeets(l) PROVE Unwaited'
  <2>1. PICK first \in 1..Len(list'.commands) :
          zombies' = zombies + first - 1
    BY <1>2 DEF PipelineMeets
  <2>2. first \in Int /\ 1 <= first
    OBVIOUS
  <2> QED BY <2>1, <2>2
<1>3. ASSUME NEW l, PipelineFails(l) PROVE Unwaited'
  <2>1. PICK forked \in 0..Len(list'.commands) - 1 : zombies' = zombies + forked
    BY <1>3 DEF PipelineFails
  <2>2. forked \in Nat
    OBVIOUS
  <2> QED BY <2>1, <2>2
<1>4. CASE UNCHANGED vars
  BY <1>1, <1>4 DEF vars
<1>5. CASE Start \/ EndOfInput
  BY <1>1, <1>5 DEF Start, EndOfInput, NothingRun
<1>6. ASSUME NEW l, ShowP1(l) \/ NoCommand(l) \/ CrashP2(l) \/ BuiltInP2(l) \/ ExternalP2(l)
      PROVE  UNCHANGED zombies
  BY <1>6 DEF ShowP1, NoCommand, CrashP2, BuiltInP2, ExternalP2, NothingRun
<1>7. ASSUME NEW l, BuiltInP3(l) \/ ExternalP3(l) \/ NotRun(l) \/ SingleP3(l) \/ PipelineRuns(l)
      PROVE  UNCHANGED zombies
  BY <1>7 DEF BuiltInP3, ExternalP3, ParseP3, NotRun, SingleP3, PipelineRuns
<1>8. CASE \E l \in IF line = <<>> THEN FirstLines ELSE LaterLines :
             \/ ShowP1(l) \/ NoCommand(l) \/ CrashP2(l) \/ BuiltInP2(l) \/ ExternalP2(l)
             \/ BuiltInP3(l) \/ ExternalP3(l) \/ NotRun(l) \/ SingleP3(l) \/ PipelineRuns(l)
             \/ PipelineMeets(l) \/ PipelineFails(l)
  BY <1>1, <1>2, <1>3, <1>6, <1>7, <1>8, Zenon
<1> QED BY <1>4, <1>5, <1>8, Zenon DEF Next

-----------------------------------------------------------------------------
(***************************************************************************)
(* The types.                                                              *)
(***************************************************************************)
LEMMA TypeStep == TypeOK /\ [Next]_vars => TypeOK'
<1> SUFFICES ASSUME TypeOK, [Next]_vars PROVE TypeOK'
  OBVIOUS
<1> DEFINE Codes == {"OK", "OK_EXIT", "WARN_NO_CMDS", "ERR_TOO_MANY_COMMANDS",
                     "ERR_CMD_OR_ARGS_TOO_BIG", "ERR_MEMORY", "ERR_EXEC_CMD"}
           Statuses == {"starts", "prompt", "ended", "crashed"}
<1>1. /\ version \in Versions /\ status \in Statuses /\ rc \in Codes /\ Fits(version, list)
      /\ last \in -1..255 /\ cwd \in {<<>>, Dir} /\ zombies \in Nat
  BY DEF TypeOK, Fits
<1>2. zombies' \in Nat
  BY <1>1, UnwaitedStep DEF Unwaited
<1>3. SUFFICES /\ version' = version /\ status' \in Statuses /\ rc' \in Codes /\ Fits(version, list')
               /\ last' \in -1..255 /\ cwd' \in {<<>>, Dir}
  BY <1>1, <1>2 DEF TypeOK, Fits
<1> DEFINE Kept == /\ version' = version /\ status' \in Statuses /\ rc' \in Codes /\ Fits(version, list')
                   /\ last' \in -1..255 /\ cwd' \in {<<>>, Dir}
<1>4. CASE UNCHANGED vars
  BY <1>1, <1>4 DEF vars
<1>5. CASE Start
  BY <1>1, <1>5 DEF Start, Ends, NoParse, NothingRun
<1>6. CASE EndOfInput
  BY <1>1, <1>6 DEF EndOfInput, Ends, NoParse, NothingRun
<1>7. ASSUME NEW l \in Lines, ShowP1(l) PROVE Kept
  <2>1. version = "P1" /\ version' = version /\ status = "prompt" /\ UNCHANGED <<last, cwd>>
    BY <1>7 DEF ShowP1, Typed, NothingRun
  <2>2. CASE l = <<"exit">>
    BY <1>1, <1>7, <2>1, <2>2 DEF ShowP1, Ends
  <2>3. CASE l # <<"exit">>
    <3>1. list' = SplitLine(l) /\ rc' = list'.rc /\ UNCHANGED status
      BY <1>7, <2>3 DEF ShowP1, Loops
    <3>2. Fits("P1", list') /\ rc' \in ParserCodes
      BY <3>1, SplitFits
    <3>3. rc' \in Codes
      BY <3>2 DEF ParserCodes
    <3> QED BY <1>1, <2>1, <3>1, <3>2, <3>3
  <2> QED BY <2>2, <2>3
<1>8. ASSUME NEW l \in Lines, NoCommand(l) PROVE Kept
  BY <1>1, <1>8 DEF NoCommand, Typed, Loops, NothingRun, NoParse
<1>9. ASSUME NEW l \in Lines, CrashP2(l) PROVE Kept
  BY <1>1, <1>9 DEF CrashP2, Typed, NothingRun, NoParse
<1>10. ASSUME NEW l \in Lines, ParseP2(l, BuildCmdBuffP2(l)) PROVE version' = version /\ Fits(version, list')
  <2>1. Typed(l, "P2") /\ list' = [rc |-> "OK", commands |-> <<BuildCmdBuffP2(l)>>]
    BY <1>10 DEF ParseP2
  <2>2. Fits("P2", list')
    BY <2>1, BuildP2Bounded, OneFits
  <2> QED BY <2>1, <2>2 DEF Typed
<1>11. ASSUME NEW l \in Lines, BuiltInP2(l) PROVE Kept
  <2> DEFINE c == BuildCmdBuffP2(l)
  <2>1. ParseP2(l, c) /\ UNCHANGED last
    BY <1>11 DEF BuiltInP2
  <2>2. cwd' \in {<<>>, Dir}
    BY <1>1, <1>11 DEF BuiltInP2, ChangesDir
  <2>3. status' \in Statuses /\ rc' \in Codes
    BY <1>1, <1>11 DEF BuiltInP2, Ends, Loops
  <2> HIDE DEF Statuses, Codes
  <2> QED BY <1>1, <1>10, <2>1, <2>2, <2>3
<1>12. ASSUME NEW l \in Lines, ExternalP2(l) PROVE Kept
  <2> DEFINE c == BuildCmdBuffP2(l)
  <2>1. ParseP2(l, c) /\ UNCHANGED cwd
    BY <1>12 DEF ExternalP2
  <2>2. status' \in Statuses /\ rc' \in Codes
    BY <1>1, <1>12 DEF ExternalP2, Loops
  <2>3. last' \in ExitStatus(c) \/ UNCHANGED last
    BY <1>12 DEF ExternalP2
  <2>4. ExitStatus(c) \subseteq -1..255
    BY DEF ExitStatus
  <2> HIDE DEF Statuses, Codes
  <2> QED BY <1>1, <1>10, <2>1, <2>2, <2>3, <2>4
<1>13. ASSUME NEW l \in Lines, ParseP3(l) PROVE version' = version /\ Fits(version, list') /\ UNCHANGED last
  <2>1. /\ Typed(l, "P3") /\ list' = [rc |-> "OK", commands |-> <<cmd'>>]
        /\ cmd' = BuildCmdBuffP3(l, cmd) /\ UNCHANGED last
    BY <1>13 DEF ParseP3
  <2>2. Fits("P3", list')
    BY <2>1, BuildP3Bounded, OneFits
  <2> QED BY <2>1, <2>2 DEF Typed
<1>14. ASSUME NEW l \in Lines, BuiltInP3(l) PROVE Kept
  <2>1. status' \in Statuses /\ rc' \in Codes
    BY <1>1, <1>14 DEF BuiltInP3, Ends, Loops
  <2>2. cwd' \in {<<>>, Dir}
    BY <1>1, <1>14 DEF BuiltInP3, ChangesDir
  <2>3. ParseP3(l)
    BY <1>14 DEF BuiltInP3
  <2> HIDE DEF Statuses, Codes
  <2> QED BY <1>1, <1>13, <2>1, <2>2, <2>3
<1>15. ASSUME NEW l \in Lines, ExternalP3(l) PROVE Kept
  <2>1. status' \in Statuses /\ rc' \in Codes /\ UNCHANGED cwd /\ ParseP3(l)
    BY <1>1, <1>15 DEF ExternalP3, Loops
  <2> HIDE DEF Statuses, Codes
  <2> QED BY <1>1, <1>13, <2>1
<1>16. ASSUME NEW l \in Lines, ParseListP3(l)
       PROVE  version' = version /\ Fits(version, list') /\ list'.rc \in Codes /\ UNCHANGED last
  <2>1. Typed(l, "P3") /\ list' = BuildCmdListP3(l) /\ UNCHANGED last
    BY <1>16 DEF ParseListP3
  <2>2. Fits("P3", list') /\ list'.rc \in ParserCodes
    BY <2>1, ListP3Fits
  <2> QED BY <2>1, <2>2 DEF Typed, ParserCodes
<1>17. ASSUME NEW l \in Lines, NotRun(l) PROVE Kept
  <2>1. ParseListP3(l) /\ UNCHANGED <<status, cwd>> /\ rc' = list'.rc
    BY <1>17 DEF NotRun, Loops
  <2> HIDE DEF Statuses, Codes
  <2> QED BY <1>1, <1>16, <2>1
<1>18. ASSUME NEW l \in Lines, SingleP3(l) PROVE Kept
  <2>1. status' \in Statuses /\ rc' \in Codes /\ ParseListP3(l)
    BY <1>1, <1>18 DEF SingleP3, Ends, Loops
  <2>2. cwd' \in {<<>>, Dir}
    BY <1>1, <1>18 DEF SingleP3, ChangesDir
  <2> HIDE DEF Statuses, Codes
  <2> QED BY <1>1, <1>16, <2>1, <2>2
<1>19. ASSUME NEW l \in Lines, PipelineRuns(l) \/ PipelineFails(l) PROVE Kept
  <2>1. status' \in Statuses /\ rc' \in Codes /\ ParseListP3(l) /\ UNCHANGED cwd
    BY <1>1, <1>19 DEF PipelineRuns, PipelineFails, Loops
  <2> HIDE DEF Statuses, Codes
  <2> QED BY <1>1, <1>16, <2>1
<1>20. ASSUME NEW l \in Lines, PipelineMeets(l) PROVE Kept
  <2>1. status' \in Statuses /\ rc' \in Codes /\ ParseListP3(l)
    BY <1>1, <1>20 DEF PipelineMeets, Ends, Loops
  <2>2. cwd' \in {<<>>, Dir}
    BY <1>1, <1>20 DEF PipelineMeets, ChangesDir
  <2> HIDE DEF Statuses, Codes
  <2> QED BY <1>1, <1>16, <2>1, <2>2
<1>21. CASE \E l \in IF line = <<>> THEN FirstLines ELSE LaterLines :
             \/ ShowP1(l) \/ NoCommand(l) \/ CrashP2(l) \/ BuiltInP2(l) \/ ExternalP2(l)
             \/ BuiltInP3(l) \/ ExternalP3(l) \/ NotRun(l) \/ SingleP3(l) \/ PipelineRuns(l)
             \/ PipelineMeets(l) \/ PipelineFails(l)
  <2>1. FirstLines \subseteq Lines /\ LaterLines \subseteq Lines
    BY LinesAssumption DEF Lines
  <2>2. \E l \in Lines :
             \/ ShowP1(l) \/ NoCommand(l) \/ CrashP2(l) \/ BuiltInP2(l) \/ ExternalP2(l)
             \/ BuiltInP3(l) \/ ExternalP3(l) \/ NotRun(l) \/ SingleP3(l) \/ PipelineRuns(l)
             \/ PipelineMeets(l) \/ PipelineFails(l)
    BY <1>21, <2>1, Zenon
  <2> HIDE DEF Kept
  <2>3. Kept
    BY <1>7, <1>8, <1>9, <1>11, <1>12, <1>14, <1>15, <1>17, <1>18, <1>19, <1>20, <2>2, Zenon
  <2> QED BY <2>3 DEF Kept
<1> QED BY <1>4, <1>5, <1>6, <1>21, Zenon DEF Next

(* What a parser returns fits into what the shells have room for, and rc is a code of *)
(* theirs: no line makes more than CMD_MAX commands, nor a command of more arguments  *)
(* than argv holds (build_cmd_list(), build_cmd_buff()).                              *)
THEOREM Typing == Spec => []TypeOK
<1>1. Init => TypeOK
  <2> SUFFICES ASSUME Init PROVE TypeOK
    OBVIOUS
  <2>1. CmdMax \in Nat /\ Len(<<>>) = 0 /\ DOMAIN <<>> = {}
    BY BoundsAssumption
  <2>2. list.commands = <<>>
    BY DEF Init, NoList
  <2> QED BY <2>1, <2>2 DEF Init, TypeOK
<1>2. TypeOK /\ [Next]_vars => TypeOK'
  BY TypeStep
<1> QED BY <1>1, <1>2, PTL DEF Spec

-----------------------------------------------------------------------------
(***************************************************************************)
(* The command buffer of 4-ShellP2.                                        *)
(***************************************************************************)
(* Without quotes an argument starts where a word of the line does, the later ones *)
(* further on; r.token is the place the scan has come to.                          *)
Ascends(q) == \A i, j \in DOMAIN q : i < j => q[i] < q[j]
PlainScan(s, r) ==
  /\ IsPlace(r) /\ ~r.quoted /\ r.token \in Nat /\ r.token >= 1
  /\ r.start = 0 /\ r.token > 1 => s[r.token - 1] = Blank
  /\ r.start # 0 => r.start \in Starts(s, Blank) /\ r.start < r.token
  /\ \A i \in DOMAIN r.argv :
       r.argv[i] \in Starts(s, Blank) /\ r.argv[i] < r.token /\ (r.start # 0 => r.argv[i] < r.start)
  /\ Ascends(r.argv)

LEMMA PushAscends ==
  ASSUME NEW s, NEW r, PlainScan(s, r), r.start # 0
  PROVE  /\ Push(r).argv \in Seq(Starts(s, Blank)) /\ Ascends(Push(r).argv)
         /\ \A i \in DOMAIN Push(r).argv : Push(r).argv[i] < r.token
<1> DEFINE q == Push(r).argv
           n == Len(r.argv)
           S == Starts(s, Blank)
<1>1. q = Append(r.argv, r.start)
  BY PushIs DEF PlainScan
<1>2. r.argv \in Seq(Nat) /\ r.start \in S /\ r.start \in Nat
  BY DEF PlainScan, IsPlace
<1>3. n \in Nat /\ DOMAIN r.argv = 1..n
  BY <1>2, LenProperties
<1>4. q \in Seq(Nat) /\ Len(q) = n + 1 /\ (\A i \in 1..n : q[i] = r.argv[i]) /\ q[n + 1] = r.start
  BY <1>1, <1>2, AppendProperties
<1>5. DOMAIN q = 1..(n + 1)
  BY <1>4, LenProperties
<1>6. \A i \in 1..n : r.argv[i] \in S /\ r.argv[i] < r.token /\ r.argv[i] < r.start /\ r.argv[i] \in Nat
  BY <1>2, <1>3 DEF PlainScan
<1>7. r.start < r.token /\ \A i, j \in 1..n : i < j => r.argv[i] < r.argv[j]
  BY <1>3 DEF PlainScan, Ascends
<1> HIDE DEF q, n, S
<1>8. \A i \in 1..(n + 1) : i \in 1..n \/ i = n + 1
  BY <1>3
<1>9. \A i \in 1..(n + 1) : q[i] \in S /\ q[i] < r.token
  BY <1>2, <1>4, <1>6, <1>7, <1>8
<1>10. \A i, j \in 1..(n + 1) : i < j => q[i] < q[j]
  <2> TAKE i, j \in 1..(n + 1)
  <2> HAVE i < j
  <2>1. i \in 1..n
    BY <1>3
  <2>2. CASE j \in 1..n
    BY <1>4, <1>7, <2>1, <2>2
  <2>3. CASE j = n + 1
    BY <1>4, <1>6, <2>1, <2>3
  <2> QED BY <1>8, <2>2, <2>3
<1>11. q \in Seq(S)
  BY <1>4, <1>5, <1>9, LenProperties, SeqDef
<1> QED BY <1>5, <1>9, <1>10, <1>11 DEF Ascends, q, S

(* A line without quotes, and what one symbol of it does. *)
Plain(s) == ~Contains(s, Quote)
IsQuote(c) == c = Quote

LEMMA PlainHas == ASSUME NEW s, Plain(s) PROVE \A i \in 1..Len(s) : ~IsQuote(s[i])
  BY Zenon DEF Plain, Contains, IsQuote

LEMMA HasPlain == ASSUME NEW s, \A i \in 1..Len(s) : ~IsQuote(s[i]) PROVE Plain(s)
  BY Zenon DEF Plain, Contains, IsQuote

LEMMA StepPlain ==
  ASSUME NEW s, NEW n, ~IsQuote(s[n]), NEW r, ~r.quoted
  PROVE  /\ s[n] = Blank /\ r.start # 0 => StepP2(s, r, n) = [Push(Cut(r, n)) EXCEPT !.start = 0]
         /\ s[n] = Blank /\ r.start = 0 => StepP2(s, r, n) = r
         /\ s[n] # Blank /\ r.start = 0 => StepP2(s, r, n) = [r EXCEPT !.start = n]
         /\ s[n] # Blank /\ r.start # 0 => StepP2(s, r, n) = r
<1>1. ~(s[n] = Quote /\ ~r.quoted) /\ ~(s[n] = Quote /\ r.quoted)
  BY Zenon DEF IsQuote
<1>2. CASE s[n] = Blank
  BY <1>1, <1>2, Zenon DEF StepP2
<1>3. CASE s[n] # Blank
  BY <1>1, <1>3, Zenon DEF StepP2
<1> QED BY <1>2, <1>3

LEMMA PlainStep ==
  ASSUME NEW s \in Lines, NEW n \in 1..Len(s), ~IsQuote(s[n]), NEW r, PlainScan(s, r), r.token = n
  PROVE  PlainScan(s, [StepP2(s, r, n) EXCEPT !.token = n + 1])
<1>1. Len(s) \in Nat /\ n \in Nat /\ n >= 1 /\ ~r.quoted /\ IsPlace(r)
  BY LineIs DEF PlainScan
<1> DEFINE t == [StepP2(s, r, n) EXCEPT !.token = n + 1]
<1>2. CASE s[n] = Blank /\ r.start # 0
  <2> DEFINE c == Cut(r, n)
  <2>1. PlainScan(s, c) /\ c.start # 0 /\ c.token = n /\ c.argv = r.argv /\ ~c.quoted
    BY <1>1, <1>2, CutIs DEF PlainScan
  <2> DEFINE q == Push(c)
  <2>2. IsPlace(q) /\ ~q.quoted
    BY <2>1, PushIs DEF PlainScan
  <2>3. /\ q.argv \in Seq(Starts(s, Blank)) /\ Ascends(q.argv) /\ \A i \in DOMAIN q.argv : q.argv[i] < n
    BY <2>1, PushAscends
  <2>4. StepP2(s, r, n) = [q EXCEPT !.start = 0]
    BY <1>1, <1>2, StepPlain
  <2> HIDE DEF c, q
  <2>5. IsPlace(t) /\ ~t.quoted /\ t.token = n + 1 /\ t.start = 0 /\ t.argv = q.argv
    BY <2>2, <2>4 DEF IsPlace
  <2>6. \A i \in DOMAIN q.argv : q.argv[i] \in Starts(s, Blank) /\ q.argv[i] \in Nat /\ q.argv[i] < n + 1
    <3>1. \A i \in DOMAIN q.argv : q.argv[i] \in Starts(s, Blank) /\ q.argv[i] \in Nat
      BY <2>2, <2>3 DEF IsPlace
    <3> QED BY <1>1, <2>3, <3>1
  <2> HIDE DEF t
  <2>7. n + 1 \in Nat /\ n + 1 >= 1 /\ (n + 1) - 1 = n
    BY <1>1
  <2>8. PlainScan(s, t)
    BY <1>2, <2>3, <2>5, <2>6, <2>7 DEF PlainScan
  <2> QED BY <2>8 DEF t
<1>3. CASE s[n] = Blank /\ r.start = 0
  <2>1. StepP2(s, r, n) = r
    BY <1>1, <1>3, StepPlain
  <2>2. IsPlace(t) /\ ~t.quoted /\ t.token = n + 1 /\ t.start = 0 /\ t.argv = r.argv
    BY <1>1, <1>3, <2>1 DEF IsPlace
  <2>3. \A i \in DOMAIN r.argv : r.argv[i] \in Nat
    BY <1>1 DEF IsPlace
  <2> HIDE DEF t
  <2>4. PlainScan(s, t)
    BY <1>1, <1>3, <2>2, <2>3 DEF PlainScan
  <2> QED BY <2>4 DEF t
<1>4. CASE s[n] # Blank /\ r.start = 0
  <2>1. StepP2(s, r, n) = [r EXCEPT !.start = n]
    BY <1>1, <1>4, StepPlain
  <2>2. IsPlace(t) /\ ~t.quoted /\ t.token = n + 1 /\ t.start = n /\ t.argv = r.argv
    BY <1>1, <1>4, <2>1 DEF IsPlace
  <2>3. \A i \in DOMAIN r.argv : r.argv[i] \in Nat
    BY <1>1 DEF IsPlace
  <2>4. n \in Starts(s, Blank)
    BY <1>1, <1>4 DEF PlainScan, Starts
  <2> HIDE DEF t
  <2>5. PlainScan(s, t)
    BY <1>1, <1>4, <2>2, <2>3, <2>4 DEF PlainScan
  <2> QED BY <2>5 DEF t
<1>5. CASE s[n] # Blank /\ r.start # 0
  <2>1. StepP2(s, r, n) = r
    BY <1>1, <1>5, StepPlain
  <2>2. IsPlace(t) /\ ~t.quoted /\ t.token = n + 1 /\ t.start = r.start /\ t.argv = r.argv
    BY <1>1, <2>1 DEF IsPlace
  <2>3. r.start \in Nat /\ \A i \in DOMAIN r.argv : r.argv[i] \in Nat
    BY <1>1 DEF IsPlace
  <2> HIDE DEF t
  <2>4. PlainScan(s, t)
    BY <1>1, <1>5, <2>2, <2>3 DEF PlainScan
  <2> QED BY <2>4 DEF t
<1> QED BY <1>2, <1>3, <1>4, <1>5

LEMMA PlainScanned ==
  ASSUME NEW s \in Lines, Plain(s)
  PROVE  PlainScan(s, ScanLine(s, "P2", Scan, ArgvMax))
<1> DEFINE S == ScanUpTo(s, "P2", Scan, ArgvMax)
           T == {n \in 0..Len(s) : ~PlainScan(s, S[n])}
<1>1. Len(s) \in Nat /\ \A n \in 1..Len(s) : ~IsQuote(s[n])
  BY LineIs, PlainHas
<1>2. S[0] = Scan /\ \A n \in 1..Len(s) : S[n] = NextPlace(s, "P2", ArgvMax, S[n - 1], n)
  BY <1>1, ScanStep
<1>3. PlainScan(s, Scan)
  BY DEF PlainScan, Scan, IsPlace, Ascends
<1> HIDE DEF S
<1>4. ASSUME T # {} PROVE FALSE
  <2>1. PICK n \in T : \A m \in T : ~(m < n)
    <3>1. T \subseteq Nat
      OBVIOUS
    <3> HIDE DEF T
    <3> QED BY <1>4, <3>1, LeastNumber
  <2>2. n \in 1..Len(s) /\ n - 1 \in 0..Len(s) /\ n - 1 < n
    BY <1>1, <1>2, <1>3, <2>1
  <2> DEFINE r == S[n - 1]
  <2>3. PlainScan(s, r)
    BY <2>1, <2>2
  <2>4. S[n] = NextPlace(s, "P2", ArgvMax, r, n)
    BY <1>2, <2>2
  <2> HIDE DEF r
  <2>5. S[n] = r \/ (r.token = n /\ S[n] = [StepP2(s, r, n) EXCEPT !.token = n + 1])
    BY <2>4 DEF NextPlace
  <2>6. PlainScan(s, S[n])
    BY <1>1, <2>2, <2>3, <2>5, PlainStep
  <2> QED BY <2>1, <2>6
<1>5. Len(s) \in 0..Len(s)
  BY <1>1
<1>6. PlainScan(s, S[Len(s)])
  BY <1>4, <1>5
<1> QED BY <1>6 DEF S, ScanLine

(* As many arguments as words, at the most. *)
LEMMA PlainWords ==
  ASSUME NEW l \in Lines, Plain(l)
  PROVE  Len(BuildCmdBuffP2(l).argv) <= Len(Tokens(l, Blank))
<1> DEFINE s == NoLeading(l)
           r == ScanLine(s, "P2", Scan, ArgvMax)
           c == BuildCmdBuffP2(l)
<1>1. PICK k \in 0..Len(l) : /\ Len(s) = Len(l) - k
                             /\ \A i \in 1..k : l[i] = Blank
                             /\ \A i \in 1..(Len(l) - k) : s[i] = l[k + i]
  BY NoLeadingIs
<1>2. s \in Lines /\ Len(l) \in Nat /\ k \in Nat /\ k <= Len(l)
  BY NoLeadingIs, LineIs
<1>3. ASSUME NEW i \in Starts(s, Blank) PROVE k + i \in Starts(l, Blank)
  <2> HIDE DEF s
  <2>1. i \in 1..(Len(l) - k) /\ s[i] # Blank /\ (i = 1 \/ s[i - 1] = Blank)
    BY <1>1, <1>3 DEF Starts
  <2>2. k + i \in 1..Len(l) /\ l[k + i] # Blank
    BY <1>1, <1>2, <2>1
  <2>3. CASE i = 1
    <3>1. k + i = 1 \/ k \in 1..k
      BY <1>2, <2>3
    <3>2. k + i = 1 \/ l[k + i - 1] = Blank
      BY <1>1, <1>2, <2>3, <3>1
    <3> QED BY <2>2, <3>2 DEF Starts
  <2>4. CASE i # 1 /\ s[i - 1] = Blank
    <3>1. i - 1 \in 1..(Len(l) - k) /\ k + (i - 1) = k + i - 1
      BY <1>2, <2>1, <2>4
    <3>2. l[k + i - 1] = Blank
      BY <1>1, <2>4, <3>1
    <3> QED BY <2>2, <3>2 DEF Starts
  <2> QED BY <2>1, <2>3, <2>4
<1>4. Plain(s)
  <2> HIDE DEF s
  <2>1. \A i \in 1..(Len(l) - k) : k + i \in 1..Len(l)
    BY <1>2
  <2>2. \A i \in 1..Len(s) : ~IsQuote(s[i])
    BY <1>1, <2>1, PlainHas
  <2> QED BY <2>2, HasPlain
<1>5. PlainScan(s, r)
  BY <1>2, <1>4, PlainScanned
<1>6. c = Parsed(s, r) \/ (r.start # 0 /\ c = Parsed(s, Push(r)))
  BY DEF BuildCmdBuffP2
<1> HIDE DEF c, s, r
<1>7. \E q \in Seq(Starts(s, Blank)) : Ascends(q) /\ Len(c.argv) = Len(q)
  <2>1. IsPlace(r) /\ r.argv \in Seq(Nat) /\ (\A i \in DOMAIN r.argv : r.argv[i] \in Starts(s, Blank)) /\ Ascends(r.argv)
    BY <1>5 DEF PlainScan, IsPlace
  <2>2. CASE c = Parsed(s, r)
    <3>1. r.argv \in Seq(Starts(s, Blank))
      <4> DEFINE q == r.argv
      <4>1. q \in Seq(Nat) /\ \A i \in DOMAIN q : q[i] \in Starts(s, Blank)
        BY <2>1
      <4> HIDE DEF q
      <4>2. Len(q) \in Nat /\ DOMAIN q = 1..Len(q) /\ q \in [1..Len(q) -> Nat]
        BY <4>1, LenProperties
      <4>3. q \in [1..Len(q) -> Starts(s, Blank)]
        BY <4>1, <4>2
      <4>4. q \in Seq(Starts(s, Blank))
        BY <4>2, <4>3, SeqDef
      <4> QED BY <4>4 DEF q
    <3>2. Len(c.argv) = Len(r.argv)
      BY <2>1, <2>2, ParsedLen
    <3> QED BY <2>1, <3>1, <3>2
  <2>3. CASE r.start # 0 /\ c = Parsed(s, Push(r))
    <3>1. Push(r).argv \in Seq(Starts(s, Blank)) /\ Ascends(Push(r).argv)
      BY <1>5, <2>3, PushAscends
    <3>2. Len(c.argv) = Len(Push(r).argv)
      BY <2>1, <2>3, PushIs, ParsedLen
    <3> QED BY <3>1, <3>2
  <2> QED BY <1>6, <2>2, <2>3
<1>8. PICK q \in Seq(Starts(s, Blank)) : Ascends(q) /\ Len(c.argv) = Len(q)
  BY <1>7
<1> DEFINE n == Len(q)
           f == [i \in 1..n |-> k + q[i]]
<1>9. n \in Nat /\ DOMAIN q = 1..n /\ \A i \in 1..n : q[i] \in Starts(s, Blank) /\ q[i] \in Nat
  <2>1. n \in Nat /\ DOMAIN q = 1..n /\ \A i \in 1..n : q[i] \in Starts(s, Blank)
    BY LenProperties
  <2>2. Starts(s, Blank) \subseteq Nat
    BY DEF Starts
  <2> QED BY <2>1, <2>2
<1>10. \A i, j \in 1..n : i < j => q[i] < q[j]
  BY <1>8, <1>9 DEF Ascends
<1> HIDE DEF n
<1>11. f \in Injection(1..n, Starts(l, Blank))
  <2>1. f \in [1..n -> Starts(l, Blank)]
    BY <1>3, <1>9
  <2>2. ASSUME NEW i \in 1..n, NEW j \in 1..n, f[i] = f[j] PROVE i = j
    <3>1. q[i] = q[j]
      BY <1>2, <1>9, <2>2
    <3>2. i \in Nat /\ j \in Nat /\ ~(i < j) /\ ~(j < i)
      BY <1>9, <1>10, <3>1
    <3> QED BY <3>2
  <2>3. DOMAIN f = 1..n
    OBVIOUS
  <2> HIDE DEF f
  <2> QED BY <2>1, <2>2, <2>3 DEF Injection, IsInjective
<1>12. Starts(l, Blank) \subseteq 1..Len(l)
  BY DEF Starts
<1>13. IsFiniteSet(Starts(l, Blank))
  <2>1. IsFiniteSet(1..Len(l))
    BY <1>2, FS_Interval
  <2> QED BY <1>12, <2>1, FS_Subset
<1>14. Cardinality(1..n) <= Cardinality(Starts(l, Blank))
  <2> HIDE DEF f
  <2> QED BY <1>11, <1>13, FS_Injection
<1>15. Cardinality(1..n) = n
  BY <1>9, FS_Interval
<1>16. Len(c.argv) <= Cardinality(Starts(l, Blank))
  BY <1>8, <1>14, <1>15 DEF n
<1> QED BY <1>16, TokensIs DEF c

Full(l) == Len(Tokens(l, Blank)) >= ArgvMax
Lost(lines) == \E i \in DOMAIN lines : Full(lines[i]) \/ ~Plain(lines[i])

(* When the buffer is gone, a line with too many words or with a quote has been typed. *)
BufferInv ==
  /\ buffer \in BOOLEAN /\ line \in Seq(Lines)
  /\ status = "crashed" => ~buffer
  /\ ~buffer => version = "P2" /\ Lost(line)

LEMMA BufferStep ==
  ASSUME BufferInv, [Next]_vars
  PROVE  BufferInv'
<1>1. ASSUME UNCHANGED <<line, buffer, version>>, status' # "crashed" \/ UNCHANGED status PROVE BufferInv'
  BY <1>1 DEF BufferInv, Lost
<1>2. ASSUME NEW l \in Lines, line' = Append(line, l)
      PROVE  /\ line' \in Seq(Lines) /\ (Lost(line) => Lost(line'))
             /\ Full(l) \/ ~Plain(l) => Lost(line')
  <2>1. Len(line) \in Nat /\ DOMAIN line = 1..Len(line)
    BY LenProperties DEF BufferInv
  <2>2. /\ line' \in Seq(Lines) /\ Len(line') = Len(line) + 1
        /\ (\A i \in 1..Len(line) : line'[i] = line[i]) /\ line'[Len(line) + 1] = l
    BY <1>2, AppendProperties DEF BufferInv
  <2>3. DOMAIN line' = 1..(Len(line) + 1)
    BY <2>2, LenProperties
  <2>4. Len(line) + 1 \in DOMAIN line' /\ DOMAIN line \subseteq DOMAIN line'
    BY <2>1, <2>3
  <2> QED BY <2>1, <2>2, <2>4 DEF Lost
<1>3. ASSUME NEW l \in Lines, line' = Append(line, l), UNCHANGED <<buffer, version>>,
             status' # "crashed" \/ ~buffer
      PROVE  BufferInv'
  BY <1>2, <1>3 DEF BufferInv
<1>4. ASSUME NEW l \in Lines, ParseP2(l, BuildCmdBuffP2(l)), status' # "crashed" PROVE BufferInv'
  <2> DEFINE c == BuildCmdBuffP2(l)
  <2>1. line' = Append(line, l) /\ version = "P2" /\ UNCHANGED version /\ buffer /\ buffer' = Survives(c)
    BY <1>4 DEF ParseP2, Typed
  <2>2. ArgvMax \in Nat /\ Len(c.argv) \in Nat /\ Len(Tokens(l, Blank)) \in Nat
    BY BoundsAssumption, BuildP2Bounded, TokensIs
  <2>3. Plain(l) => Len(c.argv) <= Len(Tokens(l, Blank))
    BY PlainWords
  <2> HIDE DEF c
  <2>4. ~buffer' => Full(l) \/ ~Plain(l)
    <3>1. ~Survives(c) => Len(c.argv) >= ArgvMax
      BY <2>2 DEF Survives
    <3>2. ~Survives(c) /\ Plain(l) => Full(l)
      BY <2>2, <2>3, <3>1 DEF Full
    <3> QED BY <2>1, <3>2, Zenon
  <2>5. buffer' \in BOOLEAN
    BY <2>1 DEF Survives
  <2> QED BY <1>2, <1>4, <2>1, <2>4, <2>5 DEF BufferInv
<1>5. CASE UNCHANGED vars
  BY <1>1, <1>5 DEF vars
<1>6. CASE Start \/ EndOfInput
  BY <1>1, <1>6 DEF Start, EndOfInput, NoParse, Ends
<1>7. ASSUME NEW l \in Lines, ShowP1(l) \/ NoCommand(l) PROVE BufferInv'
  <2>1. line' = Append(line, l) /\ UNCHANGED <<buffer, version>> /\ status = "prompt"
    BY <1>7 DEF ShowP1, NoCommand, Typed, NoParse
  <2>2. status' # "crashed"
    BY <1>7, <2>1 DEF ShowP1, NoCommand, Loops, Ends
  <2> QED BY <1>3, <2>1, <2>2
<1>8. ASSUME NEW l \in Lines, CrashP2(l) PROVE BufferInv'
  <2>1. line' = Append(line, l) /\ UNCHANGED <<buffer, version>> /\ ~buffer
    BY <1>8 DEF CrashP2, Typed, NoParse
  <2> QED BY <1>3, <2>1
<1>9. ASSUME NEW l \in Lines, BuiltInP2(l) \/ ExternalP2(l) PROVE BufferInv'
  <2>1. ParseP2(l, BuildCmdBuffP2(l))
    BY <1>9 DEF BuiltInP2, ExternalP2
  <2>2. status = "prompt"
    BY <2>1 DEF ParseP2, Typed
  <2>3. status' # "crashed"
    BY <1>9, <2>2 DEF BuiltInP2, ExternalP2, Loops, Ends
  <2> QED BY <1>4, <2>1, <2>3
<1>10. ASSUME NEW l \in Lines, BuiltInP3(l) \/ ExternalP3(l) PROVE BufferInv'
  <2>1. line' = Append(line, l) /\ UNCHANGED <<buffer, version>> /\ status = "prompt"
    BY <1>10 DEF BuiltInP3, ExternalP3, ParseP3, Typed
  <2>2. status' # "crashed"
    BY <1>10, <2>1 DEF BuiltInP3, ExternalP3, Loops, Ends
  <2> QED BY <1>3, <2>1, <2>2
<1>11. ASSUME NEW l \in Lines, NotRun(l) \/ SingleP3(l) \/ PipelineRuns(l) \/ PipelineMeets(l) \/ PipelineFails(l)
       PROVE  BufferInv'
  <2>1. ParseListP3(l)
    BY <1>11 DEF NotRun, SingleP3, PipelineRuns, PipelineMeets, PipelineFails
  <2>2. line' = Append(line, l) /\ UNCHANGED <<buffer, version>> /\ status = "prompt"
    BY <2>1 DEF ParseListP3, Typed
  <2>3. status' # "crashed"
    BY <1>11, <2>2 DEF NotRun, SingleP3, PipelineRuns, PipelineMeets, PipelineFails, Loops, Ends
  <2> QED BY <1>3, <2>2, <2>3
<1>12. CASE \E l \in IF line = <<>> THEN FirstLines ELSE LaterLines :
             \/ ShowP1(l) \/ NoCommand(l) \/ CrashP2(l) \/ BuiltInP2(l) \/ ExternalP2(l)
             \/ BuiltInP3(l) \/ ExternalP3(l) \/ NotRun(l) \/ SingleP3(l) \/ PipelineRuns(l)
             \/ PipelineMeets(l) \/ PipelineFails(l)
  <2>1. FirstLines \subseteq Lines /\ LaterLines \subseteq Lines
    BY LinesAssumption DEF Lines
  <2>2. \E l \in Lines :
             \/ ShowP1(l) \/ NoCommand(l) \/ CrashP2(l) \/ BuiltInP2(l) \/ ExternalP2(l)
             \/ BuiltInP3(l) \/ ExternalP3(l) \/ NotRun(l) \/ SingleP3(l) \/ PipelineRuns(l)
             \/ PipelineMeets(l) \/ PipelineFails(l)
    BY <1>12, <2>1, Zenon
  <2> QED BY <1>7, <1>8, <1>9, <1>10, <1>11, <2>2, Zenon
<1> QED BY <1>5, <1>6, <1>12, Zenon DEF Next

(* 4-ShellP2 loses its command buffer, and crashes, only after a line with CMD_ARGV_MAX *)
(* words or a line with quotes, whatever else was typed (exec_local_cmd_loop(),         *)
(* build_cmd_buff()).                                                                   *)
THEOREM CrashNeedsFullLine == Spec => []CrashAfterFullLine
<1>1. Init => BufferInv
  <2>1. <<>> \in Seq(Lines)
    BY EmptySeq
  <2> QED BY <2>1 DEF Init, BufferInv
<1>2. BufferInv /\ [Next]_vars => BufferInv'
  BY BufferStep
<1>3. BufferInv => CrashAfterFullLine
  <2> SUFFICES ASSUME BufferInv, ~buffer \/ status = "crashed", \A i \in DOMAIN line : Plain(line[i])
               PROVE  version = "P2" /\ \E i \in DOMAIN line : Len(Tokens(line[i], Blank)) >= ArgvMax
    BY Zenon DEF CrashAfterFullLine, Plain
  <2> QED BY DEF BufferInv, Lost, Full
<1> QED BY <1>1, <1>2, <1>3, PTL DEF Spec

-----------------------------------------------------------------------------
(***************************************************************************)
(* A line that is written from arguments, with quotes where they are       *)
(* needed, and what the parsers find in it.  Written() joins its parts     *)
(* with FlattenSeq, a recursive function again.                            *)
(***************************************************************************)
Cat(s, t) == s \o t

LEMMA CatIs ==
  ASSUME NEW S, NEW s \in Seq(S), NEW t \in Seq(S)
  PROVE  /\ Cat(s, t) \in Seq(S) /\ Len(Cat(s, t)) = Len(s) + Len(t)
         /\ \A i \in 1..Len(s) + Len(t) : Cat(s, t)[i] = IF i <= Len(s) THEN s[i] ELSE t[i - Len(s)]
  BY ConcatProperties DEF Cat

Joined(c, s, t, S, m, n) ==
  /\ c \in Seq(S) /\ Len(c) = m + n
  /\ \A i \in 1..m : c[i] = s[i]
  /\ \A i \in 1..n : c[m + i] = t[i]

LEMMA CatHas ==
  ASSUME NEW S, NEW m \in Nat, NEW n \in Nat, NEW s \in Seq(S), NEW t \in Seq(S), Len(s) = m, Len(t) = n,
         NEW c, c = Cat(s, t)
  PROVE  Joined(c, s, t, S, m, n)
<1>1. c \in Seq(S) /\ Len(c) = m + n /\ \A i \in 1..m + n : c[i] = IF i <= m THEN s[i] ELSE t[i - m]
  BY CatIs
<1>2. \A i \in 1..m : i \in 1..m + n /\ i <= m
  OBVIOUS
<1>3. \A i \in 1..n : m + i \in 1..m + n /\ ~(m + i <= m) /\ (m + i) - m = i
  OBVIOUS
<1>4. \A i \in 1..n : c[m + i] = t[(m + i) - m]
  BY <1>1, <1>3
<1>5. \A i \in 1..m : c[i] = s[i]
  BY <1>1, <1>2
<1>6. \A i \in 1..n : c[m + i] = t[i]
  BY <1>3, <1>4
<1> QED BY <1>1, <1>5, <1>6 DEF Joined

(* FlattenSeq is what its definition says: there is such a function. *)
Flattened(s, F, i) == IF i = 1 THEN s[i] ELSE Cat(F[i - 1], s[i])

LEMMA FlattenDefined ==
  ASSUME NEW m \in Nat, m >= 1, NEW s, Len(s) = m
  PROVE  \E F : F = [i \in 1..m |-> Flattened(s, F, i)] /\ FlattenSeq(s) = F[m]
<1> DEFINE T == {k \in 1..m : ~\E F : DOMAIN F = 1..m /\ \A i \in 1..k : F[i] = Flattened(s, F, i)}
<1>0. ASSUME NEW F, NEW G, NEW i, i = 1 \/ F[i - 1] = G[i - 1] PROVE Flattened(s, F, i) = Flattened(s, G, i)
  BY <1>0 DEF Flattened
<1>1. T = {}
  <2> SUFFICES ASSUME T # {} PROVE FALSE
    OBVIOUS
  <2>1. PICK k \in T : \A j \in T : ~(j < k)
    <3>1. T \subseteq Nat
      OBVIOUS
    <3> HIDE DEF T
    <3> QED BY <3>1, LeastNumber
  <2>2. k \in 1..m /\ k \in Nat
    OBVIOUS
  <2>3. CASE k = 1
    <3> DEFINE F == [i \in 1..m |-> s[1]]
    <3>1. DOMAIN F = 1..m /\ \A i \in 1..k : i = 1 /\ F[i] = s[1]
      BY <2>2, <2>3
    <3> HIDE DEF F
    <3>2. \A i \in 1..k : F[i] = Flattened(s, F, i)
      BY <3>1 DEF Flattened
    <3> QED BY <3>1, <3>2
  <2>4. CASE k > 1
    <3>1. k - 1 \in 1..m /\ k - 1 < k
      BY <2>2, <2>4
    <3>2. k - 1 \notin T
      BY <2>1, <3>1
    <3>3. PICK G : DOMAIN G = 1..m /\ \A i \in 1..(k - 1) : G[i] = Flattened(s, G, i)
      BY <3>1, <3>2
    <3> DEFINE F == [i \in 1..m |-> IF i = k THEN Flattened(s, G, k) ELSE G[i]]
    <3>4. DOMAIN F = 1..m /\ F[k] = Flattened(s, G, k) /\ \A i \in 1..m : i # k => F[i] = G[i]
      BY <2>2
    <3> HIDE DEF F
    <3>5. ASSUME NEW i \in 1..k PROVE F[i] = Flattened(s, F, i)
      <4>1. i = 1 \/ (i - 1 \in 1..m /\ i - 1 # k)
        BY <2>2
      <4>2. Flattened(s, F, i) = Flattened(s, G, i)
        <5>1. i = 1 \/ F[i - 1] = G[i - 1]
          BY <3>4, <4>1
        <5> QED BY <1>0, <5>1
      <4>3. CASE i = k
        BY <3>4, <4>2, <4>3
      <4>4. CASE i # k
        <5>1. i \in 1..m /\ i \in 1..(k - 1)
          BY <2>2, <4>4
        <5> QED BY <3>3, <3>4, <4>2, <4>4, <5>1
      <4> QED BY <4>3, <4>4
    <3> QED BY <3>4, <3>5
  <2> QED BY <2>2, <2>3, <2>4
<1>2. PICK G : DOMAIN G = 1..m /\ \A i \in 1..m : G[i] = Flattened(s, G, i)
  <2>1. m \in 1..m
    OBVIOUS
  <2> QED BY <1>1, <2>1
<1>3. \E F : F = [i \in 1..m |-> Flattened(s, F, i)]
  <2> DEFINE F == [i \in 1..m |-> Flattened(s, G, i)]
             H == [i \in 1..m |-> Flattened(s, F, i)]
  <2>1. \A i \in 1..m : F[i] = G[i]
    BY <1>2
  <2>2. ASSUME NEW i \in 1..m PROVE Flattened(s, F, i) = Flattened(s, G, i)
    <3>1. i = 1 \/ i - 1 \in 1..m
      OBVIOUS
    <3>2. i = 1 \/ F[i - 1] = G[i - 1]
      BY <2>1, <3>1
    <3> HIDE DEF F
    <3> QED BY <1>0, <3>2
  <2>3. \A i \in 1..m : H[i] = F[i]
    BY <2>2
  <2>4. DOMAIN H = DOMAIN F /\ H = [i \in DOMAIN H |-> H[i]] /\ F = [i \in DOMAIN F |-> F[i]]
    OBVIOUS
  <2>5. F = H
    BY <2>3, <2>4
  <2> QED BY <2>5
<1> DEFINE C == CHOOSE F : F = [i \in 1..m |-> Flattened(s, F, i)]
<1>4. C = [i \in 1..m |-> Flattened(s, C, i)]
  BY <1>3
<1>5. FlattenSeq(s) = C[m]
  BY DEF FlattenSeq, Flattened, Cat
<1> QED BY <1>4, <1>5

Parts(Sym, m) == [1..m -> Seq(Sym)]
Joins(F, s, Sym, m) ==
  /\ F \in Parts(Sym, m)
  /\ F[1] = s[1] /\ \A i \in 2..m : F[i] = Cat(F[i - 1], s[i])

LEMMA FlattenIs ==
  ASSUME NEW Sym, NEW m \in Nat, m >= 1, NEW s \in Parts(Sym, m)
  PROVE  \E F : Joins(F, s, Sym, m) /\ FlattenSeq(s) = F[m]
<1>0. s \in [1..m -> Seq(Sym)]
  BY DEF Parts
<1>1. Len(s) = m
  <2>1. s = [i \in 1..m |-> s[i]]
    BY <1>0
  <2> QED BY <2>1, FunctionLen
<1>2. PICK F : F = [i \in 1..m |-> Flattened(s, F, i)] /\ FlattenSeq(s) = F[m]
  BY <1>1, FlattenDefined
<1>3. DOMAIN F = 1..m /\ \A i \in 1..m : F[i] = Flattened(s, F, i)
  BY <1>2
<1>4. F[1] = s[1] /\ \A i \in 2..m : F[i] = Cat(F[i - 1], s[i])
  <2>1. 1 \in 1..m /\ \A i \in 2..m : i \in 1..m /\ i # 1
    OBVIOUS
  <2> QED BY <1>3, <2>1 DEF Flattened
<1> DEFINE T == {i \in 1..m : F[i] \notin Seq(Sym)}
<1>5. T = {}
  <2> SUFFICES ASSUME T # {} PROVE FALSE
    OBVIOUS
  <2>1. PICK i \in T : \A j \in T : ~(j < i)
    <3>1. T \subseteq Nat
      OBVIOUS
    <3> HIDE DEF T
    <3> QED BY <3>1, LeastNumber
  <2>2. i \in 1..m /\ F[i] \notin Seq(Sym)
    OBVIOUS
  <2>3. i # 1
    BY <1>0, <1>4, <2>2
  <2>4. i \in 2..m /\ i - 1 \in 1..m /\ i - 1 < i
    BY <2>2, <2>3
  <2>5. F[i - 1] \in Seq(Sym) /\ s[i] \in Seq(Sym)
    BY <1>0, <2>1, <2>2, <2>4
  <2> QED BY <1>4, <2>2, <2>4, <2>5, CatIs
<1>6. F \in [1..m -> Seq(Sym)]
  <2>1. F = [i \in 1..m |-> F[i]]
    BY <1>2, <1>3
  <2> QED BY <1>5, <2>1
<1>7. Joins(F, s, Sym, m)
  BY <1>4, <1>6 DEF Joins, Parts
<1> QED BY <1>2, <1>7

(* The parts of such a sequence follow each other. *)
Places(l, F, s, m) ==
  /\ \A i \in 2..m : Len(F[i]) = Len(F[i - 1]) + Len(s[i])
  /\ \A j \in 1..Len(s[1]) : l[j] = s[1][j]
  /\ \A i \in 2..m : \A j \in 1..Len(s[i]) : l[Len(F[i - 1]) + j] = s[i][j]

LEMMA FlattenPlaces ==
  ASSUME NEW Sym, NEW m \in Nat, m >= 1, NEW s \in Parts(Sym, m), NEW F, Joins(F, s, Sym, m)
  PROVE  Places(F[m], F, s, m)
<1>0. /\ s \in [1..m -> Seq(Sym)] /\ F \in [1..m -> Seq(Sym)]
      /\ F[1] = s[1] /\ \A i \in 2..m : F[i] = Cat(F[i - 1], s[i])
  BY DEF Joins, Parts
<1>1. \A i \in 1..m : Len(F[i]) \in Nat /\ Len(s[i]) \in Nat
  BY <1>0, LenProperties
<1>2. ASSUME NEW i \in 2..m
      PROVE  /\ Len(F[i]) = Len(F[i - 1]) + Len(s[i])
             /\ \A j \in 1..Len(F[i - 1]) : F[i][j] = F[i - 1][j]
             /\ \A j \in 1..Len(s[i]) : F[i][Len(F[i - 1]) + j] = s[i][j]
  <2> DEFINE a == F[i - 1]
             b == s[i]
  <2>1. i \in 1..m /\ i - 1 \in 1..m
    OBVIOUS
  <2>2. a \in Seq(Sym) /\ b \in Seq(Sym) /\ Len(a) \in Nat /\ Len(b) \in Nat /\ F[i] = Cat(a, b)
    BY <1>0, <1>1, <2>1
  <2> HIDE DEF a, b
  <2>3. /\ Len(F[i]) = Len(a) + Len(b)
        /\ \A j \in 1..Len(a) + Len(b) : F[i][j] = IF j <= Len(a) THEN a[j] ELSE b[j - Len(a)]
    BY <2>2, CatIs
  <2>4. \A j \in 1..Len(a) : F[i][j] = a[j]
    BY <2>2, <2>3
  <2>5. ASSUME NEW j \in 1..Len(b) PROVE F[i][Len(a) + j] = b[j]
    <3>1. Len(a) + j \in 1..Len(a) + Len(b) /\ ~(Len(a) + j <= Len(a)) /\ (Len(a) + j) - Len(a) = j
      BY <2>2
    <3>2. F[i][Len(a) + j] = b[(Len(a) + j) - Len(a)]
      BY <2>3, <3>1
    <3> QED BY <3>1, <3>2
  <2> QED BY <2>3, <2>4, <2>5 DEF a, b
<1>3. ASSUME NEW i \in 1..m PROVE \A j \in 1..Len(F[i]) : F[m][j] = F[i][j]
  <2> DEFINE T == {k \in i..m : ~(Len(F[i]) <= Len(F[k]) /\ \A j \in 1..Len(F[i]) : F[k][j] = F[i][j])}
  <2>1. ASSUME T # {} PROVE FALSE
    <3>1. PICK k \in T : \A j \in T : ~(j < k)
      <4>1. T \subseteq Nat
        OBVIOUS
      <4> HIDE DEF T
      <4> QED BY <2>1, <4>1, LeastNumber
    <3>2. k # i
      BY <1>1
    <3>3. k \in 2..m /\ k - 1 \in i..m /\ k - 1 < k /\ k - 1 \in 1..m
      BY <3>2
    <3>4. Len(F[i]) <= Len(F[k - 1]) /\ \A j \in 1..Len(F[i]) : F[k - 1][j] = F[i][j]
      BY <3>1, <3>3
    <3>8. k \in 1..m
      BY <3>3
    <3>5. Len(F[k]) = Len(F[k - 1]) + Len(s[k]) /\ \A j \in 1..Len(F[k - 1]) : F[k][j] = F[k - 1][j]
      BY <1>2, <3>3
    <3>9. Len(s[k]) \in Nat /\ Len(F[k - 1]) \in Nat /\ Len(F[i]) \in Nat
      BY <1>1, <3>3, <3>8
    <3>6. Len(F[i]) <= Len(F[k]) /\ \A j \in 1..Len(F[i]) : j \in 1..Len(F[k - 1])
      <4> DEFINE x == Len(F[k - 1])
                 y == Len(s[k])
                 z == Len(F[i])
      <4>1. Len(F[k]) = x + y /\ x \in Nat /\ y \in Nat /\ z \in Nat /\ z <= x
        BY <3>4, <3>5, <3>9
      <4> HIDE DEF x, y, z
      <4>2. z <= x + y /\ \A j \in 1..z : j \in 1..x
        BY <4>1
      <4> QED BY <4>1, <4>2 DEF x, z
    <3>7. \A j \in 1..Len(F[i]) : F[k][j] = F[i][j]
      BY <3>4, <3>5, <3>6
    <3> QED BY <3>1, <3>6, <3>7
  <2>2. m \in i..m
    OBVIOUS
  <2> QED BY <2>1, <2>2
<1>4. \A j \in 1..Len(s[1]) : F[m][j] = s[1][j]
  <2>1. 1 \in 1..m
    OBVIOUS
  <2> QED BY <1>0, <1>3, <2>1
<1>5. ASSUME NEW i \in 2..m, NEW j \in 1..Len(s[i]) PROVE F[m][Len(F[i - 1]) + j] = s[i][j]
  <2>1. i \in 1..m /\ i - 1 \in 1..m
    OBVIOUS
  <2>2. Len(F[i - 1]) + j \in 1..Len(F[i])
    <3>1. Len(F[i]) = Len(F[i - 1]) + Len(s[i])
      BY <1>2
    <3>2. Len(F[i - 1]) \in Nat /\ Len(s[i]) \in Nat
      BY <1>1, <2>1
    <3> DEFINE x == Len(F[i - 1])
               y == Len(s[i])
    <3>3. x \in Nat /\ y \in Nat /\ j \in 1..y /\ Len(F[i]) = x + y
      BY <3>1, <3>2
    <3> HIDE DEF x, y
    <3>4. x + j \in 1..Len(F[i])
      BY <3>3
    <3> QED BY <3>4 DEF x
  <2> QED BY <1>2, <1>3, <2>1, <2>2
<1> QED BY <1>2, <1>4, <1>5 DEF Places

(* What Written() makes of an argument, and puts before it. *)
Item(a) == IF Quoted(a) THEN Cat(Cat(<<Quote>>, a), <<Quote>>) ELSE a
Gap(i) == IF i = 1 THEN <<>> ELSE <<Blank>>

LEMMA WrittenFlattens ==
  ASSUME NEW argv
  PROVE  Written(argv) = FlattenSeq([i \in DOMAIN argv |-> Cat(Gap(i), Item(argv[i]))])
  BY DEF Written, Item, Gap, Cat

LEMMA ItemIs ==
  ASSUME NEW Sym, Quote \in Sym, NEW a \in Seq(Sym)
  PROVE  /\ Item(a) \in Seq(Sym) /\ Len(a) \in Nat
         /\ ~Quoted(a) => Item(a) = a
         /\ Quoted(a) => /\ Len(Item(a)) = Len(a) + 2
                         /\ Item(a)[1] = Quote /\ Item(a)[Len(a) + 2] = Quote
                         /\ \A j \in 1..Len(a) : Item(a)[j + 1] = a[j]
<1> DEFINE q == <<Quote>>
           n == Len(a)
           b == Cat(q, a)
           c == Cat(b, q)
<1>1. q \in Seq(Sym) /\ Len(q) = 1 /\ q[1] = Quote /\ n \in Nat
  BY LenProperties
<1> HIDE DEF q
<1>2. Joined(b, q, a, Sym, 1, n)
  <2> HIDE DEF b, n
  <2>1. 1 \in Nat /\ Len(a) = n /\ b = Cat(q, a)
    BY DEF b, n
  <2> QED BY <1>1, <2>1, CatHas
<1> HIDE DEF b
<1>3. Joined(c, b, q, Sym, 1 + n, 1)
  <2> DEFINE p == 1 + n
  <2>1. p \in Nat /\ 1 \in Nat /\ b \in Seq(Sym) /\ Len(b) = p /\ c = Cat(b, q)
    BY <1>1, <1>2 DEF Joined
  <2> HIDE DEF c, p
  <2>2. Joined(c, b, q, Sym, p, 1)
    BY <1>1, <2>1, CatHas
  <2> QED BY <2>2 DEF p
<1> HIDE DEF c, n
<1>4. c \in Seq(Sym)
  BY <1>3 DEF Joined
<1>6. Len(c) = n + 2 /\ c[1] = Quote /\ c[n + 2] = Quote /\ \A j \in 1..n : c[j + 1] = a[j]
  <2>1. 1 \in 1..1 /\ 1 \in 1..1 + n /\ (1 + n) + 1 = n + 2
    BY <1>1
  <2>2. \A j \in 1..n : 1 + j \in 1..1 + n /\ j + 1 = 1 + j
    BY <1>1
  <2>3. c[1] = Quote
    BY <1>1, <1>2, <1>3, <2>1 DEF Joined
  <2>4. c[n + 2] = Quote
    BY <1>1, <1>3, <2>1 DEF Joined
  <2>5. \A j \in 1..n : c[1 + j] = a[j]
    BY <1>2, <1>3, <2>2 DEF Joined
  <2> QED BY <1>3, <2>1, <2>2, <2>3, <2>4, <2>5 DEF Joined
<1>7. Quoted(a) => Item(a) = c
  BY DEF Item, c, b, q
<1>8. ~Quoted(a) => Item(a) = a
  BY DEF Item
<1> QED BY <1>1, <1>4, <1>6, <1>7, <1>8 DEF n

(* Where the parts of the line are: argument k and its quotes begin at B[k]. *)
Laid(l, argv, n, B) ==
  /\ B[1] = 1 /\ Len(l) = B[n + 1] - 2
  /\ \A k \in 1..n :
       LET a == argv[k] IN
       IF Quoted(a) THEN /\ B[k + 1] = B[k] + Len(a) + 3
                         /\ l[B[k]] = Quote /\ l[B[k] + Len(a) + 1] = Quote
                         /\ \A j \in 1..Len(a) : l[B[k] + j] = a[j]
       ELSE /\ B[k + 1] = B[k] + Len(a) + 1
            /\ \A j \in 1..Len(a) : l[B[k] + j - 1] = a[j]
  /\ \A k \in 2..n : l[B[k] - 1] = Blank

LEMMA WrittenIs ==
  ASSUME NEW Sym, Quote \in Sym, Blank \in Sym, NEW n \in Nat, n >= 1, NEW argv \in [1..n -> Seq(Sym)]
  PROVE  \E B \in [1..(n + 1) -> Nat] : Written(argv) \in Seq(Sym) /\ Laid(Written(argv), argv, n, B)
<1> DEFINE l == Written(argv)
           I(k) == Item(argv[k])
           s == [i \in 1..n |-> Cat(Gap(i), I(i))]
<1>1. \A i \in 1..n : argv[i] \in Seq(Sym) /\ I(i) \in Seq(Sym) /\ Len(I(i)) \in Nat /\ Len(argv[i]) \in Nat
  BY ItemIs, LenProperties
<1>2. \A i \in 1..n : /\ Gap(i) \in Seq(Sym) /\ Len(Gap(1)) = 0
                      /\ i > 1 => Len(Gap(i)) = 1 /\ Gap(i)[1] = Blank
  BY DEF Gap
<1>3. l = FlattenSeq(s)
  BY WrittenFlattens
<1> HIDE DEF I
<1>4. s \in Parts(Sym, n)
  BY <1>1, <1>2, CatIs DEF Parts
<1>5. ASSUME NEW k \in 1..n, k > 1
      PROVE  Len(s[k]) = 1 + Len(I(k)) /\ s[k][1] = Blank /\ \A j \in 1..Len(I(k)) : s[k][1 + j] = I(k)[j]
  <2> DEFINE g == Gap(k)
             b == I(k)
             m == Len(b)
             c == Cat(g, b)
  <2>1. g \in Seq(Sym) /\ Len(g) = 1 /\ g[1] = Blank /\ b \in Seq(Sym) /\ m \in Nat
    BY <1>1, <1>2, <1>5
  <2>2. s[k] = c
    BY DEF I
  <2> HIDE DEF g, b
  <2>3. Joined(c, g, b, Sym, 1, m)
    <3> HIDE DEF m, c
    <3>1. 1 \in Nat /\ Len(b) = m /\ c = Cat(g, b)
      BY DEF m, c
    <3> QED BY <2>1, <3>1, CatHas
  <2> HIDE DEF c, m
  <2>4. Len(c) = 1 + m /\ c[1] = Blank /\ \A j \in 1..m : c[1 + j] = b[j]
    BY <2>1, <2>3 DEF Joined
  <2> QED BY <2>2, <2>4 DEF b, m
<1>6. s[1] = I(1)
  <2>1. s[1] = Cat(<<>>, I(1)) /\ 1 \in 1..n
    BY DEF Gap
  <2> QED BY <1>1, <2>1, ConcatEmptySeq DEF Cat
<1> HIDE DEF s, l
<1>7. PICK F : Joins(F, s, Sym, n) /\ l = F[n]
  BY <1>3, <1>4, FlattenIs
<1>8. /\ \A i \in 2..n : Len(F[i]) = Len(F[i - 1]) + Len(s[i])
      /\ \A j \in 1..Len(s[1]) : l[j] = s[1][j]
      /\ \A i \in 2..n : \A j \in 1..Len(s[i]) : l[Len(F[i - 1]) + j] = s[i][j]
  <2>1. Places(l, F, s, n)
    BY <1>4, <1>7, FlattenPlaces
  <2> QED BY <2>1 DEF Places
<1>21. F \in [1..n -> Seq(Sym)] /\ F[1] = s[1]
  BY <1>7 DEF Joins, Parts
<1> DEFINE L(i) == Len(F[i])
           B == [k \in 1..(n + 1) |-> IF k = 1 THEN 1 ELSE L(k - 1) + 2]
<1>9. \A i \in 1..n : L(i) \in Nat
  BY <1>21, LenProperties
<1>10. l \in Seq(Sym) /\ Len(l) = L(n)
  BY <1>7, <1>21
<1>11. L(1) = Len(I(1))
  BY <1>6, <1>21
<1>12. ASSUME NEW i \in 2..n PROVE L(i) = L(i - 1) + 1 + Len(I(i))
  <2>1. i \in 1..n /\ i > 1 /\ i - 1 \in 1..n
    OBVIOUS
  <2>2. L(i) = L(i - 1) + Len(s[i]) /\ Len(s[i]) = 1 + Len(I(i))
    BY <1>5, <1>8, <2>1
  <2>3. L(i - 1) \in Nat /\ Len(I(i)) \in Nat
    BY <1>1, <1>9, <2>1
  <2> HIDE DEF L
  <2> QED BY <2>2, <2>3
<1> HIDE DEF L
<1>13. B \in [1..(n + 1) -> Nat]
  <2>1. \A k \in 1..(n + 1) : k = 1 \/ k - 1 \in 1..n
    OBVIOUS
  <2> QED BY <1>9, <2>1
<1>14. B[1] = 1 /\ Len(l) = B[n + 1] - 2
  BY <1>9, <1>10
<1>15. \A k \in 1..n : B[k + 1] = B[k] + Len(I(k)) + 1
  <2>1. ASSUME NEW k \in 1..n PROVE B[k + 1] = B[k] + Len(I(k)) + 1
    <3>1. B[k + 1] = L(k) + 2 /\ L(k) \in Nat /\ Len(I(k)) \in Nat
      BY <1>1, <1>9
    <3>2. CASE k = 1
      BY <1>11, <3>1, <3>2
    <3>3. CASE k # 1
      <4>1. k \in 2..n /\ k - 1 \in 1..n /\ B[k] = L(k - 1) + 2
        BY <3>3
      <4>2. L(k) = L(k - 1) + 1 + Len(I(k)) /\ L(k - 1) \in Nat
        BY <1>9, <1>12, <4>1
      <4> HIDE DEF B
      <4> DEFINE x == L(k)
                 y == L(k - 1)
                 u == Len(I(k))
      <4>3. B[k + 1] = x + 2 /\ B[k] = y + 2 /\ x = y + 1 + u /\ y \in Nat /\ u \in Nat
        BY <3>1, <4>1, <4>2
      <4> HIDE DEF x, y, u
      <4>4. B[k + 1] = B[k] + u + 1
        BY <4>3
      <4> QED BY <4>4 DEF u
    <3> QED BY <3>2, <3>3
  <2> QED BY <2>1
<1>16. ASSUME NEW k \in 2..n PROVE l[B[k] - 1] = Blank /\ \A j \in 1..Len(I(k)) : l[B[k] + j - 1] = I(k)[j]
  <2> DEFINE m == Len(I(k))
             x == L(k - 1)
  <2>1. k \in 1..n /\ k > 1 /\ k - 1 \in 1..n /\ B[k] = x + 2
    OBVIOUS
  <2>2. Len(s[k]) = 1 + m /\ s[k][1] = Blank /\ \A j \in 1..m : s[k][1 + j] = I(k)[j]
    BY <1>5, <2>1
  <2>3. \A j \in 1..Len(s[k]) : l[x + j] = s[k][j]
    BY <1>8 DEF L
  <2>4. x \in Nat /\ m \in Nat
    BY <1>1, <1>9, <2>1
  <2> HIDE DEF x, m, B
  <2>5. B[k] - 1 = x + 1 /\ \A j \in 1..m : 1 + j \in 1..1 + m /\ x + (1 + j) = B[k] + j - 1
    BY <2>1, <2>4
  <2>6. l[x + 1] = Blank
    <3>1. 1 \in 1..1 + m
      BY <2>4
    <3> QED BY <2>2, <2>3, <3>1
  <2>7. \A j \in 1..m : l[x + (1 + j)] = I(k)[j]
    BY <2>2, <2>3, <2>5
  <2> QED BY <2>5, <2>6, <2>7 DEF m
<1>17. \A j \in 1..Len(I(1)) : l[B[1] + j - 1] = I(1)[j]
  <2>1. Len(I(1)) \in Nat
    BY <1>1
  <2>2. \A j \in 1..Len(I(1)) : B[1] + j - 1 = j
    BY <1>14, <2>1
  <2> QED BY <1>6, <1>8, <2>2
<1>18. ASSUME NEW k \in 1..n PROVE \A j \in 1..Len(I(k)) : l[B[k] + j - 1] = I(k)[j]
  <2>1. k = 1 \/ k \in 2..n
    OBVIOUS
  <2> QED BY <1>16, <1>17, <2>1
<1> HIDE DEF B
<1>19. ASSUME NEW k \in 1..n, NEW a, a = argv[k]
       PROVE  /\ Quoted(a) => /\ B[k + 1] = B[k] + Len(a) + 3
                              /\ l[B[k]] = Quote /\ l[B[k] + Len(a) + 1] = Quote
                              /\ \A j \in 1..Len(a) : l[B[k] + j] = a[j]
              /\ ~Quoted(a) => /\ B[k + 1] = B[k] + Len(a) + 1
                               /\ \A j \in 1..Len(a) : l[B[k] + j - 1] = a[j]
  <2> DEFINE t == I(k)
             m == Len(a)
             b == B[k]
  <2>1. a \in Seq(Sym) /\ b \in Nat /\ B[k + 1] = b + Len(t) + 1
    BY <1>1, <1>13, <1>15, <1>19
  <2>2. \A j \in 1..Len(t) : l[b + j - 1] = t[j]
    BY <1>18
  <2>3. /\ ~Quoted(a) => t = a
        /\ Quoted(a) => /\ Len(t) = m + 2
                        /\ t[1] = Quote /\ t[m + 2] = Quote
                        /\ \A j \in 1..m : t[j + 1] = a[j]
    BY <1>19, <2>1, ItemIs DEF I
  <2>4. m \in Nat
    BY <2>1, LenProperties
  <2> HIDE DEF t, m, b
  <2>5. CASE Quoted(a)
    <3>1. B[k + 1] = b + m + 3
      <4> DEFINE u == Len(t)
      <4>1. B[k + 1] = b + u + 1 /\ u = m + 2
        BY <2>1, <2>3, <2>5
      <4> HIDE DEF u
      <4> QED BY <2>1, <2>4, <4>1
    <3>2. 1 \in 1..m + 2 /\ b + 1 - 1 = b /\ m + 2 \in 1..m + 2 /\ b + (m + 2) - 1 = b + m + 1
      BY <2>1, <2>4
    <3>3. \A j \in 1..m : j + 1 \in 1..m + 2 /\ b + (j + 1) - 1 = b + j
      BY <2>1, <2>4
    <3>4. \A j \in 1..m + 2 : l[b + j - 1] = t[j]
      BY <2>2, <2>3, <2>5
    <3>5. l[b + 1 - 1] = t[1] /\ l[b + (m + 2) - 1] = t[m + 2] /\ \A j \in 1..m : l[b + (j + 1) - 1] = t[j + 1]
      BY <3>2, <3>3, <3>4
    <3>6. l[b] = Quote /\ l[b + m + 1] = Quote /\ \A j \in 1..m : l[b + j] = a[j]
      BY <2>3, <2>5, <3>2, <3>3, <3>5
    <3> QED BY <2>5, <3>1, <3>6 DEF m, b
  <2>6. CASE ~Quoted(a)
    <3>1. B[k + 1] = b + m + 1 /\ \A j \in 1..m : l[b + j - 1] = a[j]
      BY <2>1, <2>2, <2>3, <2>6 DEF m
    <3> QED BY <2>6, <3>1 DEF m, b
  <2> QED BY <2>5, <2>6
<1>20. Laid(l, argv, n, B)
  <2>1. \A k \in 2..n : l[B[k] - 1] = Blank
    BY <1>16
  <2> QED BY <1>14, <1>19, <2>1 DEF Laid
<1> QED BY <1>10, <1>13, <1>20 DEF l

(***************************************************************************)
(* One symbol of a line of words and quoted arguments, in both scans: a    *)
(* symbol that starts a word, one that continues it, a blank behind an     *)
(* argument and one behind a blank or a quote, a quote that opens and one  *)
(* that closes.  Between arguments start is 0 in 4-ShellP2, the next       *)
(* symbol in 5-ShellP3.                                                    *)
(***************************************************************************)
Parsers == {"P2", "P3"}
Rest(v, p) == IF v = "P2" THEN 0 ELSE p
IsBlank(c) == c = Blank
IsOther(c) == c # Quote /\ c # Blank /\ c # "<" /\ c # ">"

At(r, token, quoted, start, argv, nul) ==
  /\ IsPlace(r) /\ r.token = token /\ r.quoted = quoted /\ r.start = start
  /\ r.argv = argv /\ r.nul = nul

Stepped(v, l, r, p) == IF v = "P2" THEN StepP2(l, r, p) ELSE StepP3(l, r, p)

LEMMA AtToken ==
  ASSUME NEW r, NEW token, NEW quoted, NEW start, NEW argv, NEW nul, At(r, token, quoted, start, argv, nul),
         NEW p, NEW s, s = [r EXCEPT !.token = p]
  PROVE  At(s, p, quoted, start, argv, nul)
  BY DEF At, IsPlace

(* The three ways in which a step leaves start, and quoted, behind. *)
Opens(r, x) == [r EXCEPT !.quoted = TRUE, !.start = x]
Closes(r, x) == [r EXCEPT !.quoted = FALSE, !.start = x]
Starting(r, x) == [r EXCEPT !.start = x]

LEMMA AtStart ==
  ASSUME NEW r, NEW token, NEW quoted, NEW start, NEW argv, NEW nul, At(r, token, quoted, start, argv, nul),
         NEW x \in Nat
  PROVE  /\ At(Opens(r, x), token, TRUE, x, argv, nul)
         /\ At(Closes(r, x), token, FALSE, x, argv, nul)
         /\ At(Starting(r, x), token, quoted, x, argv, nul)
  BY DEF At, IsPlace, Opens, Closes, Starting

LEMMA AtPush ==
  ASSUME NEW r, NEW token, NEW quoted, NEW start, NEW argv, NEW nul, At(r, token, quoted, start, argv, nul), NEW p
  PROVE  At(Push(Cut(r, p)), token, quoted, start, Append(argv, start), nul \cup {p})
<1> DEFINE c == Cut(r, p)
           q == Push(c)
<1>1. IsPlace(c) /\ c.argv = argv /\ c.start = start /\ c.quoted = quoted /\ c.token = token
  BY CutIs DEF At
<1>2. c.nul = nul \cup {p}
  BY DEF At, IsPlace, Cut
<1> HIDE DEF c
<1>3. IsPlace(q) /\ q.argv = Append(argv, start) /\ q.start = start /\ q.quoted = quoted /\ q.token = token
  BY <1>1, PushIs
<1>4. q.nul = nul \cup {p}
  BY <1>1, <1>2 DEF IsPlace, Push
<1> HIDE DEF q
<1>5. At(q, token, quoted, start, Append(argv, start), nul \cup {p})
  BY <1>3, <1>4 DEF At
<1> QED BY <1>5 DEF q, c

LEMMA BlankNoQuote == ASSUME NEW c, IsBlank(c) PROVE ~IsQuote(c) /\ c # "<" /\ c # ">" /\ c # "NUL"
  BY Zenon DEF IsBlank, IsQuote, Blank, Quote
LEMMA QuoteNoBlank == ASSUME NEW c, IsQuote(c) PROVE ~IsBlank(c) /\ c # "<" /\ c # ">" /\ c # "NUL"
  BY Zenon DEF IsBlank, IsQuote, Blank, Quote

LEMMA SteppedP2 ==
  ASSUME NEW l, NEW r, NEW p
  PROVE  /\ ~r.quoted /\ IsQuote(l[p]) => StepP2(l, r, p) = Opens(r, p + 1)
         /\ r.quoted /\ IsQuote(l[p]) => StepP2(l, r, p) = Closes(Push(Cut(r, p)), 0)
         /\ r.quoted /\ ~IsQuote(l[p]) /\ r.start # 0 => StepP2(l, r, p) = r
         /\ ~r.quoted /\ IsBlank(l[p]) /\ r.start = 0 => StepP2(l, r, p) = r
         /\ ~r.quoted /\ IsBlank(l[p]) /\ r.start # 0 => StepP2(l, r, p) = Starting(Push(Cut(r, p)), 0)
         /\ ~r.quoted /\ IsOther(l[p]) /\ r.start = 0 => StepP2(l, r, p) = Starting(r, p)
         /\ ~r.quoted /\ IsOther(l[p]) /\ r.start # 0 => StepP2(l, r, p) = r
<1>1. ASSUME ~r.quoted, IsQuote(l[p])
      PROVE  StepP2(l, r, p) = Opens(r, p + 1)
  <2>1. ~IsBlank(l[p]) /\ l[p] # "<" /\ l[p] # ">"
    BY <1>1, QuoteNoBlank
  <2> QED BY <1>1, <2>1, Zenon DEF StepP2, IsQuote, IsBlank, Opens
<1>2. ASSUME r.quoted, IsQuote(l[p])
      PROVE  StepP2(l, r, p) = Closes(Push(Cut(r, p)), 0)
  <2>1. ~IsBlank(l[p]) /\ l[p] # "<" /\ l[p] # ">"
    BY <1>2, QuoteNoBlank
  <2> QED BY <1>2, <2>1, Zenon DEF StepP2, IsQuote, IsBlank, Closes
<1>3. ASSUME r.quoted, ~IsQuote(l[p]), r.start # 0
      PROVE  StepP2(l, r, p) = r
  BY <1>3, Zenon DEF StepP2, IsQuote
<1>4. ASSUME ~r.quoted, IsBlank(l[p]), r.start = 0
      PROVE  StepP2(l, r, p) = r
  <2>1. ~IsQuote(l[p]) /\ l[p] # "<" /\ l[p] # ">"
    BY <1>4, BlankNoQuote
  <2> QED BY <1>4, <2>1, Zenon DEF StepP2, IsQuote, IsBlank
<1>5. ASSUME ~r.quoted, IsBlank(l[p]), r.start # 0
      PROVE  StepP2(l, r, p) = Starting(Push(Cut(r, p)), 0)
  <2>1. ~IsQuote(l[p]) /\ l[p] # "<" /\ l[p] # ">"
    BY <1>5, BlankNoQuote
  <2> QED BY <1>5, <2>1, Zenon DEF StepP2, IsQuote, IsBlank, Starting
<1>6. ASSUME ~r.quoted, IsOther(l[p]), r.start = 0
      PROVE  StepP2(l, r, p) = Starting(r, p)
  BY <1>6, Zenon DEF StepP2, IsOther, Starting
<1>7. ASSUME ~r.quoted, IsOther(l[p]), r.start # 0
      PROVE  StepP2(l, r, p) = r
  BY <1>7, Zenon DEF StepP2, IsOther
<1> QED BY <1>1, <1>2, <1>3, <1>4, <1>5, <1>6, <1>7

LEMMA SteppedP3 ==
  ASSUME NEW l, NEW r, NEW p
  PROVE  /\ ~r.quoted /\ IsQuote(l[p]) => StepP3(l, r, p) = Opens(r, p + 1)
         /\ r.quoted /\ IsQuote(l[p]) => StepP3(l, r, p) = Closes(Push(Cut(r, p)), p + 1)
         /\ r.quoted /\ ~IsQuote(l[p]) => StepP3(l, r, p) = r
         /\ ~r.quoted /\ IsBlank(l[p]) /\ r.start = p => StepP3(l, r, p) = Starting(r, p + 1)
         /\ ~r.quoted /\ IsBlank(l[p]) /\ r.start # p => StepP3(l, r, p) = Starting(Push(Cut(r, p)), p + 1)
         /\ ~r.quoted /\ IsOther(l[p]) => StepP3(l, r, p) = r
<1>1. ASSUME ~r.quoted, IsQuote(l[p])
      PROVE  StepP3(l, r, p) = Opens(r, p + 1)
  <2>1. ~IsBlank(l[p]) /\ l[p] # "<" /\ l[p] # ">"
    BY <1>1, QuoteNoBlank
  <2> QED BY <1>1, <2>1, Zenon DEF StepP3, IsQuote, IsBlank, Opens
<1>2. ASSUME r.quoted, IsQuote(l[p])
      PROVE  StepP3(l, r, p) = Closes(Push(Cut(r, p)), p + 1)
  <2>1. ~IsBlank(l[p]) /\ l[p] # "<" /\ l[p] # ">"
    BY <1>2, QuoteNoBlank
  <2> QED BY <1>2, <2>1, Zenon DEF StepP3, IsQuote, IsBlank, Closes
<1>3. ASSUME r.quoted, ~IsQuote(l[p])
      PROVE  StepP3(l, r, p) = r
  BY <1>3, Zenon DEF StepP3, IsQuote
<1>4. ASSUME ~r.quoted, IsBlank(l[p]), r.start = p
      PROVE  StepP3(l, r, p) = Starting(r, p + 1)
  <2>1. ~IsQuote(l[p]) /\ l[p] # "<" /\ l[p] # ">"
    BY <1>4, BlankNoQuote
  <2>2. (IF r.start # p THEN Push(Cut(r, p)) ELSE r) = r
    BY <1>4
  <2>3. StepP3(l, r, p) = Starting(IF r.start # p THEN Push(Cut(r, p)) ELSE r, p + 1)
    BY <1>4, <2>1, Zenon DEF StepP3, IsQuote, IsBlank, Starting
  <2> QED BY <2>2, <2>3, Zenon
<1>5. ASSUME ~r.quoted, IsBlank(l[p]), r.start # p
      PROVE  StepP3(l, r, p) = Starting(Push(Cut(r, p)), p + 1)
  <2>1. ~IsQuote(l[p]) /\ l[p] # "<" /\ l[p] # ">"
    BY <1>5, BlankNoQuote
  <2>2. (IF r.start # p THEN Push(Cut(r, p)) ELSE r) = Push(Cut(r, p))
    BY <1>5
  <2>3. StepP3(l, r, p) = Starting(IF r.start # p THEN Push(Cut(r, p)) ELSE r, p + 1)
    BY <1>5, <2>1, Zenon DEF StepP3, IsQuote, IsBlank, Starting
  <2> QED BY <2>2, <2>3, Zenon
<1>6. ASSUME ~r.quoted, IsOther(l[p])
      PROVE  StepP3(l, r, p) = r
  BY <1>6, Zenon DEF StepP3, IsOther
<1> QED BY <1>1, <1>2, <1>3, <1>4, <1>5, <1>6

Scanned(v, l, p, s, quoted, start, argv, nul) ==
  /\ ~quoted /\ IsQuote(l[p]) => At(s, p + 1, TRUE, p + 1, argv, nul)
  /\ quoted /\ IsQuote(l[p]) => At(s, p + 1, FALSE, Rest(v, p + 1), Append(argv, start), nul \cup {p})
  /\ quoted /\ ~IsQuote(l[p]) /\ start # 0 => At(s, p + 1, TRUE, start, argv, nul)
  /\ ~quoted /\ IsBlank(l[p]) /\ start = Rest(v, p) => At(s, p + 1, FALSE, Rest(v, p + 1), argv, nul)
  /\ ~quoted /\ IsBlank(l[p]) /\ start # Rest(v, p) =>
       At(s, p + 1, FALSE, Rest(v, p + 1), Append(argv, start), nul \cup {p})
  /\ ~quoted /\ IsOther(l[p]) => At(s, p + 1, FALSE, IF start = Rest(v, p) THEN p ELSE start, argv, nul)

LEMMA PlaceStep ==
  ASSUME NEW v \in Parsers, NEW l, NEW p \in Nat, NEW quoted \in BOOLEAN, NEW start \in Nat, NEW argv, NEW nul,
         NEW r, At(r, p, quoted, start, argv, nul), NEW t, t = [Stepped(v, l, r, p) EXCEPT !.token = p + 1]
  PROVE  Scanned(v, l, p, t, quoted, start, argv, nul)
<1> DEFINE q == Push(Cut(r, p))
           s == Stepped(v, l, r, p)
           a == Append(argv, start)
           u == nul \cup {p}
           n == p + 1
<1>1. At(q, p, quoted, start, a, u) /\ n \in Nat /\ 0 \in Nat
  BY AtPush
<1>2. r.quoted = quoted /\ r.start = start
  BY DEF At
<1>3. t = [s EXCEPT !.token = n]
  OBVIOUS
<1> HIDE DEF q, a, u, s, n
<1>4. CASE v = "P2"
  <2>1. s = StepP2(l, r, p) /\ \A x : Rest(v, x) = 0
    BY <1>4 DEF s, Stepped, Rest
  <2>2. ASSUME ~quoted, IsQuote(l[p]) PROVE At(t, n, TRUE, n, argv, nul)
    <3>1. s = Opens(r, n)
      BY <1>2, <2>1, <2>2, SteppedP2 DEF q, n
    <3>2. At(s, p, TRUE, n, argv, nul)
      BY <1>1, <1>2, <2>1, <2>2, <3>1, AtStart
    <3> QED BY <1>3, <3>2, AtToken
  <2>3. ASSUME quoted, IsQuote(l[p]) PROVE At(t, n, FALSE, Rest(v, n), a, u)
    <3>1. s = Closes(q, 0)
      BY <1>2, <2>1, <2>3, SteppedP2 DEF q, n
    <3>3. At(Closes(q, 0), p, FALSE, 0, a, u) /\ FALSE = FALSE /\ Rest(v, n) = 0
      BY <1>1, <2>1, <2>3, AtStart
    <3>2. At(s, p, FALSE, Rest(v, n), a, u)
      BY <3>1, <3>3, Zenon
    <3> QED BY <1>3, <3>2, AtToken
  <2>4. ASSUME quoted, ~IsQuote(l[p]), start # 0 PROVE At(t, n, TRUE, start, argv, nul)
    <3>1. s = r
      BY <1>2, <2>1, <2>4, SteppedP2 DEF q, n
    <3>2. At(s, p, TRUE, start, argv, nul)
      BY <1>1, <1>2, <2>1, <2>4, <3>1
    <3> QED BY <1>3, <3>2, AtToken
  <2>5. ASSUME ~quoted, IsBlank(l[p]), start = Rest(v, p) PROVE At(t, n, FALSE, Rest(v, n), argv, nul)
    <3>1. s = r
      BY <1>2, <2>1, <2>5, SteppedP2 DEF q, n
    <3>2. At(s, p, FALSE, Rest(v, n), argv, nul)
      BY <1>1, <1>2, <2>1, <2>5, <3>1
    <3> QED BY <1>3, <3>2, AtToken
  <2>6. ASSUME ~quoted, IsBlank(l[p]), start # Rest(v, p) PROVE At(t, n, FALSE, Rest(v, n), a, u)
    <3>1. s = Starting(q, 0)
      BY <1>2, <2>1, <2>6, SteppedP2 DEF q, n
    <3>3. At(Starting(q, 0), p, quoted, 0, a, u) /\ quoted = FALSE /\ Rest(v, n) = 0
      BY <1>1, <2>1, <2>6, AtStart
    <3>2. At(s, p, FALSE, Rest(v, n), a, u)
      BY <3>1, <3>3, Zenon
    <3> QED BY <1>3, <3>2, AtToken
  <2>7. ASSUME ~quoted, IsOther(l[p]), start = Rest(v, p) PROVE At(t, n, FALSE, p, argv, nul)
    <3>1. s = Starting(r, p)
      BY <1>2, <2>1, <2>7, SteppedP2 DEF q, n
    <3>2. At(s, p, FALSE, p, argv, nul)
      BY <1>1, <1>2, <2>1, <2>7, <3>1, AtStart
    <3> QED BY <1>3, <3>2, AtToken
  <2>8. ASSUME ~quoted, IsOther(l[p]), start # Rest(v, p) PROVE At(t, n, FALSE, start, argv, nul)
    <3>1. s = r
      BY <1>2, <2>1, <2>8, SteppedP2 DEF q, n
    <3>2. At(s, p, FALSE, start, argv, nul)
      BY <1>1, <1>2, <2>1, <2>8, <3>1
    <3> QED BY <1>3, <3>2, AtToken
  <2> QED BY <2>2, <2>3, <2>4, <2>5, <2>6, <2>7, <2>8 DEF Scanned, a, u, n
<1>5. CASE v = "P3"
  <2>1. s = StepP3(l, r, p) /\ \A x : Rest(v, x) = x
    BY <1>5 DEF s, Stepped, Rest
  <2>2. ASSUME ~quoted, IsQuote(l[p]) PROVE At(t, n, TRUE, n, argv, nul)
    <3>1. s = Opens(r, n)
      BY <1>2, <2>1, <2>2, SteppedP3 DEF q, n
    <3>2. At(s, p, TRUE, n, argv, nul)
      BY <1>1, <1>2, <2>1, <2>2, <3>1, AtStart
    <3> QED BY <1>3, <3>2, AtToken
  <2>3. ASSUME quoted, IsQuote(l[p]) PROVE At(t, n, FALSE, Rest(v, n), a, u)
    <3>1. s = Closes(q, n)
      BY <1>2, <2>1, <2>3, SteppedP3 DEF q, n
    <3>3. At(Closes(q, n), p, FALSE, n, a, u) /\ FALSE = FALSE /\ Rest(v, n) = n
      BY <1>1, <2>1, <2>3, AtStart
    <3>2. At(s, p, FALSE, Rest(v, n), a, u)
      BY <3>1, <3>3, Zenon
    <3> QED BY <1>3, <3>2, AtToken
  <2>4. ASSUME quoted, ~IsQuote(l[p]), start # 0 PROVE At(t, n, TRUE, start, argv, nul)
    <3>1. s = r
      BY <1>2, <2>1, <2>4, SteppedP3 DEF q, n
    <3>2. At(s, p, TRUE, start, argv, nul)
      BY <1>1, <1>2, <2>1, <2>4, <3>1
    <3> QED BY <1>3, <3>2, AtToken
  <2>5. ASSUME ~quoted, IsBlank(l[p]), start = Rest(v, p) PROVE At(t, n, FALSE, Rest(v, n), argv, nul)
    <3>1. s = Starting(r, n)
      BY <1>2, <2>1, <2>5, SteppedP3 DEF q, n
    <3>2. At(s, p, FALSE, Rest(v, n), argv, nul)
      BY <1>1, <1>2, <2>1, <2>5, <3>1, AtStart
    <3> QED BY <1>3, <3>2, AtToken
  <2>6. ASSUME ~quoted, IsBlank(l[p]), start # Rest(v, p) PROVE At(t, n, FALSE, Rest(v, n), a, u)
    <3>1. s = Starting(q, n)
      BY <1>2, <2>1, <2>6, SteppedP3 DEF q, n
    <3>3. At(Starting(q, n), p, quoted, n, a, u) /\ quoted = FALSE /\ Rest(v, n) = n
      BY <1>1, <2>1, <2>6, AtStart
    <3>2. At(s, p, FALSE, Rest(v, n), a, u)
      BY <3>1, <3>3, Zenon
    <3> QED BY <1>3, <3>2, AtToken
  <2>7. ASSUME ~quoted, IsOther(l[p]) PROVE At(t, n, FALSE, IF start = Rest(v, p) THEN p ELSE start, argv, nul)
    <3>1. s = r
      BY <1>2, <2>1, <2>7, SteppedP3 DEF q, n
    <3>2. At(s, p, FALSE, IF start = Rest(v, p) THEN p ELSE start, argv, nul)
      BY <1>1, <1>2, <2>1, <2>7, <3>1
    <3> QED BY <1>3, <3>2, AtToken
  <2> QED BY <2>2, <2>3, <2>4, <2>5, <2>6, <2>7 DEF Scanned, a, u, n
<1> QED BY <1>4, <1>5 DEF Parsers

-----------------------------------------------------------------------------
(***************************************************************************)
(* The scan of a whole line: word by word, quote by quote, argument by     *)
(* argument.                                                               *)
(***************************************************************************)
(* S is a scan of a line that has no NUL. *)
Scanning(v, l, limit, S) ==
  /\ v \in Parsers /\ Len(l) \in Nat /\ limit \in Nat
  /\ \A p \in 1..Len(l) : l[p] # "NUL"
  /\ \A n \in 1..Len(l) : S[n] = NextPlace(l, v, limit, S[n - 1], n)

LEMMA Round ==
  ASSUME NEW v, NEW l, NEW limit, NEW S, Scanning(v, l, limit, S),
         NEW p \in 1..Len(l), NEW quoted \in BOOLEAN, NEW start \in Nat, NEW q \in Seq(Nat), Len(q) < limit,
         NEW nul, p \notin nul, At(S[p - 1], p, quoted, start, q, nul)
  PROVE  Scanned(v, l, p, S[p], quoted, start, q, nul)
<1> DEFINE r == S[p - 1]
           t == S[p]
<1>1. /\ v \in Parsers /\ Len(l) \in Nat /\ p \in Nat /\ p <= Len(l) /\ l[p] # "NUL"
      /\ t = NextPlace(l, v, limit, r, p)
  BY DEF Scanning
<1>2. At(r, p, quoted, start, q, nul)
  OBVIOUS
<1> HIDE DEF r, t
<1>3. r.token = p /\ r.nul = nul /\ r.argv = q
  BY <1>2 DEF At
<1>4. Char(l, r.nul, p) = l[p]
  BY <1>1, <1>3 DEF Char
<1>5. t = [Stepped(v, l, r, p) EXCEPT !.token = p + 1]
  BY <1>1, <1>3, <1>4 DEF NextPlace, Stepped
<1>6. Scanned(v, l, p, t, quoted, start, q, nul)
  BY <1>1, <1>2, <1>5, PlaceStep
<1> QED BY <1>6 DEF t

(* With as many arguments as there is room for, the scan stays where it is. *)
LEMMA Halts ==
  ASSUME NEW v, NEW l, NEW limit, NEW S, Scanning(v, l, limit, S),
         NEW p \in 0..Len(l), Len(S[p].argv) >= limit, Len(S[p].argv) \in Nat
  PROVE  S[Len(l)] = S[p]
<1> DEFINE T == {n \in p..Len(l) : S[n] # S[p]}
           m == Len(l)
<1>1. /\ m \in Nat /\ limit \in Nat
      /\ \A n \in 1..m : S[n] = NextPlace(l, v, limit, S[n - 1], n)
  BY DEF Scanning
<1>2. ASSUME T # {} PROVE FALSE
  <2>1. PICK n \in T : \A j \in T : ~(j < n)
    <3>1. T \subseteq Nat
      BY <1>1
    <3> HIDE DEF T
    <3> QED BY <1>2, <3>1, LeastNumber
  <2>2. n \in p..m /\ S[n] # S[p]
    OBVIOUS
  <2>3. n # p
    BY <2>2
  <2>4. n \in 1..m /\ n - 1 \in p..m /\ n - 1 < n
    BY <1>1, <2>2, <2>3
  <2>5. S[n - 1] = S[p]
    BY <2>1, <2>4
  <2>6. S[n] = NextPlace(l, v, limit, S[p], n)
    BY <1>1, <2>4, <2>5
  <2>7. ~(Len(S[p].argv) < limit)
    BY <1>1
  <2>8. S[n] = S[p]
    BY <2>6, <2>7 DEF NextPlace
  <2> QED BY <2>2, <2>8
<1>3. m \in p..m
  BY <1>1
<1> QED BY <1>2, <1>3

LEMMA RestIs ==
  ASSUME NEW v \in Parsers, NEW f \in Nat, f >= 1, NEW p \in Nat
  PROVE  /\ Rest(v, p) \in Nat /\ (p > f => f # Rest(v, p))
         /\ (v = "P2" => Rest(v, p) = 0) /\ (v = "P3" => Rest(v, p) = p)
  BY DEF Rest, Parsers

(* A word, and a quoted argument, as far as the symbol behind it. *)
LEMMA WordScanned ==
  ASSUME NEW v, NEW l, NEW limit, NEW S, Scanning(v, l, limit, S),
         NEW q \in Seq(Nat), Len(q) < limit, NEW nul,
         NEW f \in Nat, NEW g \in Nat, 1 <= f, f < g, g <= Len(l) + 1,
         \A p \in f..g - 1 : IsOther(l[p]) /\ p \notin nul,
         At(S[f - 1], f, FALSE, Rest(v, f), q, nul)
  PROVE  At(S[g - 1], g, FALSE, f, q, nul)
<1> DEFINE T == {p \in f..g - 1 : ~At(S[p], p + 1, FALSE, f, q, nul)}
<1>1. v \in Parsers /\ Len(l) \in Nat
  BY DEF Scanning
<1>2. ASSUME T # {} PROVE FALSE
  <2>1. PICK p \in T : \A j \in T : ~(j < p)
    <3>1. T \subseteq Nat
      <4>1. \A p \in f..g - 1 : p \in Nat
        OBVIOUS
      <4> QED BY <4>1, Zenon
    <3> HIDE DEF T
    <3> QED BY <1>2, <3>1, LeastNumber
  <2>2. p \in f..g - 1 /\ ~At(S[p], p + 1, FALSE, f, q, nul)
    OBVIOUS
  <2>3. p \in 1..Len(l) /\ p \in Nat /\ IsOther(l[p]) /\ p \notin nul /\ FALSE \in BOOLEAN
    BY <1>1, <2>2
  <2>4. CASE p = f
    <3>1. At(S[p - 1], p, FALSE, Rest(v, p), q, nul) /\ Rest(v, p) \in Nat
      BY <1>1, <2>3, <2>4, RestIs
    <3>2. Scanned(v, l, p, S[p], FALSE, Rest(v, p), q, nul)
      BY <2>3, <3>1, Round
    <3>3. At(S[p], p + 1, FALSE, p, q, nul)
      BY <2>3, <3>2 DEF Scanned
    <3> QED BY <2>2, <2>4, <3>3
  <2>5. CASE p # f
    <3>1. p - 1 \in f..g - 1 /\ p - 1 < p /\ (p - 1) + 1 = p /\ p > f
      BY <2>2, <2>5
    <3>2. At(S[p - 1], p, FALSE, f, q, nul)
      BY <2>1, <3>1
    <3>3. Scanned(v, l, p, S[p], FALSE, f, q, nul)
      BY <2>3, <3>2, Round
    <3>4. f # Rest(v, p)
      BY <1>1, <2>3, <3>1, RestIs
    <3>5. At(S[p], p + 1, FALSE, f, q, nul)
      BY <2>3, <3>3, <3>4 DEF Scanned
    <3> QED BY <2>2, <3>5
  <2> QED BY <2>4, <2>5
<1>3. g - 1 \in f..g - 1 /\ (g - 1) + 1 = g
  OBVIOUS
<1>4. At(S[g - 1], (g - 1) + 1, FALSE, f, q, nul)
  BY <1>2, <1>3
<1> QED BY <1>3, <1>4

LEMMA QuoteScanned ==
  ASSUME NEW v, NEW l, NEW limit, NEW S, Scanning(v, l, limit, S),
         NEW q \in Seq(Nat), Len(q) < limit, NEW nul,
         NEW b \in Nat, NEW g \in Nat, 1 <= b, b < g, g <= Len(l),
         IsQuote(l[b]), \A p \in b + 1..g - 1 : ~IsQuote(l[p]), \A p \in b..g - 1 : p \notin nul,
         At(S[b - 1], b, FALSE, Rest(v, b), q, nul)
  PROVE  At(S[g - 1], g, TRUE, b + 1, q, nul)
<1> DEFINE f == b + 1
           T == {p \in b..g - 1 : ~At(S[p], p + 1, TRUE, f, q, nul)}
<1>1. v \in Parsers /\ Len(l) \in Nat /\ f \in Nat /\ f # 0
  BY DEF Scanning
<1>2. ASSUME T # {} PROVE FALSE
  <2>1. PICK p \in T : \A j \in T : ~(j < p)
    <3>1. T \subseteq Nat
      <4>1. \A p \in b..g - 1 : p \in Nat
        OBVIOUS
      <4> QED BY <4>1, Zenon
    <3> HIDE DEF T
    <3> QED BY <1>2, <3>1, LeastNumber
  <2>2. p \in b..g - 1 /\ ~At(S[p], p + 1, TRUE, f, q, nul)
    OBVIOUS
  <2>3. p \in 1..Len(l) /\ p \in Nat /\ p \notin nul /\ FALSE \in BOOLEAN /\ TRUE \in BOOLEAN
    BY <1>1, <2>2
  <2>4. CASE p = b
    <3>1. At(S[p - 1], p, FALSE, Rest(v, p), q, nul) /\ Rest(v, p) \in Nat
      BY <1>1, <2>3, <2>4, RestIs
    <3>2. Scanned(v, l, p, S[p], FALSE, Rest(v, p), q, nul)
      BY <2>3, <3>1, Round
    <3>3. At(S[p], p + 1, TRUE, p + 1, q, nul)
      BY <2>3, <2>4, <3>2 DEF Scanned
    <3> QED BY <2>2, <2>4, <3>3
  <2>5. CASE p # b
    <3>1. p - 1 \in b..g - 1 /\ p - 1 < p /\ (p - 1) + 1 = p /\ p \in b + 1..g - 1
      BY <2>2, <2>5
    <3>2. At(S[p - 1], p, TRUE, f, q, nul) /\ ~IsQuote(l[p])
      BY <2>1, <3>1
    <3> HIDE DEF f
    <3>3. Scanned(v, l, p, S[p], TRUE, f, q, nul)
      BY <1>1, <2>3, <3>2, Round
    <3>5. At(S[p], p + 1, TRUE, f, q, nul)
      BY <1>1, <2>3, <3>2, <3>3 DEF Scanned
    <3> QED BY <2>2, <3>5
  <2> QED BY <2>4, <2>5
<1>3. g - 1 \in b..g - 1 /\ (g - 1) + 1 = g
  OBVIOUS
<1>4. At(S[g - 1], (g - 1) + 1, TRUE, f, q, nul)
  BY <1>2, <1>3
<1> QED BY <1>3, <1>4

(* A line of n arguments a: argument k begins with a quote or its text at B[k], its *)
(* text is at F[k], the symbol behind it at G[k].                                    *)
Behind(a, G, k) == IF Quoted(a[k]) THEN G[k] + 1 ELSE G[k]
Positions(n) == [1..n -> Nat]
Layout(l, a, n, B, F, G) ==
  /\ n \in Nat /\ n >= 1 /\ Len(l) \in Nat
  /\ F \in Positions(n) /\ G \in Positions(n) /\ B[1] = 1
  /\ \A k \in 1..n : B[k] \in Nat /\ 1 <= B[k] /\ B[k] <= F[k] /\ F[k] <= G[k] /\ G[k] <= Len(l) + 1
  /\ \A i, k \in 1..n : i < k => G[i] < B[k]
  /\ \A k \in 1..n : ~Quoted(a[k]) =>
       F[k] = B[k] /\ F[k] < G[k] /\ \A p \in F[k]..G[k] - 1 : IsOther(l[p])
  /\ \A k \in 1..n : Quoted(a[k]) =>
       /\ F[k] = B[k] + 1 /\ G[k] <= Len(l) /\ IsQuote(l[B[k]]) /\ IsQuote(l[G[k]])
       /\ \A p \in F[k]..G[k] - 1 : ~IsQuote(l[p])
  /\ \A k \in 1..n : k < n =>
       Behind(a, G, k) <= Len(l) /\ IsBlank(l[Behind(a, G, k)]) /\ B[k + 1] = Behind(a, G, k) + 1
  /\ Behind(a, G, n) = Len(l) + 1

Found(F, k) == [i \in 1..k |-> F[i]]
Cuts(G, k) == {G[i] : i \in 1..k}

LEMMA FoundIs ==
  ASSUME NEW n \in Nat, NEW F \in Positions(n), NEW G, NEW k \in 1..n
  PROVE  /\ Found(F, k) \in Seq(Nat) /\ Len(Found(F, k)) = k
         /\ Found(F, k - 1) \in Seq(Nat) /\ Len(Found(F, k - 1)) = k - 1
         /\ Append(Found(F, k - 1), F[k]) = Found(F, k)
         /\ Cuts(G, k - 1) \cup {G[k]} = Cuts(G, k)
<1> DEFINE f == Found(F, k)
           e == Found(F, k - 1)
<1>1. f = [i \in 1..k |-> f[i]] /\ e = [i \in 1..k - 1 |-> e[i]] /\ k \in Nat /\ k - 1 \in Nat
  BY DEF Found
<1>2. (\A i \in 1..k : f[i] = F[i] /\ F[i] \in Nat) /\ \A i \in 1..k - 1 : e[i] = F[i] /\ F[i] \in Nat
  BY DEF Found, Positions
<1>3. f \in [1..k -> Nat] /\ e \in [1..k - 1 -> Nat]
  BY <1>1, <1>2
<1> HIDE DEF f, e
<1>4. Len(f) = k /\ Len(e) = k - 1
  BY <1>1, FunctionLen
<1>5. f \in Seq(Nat) /\ e \in Seq(Nat)
  BY <1>1, <1>3, SeqDef
<1>6. Append(e, F[k]) = f
  <2> DEFINE x == Append(e, F[k])
  <2>1. F[k] \in Nat /\ k \in 1..k
    BY <1>1, <1>2
  <2>2. x \in Seq(Nat) /\ Len(x) = k /\ (\A i \in 1..k - 1 : x[i] = e[i]) /\ x[k] = F[k]
    BY <1>4, <1>5, <2>1
  <2> HIDE DEF x
  <2>3. \A i \in 1..k : x[i] = f[i]
    BY <1>2, <2>1, <2>2
  <2>4. x = f
    BY <1>4, <1>5, <2>2, <2>3, SeqEqual
  <2> QED BY <2>4 DEF x
<1>7. Cuts(G, k - 1) \cup {G[k]} = Cuts(G, k)
  <2>1. \A i : i \in 1..k <=> i \in 1..k - 1 \/ i = k
    BY <1>1
  <2> QED BY <2>1 DEF Cuts
<1> QED BY <1>4, <1>5, <1>6, <1>7 DEF e, f

(* No cut is inside a later argument. *)
LEMMA CutsBefore ==
  ASSUME NEW l, NEW a, NEW n, NEW B, NEW F, NEW G, Layout(l, a, n, B, F, G), NEW k \in 1..n, NEW p \in Nat, p >= B[k]
  PROVE  p \notin Cuts(G, k - 1)
<1>1. SUFFICES ASSUME NEW i \in 1..k - 1, p = G[i] PROVE FALSE
  BY DEF Cuts
<1>2. n \in Nat /\ k \in Nat
  BY DEF Layout
<1>3. i \in 1..n /\ i < k
  BY <1>2
<1>4. G[i] < B[k] /\ G[i] \in Nat /\ B[k] \in Nat
  BY <1>3 DEF Layout, Positions
<1> QED BY <1>1, <1>4

AtArgument(v, S, B, F, G, k) ==
  At(S[B[k] - 1], B[k], FALSE, Rest(v, B[k]), Found(F, k - 1), Cuts(G, k - 1))
PastArgument(v, S, F, G, k) ==
  At(S[G[k]], G[k] + 1, FALSE, Rest(v, G[k] + 1), Found(F, k), Cuts(G, k))

LEMMA ArgumentScanned ==
  ASSUME NEW v, NEW l, NEW limit, NEW S, Scanning(v, l, limit, S),
         NEW a, NEW n, NEW B, NEW F, NEW G, Layout(l, a, n, B, F, G),
         NEW k \in 1..n, k <= limit, AtArgument(v, S, B, F, G, k)
  PROVE  /\ k < n \/ Quoted(a[k]) => PastArgument(v, S, F, G, k)
         /\ k = n /\ ~Quoted(a[k]) =>
              At(S[Len(l)], Len(l) + 1, FALSE, F[k], Found(F, k - 1), Cuts(G, k - 1))
<1> DEFINE q == Found(F, k - 1)
           u == Cuts(G, k - 1)
           b == B[k]
           f == F[k]
           g == G[k]
           m == Len(l)
<1>1. /\ n \in Nat /\ m \in Nat /\ b \in Nat /\ f \in Nat /\ g \in Nat /\ 1 <= b /\ b <= f /\ f <= g /\ g <= m + 1
      /\ v \in Parsers /\ limit \in Nat
  BY DEF Layout, Positions, Scanning
<1>2. /\ q \in Seq(Nat) /\ Len(q) = k - 1 /\ Append(q, f) = Found(F, k) /\ u \cup {g} = Cuts(G, k)
  <2>1. n \in Nat /\ F \in Positions(n)
    BY DEF Layout
  <2> QED BY <2>1, FoundIs
<1>3. Len(q) < limit
  BY <1>1, <1>2
<1>4. \A p \in Nat : p >= b => p \notin u
  BY CutsBefore
<1>5. At(S[b - 1], b, FALSE, Rest(v, b), q, u)
  BY DEF AtArgument
<1>6. /\ ~Quoted(a[k]) => f = b /\ f < g /\ \A p \in f..g - 1 : IsOther(l[p])
      /\ Quoted(a[k]) => /\ f = b + 1 /\ g <= m /\ IsQuote(l[b]) /\ IsQuote(l[g])
                         /\ \A p \in f..g - 1 : ~IsQuote(l[p])
      /\ k < n => Behind(a, G, k) <= m /\ IsBlank(l[Behind(a, G, k)])
      /\ k = n => Behind(a, G, k) = m + 1
  BY DEF Layout
<1>7. Behind(a, G, k) = IF Quoted(a[k]) THEN g + 1 ELSE g
  BY DEF Behind
<1> HIDE DEF q, u, b, f, g, m
<1>8. ASSUME ~Quoted(a[k]) PROVE At(S[g - 1], g, FALSE, f, q, u)
  <2>1. \A p \in f..g - 1 : IsOther(l[p]) /\ p \notin u
    <3>1. \A p \in f..g - 1 : p \in Nat /\ p >= b
      BY <1>1
    <3> QED BY <1>4, <1>6, <1>8, <3>1
  <2>2. 1 <= f /\ f < g /\ g <= Len(l) + 1 /\ f = b
    BY <1>1, <1>6, <1>8 DEF m
  <2>3. At(S[f - 1], f, FALSE, Rest(v, f), q, u)
    BY <1>5, <2>2
  <2> QED BY <1>1, <1>2, <1>3, <2>1, <2>2, <2>3, WordScanned
<1>9. ASSUME Quoted(a[k]) PROVE At(S[g - 1], g, TRUE, f, q, u)
  <2>1. \A p \in b..g - 1 : p \notin u
    <3>1. \A p \in b..g - 1 : p \in Nat /\ p >= b
      BY <1>1
    <3> QED BY <1>4, <3>1
  <2>2. f = b + 1 /\ b < g /\ g <= Len(l) /\ IsQuote(l[b]) /\ \A p \in b + 1..g - 1 : ~IsQuote(l[p])
    BY <1>1, <1>6, <1>9 DEF m
  <2>3. At(S[g - 1], g, TRUE, b + 1, q, u)
    BY <1>1, <1>2, <1>3, <1>5, <2>1, <2>2, QuoteScanned
  <2> QED BY <2>2, <2>3
<1>10. CASE k < n /\ ~Quoted(a[k])
  <2>1. g \in 1..Len(l) /\ IsBlank(l[g]) /\ g \notin u /\ g > f /\ f >= 1
    BY <1>1, <1>4, <1>6, <1>7, <1>10 DEF m
  <2>2. FALSE \in BOOLEAN /\ At(S[g - 1], g, FALSE, f, q, u)
    BY <1>8, <1>10
  <2>3. Scanned(v, l, g, S[g], FALSE, f, q, u)
    BY <1>1, <1>2, <1>3, <2>1, <2>2, Round
  <2>4. f # Rest(v, g)
    BY <1>1, <2>1, RestIs
  <2>5. At(S[g], g + 1, FALSE, Rest(v, g + 1), Append(q, f), u \cup {g})
    BY <2>1, <2>3, <2>4 DEF Scanned
  <2>6. PastArgument(v, S, F, G, k)
    BY <1>2, <2>5 DEF PastArgument, g
  <2>7. k # n
    BY <1>1, <1>10
  <2> QED BY <2>6, <2>7
<1>11. CASE Quoted(a[k])
  <2>1. g \in 1..Len(l) /\ IsQuote(l[g]) /\ g \notin u
    BY <1>1, <1>4, <1>6, <1>11 DEF m
  <2>2. TRUE \in BOOLEAN /\ At(S[g - 1], g, TRUE, f, q, u)
    BY <1>9, <1>11
  <2>3. Scanned(v, l, g, S[g], TRUE, f, q, u)
    BY <1>1, <1>2, <1>3, <2>1, <2>2, Round
  <2>5. At(S[g], g + 1, FALSE, Rest(v, g + 1), Append(q, f), u \cup {g})
    BY <2>1, <2>3 DEF Scanned
  <2>6. PastArgument(v, S, F, G, k)
    BY <1>2, <2>5 DEF PastArgument, g
  <2> QED BY <1>11, <2>6
<1>12. CASE k = n /\ ~Quoted(a[k])
  <2>1. g = m + 1 /\ g - 1 = m
    BY <1>1, <1>6, <1>7, <1>12
  <2>2. At(S[m], m + 1, FALSE, f, q, u)
    BY <1>8, <1>12, <2>1
  <2>3. ~(k < n)
    BY <1>1, <1>12
  <2> QED BY <1>12, <2>2, <2>3 DEF m, f, q, u
<1>13. k < n \/ k = n
  BY <1>1
<1> QED BY <1>10, <1>11, <1>12, <1>13

LEMMA GapScanned ==
  ASSUME NEW v, NEW l, NEW limit, NEW S, Scanning(v, l, limit, S),
         NEW a, NEW n, NEW B, NEW F, NEW G, Layout(l, a, n, B, F, G),
         NEW k \in 1..n, k < n, k < limit, PastArgument(v, S, F, G, k)
  PROVE  AtArgument(v, S, B, F, G, k + 1)
<1> DEFINE q == Found(F, k)
           u == Cuts(G, k)
           g == G[k]
           m == Len(l)
<1>1. /\ n \in Nat /\ m \in Nat /\ g \in Nat /\ g >= 1 /\ v \in Parsers /\ limit \in Nat
      /\ k + 1 \in 1..n /\ (k + 1) - 1 = k
  <2>1. n \in Nat /\ m \in Nat /\ v \in Parsers /\ limit \in Nat
    BY DEF Layout, Scanning
  <2>2. g \in Nat /\ B[k] \in Nat /\ F[k] \in Nat /\ 1 <= B[k] /\ B[k] <= F[k] /\ F[k] <= g
    BY DEF Layout, Positions
  <2> QED BY <2>1, <2>2
<1>2. q \in Seq(Nat) /\ Len(q) = k
  <2>1. n \in Nat /\ F \in Positions(n)
    BY DEF Layout
  <2> QED BY <2>1, FoundIs
<1>3. /\ Behind(a, G, k) <= m /\ IsBlank(l[Behind(a, G, k)]) /\ B[k + 1] = Behind(a, G, k) + 1
      /\ Behind(a, G, k) = IF Quoted(a[k]) THEN g + 1 ELSE g
  BY DEF Layout, Behind
<1>4. At(S[g], g + 1, FALSE, Rest(v, g + 1), q, u)
  BY DEF PastArgument
<1> HIDE DEF q, u, g, m
<1>5. ASSUME At(S[B[k + 1] - 1], B[k + 1], FALSE, Rest(v, B[k + 1]), q, u) PROVE AtArgument(v, S, B, F, G, k + 1)
  BY <1>1, <1>5 DEF AtArgument, q, u
<1>6. CASE ~Quoted(a[k])
  <2>1. B[k + 1] = g + 1 /\ B[k + 1] - 1 = g
    BY <1>1, <1>3, <1>6
  <2> QED BY <1>4, <1>5, <2>1
<1>7. CASE Quoted(a[k])
  <2> DEFINE p == g + 1
  <2>1. p \in 1..Len(l) /\ p \in Nat /\ IsBlank(l[p]) /\ B[k + 1] = p + 1 /\ B[k + 1] - 1 = p /\ p - 1 = g
    BY <1>1, <1>3, <1>7 DEF m
  <2>2. p \notin u
    <3>1. SUFFICES ASSUME NEW i \in 1..k, p = G[i] PROVE FALSE
      BY DEF Cuts, u
    <3>2. i \in 1..n /\ k \in 1..n
      BY <1>1
    <3>3. (i = k \/ i < k) /\ G[i] \in Nat /\ G[k] \in Nat /\ B[k] <= G[k]
      <4>1. B[k] <= F[k] /\ F[k] <= G[k] /\ B[k] \in Nat /\ F[k] \in Nat /\ G[k] \in Nat /\ G[i] \in Nat
        BY <3>2 DEF Layout, Positions
      <4> QED BY <1>1, <4>1
    <3>4. i < k => G[i] < B[k] /\ B[k] \in Nat
      BY <3>2 DEF Layout
    <3> QED BY <3>1, <3>3, <3>4 DEF g
  <2>3. At(S[p - 1], p, FALSE, Rest(v, p), q, u) /\ FALSE \in BOOLEAN
    BY <1>4, <2>1
  <2> HIDE DEF p
  <2>4. Rest(v, p) \in Nat /\ Len(q) < limit
    BY <1>1, <1>2, <2>1, RestIs
  <2>5. Scanned(v, l, p, S[p], FALSE, Rest(v, p), q, u)
    BY <1>2, <2>1, <2>2, <2>3, <2>4, Round
  <2>6. At(S[p], p + 1, FALSE, Rest(v, p + 1), q, u)
    BY <2>1, <2>5 DEF Scanned
  <2> QED BY <1>5, <2>1, <2>6
<1> QED BY <1>6, <1>7

(* The scan comes to every argument it has room for. *)
LEMMA ArgumentsScanned ==
  ASSUME NEW v, NEW l, NEW limit, NEW S, Scanning(v, l, limit, S),
         NEW a, NEW n, NEW B, NEW F, NEW G, Layout(l, a, n, B, F, G),
         At(S[0], 1, FALSE, Rest(v, 1), <<>>, {})
  PROVE  \A k \in 1..n : k <= limit => AtArgument(v, S, B, F, G, k)
<1> DEFINE T == {k \in 1..n : k <= limit /\ ~AtArgument(v, S, B, F, G, k)}
<1>1. n \in Nat /\ n >= 1 /\ limit \in Nat /\ F \in Positions(n) /\ B[1] = 1
  BY DEF Layout, Scanning
<1>2. AtArgument(v, S, B, F, G, 1)
  <2>1. 1 \in 1..n /\ 1 - 1 = 0 /\ 1..0 = {}
    BY <1>1
  <2>2. Found(F, 0) \in Seq(Nat) /\ Len(Found(F, 0)) = 0
    BY <1>1, <2>1, FoundIs
  <2>3. Found(F, 0) = <<>>
    BY <2>2, EmptySeq
  <2>4. Cuts(G, 0) = {}
    BY <2>1 DEF Cuts
  <2> QED BY <1>1, <2>1, <2>3, <2>4 DEF AtArgument
<1>3. ASSUME T # {} PROVE FALSE
  <2>1. PICK k \in T : \A j \in T : ~(j < k)
    <3>1. T \subseteq Nat
      BY <1>1
    <3> HIDE DEF T
    <3> QED BY <1>3, <3>1, LeastNumber
  <2>2. k \in 1..n /\ k <= limit /\ ~AtArgument(v, S, B, F, G, k)
    OBVIOUS
  <2>3. k # 1
    BY <1>2, <2>2
  <2> DEFINE j == k - 1
  <2>4. j \in 1..n /\ j < n /\ j <= limit /\ j < limit /\ j < k /\ j + 1 = k
    BY <1>1, <2>2, <2>3
  <2> HIDE DEF j
  <2>5. AtArgument(v, S, B, F, G, j)
    BY <2>1, <2>4
  <2>6. PastArgument(v, S, F, G, j)
    BY <2>4, <2>5, ArgumentScanned
  <2>7. AtArgument(v, S, B, F, G, j + 1)
    BY <2>4, <2>6, GapScanned
  <2> QED BY <2>2, <2>4, <2>7
<1> QED BY <1>3

(* Behind the scanning loops: the argument at the end of the line. *)
Finished(v, l, limit, r) ==
  IF (IF v = "P2" THEN r.start # 0 ELSE r.start < r.token)
     /\ Char(l, r.nul, r.start) # "NUL" /\ Len(r.argv) < limit
  THEN Push(r) ELSE r

Room(n, limit) == IF n < limit THEN n ELSE limit

(* All arguments are found, or as many as there is room for, with a NUL behind each. *)
Complete(l, n, F, G, limit, c) ==
  /\ c.argv = Found(F, Room(n, limit))
  /\ c.nul \subseteq Cuts(G, n)
  /\ \A i \in 1..Room(n, limit) : G[i] \in c.nul \/ G[i] = Len(l) + 1

LEMMA CutsGrow ==
  ASSUME NEW n \in Nat, NEW G, NEW k \in 0..n
  PROVE  Cuts(G, k) \subseteq Cuts(G, n) /\ \A i \in 1..k : G[i] \in Cuts(G, k)
<1>1. \A i \in 1..k : i \in 1..n
  OBVIOUS
<1> QED BY <1>1 DEF Cuts

LEMMA LineScanned ==
  ASSUME NEW v, NEW l, NEW limit, NEW S, Scanning(v, l, limit, S), limit >= 1,
         NEW a, NEW n, NEW B, NEW F, NEW G, Layout(l, a, n, B, F, G),
         At(S[0], 1, FALSE, Rest(v, 1), <<>>, {})
  PROVE  Complete(l, n, F, G, limit, Finished(v, l, limit, S[Len(l)]))
<1> DEFINE m == Len(l)
           r == S[m]
           c == Finished(v, l, limit, r)
<1>1. /\ n \in Nat /\ n >= 1 /\ limit \in Nat /\ v \in Parsers /\ m \in Nat /\ F \in Positions(n)
      /\ Behind(a, G, n) = m + 1 /\ \A p \in 1..m : l[p] # "NUL"
  BY DEF Layout, Scanning
<1>2. \A k \in 1..n : k <= limit => AtArgument(v, S, B, F, G, k)
  BY ArgumentsScanned
<1>3. \A k \in 1..n : /\ F[k] \in Nat /\ G[k] \in Nat /\ 1 <= F[k] /\ F[k] <= G[k] /\ F[k] >= B[k]
                      /\ k < n => Behind(a, G, k) <= m
                      /\ ~Quoted(a[k]) => F[k] < G[k]
  <2>1. \A k \in 1..n : B[k] \in Nat /\ 1 <= B[k] /\ B[k] <= F[k] /\ F[k] <= G[k] /\ F[k] \in Nat /\ G[k] \in Nat
    BY DEF Layout, Positions
  <2>2. \A k \in 1..n : (k < n => Behind(a, G, k) <= m) /\ (~Quoted(a[k]) => F[k] < G[k])
    BY DEF Layout
  <2> QED BY <2>1, <2>2
<1>4. \A k \in 1..n : Behind(a, G, k) = IF Quoted(a[k]) THEN G[k] + 1 ELSE G[k]
  BY DEF Behind
<1>7. \A k \in 1..n : /\ Found(F, k - 1) \in Seq(Nat) /\ Len(Found(F, k - 1)) = k - 1
                      /\ Append(Found(F, k - 1), F[k]) = Found(F, k)
  <2>1. ASSUME NEW k \in 1..n
        PROVE  /\ Found(F, k - 1) \in Seq(Nat) /\ Len(Found(F, k - 1)) = k - 1
               /\ Append(Found(F, k - 1), F[k]) = Found(F, k)
    <3> HIDE DEF m, r, c
    <3>1. n \in Nat /\ F \in Positions(n)
      BY <1>1
    <3> QED BY <3>1, FoundIs
  <2> QED BY <2>1
<1>5. CASE limit < n
  <2>1. limit \in 1..n /\ limit \in 0..n /\ limit <= limit /\ limit < n /\ Room(n, limit) = limit
    BY <1>1, <1>5 DEF Room
  <2>2. PastArgument(v, S, F, G, limit)
    BY <1>2, <2>1, ArgumentScanned
  <2> DEFINE g == G[limit]
  <2>3. g \in 0..m
    <3>1. Behind(a, G, limit) <= m /\ g \in Nat /\ Behind(a, G, limit) \in {g, g + 1}
      BY <1>3, <1>4, <2>1
    <3> HIDE DEF g
    <3> QED BY <1>1, <3>1
  <2>4. Found(F, limit) \in Seq(Nat) /\ Len(Found(F, limit)) = limit
    BY <1>1, <2>1, FoundIs
  <2>5. S[g].argv = Found(F, limit) /\ S[g].nul = Cuts(G, limit)
    BY <2>2 DEF PastArgument, At
  <2> HIDE DEF g
  <2>6. r = S[g]
    <3>1. Len(S[g].argv) >= limit /\ Len(S[g].argv) \in Nat
      BY <1>1, <2>4, <2>5
    <3> QED BY <2>3, <3>1, Halts
  <2> HIDE DEF r
  <2>7. c = r
    <3>1. ~(Len(r.argv) < limit)
      BY <1>1, <2>4, <2>5, <2>6
    <3> QED BY <3>1 DEF Finished
  <2> HIDE DEF c
  <2>8. c.argv = Found(F, limit) /\ c.nul = Cuts(G, limit)
    BY <2>5, <2>6, <2>7
  <2>9. Cuts(G, limit) \subseteq Cuts(G, n) /\ \A i \in 1..limit : G[i] \in Cuts(G, limit)
    BY <1>1, <2>1, CutsGrow
  <2>10. Complete(l, n, F, G, limit, c)
    BY <2>1, <2>8, <2>9 DEF Complete
  <2> QED BY <2>10 DEF c, r
<1>6. CASE n <= limit
  <2>1. n \in 1..n /\ n \in 0..n /\ Room(n, limit) = n /\ n - 1 \in 0..n
    BY <1>1, <1>6 DEF Room
  <2>2. /\ Quoted(a[n]) => PastArgument(v, S, F, G, n)
        /\ ~Quoted(a[n]) => At(S[Len(l)], Len(l) + 1, FALSE, F[n], Found(F, n - 1), Cuts(G, n - 1))
    BY <1>2, <1>6, <2>1, ArgumentScanned
  <2>3. Cuts(G, n) \subseteq Cuts(G, n) /\ \A i \in 1..n : G[i] \in Cuts(G, n)
    BY <1>1, <2>1, CutsGrow
  <2>4. CASE Quoted(a[n])
    <3>1. G[n] = m
      BY <1>1, <1>3, <1>4, <2>1, <2>4
    <3>2. At(r, m + 1, FALSE, Rest(v, m + 1), Found(F, n), Cuts(G, n))
      BY <2>2, <2>4, <3>1 DEF PastArgument
    <3> HIDE DEF r
    <3>3. r.start = Rest(v, m + 1) /\ r.token = m + 1 /\ r.argv = Found(F, n) /\ r.nul = Cuts(G, n)
      BY <3>2 DEF At
    <3>4. ~(IF v = "P2" THEN r.start # 0 ELSE r.start < r.token)
      BY <1>1, <3>3 DEF Rest
    <3>5. c = r
      BY <3>4 DEF Finished
    <3> HIDE DEF c
    <3>6. Complete(l, n, F, G, limit, c)
      BY <2>1, <2>3, <3>3, <3>5 DEF Complete
    <3> QED BY <3>6 DEF c, r
  <2>5. CASE ~Quoted(a[n])
    <3> DEFINE f == F[n]
    <3>1. G[n] = m + 1 /\ f \in Nat /\ f >= 1 /\ f <= m /\ f >= B[n]
      BY <1>1, <1>3, <1>4, <2>1, <2>5
    <3>2. f \notin Cuts(G, n - 1)
      BY <2>1, <3>1, CutsBefore
    <3>3. /\ Found(F, n - 1) \in Seq(Nat) /\ Len(Found(F, n - 1)) = n - 1 /\ Append(Found(F, n - 1), f) = Found(F, n)
      BY <1>7, <2>1
    <3>4. At(r, m + 1, FALSE, f, Found(F, n - 1), Cuts(G, n - 1))
      BY <2>2, <2>5
    <3> HIDE DEF r, f
    <3>5. /\ IsPlace(r) /\ r.start = f /\ r.token = m + 1 /\ r.argv = Found(F, n - 1) /\ r.nul = Cuts(G, n - 1)
      BY <3>4 DEF At
    <3>6. IF v = "P2" THEN r.start # 0 ELSE r.start < r.token
      BY <1>1, <3>1, <3>5
    <3>7. Char(l, r.nul, r.start) # "NUL"
      BY <1>1, <3>1, <3>2, <3>5 DEF Char
    <3>8. Len(r.argv) < limit
      BY <1>1, <1>6, <3>3, <3>5
    <3>9. c = Push(r)
      BY <3>6, <3>7, <3>8 DEF Finished
    <3>10. c.argv = Found(F, n) /\ c.nul = Cuts(G, n - 1)
      <4>1. Push(r).argv = Append(r.argv, r.start)
        BY <3>5, PushIs
      <4>2. Push(r).nul = r.nul
        BY <3>5 DEF IsPlace, Push
      <4> HIDE DEF c
      <4> QED BY <3>3, <3>5, <3>9, <4>1, <4>2
    <3> HIDE DEF c
    <3>11. Cuts(G, n - 1) \subseteq Cuts(G, n) /\ \A i \in 1..n - 1 : G[i] \in Cuts(G, n - 1)
      BY <1>1, <2>1, CutsGrow
    <3>12. \A i \in 1..n : i \in 1..n - 1 \/ i = n
      BY <1>1
    <3>13. \A i \in 1..n : G[i] \in Cuts(G, n - 1) \/ G[i] = Len(l) + 1
      BY <3>1, <3>11, <3>12 DEF m
    <3>14. Complete(l, n, F, G, limit, c)
      BY <2>1, <3>10, <3>11, <3>13 DEF Complete
    <3> QED BY <3>14 DEF c, r
  <2> QED BY <2>4, <2>5
<1> QED BY <1>1, <1>5, <1>6

-----------------------------------------------------------------------------
(***************************************************************************)
(* The text at every argument found is the argument that was written.      *)
(***************************************************************************)
(* The line has the text of argument k at F[k]. *)
Spells(l, a, n, F, G, Sym) ==
  /\ l \in Seq(Sym) /\ "NUL" \notin Sym
  /\ \A k \in 1..n : /\ a[k] \in Seq(Sym) /\ G[k] = F[k] + Len(a[k])
                     /\ \A j \in 1..Len(a[k]) : l[F[k] + j - 1] = a[k][j]

LEMMA PieceOf ==
  ASSUME NEW l, NEW a, NEW n, NEW F, NEW G, NEW Sym, Spells(l, a, n, F, G, Sym), Len(l) \in Nat,
         NEW k \in 1..n, F[k] \in Nat, G[k] \in Nat, 1 <= F[k], F[k] <= G[k], G[k] <= Len(l) + 1
  PROVE  SubSeq(l, F[k], G[k] - 1) = a[k]
<1> DEFINE f == F[k]
           g == G[k]
           m == Len(l)
           w == a[k]
           t == SubSeq(l, f, g - 1)
<1>1. m \in Nat /\ f \in Nat /\ g \in Nat /\ 1 <= f /\ f <= g /\ g <= m + 1
  OBVIOUS
<1>2. /\ l \in Seq(Sym) /\ w \in Seq(Sym) /\ Len(w) \in Nat /\ g = f + Len(w)
      /\ \A j \in 1..Len(w) : l[f + j - 1] = w[j]
  BY LenProperties DEF Spells
<1>3. \A q \in 1..m : l[q] \in Sym
  BY <1>2, LenProperties
<1> HIDE DEF f, g, m, w
<1>4. t = w
  <2>1. \A i \in f..g - 1 : l[i] \in Sym
    <3>1. \A i \in f..g - 1 : i \in 1..m
      BY <1>1
    <3> QED BY <1>3, <3>1
  <2> DEFINE e == g - 1
  <2>2. f \in Int /\ e \in Int /\ (f <= e => e - f + 1 = Len(w)) /\ (~(f <= e) => Len(w) = 0) /\ e - f + 1 = Len(w)
    BY <1>1, <1>2
  <2>3. \A i \in f..e : l[i] \in Sym
    BY <2>1
  <2>6. t = SubSeq(l, f, e)
    OBVIOUS
  <2> HIDE DEF e, t
  <2>4. /\ t \in Seq(Sym) /\ Len(t) = IF f <= e THEN e - f + 1 ELSE 0
        /\ \A i \in 1..e - f + 1 : t[i] = l[f + i - 1]
    BY <2>2, <2>3, <2>6, SubSeqProperties
  <2>5. Len(t) = Len(w)
    BY <2>2, <2>4
  <2>7. \A i \in 1..Len(w) : t[i] = l[f + i - 1]
    BY <2>2, <2>4
  <2>8. \A i \in 1..Len(t) : t[i] = w[i]
    BY <1>2, <2>5, <2>7
  <2> QED BY <1>2, <2>4, <2>5, <2>8, SeqEqual
<1> QED BY <1>4 DEF t, f, g, w

LEMMA TextIs ==
  ASSUME NEW l, NEW a, NEW n, NEW B, NEW F, NEW G, NEW Sym,
         Layout(l, a, n, B, F, G), Spells(l, a, n, F, G, Sym),
         NEW nul, nul \subseteq Cuts(G, n), NEW k \in 1..n, G[k] \in nul \/ G[k] = Len(l) + 1
  PROVE  Text(l, nul, F[k]) = a[k]
<1> DEFINE f == F[k]
           g == G[k]
           m == Len(l)
           T == {q \in f..m + 1 : Char(l, nul, q) = "NUL"}
           w == a[k]
           t == SubSeq(l, f, g - 1)
<1>1. /\ n \in Nat /\ m \in Nat /\ f \in Nat /\ g \in Nat /\ 1 <= f /\ f <= g /\ g <= m + 1
  <2>1. /\ n \in Nat /\ m \in Nat /\ f \in Nat /\ g \in Nat /\ B[k] \in Nat
        /\ 1 <= B[k] /\ B[k] <= f /\ f <= g /\ g <= m + 1
    BY DEF Layout, Positions
  <2> QED BY <2>1
<1>2. /\ l \in Seq(Sym) /\ "NUL" \notin Sym /\ w \in Seq(Sym) /\ Len(w) \in Nat /\ g = f + Len(w)
      /\ \A j \in 1..Len(w) : l[f + j - 1] = w[j]
  BY LenProperties DEF Spells
<1>3. \A q \in 1..m : l[q] \in Sym /\ l[q] # "NUL"
  <2>1. \A q \in 1..m : l[q] \in Sym
    BY <1>2, LenProperties
  <2> QED BY <1>2, <2>1
<1>4. ASSUME NEW i \in 1..n PROVE G[i] \in Nat /\ (G[i] < f \/ G[i] >= g)
  <2>1. /\ i < k => G[i] < B[k]
        /\ k < i => g < B[i]
    BY DEF Layout
  <2>2. B[k] <= f /\ B[i] <= F[i] /\ F[i] <= G[i] /\ B[k] \in Nat /\ B[i] \in Nat /\ F[i] \in Nat /\ G[i] \in Nat
    BY DEF Layout, Positions
  <2>3. i < k \/ k < i \/ i = k
    BY <1>1
  <2>4. CASE i < k
    BY <1>1, <2>1, <2>2, <2>4
  <2>5. CASE k < i
    BY <1>1, <2>1, <2>2, <2>5
  <2>6. CASE i = k
    BY <1>1, <2>6
  <2> QED BY <2>3, <2>4, <2>5, <2>6
<1>5. g \in nul \/ g = m + 1
  OBVIOUS
<1>6. F[k] = f /\ a[k] = w
  OBVIOUS
<1> HIDE DEF f, g, m, w
<1>7. g \in T
  <2>1. g \in f..m + 1
    BY <1>1
  <2>2. Char(l, nul, g) = "NUL"
    <3>1. g \in nul \/ g > Len(l)
      BY <1>1, <1>5 DEF m
    <3> QED BY <3>1 DEF Char
  <2> QED BY <2>1, <2>2
<1>8. ASSUME NEW q \in T PROVE g <= q
  <2>1. q \in f..m + 1 /\ Char(l, nul, q) = "NUL"
    OBVIOUS
  <2>2. SUFFICES ASSUME q < g PROVE FALSE
    BY <1>1, <2>1
  <2>3. q \in 1..m /\ ~(q > Len(l))
    BY <1>1, <2>1, <2>2 DEF m
  <2>4. q \notin nul
    <3>1. SUFFICES ASSUME NEW i \in 1..n, q = G[i] PROVE FALSE
      BY DEF Cuts
    <3> QED BY <1>1, <1>4, <2>1, <2>2, <3>1
  <2>5. Char(l, nul, q) = l[q]
    BY <2>3, <2>4 DEF Char
  <2> QED BY <1>3, <2>1, <2>3, <2>5
<1>9. Min(T) = g
  <2>1. T \subseteq Nat /\ T # {}
    BY <1>1, <1>7
  <2>2. \A q \in T : q \in Nat
    BY <2>1
  <2> HIDE DEF T
  <2>3. Min(T) \in T /\ \A y \in T : Min(T) <= y
    BY <2>1, MinIs
  <2> DEFINE x == Min(T)
  <2>4. x \in Nat /\ x <= g /\ g <= x
    BY <1>7, <1>8, <2>2, <2>3
  <2> HIDE DEF x
  <2>5. x = g
    BY <1>1, <2>4
  <2> QED BY <2>5 DEF x
<1>10. Text(l, nul, f) = t
  <2>1. ~(f > Len(l) + 1)
    BY <1>1 DEF m
  <2>2. Text(l, nul, f) = SubSeq(l, f, Min(T) - 1)
    BY <2>1 DEF Text, m
  <2> HIDE DEF T
  <2> QED BY <1>9, <2>2
<1>11. t = w
  BY <1>1, <1>6, PieceOf DEF t, f, g, w, m
<1> QED BY <1>6, <1>10, <1>11

LEMMA ParsedIs ==
  ASSUME NEW l, NEW a, NEW n, NEW B, NEW F, NEW G, NEW Sym,
         Layout(l, a, n, B, F, G), Spells(l, a, n, F, G, Sym),
         NEW limit \in Nat, NEW c, Complete(l, n, F, G, limit, c)
  PROVE  Parsed(l, c).argv = SubSeq(a, 1, Room(n, limit))
<1> DEFINE m == Room(n, limit)
           p == Parsed(l, c).argv
           s == SubSeq(a, 1, m)
<1>1. n \in Nat /\ n >= 1 /\ m \in Nat /\ m <= n
  <2>1. n \in Nat /\ n >= 1
    BY DEF Layout
  <2> QED BY <2>1 DEF Room
<1>2. c.argv = Found(F, m) /\ c.nul \subseteq Cuts(G, n) /\ \A i \in 1..m : G[i] \in c.nul \/ G[i] = Len(l) + 1
  BY DEF Complete
<1>3. p = [i \in DOMAIN c.argv |-> Text(l, c.nul, c.argv[i])]
  BY DEF Parsed
<1> HIDE DEF m, p
<1>4. DOMAIN Found(F, m) = 1..m /\ \A i \in 1..m : Found(F, m)[i] = F[i]
  BY DEF Found
<1>5. \A i \in 1..m : Text(l, c.nul, F[i]) = a[i]
  <2>1. ASSUME NEW i \in 1..m PROVE Text(l, c.nul, F[i]) = a[i]
    <3>1. i \in 1..n
      BY <1>1
    <3> QED BY <1>2, <3>1, TextIs
  <2> QED BY <2>1
<1>6. DOMAIN p = 1..m /\ p = [i \in 1..m |-> p[i]] /\ \A i \in 1..m : p[i] = a[i]
  BY <1>2, <1>3, <1>4, <1>5
<1>7. Len(p) = m
  BY <1>1, <1>6, FunctionLen
<1>8. \A i \in 1..m : a[i] \in Seq(Sym)
  <2>1. \A i \in 1..n : a[i] \in Seq(Sym)
    BY DEF Spells
  <2>2. \A i \in 1..m : i \in 1..n
    BY <1>1
  <2> QED BY <2>1, <2>2
<1> DEFINE X == Seq(Sym)
<1>9. p \in Seq(X)
  <2>1. p \in [1..m -> X]
    BY <1>6, <1>8
  <2> HIDE DEF X
  <2> QED BY <1>1, <2>1, SeqDef
<1>10. /\ s \in Seq(X) /\ Len(s) = m /\ \A i \in 1..m : s[i] = a[i]
  <2>1. 1 \in Int /\ m \in Int /\ (IF 1 <= m THEN m - 1 + 1 ELSE 0) = m /\ m - 1 + 1 = m
    BY <1>1
  <2>2. \A i \in 1..m : a[i] \in X /\ 1 + i - 1 = i
    BY <1>8
  <2> HIDE DEF X
  <2>3. /\ s \in Seq(X) /\ Len(s) = (IF 1 <= m THEN m - 1 + 1 ELSE 0)
        /\ \A i \in 1..m - 1 + 1 : s[i] = a[1 + i - 1]
    BY <2>1, <2>2, SubSeqProperties
  <2> HIDE DEF s
  <2>4. Len(s) = m
    BY <2>1, <2>3
  <2>5. \A i \in 1..m : s[i] = a[i]
    BY <2>1, <2>2, <2>3
  <2> QED BY <2>3, <2>4, <2>5
<1> HIDE DEF s, X
<1>11. p = s
  BY <1>6, <1>7, <1>9, <1>10, SeqEqual
<1> QED BY <1>11 DEF p, s, m

(* Symbols an argument can have whichever the shell: no quotes, marks or NUL. *)
Clean(Sym) == Quote \notin Sym /\ "<" \notin Sym /\ ">" \notin Sym /\ "|" \notin Sym /\ "NUL" \notin Sym
Typable(Sym) == Sym \cup {Quote, Blank}

FirstOf(a, n, B) == [k \in 1..n |-> IF Quoted(a[k]) THEN B[k] + 1 ELSE B[k]]
BehindOf(a, n, B) == [k \in 1..n |-> FirstOf(a, n, B)[k] + Len(a[k])]

LEMMA NoBlankIn ==
  ASSUME NEW w, ~Quoted(w) PROVE w # <<>> /\ \A j \in 1..Len(w) : ~IsBlank(w[j])
  BY Zenon DEF Quoted, Contains, IsBlank

LEMMA TypableIs ==
  ASSUME NEW Sym, Clean(Sym)
  PROVE  /\ "NUL" \notin Typable(Sym) /\ "|" \notin Typable(Sym) /\ Sym \subseteq Typable(Sym)
         /\ Quote \in Typable(Sym) /\ Blank \in Typable(Sym)
<1>1. Quote # "NUL" /\ Blank # "NUL" /\ Quote # "|" /\ Blank # "|"
  BY Zenon DEF Quote, Blank
<1> QED BY <1>1 DEF Clean, Typable

LEMMA LaidOut ==
  ASSUME NEW Sym, Clean(Sym), NEW n \in Nat, n >= 1, NEW a \in [1..n -> Seq(Sym)],
         NEW B \in [1..(n + 1) -> Nat], NEW l \in Seq(Typable(Sym)), Laid(l, a, n, B),
         NEW F, F = FirstOf(a, n, B), NEW G, G = BehindOf(a, n, B)
  PROVE  Layout(l, a, n, B, F, G) /\ Spells(l, a, n, F, G, Typable(Sym))
<1> DEFINE m == Len(l)
           X == Typable(Sym)
<1>1. m \in Nat /\ \A k \in 1..n : a[k] \in Seq(Sym) /\ Len(a[k]) \in Nat /\ B[k] \in Nat /\ B[k + 1] \in Nat
  <2>1. \A k \in 1..n : k \in 1..(n + 1) /\ k + 1 \in 1..(n + 1)
    OBVIOUS
  <2> QED BY <2>1, LenProperties
<1>2. "NUL" \notin X /\ Sym \subseteq X
  BY TypableIs
<1>3. B[1] = 1 /\ m = B[n + 1] - 2 /\ \A k \in 2..n : IsBlank(l[B[k] - 1])
  BY DEF Laid, IsBlank
<1>4. ASSUME NEW k \in 1..n
      PROVE  /\ F[k] = IF Quoted(a[k]) THEN B[k] + 1 ELSE B[k]
             /\ G[k] = F[k] + Len(a[k]) /\ F[k] \in Nat /\ G[k] \in Nat
  <2>1. F[k] = (IF Quoted(a[k]) THEN B[k] + 1 ELSE B[k]) /\ G[k] = F[k] + Len(a[k])
    BY DEF FirstOf, BehindOf
  <2>2. B[k] \in Nat /\ Len(a[k]) \in Nat
    BY <1>1
  <2>3. F[k] \in Nat
    BY <2>1, <2>2
  <2>4. G[k] \in Nat
    <3> DEFINE f == F[k]
               h == Len(a[k])
    <3>1. G[k] = f + h /\ f \in Nat /\ h \in Nat
      BY <2>1, <2>2, <2>3
    <3> HIDE DEF f, h
    <3> QED BY <3>1
  <2> QED BY <2>1, <2>3, <2>4
<1>5. F \in Positions(n) /\ G \in Positions(n)
  <2>1. F = [k \in 1..n |-> F[k]] /\ G = [k \in 1..n |-> G[k]]
    BY DEF FirstOf, BehindOf
  <2> QED BY <1>4, <2>1 DEF Positions
(* One argument. *)
<1>6. ASSUME NEW k \in 1..n
      PROVE  /\ B[k] <= F[k] /\ F[k] <= G[k] /\ G[k] < B[k + 1] /\ B[k + 1] = Behind(a, G, k) + 1
             /\ \A j \in 1..Len(a[k]) : l[F[k] + j - 1] = a[k][j]
             /\ ~Quoted(a[k]) => F[k] = B[k] /\ F[k] < G[k] /\ \A p \in F[k]..G[k] - 1 : IsOther(l[p])
             /\ Quoted(a[k]) => /\ F[k] = B[k] + 1 /\ IsQuote(l[B[k]]) /\ IsQuote(l[G[k]]) /\ G[k] + 2 <= B[k + 1]
                                /\ \A p \in F[k]..G[k] - 1 : ~IsQuote(l[p])
  <2> DEFINE w == a[k]
             h == Len(w)
             b == B[k]
             f == F[k]
             g == G[k]
             e == B[k + 1]
  <2>1. /\ b \in Nat /\ h \in Nat /\ e \in Nat /\ w \in Seq(Sym) /\ g = f + h
        /\ f = IF Quoted(w) THEN b + 1 ELSE b
    BY <1>1, <1>4
  <2>2. /\ ~Quoted(w) => e = b + h + 1 /\ \A j \in 1..h : l[b + j - 1] = w[j]
        /\ Quoted(w) => /\ e = b + h + 3 /\ l[b] = Quote /\ l[b + h + 1] = Quote
                        /\ \A j \in 1..h : l[b + j] = w[j]
    BY DEF Laid
  <2>3. Behind(a, G, k) = IF Quoted(w) THEN g + 1 ELSE g
    BY DEF Behind
  <2>4. \A j \in 1..h : w[j] \in Sym
    BY <2>1, LenProperties
  <2> HIDE DEF w, h, b, f, g, e
  <2>5. \A j \in 1..h : l[f + j - 1] = w[j]
    <3>1. CASE Quoted(w)
      <4>1. \A j \in 1..h : f + j - 1 = b + j
        BY <2>1, <3>1
      <4> QED BY <2>2, <3>1, <4>1
    <3>2. CASE ~Quoted(w)
      <4>1. \A j \in 1..h : f + j - 1 = b + j - 1
        BY <2>1, <3>2
      <4> QED BY <2>2, <3>2, <4>1
    <3> QED BY <3>1, <3>2
  <2>6. \A p \in f..g - 1 : \E j \in 1..h : l[p] = w[j] /\ l[p] \in Sym
    <3>1. ASSUME NEW p \in f..g - 1 PROVE \E j \in 1..h : l[p] = w[j] /\ l[p] \in Sym
      <4> DEFINE j == p - f + 1
      <4>1. f \in Nat /\ g \in Nat
        BY <2>1
      <4>2. j \in 1..h /\ f + j - 1 = p
        BY <2>1, <4>1
      <4> HIDE DEF j
      <4>3. l[p] = w[j]
        BY <2>5, <4>2
      <4> QED BY <2>4, <4>2, <4>3
    <3> QED BY <3>1
  <2>7. ASSUME ~Quoted(w)
        PROVE  f = b /\ f < g /\ e = g + 1 /\ \A p \in f..g - 1 : IsOther(l[p])
    <3>1. w # <<>> /\ \A j \in 1..h : ~IsBlank(w[j])
      BY <2>7, NoBlankIn DEF h
    <3>2. h # 0
      BY <2>1, <3>1, EmptySeq DEF h
    <3>3. f = b /\ f < g /\ e = g + 1
      BY <2>1, <2>2, <2>7, <3>2
    <3>4. \A p \in f..g - 1 : l[p] \in Sym /\ ~IsBlank(l[p])
      BY <2>6, <3>1
    <3>5. \A p \in f..g - 1 : IsOther(l[p])
      BY <3>4 DEF Clean, IsOther, IsBlank
    <3> QED BY <3>3, <3>5
  <2>8. ASSUME Quoted(w)
        PROVE  /\ f = b + 1 /\ IsQuote(l[b]) /\ IsQuote(l[g]) /\ e = g + 2
               /\ \A p \in f..g - 1 : ~IsQuote(l[p])
    <3>1. f = b + 1 /\ g = b + h + 1 /\ e = g + 2
      BY <2>1, <2>2, <2>8
    <3>2. IsQuote(l[b]) /\ IsQuote(l[g])
      BY <2>2, <2>8, <3>1 DEF IsQuote
    <3>3. \A p \in f..g - 1 : ~IsQuote(l[p])
      BY <2>6 DEF Clean, IsQuote
    <3> QED BY <3>1, <3>2, <3>3
  <2>9. b <= f /\ f <= g /\ g < e /\ e = Behind(a, G, k) + 1
    <3>1. f \in Nat /\ g \in Nat /\ b <= f /\ f <= g
      BY <2>1
    <3> QED BY <2>3, <2>7, <2>8, <3>1
  <2>10. Quoted(w) => g + 2 <= e
    <3>1. g \in Nat
      BY <2>1
    <3> QED BY <2>8, <3>1
  <2> QED BY <2>5, <2>7, <2>8, <2>9, <2>10 DEF w, h, b, f, g, e
(* The later ones are further on. *)
<1>7. ASSUME NEW i \in 1..n PROVE \A k \in 1..(n + 1) : i < k => G[i] < B[k]
  <2> DEFINE T == {k \in 1..(n + 1) : i < k /\ ~(G[i] < B[k])}
  <2>1. ASSUME T # {} PROVE FALSE
    <3>1. PICK k \in T : \A j \in T : ~(j < k)
      <4>1. T \subseteq Nat
        OBVIOUS
      <4> HIDE DEF T
      <4> QED BY <2>1, <4>1, LeastNumber
    <3>2. k \in 1..(n + 1) /\ i < k /\ ~(G[i] < B[k])
      OBVIOUS
    <3>3. CASE k = i + 1
      <4>1. G[i] < B[i + 1]
        BY <1>6
      <4>2. B[k] = B[i + 1]
        BY <3>3
      <4> QED BY <3>2, <4>1, <4>2, Zenon
    <3>4. CASE k # i + 1
      <4> DEFINE j == k - 1
      <4>1. j \in 1..n /\ j \in 1..(n + 1) /\ i < j /\ j < k /\ j + 1 = k
        BY <3>2, <3>4
      <4> HIDE DEF j
      <4>2. G[i] < B[j]
        BY <3>1, <4>1
      <4>3. B[j] <= F[j] /\ F[j] <= G[j] /\ G[j] < B[k]
        BY <1>6, <4>1
      <4>4. B[j] \in Nat /\ F[j] \in Nat /\ G[j] \in Nat /\ B[k] \in Nat /\ G[i] \in Nat
        BY <1>1, <1>4, <4>1
      <4> DEFINE x == G[i]
                 y == B[j]
                 f == F[j]
                 g == G[j]
                 z == B[k]
      <4>5. x < y /\ y <= f /\ f <= g /\ g < z /\ x \in Nat /\ y \in Nat /\ f \in Nat /\ g \in Nat /\ z \in Nat
        BY <4>2, <4>3, <4>4
      <4> HIDE DEF x, y, f, g, z
      <4>6. x < z
        BY <4>5
      <4> QED BY <3>2, <4>6 DEF x, z
    <3> QED BY <3>3, <3>4
  <2> QED BY <2>1
<1>8. B[n + 1] = m + 2 /\ Behind(a, G, n) = m + 1
  <2>1. n \in 1..n
    OBVIOUS
  <2>2. B[n + 1] = Behind(a, G, n) + 1 /\ B[n + 1] \in Nat /\ Behind(a, G, n) \in {G[n], G[n] + 1} /\ G[n] \in Nat
    BY <1>1, <1>4, <1>6, <2>1 DEF Behind
  <2> DEFINE x == B[n + 1]
             y == Behind(a, G, n)
             g == G[n]
  <2>3. x = y + 1 /\ m = x - 2 /\ x \in Nat /\ y \in {g, g + 1} /\ g \in Nat
    BY <1>3, <2>2
  <2> HIDE DEF x, y, g, m
  <2>4. x = m + 2 /\ y = m + 1
    BY <2>3
  <2> QED BY <2>4 DEF x, y
<1>9. ASSUME NEW k \in 1..n
      PROVE  /\ 1 <= B[k] /\ G[k] <= m + 1 /\ (Quoted(a[k]) => G[k] <= m)
             /\ k < n => Behind(a, G, k) <= m /\ IsBlank(l[Behind(a, G, k)])
  <2>1. G[k] < B[n + 1] /\ G[k] \in Nat
    <3>1. n + 1 \in 1..(n + 1) /\ k < n + 1
      OBVIOUS
    <3> QED BY <1>4, <1>7, <3>1
  <2>2. 1 <= B[k]
    <3>1. CASE k = 1
      BY <1>3, <3>1
    <3>2. CASE k # 1
      <4>1. 1 \in 1..n /\ 1 < k /\ k \in 1..(n + 1)
        BY <3>2
      <4>2. G[1] < B[k] /\ G[1] \in Nat /\ B[k] \in Nat
        BY <1>1, <1>4, <1>7, <4>1
      <4> QED BY <4>2
    <3> QED BY <3>1, <3>2
  <2>3. k < n => Behind(a, G, k) <= m /\ IsBlank(l[Behind(a, G, k)])
    <3> SUFFICES ASSUME k < n PROVE Behind(a, G, k) <= m /\ IsBlank(l[Behind(a, G, k)])
      OBVIOUS
    <3> DEFINE j == k + 1
               y == Behind(a, G, k)
    <3>1. j \in 1..n /\ j \in 2..n /\ j < n + 1 /\ n + 1 \in 1..(n + 1)
      OBVIOUS
    <3>2. B[j] = y + 1
      BY <1>6
    <3>6. y \in Nat
      <4>1. y \in {G[k], G[k] + 1} /\ G[k] \in Nat
        BY <1>4 DEF Behind
      <4> QED BY <4>1
    <3> HIDE DEF j, y
    <3>7. B[j] - 1 = y
      BY <3>2, <3>6
    <3>3. IsBlank(l[y])
      BY <1>3, <3>1, <3>7
    <3>4. G[j] < B[n + 1] /\ B[j] <= F[j] /\ F[j] <= G[j] /\ B[j] \in Nat /\ F[j] \in Nat /\ G[j] \in Nat
      BY <1>1, <1>4, <1>6, <1>7, <3>1
    <3>5. y <= m
      <4> DEFINE u == B[j]
                 f == F[j]
                 g == G[j]
                 e == B[n + 1]
      <4>1. g < e /\ e = m + 2 /\ u <= f /\ f <= g /\ u \in Nat /\ f \in Nat /\ g \in Nat /\ m \in Nat /\ u = y + 1
        BY <1>1, <1>8, <3>2, <3>4
      <4> HIDE DEF u, f, g, e, m
      <4> QED BY <3>6, <4>1
    <3> QED BY <3>3, <3>5 DEF y
  <2>4. Quoted(a[k]) => G[k] <= m
    <3> SUFFICES ASSUME Quoted(a[k]) PROVE G[k] <= m
      OBVIOUS
    <3>1. Behind(a, G, k) = G[k] + 1
      BY DEF Behind
    <3>2. CASE k < n
      <4> DEFINE g == G[k]
      <4>1. g + 1 <= m /\ g \in Nat /\ m \in Nat
        BY <1>1, <2>1, <2>3, <3>1, <3>2
      <4> HIDE DEF g, m
      <4>2. g <= m
        BY <4>1
      <4> QED BY <4>2 DEF g
    <3>3. CASE k = n
      <4> DEFINE g == G[k]
      <4>1. g + 1 = m + 1 /\ g \in Nat /\ m \in Nat
        BY <1>1, <1>8, <2>1, <3>1, <3>3
      <4> HIDE DEF g, m
      <4>2. g <= m
        BY <4>1
      <4> QED BY <4>2 DEF g
    <3> QED BY <3>2, <3>3
  <2>5. G[k] <= m + 1
    <3> DEFINE g == G[k]
               e == B[n + 1]
    <3>1. g < e /\ e = m + 2 /\ g \in Nat /\ m \in Nat
      BY <1>1, <1>8, <2>1
    <3> HIDE DEF g, e, m
    <3>2. g <= m + 1
      BY <3>1
    <3> QED BY <3>2 DEF g
  <2> QED BY <2>2, <2>3, <2>4, <2>5
<1>10. \A i, k \in 1..n : i < k => G[i] < B[k]
  <2>1. \A k \in 1..n : k \in 1..(n + 1)
    OBVIOUS
  <2> QED BY <1>7, <2>1
<1>11. Layout(l, a, n, B, F, G)
  BY <1>1, <1>3, <1>5, <1>6, <1>8, <1>9, <1>10 DEF Layout
<1>12. \A k \in 1..n : a[k] \in Seq(X)
  <2> HIDE DEF X
  <2> QED BY <1>1, <1>2, SeqMonotonic
<1>13. Spells(l, a, n, F, G, X)
  BY <1>2, <1>4, <1>6, <1>12 DEF Spells
<1> QED BY <1>11, <1>13

LEMMA NoLeadingSame ==
  ASSUME NEW Sym, NEW s \in Seq(Sym), Len(s) >= 1, ~IsBlank(s[1])
  PROVE  NoLeading(s) = s
<1> DEFINE m == Len(s)
           T == {i \in DOMAIN s : s[i] # Blank} \cup {m + 1}
           t == SubSeq(s, 1, m)
<1>1. m \in Nat /\ m >= 1 /\ DOMAIN s = 1..m /\ \A i \in 1..m : s[i] \in Sym
  BY LenProperties
<1>2. NoLeading(s) = SubSeq(s, Min(T), m)
  BY DEF NoLeading
<1> HIDE DEF m
<1>3. 1 \in T /\ T \subseteq Nat /\ \A i \in T : i >= 1
  BY <1>1 DEF IsBlank
<1> HIDE DEF T
<1>4. Min(T) = 1
  <2>1. Min(T) \in T /\ Min(T) <= 1
    BY <1>3, MinIs
  <2> DEFINE x == Min(T)
  <2>2. x \in Nat /\ x <= 1 /\ x >= 1
    BY <1>3, <2>1
  <2> HIDE DEF x
  <2>3. x = 1
    BY <2>2
  <2> QED BY <2>3 DEF x
<1>5. t = s
  BY SubSeqFull DEF m
<1> QED BY <1>2, <1>4, <1>5

(* What is known of the line of the arguments a. *)
WrittenAs(Sym, a, n, l, B, F, G) ==
  /\ l \in Seq(Typable(Sym)) /\ l # <<>> /\ NoLeading(l) = l
  /\ Layout(l, a, n, B, F, G) /\ Spells(l, a, n, F, G, Typable(Sym))

LEMMA WrittenLayout ==
  ASSUME NEW Sym, Clean(Sym), NEW n \in Nat, n >= 1, NEW a \in [1..n -> Seq(Sym)]
  PROVE  \E B, F, G : WrittenAs(Sym, a, n, Written(a), B, F, G)
<1> DEFINE X == Typable(Sym)
           l == Written(a)
<1>1. Quote \in X /\ Blank \in X /\ Sym \subseteq X
  BY TypableIs
<1>2. a \in [1..n -> Seq(X)]
  <2>1. \A k \in 1..n : a[k] \in Seq(X)
    <3>1. \A k \in 1..n : a[k] \in Seq(Sym)
      OBVIOUS
    <3> HIDE DEF X
    <3> QED BY <1>1, <3>1, SeqMonotonic
  <2> HIDE DEF X
  <2> QED BY <2>1
<1>3. PICK B \in [1..(n + 1) -> Nat] : l \in Seq(X) /\ Laid(l, a, n, B)
  <2> HIDE DEF X
  <2> QED BY <1>1, <1>2, WrittenIs
<1> HIDE DEF l
<1> DEFINE F == FirstOf(a, n, B)
           G == BehindOf(a, n, B)
<1>4. Layout(l, a, n, B, F, G) /\ Spells(l, a, n, F, G, X)
  <2> HIDE DEF F, G
  <2>1. F = FirstOf(a, n, B) /\ G = BehindOf(a, n, B)
    BY DEF F, G
  <2> QED BY <1>3, <2>1, LaidOut
<1> HIDE DEF F, G
<1>5. Len(l) >= 1 /\ ~IsBlank(l[1])
  <2>1. 1 \in 1..n
    OBVIOUS
  <2>2. /\ B[1] = 1 /\ Len(l) \in Nat /\ F[1] \in Nat /\ G[1] \in Nat /\ G[1] <= Len(l) + 1 /\ F[1] <= G[1]
        /\ ~Quoted(a[1]) => F[1] = B[1] /\ F[1] < G[1] /\ \A p \in F[1]..G[1] - 1 : IsOther(l[p])
        /\ Quoted(a[1]) => F[1] = B[1] + 1 /\ G[1] <= Len(l) /\ IsQuote(l[B[1]])
    BY <1>4, <2>1 DEF Layout, Positions
  <2>3. CASE Quoted(a[1])
    <3>1. Len(l) >= 1 /\ IsQuote(l[1])
      BY <2>2, <2>3
    <3> QED BY <3>1, QuoteNoBlank
  <2>4. CASE ~Quoted(a[1])
    <3>1. Len(l) >= 1 /\ 1 \in F[1]..G[1] - 1
      BY <2>2, <2>4
    <3> QED BY <2>2, <2>4, <3>1 DEF IsOther, IsBlank
  <2> QED BY <2>3, <2>4
<1>6. NoLeading(l) = l
  <2> HIDE DEF X
  <2> QED BY <1>3, <1>5, NoLeadingSame
<1>7. l # <<>>
  BY <1>5
<1>8. WrittenAs(Sym, a, n, l, B, F, G)
  BY <1>3, <1>4, <1>6, <1>7 DEF WrittenAs
<1> QED BY <1>8 DEF l

(* The parser v, from base, finds the arguments it has room for. *)
Finds(v, base, limit, l, a, n) ==
  Parsed(l, Finished(v, l, limit, ScanLine(l, v, base, limit))).argv = SubSeq(a, 1, Room(n, limit))

LEMMA ScanFinds ==
  ASSUME NEW Sym, Clean(Sym), NEW a, NEW n, NEW l, NEW B, NEW F, NEW G, WrittenAs(Sym, a, n, l, B, F, G),
         NEW v \in Parsers, NEW limit \in Nat, limit >= 1, NEW base, At(base, 1, FALSE, Rest(v, 1), <<>>, {})
  PROVE  Finds(v, base, limit, l, a, n)
<1> DEFINE S == ScanUpTo(l, v, base, limit)
           X == Typable(Sym)
<1>1. l \in Seq(X) /\ Layout(l, a, n, B, F, G) /\ Spells(l, a, n, F, G, X) /\ Len(l) \in Nat /\ "NUL" \notin X
  BY TypableIs, LenProperties DEF WrittenAs
<1>2. S[0] = base /\ \A p \in 1..Len(l) : S[p] = NextPlace(l, v, limit, S[p - 1], p)
  BY <1>1, ScanStep
<1>3. ScanLine(l, v, base, limit) = S[Len(l)]
  BY DEF ScanLine
<1> HIDE DEF S, X
<1>4. \A p \in 1..Len(l) : l[p] # "NUL"
  BY <1>1, ElementOfSeq
<1>5. Scanning(v, l, limit, S)
  BY <1>1, <1>2, <1>4 DEF Scanning
<1> DEFINE c == Finished(v, l, limit, S[Len(l)])
<1>6. At(S[0], 1, FALSE, Rest(v, 1), <<>>, {})
  BY <1>2
<1>7. Complete(l, n, F, G, limit, c)
  BY <1>1, <1>5, <1>6, LineScanned
<1> HIDE DEF c
<1>8. Parsed(l, c).argv = SubSeq(a, 1, Room(n, limit))
  BY <1>1, <1>7, ParsedIs
<1> QED BY <1>3, <1>8 DEF c, Finds

(* 4-ShellP2 hands over the arguments as they were written, as many as argv holds *)
(* (build_cmd_buff()).                                                             *)
THEOREM ArgumentsOfP2 ==
  ASSUME NEW Sym, Clean(Sym), NEW n \in Nat, n >= 1, NEW a \in [1..n -> Seq(Sym)]
  PROVE  BuildCmdBuffP2(Written(a)).argv = SubSeq(a, 1, Room(n, ArgvMax))
<1>1. PICK B, F, G : WrittenAs(Sym, a, n, Written(a), B, F, G)
  BY WrittenLayout
<1> DEFINE l == Written(a)
           r == ScanLine(l, "P2", Scan, ArgvMax)
<1>2. NoLeading(l) = l
  BY <1>1 DEF WrittenAs
<1>3. ArgvMax \in Nat /\ ArgvMax >= 1 /\ "P2" \in Parsers /\ Rest("P2", 1) = 0
  BY BoundsAssumption DEF Parsers, Rest
<1>4. At(Scan, 1, FALSE, Rest("P2", 1), <<>>, {})
  BY <1>3 DEF At, IsPlace, Scan
<1>5. Parsed(l, Finished("P2", l, ArgvMax, r)).argv = SubSeq(a, 1, Room(n, ArgvMax))
  <2> DEFINE v == "P2"
  <2>1. WrittenAs(Sym, a, n, l, B, F, G) /\ v \in Parsers /\ At(Scan, 1, FALSE, Rest(v, 1), <<>>, {})
    BY <1>1, <1>3, <1>4
  <2> HIDE DEF l, v
  <2>2. Finds(v, Scan, ArgvMax, l, a, n)
    BY <1>3, <2>1, ScanFinds
  <2> QED BY <2>2 DEF v, Finds
<1> HIDE DEF l
<1>6. BuildCmdBuffP2(l) = Parsed(l, Finished("P2", l, ArgvMax, r))
  BY <1>2 DEF BuildCmdBuffP2, Finished
<1> QED BY <1>5, <1>6 DEF l

(* 5-ShellP3 does, whatever redirections the command buffer has kept; the last place *)
(* of argv is for the NULL.                                                           *)
THEOREM ArgumentsOfP3 ==
  ASSUME NEW Sym, Clean(Sym), NEW n \in Nat, n >= 1, NEW a \in [1..n -> Seq(Sym)], NEW old
  PROVE  BuildCmdBuffP3(Written(a), old).argv = SubSeq(a, 1, Room(n, ArgvMax - 1))
<1>1. PICK B, F, G : WrittenAs(Sym, a, n, Written(a), B, F, G)
  BY WrittenLayout
<1> DEFINE l == Written(a)
           base == [Scan EXCEPT !.start = 1, !.in = old.in, !.out = old.out, !.append = old.append]
           limit == ArgvMax - 1
           r == ScanLine(l, "P3", base, limit)
<1>2. NoLeading(l) = l
  BY <1>1 DEF WrittenAs
<1>3. limit \in Nat /\ limit >= 1 /\ "P3" \in Parsers /\ Rest("P3", 1) = 1
  BY BoundsAssumption DEF Parsers, Rest
<1>4. At(base, 1, FALSE, Rest("P3", 1), <<>>, {})
  BY <1>3 DEF At, IsPlace, Scan
<1>5. Parsed(l, Finished("P3", l, limit, r)).argv = SubSeq(a, 1, Room(n, limit))
  <2> DEFINE v == "P3"
  <2>1. WrittenAs(Sym, a, n, l, B, F, G) /\ v \in Parsers /\ At(base, 1, FALSE, Rest(v, 1), <<>>, {})
    BY <1>1, <1>3, <1>4
  <2> HIDE DEF l, base, limit, v
  <2>2. Finds(v, base, limit, l, a, n)
    BY <1>3, <2>1, ScanFinds
  <2> QED BY <2>2 DEF v, Finds
<1> HIDE DEF l
<1>6. BuildCmdBuffP3(l, old) = Parsed(l, Finished("P3", l, limit, r))
  BY <1>2 DEF BuildCmdBuffP3, Finished
<1> QED BY <1>5, <1>6 DEF l

-----------------------------------------------------------------------------
(***************************************************************************)
(* 3-ShellP1, which takes the line apart at the blanks.                    *)
(***************************************************************************)
(* Positions in order, none beyond m. *)
Rising(F, n, m) ==
  /\ n \in Nat /\ m \in Nat /\ F \in Positions(n)
  /\ \A k \in 1..n : F[k] \in Nat /\ 1 <= F[k] /\ F[k] <= m
  /\ \A i, k \in 1..n : i < k => F[i] < F[k]

LEMMA CutsCounted ==
  ASSUME NEW F, NEW n, NEW m, Rising(F, n, m)
  PROVE  /\ Cuts(F, n) \subseteq 1..m
         /\ \A k \in 0..n : IsFiniteSet(Cuts(F, k)) /\ Cardinality(Cuts(F, k)) = k
<1>1. n \in Nat /\ m \in Nat /\ F \in Positions(n)
  BY DEF Rising
<1>2. Cuts(F, n) \subseteq 1..m
  <2>1. \A i \in 1..n : F[i] \in 1..m
    BY DEF Rising
  <2> QED BY <2>1 DEF Cuts
<1> DEFINE C(k) == Cuts(F, k)
           T == {k \in 0..n : ~(IsFiniteSet(C(k)) /\ Cardinality(C(k)) = k)}
<1>3. C(0) = {}
  <2>1. 1..0 = {}
    OBVIOUS
  <2> QED BY <2>1 DEF Cuts
<1>4. ASSUME NEW k \in 1..n PROVE C(k) = C(k - 1) \cup {F[k]} /\ F[k] \notin C(k - 1)
  <2>1. C(k) = C(k - 1) \cup {F[k]}
    BY <1>1, FoundIs
  <2>2. ASSUME NEW i \in 1..k - 1, F[k] = F[i] PROVE FALSE
    <3>1. i \in 1..n /\ i < k
      BY <1>1
    <3>2. F[i] < F[k] /\ F[i] \in Nat
      BY <3>1 DEF Rising
    <3> QED BY <2>2, <3>2
  <2> QED BY <2>1, <2>2 DEF Cuts
<1> HIDE DEF C
<1>5. T = {}
  <2> SUFFICES ASSUME T # {} PROVE FALSE
    OBVIOUS
  <2>1. PICK k \in T : \A j \in T : ~(j < k)
    <3>1. T \subseteq Nat
      BY <1>1
    <3> HIDE DEF T
    <3> QED BY <3>1, LeastNumber
  <2>2. k # 0
    BY <1>3, FS_EmptySet
  <2>3. k \in 1..n /\ k - 1 \in 0..n /\ k - 1 < k
    BY <1>1, <2>2
  <2>4. IsFiniteSet(C(k - 1)) /\ Cardinality(C(k - 1)) = k - 1
    BY <2>1, <2>3
  <2>5. IsFiniteSet(C(k)) /\ Cardinality(C(k)) = k
    <3> DEFINE c == C(k - 1)
               x == F[k]
    <3>1. IsFiniteSet(c) /\ Cardinality(c) = k - 1 /\ x \notin c /\ C(k) = c \cup {x}
      BY <1>4, <2>3, <2>4
    <3> HIDE DEF c, x
    <3>2. IsFiniteSet(c \cup {x}) /\ Cardinality(c \cup {x}) = Cardinality(c) + 1
      BY <3>1, FS_AddElement
    <3> QED BY <1>1, <2>3, <3>1, <3>2
  <2> QED BY <1>1, <2>3, <2>5
<1> QED BY <1>2, <1>5 DEF C

LEMMA CutsInOrder ==
  ASSUME NEW F, NEW n, NEW m, Rising(F, n, m), NEW k \in 1..n
  PROVE  InOrder(Cuts(F, n))[k] = F[k]
<1> DEFINE S == Cuts(F, n)
           x == InOrder(S)[k]
<1>1. n \in Nat /\ m \in Nat /\ k \in Nat /\ n \in 0..n
  BY DEF Rising
<1>2. S \subseteq 1..m /\ Cardinality(S) = n
  BY <1>1, CutsCounted
<1>3. x \in S /\ Cardinality(UpTo(S, x)) = k
  <2> HIDE DEF S
  <2> QED BY <1>1, <1>2, InOrderIs
<1>4. PICK j \in 1..n : x = F[j]
  BY <1>3 DEF Cuts
<1>5. UpTo(S, F[j]) = Cuts(F, j)
  <2>1. \A i \in 1..n : F[i] \in Nat /\ (F[i] <= F[j] <=> i <= j)
    <3>1. ASSUME NEW i \in 1..n PROVE F[i] \in Nat /\ (F[i] <= F[j] <=> i <= j)
      <4> DEFINE y == F[i]
                 z == F[j]
      <4>1. y \in Nat /\ z \in Nat /\ (i < j => y < z) /\ (j < i => z < y) /\ (i = j => y = z)
        BY DEF Rising
      <4> HIDE DEF y, z
      <4>2. y \in Nat /\ (y <= z <=> i <= j)
        BY <1>1, <4>1
      <4> QED BY <4>2 DEF y, z
    <3> QED BY <3>1
  <2>2. \A i : i \in 1..j <=> i \in 1..n /\ i <= j
    BY <1>1
  <2>3. UpTo(S, F[j]) = {F[i] : i \in {i \in 1..n : F[i] <= F[j]}}
    BY DEF UpTo, Cuts
  <2>4. {i \in 1..n : F[i] <= F[j]} = 1..j
    BY <2>1, <2>2
  <2> QED BY <2>3, <2>4 DEF Cuts
<1>6. Cardinality(Cuts(F, j)) = j
  <2>1. j \in 0..n
    OBVIOUS
  <2> QED BY <2>1, CutsCounted
<1> QED BY <1>3, <1>4, <1>5, <1>6

(* Words with one blank between them. *)
Words(l, n, F, G) ==
  /\ n \in Nat /\ n >= 1 /\ Len(l) \in Nat /\ F \in Positions(n) /\ F[1] = 1 /\ G[n] = Len(l) + 1
  /\ \A k \in 1..n : /\ F[k] \in Nat /\ G[k] \in Nat /\ 1 <= F[k] /\ F[k] < G[k] /\ G[k] <= Len(l) + 1
                     /\ \A p \in F[k]..G[k] - 1 : ~IsBlank(l[p])
  /\ \A k \in 1..n : k < n => G[k] <= Len(l) /\ IsBlank(l[G[k]]) /\ F[k + 1] = G[k] + 1
  /\ \A i, k \in 1..n : i < k => G[i] < F[k]

LEMMA WordsIn ==
  ASSUME NEW l, NEW a, NEW n, NEW B, NEW F, NEW G, Layout(l, a, n, B, F, G), \A k \in 1..n : ~Quoted(a[k])
  PROVE  Words(l, n, F, G) /\ Rising(F, n, Len(l))
<1>1. n \in Nat /\ n >= 1 /\ Len(l) \in Nat /\ F \in Positions(n) /\ G \in Positions(n) /\ B[1] = 1
  BY DEF Layout
<1>2. ASSUME NEW k \in 1..n
      PROVE  /\ F[k] = B[k] /\ F[k] < G[k] /\ Behind(a, G, k) = G[k]
             /\ F[k] \in Nat /\ G[k] \in Nat /\ 1 <= F[k] /\ G[k] <= Len(l) + 1
             /\ \A p \in F[k]..G[k] - 1 : ~IsBlank(l[p])
  <2>1. /\ F[k] = B[k] /\ F[k] < G[k] /\ \A p \in F[k]..G[k] - 1 : IsOther(l[p])
        /\ 1 <= B[k] /\ G[k] <= Len(l) + 1
    BY DEF Layout
  <2>2. F[k] \in Nat /\ G[k] \in Nat
    BY <1>1 DEF Positions
  <2> QED BY <2>1, <2>2 DEF Behind, IsOther, IsBlank
<1>3. 1 \in 1..n /\ n \in 1..n
  BY <1>1
<1>4. ASSUME NEW k \in 1..n, k < n PROVE G[k] <= Len(l) /\ IsBlank(l[G[k]]) /\ F[k + 1] = G[k] + 1
  <2>1. k + 1 \in 1..n
    BY <1>1, <1>4
  <2>2. Behind(a, G, k) <= Len(l) /\ IsBlank(l[Behind(a, G, k)]) /\ B[k + 1] = Behind(a, G, k) + 1
    BY <1>4 DEF Layout
  <2> QED BY <1>2, <2>1, <2>2
<1>5. ASSUME NEW i \in 1..n, NEW k \in 1..n, i < k PROVE G[i] < F[k] /\ F[i] < F[k]
  <2>1. G[i] < B[k]
    BY <1>5 DEF Layout
  <2>2. G[i] < F[k]
    BY <1>2, <2>1
  <2> DEFINE x == F[i]
             y == G[i]
             z == F[k]
  <2>3. x < y /\ y < z /\ x \in Nat /\ y \in Nat /\ z \in Nat
    BY <1>2, <2>2
  <2> HIDE DEF x, y, z
  <2>4. x < z
    BY <2>3
  <2> QED BY <2>2, <2>4 DEF x, z
<1>6. F[1] = 1 /\ G[n] = Len(l) + 1
  <2>1. Behind(a, G, n) = Len(l) + 1
    BY DEF Layout
  <2> QED BY <1>1, <1>2, <1>3, <2>1
<1>7. ASSUME NEW k \in 1..n PROVE F[k] <= Len(l)
  <2> DEFINE x == F[k]
             y == G[k]
  <2>1. x < y /\ y <= Len(l) + 1 /\ x \in Nat /\ y \in Nat
    BY <1>2
  <2> HIDE DEF x, y
  <2>2. x <= Len(l)
    BY <1>1, <2>1
  <2> QED BY <2>2 DEF x
<1>8. Words(l, n, F, G)
  BY <1>1, <1>2, <1>4, <1>5, <1>6 DEF Words
<1>9. Rising(F, n, Len(l))
  BY <1>1, <1>2, <1>5, <1>7 DEF Rising
<1> QED BY <1>8, <1>9

LEMMA WordsStart ==
  ASSUME NEW l, NEW n, NEW F, NEW G, Words(l, n, F, G)
  PROVE  Starts(l, Blank) = Cuts(F, n)
<1> DEFINE m == Len(l)
<1>1. n \in Nat /\ n >= 1 /\ m \in Nat /\ F[1] = 1 /\ G[n] = m + 1 /\ 1 \in 1..n /\ n \in 1..n
  BY DEF Words
<1>2. ASSUME NEW k \in 1..n
      PROVE  /\ F[k] \in Nat /\ G[k] \in Nat /\ 1 <= F[k] /\ F[k] < G[k] /\ G[k] <= m + 1
             /\ \A p \in F[k]..G[k] - 1 : l[p] # Blank
             /\ k < n => l[G[k]] = Blank /\ F[k + 1] = G[k] + 1
  BY DEF Words, IsBlank
<1> HIDE DEF m
<1>3. ASSUME NEW k \in 1..n PROVE F[k] \in Starts(l, Blank)
  <2>1. F[k] \in 1..Len(l) /\ F[k] \in F[k]..G[k] - 1
    <3> DEFINE x == F[k]
               y == G[k]
    <3>1. x \in Nat /\ y \in Nat /\ 1 <= x /\ x < y /\ y <= m + 1
      BY <1>2
    <3> HIDE DEF x, y
    <3>2. x \in 1..m /\ x \in x..y - 1
      BY <1>1, <3>1
    <3> QED BY <3>2 DEF x, y, m
  <2>2. l[F[k]] # Blank
    BY <1>2, <2>1
  <2>3. F[k] = 1 \/ l[F[k] - 1] = Blank
    <3>1. CASE k = 1
      BY <1>1, <3>1
    <3>2. CASE k # 1
      <4> DEFINE j == k - 1
      <4>1. j \in 1..n /\ j < n /\ j + 1 = k
        BY <1>1, <3>2
      <4> HIDE DEF j
      <4>2. l[G[j]] = Blank /\ F[k] = G[j] + 1 /\ G[j] \in Nat
        BY <1>2, <4>1
      <4>3. F[k] - 1 = G[j]
        BY <4>2
      <4> QED BY <4>2, <4>3
    <3> QED BY <3>1, <3>2
  <2> QED BY <2>1, <2>2, <2>3 DEF Starts
<1>4. ASSUME NEW i \in Starts(l, Blank) PROVE \E k \in 1..n : i = F[k]
  <2>1. i \in 1..m /\ l[i] # Blank /\ (i = 1 \/ l[i - 1] = Blank)
    BY DEF Starts, m
  <2> DEFINE T == {k \in 1..n : G[k] >= i}
  <2>2. n \in T
    BY <1>1, <2>1
  <2>3. PICK k \in T : \A j \in T : ~(j < k)
    <3>1. T \subseteq Nat /\ T # {}
      BY <1>1, <2>2
    <3> HIDE DEF T
    <3> QED BY <3>1, LeastNumber
  <2>4. k \in 1..n /\ G[k] >= i
    OBVIOUS
  <2>5. F[k] <= i
    <3>1. CASE k = 1
      BY <1>1, <2>1, <3>1
    <3>2. CASE k # 1
      <4> DEFINE j == k - 1
      <4>1. j \in 1..n /\ j < n /\ j + 1 = k /\ j < k
        BY <1>1, <2>4, <3>2
      <4> HIDE DEF j
      <4>2. F[k] = G[j] + 1 /\ G[j] \in Nat
        BY <1>2, <4>1
      <4>3. ~(G[j] >= i)
        BY <2>3, <4>1
      <4> QED BY <2>1, <4>2, <4>3
    <3> QED BY <3>1, <3>2
  <2>6. G[k] # i
    <3>1. CASE k = n
      BY <1>1, <2>1, <3>1
    <3>2. CASE k # n
      <4>1. k < n
        BY <1>1, <2>4, <3>2
      <4> QED BY <1>2, <2>1, <2>4, <4>1
    <3> QED BY <3>1, <3>2
  <2>7. i = F[k]
    <3> DEFINE x == F[k]
               y == G[k]
    <3>1. x \in Nat /\ y \in Nat /\ 1 <= x /\ x <= i /\ i < y
      BY <1>2, <2>1, <2>4, <2>5, <2>6
    <3>2. \A p \in x..y - 1 : l[p] # Blank
      BY <1>2, <2>4
    <3> HIDE DEF x, y
    <3>3. i = x
      <4> SUFFICES ASSUME i # x PROVE FALSE
        OBVIOUS
      <4>1. i - 1 \in x..y - 1 /\ i # 1
        BY <2>1, <3>1
      <4> QED BY <2>1, <3>2, <4>1
    <3> QED BY <3>3 DEF x
  <2> QED BY <2>4, <2>7
<1> QED BY <1>3, <1>4 DEF Cuts

LEMMA WordEnds ==
  ASSUME NEW l, NEW n, NEW F, NEW G, Words(l, n, F, G), NEW k \in 1..n
  PROVE  Min({j \in F[k]..Len(l) : l[j] = Blank} \cup {Len(l) + 1}) = G[k]
<1> DEFINE m == Len(l)
           f == F[k]
           g == G[k]
           T == {j \in f..m : l[j] = Blank} \cup {m + 1}
<1>1. /\ n \in Nat /\ m \in Nat /\ f \in Nat /\ g \in Nat /\ 1 <= f /\ f < g /\ g <= m + 1
      /\ \A p \in f..g - 1 : l[p] # Blank
      /\ k < n => g <= m /\ l[g] = Blank
      /\ k = n => g = m + 1
  BY DEF Words, IsBlank
<1> HIDE DEF m, f, g
<1>2. g \in T
  <2>1. k < n \/ k = n
    BY <1>1
  <2> QED BY <1>1, <2>1
<1>3. ASSUME NEW j \in T PROVE j \in Nat /\ g <= j
  <2>1. CASE j = m + 1
    BY <1>1, <2>1
  <2>2. CASE j \in f..m /\ l[j] = Blank
    <3>1. j \notin f..g - 1
      BY <1>1, <2>2
    <3> QED BY <1>1, <2>2, <3>1
  <2> QED BY <2>1, <2>2
<1> HIDE DEF T
<1>4. Min(T) \in T /\ Min(T) <= g
  BY <1>2, <1>3, MinIs
<1> DEFINE x == Min(T)
<1>5. x \in Nat /\ x <= g /\ g <= x
  BY <1>3, <1>4
<1> HIDE DEF x
<1>6. x = g
  BY <1>1, <1>5
<1> QED BY <1>6 DEF x, T, m, f, g

(* strtok_r()'s piece that starts at i. *)
PieceAt(s, sep, i) == SubSeq(s, i, Min({j \in i..Len(s) : s[j] = sep} \cup {Len(s) + 1}) - 1)

LEMMA TokensAre ==
  ASSUME NEW s, NEW sep
  PROVE  Tokens(s, sep) = [k \in 1..Cardinality(Starts(s, sep)) |-> PieceAt(s, sep, InOrder(Starts(s, sep))[k])]
  BY DEF Tokens, PieceAt

LEMMA WordIs ==
  ASSUME NEW l, NEW a, NEW n, NEW F, NEW G, NEW Sym, Words(l, n, F, G), Spells(l, a, n, F, G, Sym), NEW k \in 1..n
  PROVE  PieceAt(l, Blank, F[k]) = a[k]
<1>1. Len(l) \in Nat /\ F[k] \in Nat /\ G[k] \in Nat /\ 1 <= F[k] /\ F[k] < G[k] /\ G[k] <= Len(l) + 1
  BY DEF Words
<1>2. F[k] <= G[k]
  <2> DEFINE f == F[k]
             g == G[k]
  <2>1. f \in Nat /\ g \in Nat /\ f < g
    BY <1>1
  <2> HIDE DEF f, g
  <2>2. f <= g
    BY <2>1
  <2> QED BY <2>2 DEF f, g
<1>3. SubSeq(l, F[k], G[k] - 1) = a[k]
  BY <1>1, <1>2, PieceOf
<1>4. Min({j \in F[k]..Len(l) : l[j] = Blank} \cup {Len(l) + 1}) = G[k]
  BY WordEnds
<1> QED BY <1>3, <1>4 DEF PieceAt

LEMMA WordsAre ==
  ASSUME NEW l, NEW a, NEW n, NEW B, NEW F, NEW G, NEW Sym,
         Layout(l, a, n, B, F, G), Spells(l, a, n, F, G, Sym), \A k \in 1..n : ~Quoted(a[k])
  PROVE  Tokens(l, Blank) = [k \in 1..n |-> a[k]]
<1> DEFINE S == Starts(l, Blank)
<1>1. Words(l, n, F, G) /\ Rising(F, n, Len(l))
  BY WordsIn
<1>2. S = Cuts(F, n)
  BY <1>1, WordsStart
<1>3. n \in 0..n
  BY <1>1 DEF Words
<1>4. Cardinality(S) = n
  BY <1>1, <1>2, <1>3, CutsCounted
<1>5. Tokens(l, Blank) = [k \in 1..Cardinality(S) |-> PieceAt(l, Blank, InOrder(S)[k])]
  BY TokensAre
<1>6. ASSUME NEW k \in 1..n PROVE PieceAt(l, Blank, InOrder(S)[k]) = a[k]
  <2>1. InOrder(S)[k] = F[k]
    BY <1>1, <1>2, CutsInOrder
  <2>2. PieceAt(l, Blank, F[k]) = a[k]
    BY <1>1, WordIs
  <2> HIDE DEF S
  <2> QED BY <2>1, <2>2
<1> QED BY <1>4, <1>5, <1>6

(* Without the separator a line is one piece. *)
LEMMA WholeToken ==
  ASSUME NEW Sym, NEW s \in Seq(Sym), s # <<>>, NEW sep, sep \notin Sym
  PROVE  Tokens(s, sep) = <<s>>
<1> DEFINE m == Len(s)
           S == Starts(s, sep)
           Piece(i) == PieceAt(s, sep, i)
<1>1. m \in Nat /\ m >= 1 /\ \A i \in 1..m : s[i] \in Sym /\ s[i] # sep
  BY EmptySeq, LenProperties
<1>2. S = {1}
  <2>1. \A i \in 1..m : ~(s[i - 1] = sep /\ i # 1)
    <3>1. \A i \in 1..m : i # 1 => i - 1 \in 1..m
      BY <1>1
    <3> QED BY <1>1, <3>1
  <2>2. 1 \in 1..m
    BY <1>1
  <2> QED BY <1>1, <2>1, <2>2 DEF Starts
<1>3. Cardinality(S) = 1
  BY <1>2, FS_Singleton
<1>4. InOrder(S)[1] = 1
  <2>1. S \subseteq 1..m /\ 1 \in 1..Cardinality(S)
    BY <1>1, <1>2, <1>3
  <2> HIDE DEF S
  <2>2. InOrder(S)[1] \in S
    BY <1>1, <2>1, InOrderIs
  <2> QED BY <1>2, <2>2
<1>5. Piece(1) = s
  <2>1. {j \in 1..m : s[j] = sep} \cup {m + 1} = {m + 1}
    BY <1>1
  <2>2. Min({m + 1}) = m + 1
    <3>1. {m + 1} \subseteq Nat /\ {m + 1} # {}
      BY <1>1
    <3>2. Min({m + 1}) \in {m + 1}
      BY <3>1, MinIs
    <3> QED BY <3>2
  <2>3. m + 1 - 1 = m
    BY <1>1
  <2> DEFINE x == Min({j \in 1..Len(s) : s[j] = sep} \cup {Len(s) + 1})
  <2>5. Piece(1) = SubSeq(s, 1, x - 1)
    BY DEF PieceAt
  <2>6. x = m + 1
    BY <2>1, <2>2
  <2> DEFINE e == x - 1
  <2>7. e = m
    BY <1>1, <2>6
  <2>8. Piece(1) = SubSeq(s, 1, e)
    BY <2>5
  <2> HIDE DEF e, Piece, m
  <2>4. Piece(1) = SubSeq(s, 1, m)
    BY <2>7, <2>8
  <2> QED BY <2>4, SubSeqFull DEF m
<1>6. Tokens(s, sep) = [k \in 1..Cardinality(S) |-> Piece(InOrder(S)[k])]
  BY TokensAre
<1> HIDE DEF Piece, S
<1>7. Tokens(s, sep) = [k \in 1..1 |-> s]
  <2>1. \A k \in 1..1 : k = 1
    OBVIOUS
  <2> QED BY <1>3, <1>4, <1>5, <1>6, <2>1
<1>8. [k \in 1..1 |-> s] = <<s>>
  OBVIOUS
<1> QED BY <1>7, <1>8

(* 3-ShellP1 takes a line of unquoted arguments apart at its blanks, and hands them *)
(* all over when its name fits into exe (build_cmd_list()).                          *)
THEOREM ArgumentsOfP1 ==
  ASSUME NEW Sym, Clean(Sym), NEW n \in Nat, n >= 1, NEW a \in [1..n -> Seq(Sym)],
         \A k \in 1..n : ~Quoted(a[k]), Len(a[1]) < ExeMax
  PROVE  SplitLine(Written(a)) = [rc |-> "OK", commands |-> <<[argv |-> a]>>]
<1> DEFINE l == Written(a)
           X == Typable(Sym)
<1>1. PICK B, F, G : WrittenAs(Sym, a, n, l, B, F, G)
  BY WrittenLayout
<1> HIDE DEF l
<1>2. l \in Seq(X) /\ l # <<>> /\ NoLeading(l) = l /\ Layout(l, a, n, B, F, G) /\ Spells(l, a, n, F, G, X)
  BY <1>1 DEF WrittenAs
<1>3. "|" \notin X
  BY TypableIs
<1> HIDE DEF X
<1>4. Tokens(l, "|") = <<l>>
  BY <1>2, <1>3, WholeToken
<1>5. Tokens(l, Blank) = a
  <2>1. a = [k \in 1..n |-> a[k]]
    OBVIOUS
  <2>2. Tokens(l, Blank) = [k \in 1..n |-> a[k]]
    BY <1>2, WordsAre
  <2> QED BY <2>1, <2>2
<1>6. Len(a) = n
  <2>1. a = [k \in 1..n |-> a[k]]
    OBVIOUS
  <2> QED BY <2>1, FunctionLen
<1>7. n = 1 => Len(l) = Len(a[1])
  <2>1. F[1] = 1 /\ G[n] = Len(l) + 1 /\ 1 \in 1..n
    <3>1. Words(l, n, F, G)
      BY <1>2, WordsIn
    <3> QED BY <3>1 DEF Words
  <2>2. G[1] = F[1] + Len(a[1]) /\ a[1] \in Seq(X) /\ l \in Seq(X)
    BY <1>2, <2>1 DEF Spells
  <2>3. Len(l) \in Nat /\ Len(a[1]) \in Nat
    BY <2>2, LenProperties
  <2> QED BY <2>1, <2>2, <2>3
<1>8. ExeMax \in Nat /\ CmdMax \in Nat /\ CmdMax >= 1 /\ Len(a[1]) \in Nat
  <2>1. 1 \in 1..n
    OBVIOUS
  <2> QED BY <2>1, BoundsAssumption, LenProperties
<1>9. Command(l) = [argv |-> a]
  <2>1. n = 1 => ~(Len(l) > ExeMax)
    BY <1>7, <1>8
  <2>2. a \o <<>> = a
    <3>1. a \in Seq({a[i] : i \in 1..n})
      <4>1. a = [k \in 1..n |-> a[k]]
        OBVIOUS
      <4> QED BY <4>1, FunctionLen
    <3> QED BY <3>1, ConcatEmptySeq
  <2>3. CASE n = 1
    BY <1>2, <1>5, <1>6, <2>1, <2>2, <2>3 DEF Command
  <2>4. CASE n # 1
    BY <1>2, <1>5, <1>6, <2>4 DEF Command
  <2> QED BY <2>3, <2>4
<1> DEFINE c == [i \in DOMAIN <<l>> |-> Command(<<l>>[i])]
<1>10. c = <<[argv |-> a]>>
  BY <1>9
<1>11. DOMAIN <<l>> = 1..1 /\ Len(<<l>>) = 1 /\ ~(1 > CmdMax) /\ 1 <= CmdMax
  BY <1>8
<1>12. \A i \in 1..1 : c[i].argv[1] = a[1]
  BY <1>10
<1>13. ~\E i \in DOMAIN <<l>> : Len(c[i].argv[1]) >= ExeMax
  BY <1>8, <1>11, <1>12
<1>14. c # <<>>
  BY <1>10
<1>15. SplitLine(l) = [rc |-> IF c = <<>> THEN "WARN_NO_CMDS" ELSE "OK", commands |-> c]
  <2> HIDE DEF c
  <2>1. SplitLine(l) =
          CASE Len(<<l>>) > CmdMax -> NoList("ERR_TOO_MANY_COMMANDS")
            [] Len(<<l>>) <= CmdMax /\ \E i \in DOMAIN <<l>> : Len(c[i].argv[1]) >= ExeMax ->
                 NoList("ERR_CMD_OR_ARGS_TOO_BIG")
            [] OTHER -> [rc |-> IF c = <<>> THEN "WARN_NO_CMDS" ELSE "OK", commands |-> c]
    <3>1. DOMAIN c = DOMAIN <<l>>
      BY DEF c
    <3> QED BY <1>4, <3>1 DEF SplitLine, c
  <2> QED BY <1>11, <1>13, <2>1
<1> HIDE DEF c
<1>16. SplitLine(l) = [rc |-> "OK", commands |-> <<[argv |-> a]>>]
  BY <1>10, <1>14, <1>15
<1> QED BY <1>16 DEF l

-----------------------------------------------------------------------------
(***************************************************************************)
(* The list is what the parser made of the last line.                      *)
(***************************************************************************)
(* The list x is what the parser of shell v makes of the line l, unless l is blank or, in *)
(* 5-ShellP3, has pipes; old are redirections of an earlier line.                        *)
Handed(v, l, x) ==
  /\ v = "P1" => x = SplitLine(l)
  /\ v = "P2" /\ NoLeading(l) # <<>> => x.commands = <<BuildCmdBuffP2(l)>>
  /\ v = "P3" /\ NoLeading(l) # <<>> /\ ~Contains(l, "|") => \E old : x.commands = <<BuildCmdBuffP3(l, old)>>

(* A shell that goes on has parsed its last line. *)
ParsedInv ==
  /\ line \in Seq(Lines) /\ version \in {"P1", "P2", "P3"}
  /\ status = "starts" => line = <<>>
  /\ status = "prompt" /\ line # <<>> => Handed(version, Last(line), list)

LEMMA ParsedStep ==
  ASSUME ParsedInv, [Next]_vars
  PROVE  ParsedInv'
<1>1. ASSUME NEW l \in Lines, line' = Append(line, l), UNCHANGED version, status = "prompt",
             status' # "starts", status' = "prompt" => Handed(version, l, list')
      PROVE  ParsedInv'
  <2>1. line \in Seq(Lines) /\ Len(line) \in Nat
    BY LenProperties DEF ParsedInv
  <2>2. line' \in Seq(Lines) /\ Len(line') = Len(line) + 1 /\ line'[Len(line) + 1] = l
    BY <1>1, <2>1, AppendProperties
  <2>3. Last(line') = l
    BY <2>1, <2>2 DEF Last
  <2>4. status' = "prompt" => Handed(version', Last(line'), list')
    BY <1>1, <2>3
  <2> QED BY <1>1, <2>2, <2>4 DEF ParsedInv
<1>2. CASE UNCHANGED vars
  BY <1>2 DEF vars, ParsedInv
<1>3. CASE Start
  <2>1. status = "starts" /\ UNCHANGED <<version, line>> /\ status' # "starts"
    BY <1>3 DEF Start, Ends
  <2> QED BY <2>1 DEF ParsedInv
<1>4. CASE EndOfInput
  <2>1. status' = "ended" /\ UNCHANGED <<version, line>>
    BY <1>4 DEF EndOfInput, Ends
  <2> QED BY <2>1 DEF ParsedInv
<1>5. ASSUME NEW l \in Lines, ShowP1(l) PROVE ParsedInv'
  <2>1. line' = Append(line, l) /\ UNCHANGED version /\ status = "prompt" /\ version = "P1"
    BY <1>5 DEF ShowP1, Typed
  <2>2. status' \in {"prompt", "ended"} /\ (status' = "prompt" => list' = SplitLine(l))
    BY <1>5, <2>1 DEF ShowP1, Loops, Ends
  <2> QED BY <1>1, <2>1, <2>2 DEF Handed
<1>6. ASSUME NEW l \in Lines, NoCommand(l) PROVE ParsedInv'
  <2>1. /\ line' = Append(line, l) /\ UNCHANGED version /\ status = "prompt" /\ version # "P1"
        /\ NoLeading(l) = <<>> /\ UNCHANGED status
    BY <1>6 DEF NoCommand, Typed, Loops
  <2> QED BY <1>1, <2>1 DEF Handed
<1>7. ASSUME NEW l \in Lines, CrashP2(l) PROVE ParsedInv'
  <2>1. line' = Append(line, l) /\ UNCHANGED version /\ status = "prompt" /\ status' = "crashed"
    BY <1>7 DEF CrashP2, Typed
  <2> QED BY <1>1, <2>1
<1>8. ASSUME NEW l \in Lines, BuiltInP2(l) \/ ExternalP2(l) PROVE ParsedInv'
  <2>1. ParseP2(l, BuildCmdBuffP2(l))
    BY <1>8 DEF BuiltInP2, ExternalP2
  <2>2. /\ line' = Append(line, l) /\ UNCHANGED version /\ status = "prompt" /\ version = "P2"
        /\ list'.commands = <<BuildCmdBuffP2(l)>>
    BY <2>1 DEF ParseP2, Typed
  <2>3. status' # "starts"
    BY <1>8, <2>2 DEF BuiltInP2, ExternalP2, Loops, Ends
  <2> QED BY <1>1, <2>2, <2>3 DEF Handed
<1>9. ASSUME NEW l \in Lines, BuiltInP3(l) \/ ExternalP3(l) PROVE ParsedInv'
  <2>1. ParseP3(l)
    BY <1>9 DEF BuiltInP3, ExternalP3
  <2>2. /\ line' = Append(line, l) /\ UNCHANGED version /\ status = "prompt" /\ version = "P3"
        /\ list'.commands = <<BuildCmdBuffP3(l, cmd)>>
    BY <2>1 DEF ParseP3, Typed
  <2>3. status' # "starts"
    BY <1>9, <2>2 DEF BuiltInP3, ExternalP3, Loops, Ends
  <2> QED BY <1>1, <2>2, <2>3 DEF Handed
<1>10. ASSUME NEW l \in Lines, NotRun(l) \/ SingleP3(l) \/ PipelineRuns(l) \/ PipelineMeets(l) \/ PipelineFails(l)
       PROVE  ParsedInv'
  <2>1. ParseListP3(l)
    BY <1>10 DEF NotRun, SingleP3, PipelineRuns, PipelineMeets, PipelineFails
  <2>2. line' = Append(line, l) /\ UNCHANGED version /\ status = "prompt" /\ version = "P3" /\ Contains(l, "|")
    BY <2>1 DEF ParseListP3, Typed
  <2>3. status' # "starts"
    BY <1>10, <2>2 DEF NotRun, SingleP3, PipelineRuns, PipelineMeets, PipelineFails, Loops, Ends
  <2> QED BY <1>1, <2>2, <2>3 DEF Handed
<1>11. CASE \E l \in IF line = <<>> THEN FirstLines ELSE LaterLines :
             \/ ShowP1(l) \/ NoCommand(l) \/ CrashP2(l) \/ BuiltInP2(l) \/ ExternalP2(l)
             \/ BuiltInP3(l) \/ ExternalP3(l) \/ NotRun(l) \/ SingleP3(l) \/ PipelineRuns(l)
             \/ PipelineMeets(l) \/ PipelineFails(l)
  <2>1. FirstLines \subseteq Lines /\ LaterLines \subseteq Lines
    BY LinesAssumption DEF Lines
  <2>2. \E l \in Lines :
             \/ ShowP1(l) \/ NoCommand(l) \/ CrashP2(l) \/ BuiltInP2(l) \/ ExternalP2(l)
             \/ BuiltInP3(l) \/ ExternalP3(l) \/ NotRun(l) \/ SingleP3(l) \/ PipelineRuns(l)
             \/ PipelineMeets(l) \/ PipelineFails(l)
    BY <1>11, <2>1, Zenon
  <2> QED BY <1>5, <1>6, <1>7, <1>8, <1>9, <1>10, <2>2, Zenon
<1> QED BY <1>2, <1>3, <1>4, <1>11, Zenon DEF Next

WrittenSymbols == {"echo", "f", "d", Blank}

LEMMA WrittenArgsAre ==
  /\ Clean(WrittenSymbols)
  /\ \A w \in WrittenArgs : w \in Seq(WrittenSymbols) /\ (~Quoted(w) => Len(w) = 1)
<1>1. Clean(WrittenSymbols)
  BY Zenon DEF Clean, WrittenSymbols, Quote, Blank
<1>2. Quoted(<<>>)
  BY DEF Quoted
<1>3. Quoted(<<"f", Blank, "d">>)
  BY DEF Quoted, Contains
<1>4. ASSUME NEW w \in WrittenArgs PROVE w \in Seq(WrittenSymbols) /\ (~Quoted(w) => Len(w) = 1)
  <2>1. ASSUME NEW x \in WrittenSymbols, w = <<x>> PROVE w \in Seq(WrittenSymbols) /\ Len(w) = 1
    <3> HIDE DEF WrittenSymbols
    <3> QED BY <2>1
  <2>4. "echo" \in WrittenSymbols /\ "f" \in WrittenSymbols
    BY DEF WrittenSymbols
  <2>2. CASE w = <<>>
    BY <1>2, <2>2, EmptySeq
  <2>3. CASE w = <<"f", Blank, "d">>
    <3>1. Quoted(w)
      BY <1>3, <2>3
    <3>2. w \in Seq(WrittenSymbols)
      BY <2>3 DEF WrittenSymbols
    <3> QED BY <3>1, <3>2
  <2>5. CASE w = <<"echo">>
    BY <2>1, <2>4, <2>5
  <2>6. CASE w = <<"f">>
    BY <2>1, <2>4, <2>6
  <2> QED BY <2>2, <2>3, <2>5, <2>6 DEF WrittenArgs
<1> QED BY <1>1, <1>4

LEMMA ArrivesNow ==
  ASSUME ParsedInv PROVE ArgumentsArrive
<1> SUFFICES ASSUME NEW a \in DOMAIN WrittenLine, line # <<>>, status = "prompt", Last(line) = WrittenLine[a],
                    version = "P1" => ~\E i \in DOMAIN a : Quoted(a[i]),
                    NEW room, room = CASE version = "P1" -> Len(a) [] version = "P2" -> ArgvMax
                                       [] OTHER -> ArgvMax - 1
             PROVE  list.commands[1].argv = SubSeq(a, 1, IF Len(a) < room THEN Len(a) ELSE room)
  BY DEF ArgumentsArrive
<1> DEFINE Sym == WrittenSymbols
           l == Written(a)
<1>1. PICK n \in 1..ArgvMax + 1 : a \in [1..n -> WrittenArgs]
  BY DEF WrittenLine
<1>2. n \in Nat /\ n >= 1 /\ 1 \in 1..n /\ ArgvMax \in Nat /\ ExeMax \in Nat /\ ExeMax > 1
  BY BoundsAssumption
<1>3. a \in [1..n -> Seq(Sym)] /\ Clean(Sym) /\ \A k \in 1..n : ~Quoted(a[k]) => Len(a[k]) = 1
  BY <1>1, WrittenArgsAre
<1>4. Len(a) = n /\ DOMAIN a = 1..n
  <2>1. a = [k \in 1..n |-> a[k]]
    BY <1>1
  <2> QED BY <1>2, <2>1, FunctionLen
<1>5. Last(line) = l
  BY DEF WrittenLine
<1> HIDE DEF Sym, l
<1>6. l # <<>> /\ NoLeading(l) = l /\ ~Contains(l, "|")
  <2>1. PICK B, F, G : WrittenAs(Sym, a, n, l, B, F, G)
    BY <1>2, <1>3, WrittenLayout DEF l
  <2>2. l # <<>> /\ NoLeading(l) = l /\ l \in Seq(Typable(Sym))
    BY <2>1 DEF WrittenAs
  <2>3. "|" \notin Typable(Sym)
    BY <1>3, TypableIs
  <2>4. \A i \in 1..Len(l) : l[i] # "|"
    BY <2>2, <2>3, ElementOfSeq
  <2> QED BY <2>2, <2>4 DEF Contains
<1>7. Handed(version, l, list) /\ version \in {"P1", "P2", "P3"}
  BY <1>5 DEF ParsedInv
<1>8. CASE version = "P1"
  <2>1. room = n
    BY <1>4, <1>8
  <2>2. \A k \in 1..n : ~Quoted(a[k])
    BY <1>4, <1>8
  <2>3. Len(a[1]) < ExeMax
    BY <1>2, <1>3, <2>2
  <2>4. SplitLine(l) = [rc |-> "OK", commands |-> <<[argv |-> a]>>]
    BY <1>2, <1>3, <2>2, <2>3, ArgumentsOfP1 DEF l
  <2>5. list.commands[1].argv = a
    BY <1>7, <1>8, <2>4 DEF Handed
  <2>6. SubSeq(a, 1, n) = a
    <3>1. a \in Seq(Seq(Sym))
      BY <1>2, <1>3, SeqDef
    <3> QED BY <1>4, <3>1, SubSeqFull
  <2> QED BY <1>4, <2>1, <2>5, <2>6
<1>9. CASE version = "P2"
  <2>1. room = ArgvMax
    BY <1>9
  <2>2. BuildCmdBuffP2(l).argv = SubSeq(a, 1, Room(n, ArgvMax))
    BY <1>2, <1>3, ArgumentsOfP2 DEF l
  <2>3. list.commands[1].argv = SubSeq(a, 1, Room(n, ArgvMax))
    BY <1>6, <1>7, <1>9, <2>2 DEF Handed
  <2> QED BY <1>4, <2>1, <2>3 DEF Room
<1>10. CASE version = "P3"
  <2>1. room = ArgvMax - 1
    BY <1>10
  <2>2. PICK old : list.commands = <<BuildCmdBuffP3(l, old)>>
    BY <1>6, <1>7, <1>10 DEF Handed
  <2>3. BuildCmdBuffP3(l, old).argv = SubSeq(a, 1, Room(n, ArgvMax - 1))
    BY <1>2, <1>3, ArgumentsOfP3 DEF l
  <2>4. list.commands[1].argv = SubSeq(a, 1, Room(n, ArgvMax - 1))
    BY <2>2, <2>3
  <2> QED BY <1>4, <2>1, <2>4 DEF Room
<1> QED BY <1>7, <1>8, <1>9, <1>10

(* The command that is run has the arguments the user wrote, quoted where they have to *)
(* be, as many as argv can hold, whichever the shell and whatever was typed before      *)
(* (build_cmd_buff() and build_cmd_list()).                                             *)
THEOREM ArgumentsGiven == Spec => []ArgumentsArrive
<1>1. Init => ParsedInv
  <2>1. <<>> \in Seq(Lines)
    BY EmptySeq
  <2> QED BY <2>1, VersionsAssumption DEF Init, ParsedInv
<1>2. ParsedInv /\ [Next]_vars => ParsedInv'
  BY ParsedStep
<1>3. ParsedInv => ArgumentsArrive
  BY ArrivesNow
<1> QED BY <1>1, <1>2, <1>3, PTL DEF Spec

-----------------------------------------------------------------------------
(***************************************************************************)
(* ">>" keeps what a file has.  The scan meets both marks, each as a       *)
(* redirection: append is set by the first, which sees the second, and     *)
(* nothing takes it back.                                                  *)
(***************************************************************************)
Kept(c) == c.out # None => c.append = TRUE

(* Before a mark that has another one behind it nothing has been overwritten. *)
Marked(l, r, n) ==
  /\ IsPlace(r) /\ r.token \in Nat /\ r.token <= n + 1 /\ Kept(r)
  /\ r.token = n + 1 =>
       /\ \A p \in n + 1..Len(l) : p \in r.nul => l[p] # ">"
       /\ n >= 1 /\ n < Len(l) /\ l[n] = ">" /\ l[n + 1] = ">" /\ ~r.quoted => r.append = TRUE

LEMMA FlagIs == \A b : AppendFlag(TRUE, b) = TRUE /\ AppendFlag(b, TRUE) = TRUE
  BY Zenon DEF AppendFlag

(* What a redirection does to the place of the scan. *)
Redirects(l, r, p, mark, s) ==
  /\ \A x \in p + 1..Len(l) : x \in s.nul => x \in r.nul \/ l[x] # ">"
  /\ mark = "in" => s.out = r.out /\ s.append = r.append
  /\ mark = "out" /\ (r.append = TRUE \/ Char(l, r.nul, p + 1) = ">") => s.append = TRUE

LEMMA RedirectMarks ==
  ASSUME NEW l, Len(l) \in Nat, NEW r, IsPlace(r), NEW p \in 1..Len(l), NEW mark \in {"in", "out"}
  PROVE  Redirects(l, r, p, mark, Redirect(l, r, p, mark))
<1> DEFINE appends == mark = "out" /\ Char(l, r.nul, p + 1) = ">"
           from == IF appends THEN p + 2 ELSE p + 1
           F == {q \in from..Len(l) + 1 : Char(l, r.nul, q) # Blank}
           first == Min(F)
           B == {q \in first..Len(l) + 1 : Char(l, r.nul, q) \in {Blank, "NUL"}}
           behind == Min(B)
           file == Text(l, r.nul \cup {behind}, first)
           s == [Cut(Push(Cut(r, p)), behind) EXCEPT !.start = behind + 1]
<1>1. Char(l, r.nul, Len(l) + 1) = "NUL" /\ Len(l) + 1 > Len(l)
  BY DEF Char
<1>2. from \in Nat /\ from <= Len(l) + 1
  <2>1. appends => p + 1 <= Len(l)
    BY DEF Char
  <2> HIDE DEF appends
  <2> QED BY <2>1
<1>15. mark = "out" /\ Char(l, r.nul, p + 1) = ">" => appends = TRUE
  BY Zenon
<1> HIDE DEF appends, from
<1>3. F \subseteq Nat /\ Len(l) + 1 \in F /\ \A q \in F : q <= Len(l) + 1
  <2>1. F \subseteq Nat /\ \A q \in F : q <= Len(l) + 1
    BY <1>2
  <2>2. Len(l) + 1 \in from..Len(l) + 1
    BY <1>2
  <2>3. Char(l, r.nul, Len(l) + 1) # Blank
    BY <1>1 DEF Blank
  <2> QED BY <2>1, <2>2, <2>3
<1> HIDE DEF F
<1>4. first \in Nat /\ first <= Len(l) + 1
  BY <1>3, MinIs
<1> HIDE DEF first
<1>5. B \subseteq Nat /\ Len(l) + 1 \in B /\ \A q \in B : Char(l, r.nul, q) \in {Blank, "NUL"}
  BY <1>1, <1>4
<1> HIDE DEF B
<1>6. behind \in Nat /\ Char(l, r.nul, behind) \in {Blank, "NUL"}
  BY <1>5, MinIs
<1>7. behind \in p + 1..Len(l) => behind \in r.nul \/ l[behind] # ">"
  <2>1. Blank # ">" /\ "NUL" # ">"
    BY DEF Blank
  <2> QED BY <1>6, <2>1 DEF Char
<1> HIDE DEF behind, file
<1> DEFINE c == Push(Cut(r, p))
           q == Cut(c, behind)
<1>8. IsPlace(c) /\ c.quoted = r.quoted /\ c.token = r.token /\ IsPlace(Cut(r, p))
  BY PushIs, CutIs
<1>9. c.nul = r.nul \cup {p} /\ c.out = r.out /\ c.append = r.append
  BY DEF IsPlace, Push, Cut
<1> HIDE DEF c
<1>10. /\ IsPlace(q) /\ q.quoted = r.quoted /\ q.token = r.token
       /\ q.nul = r.nul \cup {p, behind} /\ q.out = r.out /\ q.append = r.append
  BY <1>8, <1>9 DEF IsPlace, Cut
<1>11. s = [q EXCEPT !.start = behind + 1]
  BY DEF c
<1> HIDE DEF q, s
<1>12. /\ DOMAIN s = {"start", "token", "quoted", "argv", "nul", "in", "out", "append"}
       /\ s.quoted = r.quoted /\ s.token = r.token
       /\ s.nul = r.nul \cup {p, behind} /\ s.out = r.out /\ s.append = r.append
  BY <1>10, <1>11 DEF IsPlace
<1> DEFINE x == [s EXCEPT !.in = file]
           y == [s EXCEPT !.out = file, !.append = AppendFlag(@, appends)]
<1>13. Redirect(l, r, p, mark) = IF mark = "in" THEN x ELSE y
  BY DEF Redirect, s, q, c, file, behind, B, first, F, from, appends
<1>14. /\ x.quoted = r.quoted /\ x.token = r.token /\ x.nul = s.nul /\ x.out = r.out /\ x.append = r.append
       /\ y.quoted = r.quoted /\ y.token = r.token /\ y.nul = s.nul /\ y.append = AppendFlag(r.append, appends)
  BY <1>12
<1> HIDE DEF x, y
<1>16. r.append = TRUE \/ appends = TRUE => y.append = TRUE
  BY <1>14, FlagIs
<1>17. \A z \in p + 1..Len(l) : z \in s.nul => z \in r.nul \/ l[z] # ">"
  <2>1. \A z \in p + 1..Len(l) : z # p
    OBVIOUS
  <2> QED BY <1>7, <1>12, <2>1
<1>18. CASE mark = "in"
  <2> DEFINE z == Redirect(l, r, p, mark)
  <2>1. z = x /\ mark # "out"
    BY <1>13, <1>18
  <2> HIDE DEF z
  <2>2. /\ z.quoted = r.quoted /\ z.token = r.token /\ z.nul = s.nul /\ z.out = r.out /\ z.append = r.append
    BY <1>14, <2>1
  <2> QED BY <1>17, <2>1, <2>2 DEF z, Redirects
<1>19. CASE mark = "out"
  <2> DEFINE z == Redirect(l, r, p, mark)
  <2>1. z = y /\ mark # "in"
    BY <1>13, <1>19
  <2> HIDE DEF z
  <2>2. /\ z.quoted = r.quoted /\ z.token = r.token /\ z.nul = s.nul
        /\ (r.append = TRUE \/ Char(l, r.nul, p + 1) = ">" => z.append = TRUE)
    BY <1>14, <1>15, <1>16, <1>19, <2>1
  <2> QED BY <1>17, <2>1, <2>2 DEF z, Redirects
<1> QED BY <1>18, <1>19

(* A step that is no redirection leaves the redirections as they are. *)
LEMMA OtherMarks ==
  ASSUME NEW l, NEW r, IsPlace(r), NEW p \in Nat, IsQuote(l[p]) \/ IsBlank(l[p]) \/ IsOther(l[p]) \/ r.quoted
  PROVE  LET s == StepP3(l, r, p) IN
         /\ s.out = r.out /\ s.append = r.append
         /\ s.nul = r.nul \/ s.nul = r.nul \cup {p}
<1> DEFINE c == Push(Cut(r, p))
           s == StepP3(l, r, p)
<1>1. IsPlace(c) /\ c.nul = r.nul \cup {p} /\ c.out = r.out /\ c.append = r.append
  <2>1. IsPlace(c)
    BY PushIs, CutIs
  <2> QED BY <2>1 DEF IsPlace, Push, Cut
<1>2. \/ s = r \/ s = Opens(r, p + 1) \/ s = Closes(c, p + 1)
      \/ s = Starting(r, p + 1) \/ s = Starting(c, p + 1)
  <2> HIDE DEF c, s
  <2>1. CASE r.quoted
    <3>1. IsQuote(l[p]) => s = Closes(c, p + 1)
      BY <2>1, SteppedP3 DEF c, s
    <3>2. ~IsQuote(l[p]) => s = r
      BY <2>1, SteppedP3 DEF s
    <3> QED BY <3>1, <3>2
  <2>2. CASE ~r.quoted /\ IsQuote(l[p])
    <3>1. s = Opens(r, p + 1)
      BY <2>2, SteppedP3 DEF s
    <3> QED BY <3>1
  <2>3. CASE ~r.quoted /\ IsBlank(l[p])
    <3>1. r.start = p => s = Starting(r, p + 1)
      BY <2>3, SteppedP3 DEF s
    <3>2. r.start # p => s = Starting(c, p + 1)
      BY <2>3, SteppedP3 DEF c, s
    <3> QED BY <3>1, <3>2
  <2>4. CASE ~r.quoted /\ IsOther(l[p])
    BY <2>4, SteppedP3 DEF s
  <2> QED BY <2>1, <2>2, <2>3, <2>4
<1> HIDE DEF c, s
<1>3. ASSUME NEW q, IsPlace(q), NEW t, t = q \/ t = Opens(q, p + 1) \/ t = Closes(q, p + 1) \/ t = Starting(q, p + 1)
      PROVE  t.nul = q.nul /\ t.out = q.out /\ t.append = q.append
  BY <1>3 DEF IsPlace, Opens, Closes, Starting
<1>4. \/ s.nul = r.nul /\ s.out = r.out /\ s.append = r.append
      \/ s.nul = c.nul /\ s.out = c.out /\ s.append = c.append
  <2> DEFINE Same(q) == s.nul = q.nul /\ s.out = q.out /\ s.append = q.append
  <2>1. CASE s = r \/ s = Opens(r, p + 1) \/ s = Starting(r, p + 1)
    <3>1. Same(r)
      BY <1>3, <2>1
    <3> QED BY <3>1
  <2>2. CASE s = Closes(c, p + 1) \/ s = Starting(c, p + 1)
    <3>1. Same(c)
      BY <1>1, <1>3, <2>2
    <3> QED BY <3>1
  <2> QED BY <1>2, <2>1, <2>2
<1>5. s.out = r.out /\ s.append = r.append /\ (s.nul = r.nul \/ s.nul = r.nul \cup {p})
  BY <1>1, <1>4
<1> QED BY <1>5 DEF s

LEMMA StepRedirects ==
  ASSUME NEW l, NEW r, NEW p, ~r.quoted
  PROVE  /\ l[p] = "<" => StepP3(l, r, p) = Redirect(l, r, p, "in")
         /\ l[p] = ">" => StepP3(l, r, p) = Redirect(l, r, p, "out")
<1>1. "<" # Quote /\ "<" # Blank /\ ">" # Quote /\ ">" # Blank /\ "<" # ">"
  BY Zenon DEF Quote, Blank
<1>2. ASSUME l[p] = "<" PROVE StepP3(l, r, p) = Redirect(l, r, p, "in")
  BY <1>1, <1>2, Zenon DEF StepP3
<1>3. ASSUME l[p] = ">" PROVE StepP3(l, r, p) = Redirect(l, r, p, "out")
  BY <1>1, <1>3, Zenon DEF StepP3
<1> QED BY <1>2, <1>3

LEMMA MarkStep ==
  ASSUME NEW l \in Lines, Appending(l), NEW limit, NEW n \in 1..Len(l), NEW r, Marked(l, r, n - 1),
         NEW s, s = NextPlace(l, "P3", limit, r, n)
  PROVE  Marked(l, s, n)
<1>1. Len(l) \in Nat /\ DOMAIN l = 1..Len(l) /\ n \in Nat /\ (n - 1) + 1 = n
  BY LineIs
<1>2. IsPlace(r) /\ r.token \in Nat /\ r.token <= n /\ Kept(r)
  BY <1>1 DEF Marked
<1> DEFINE t == StepP3(l, r, n)
<1>3. s = r \/ (r.token = n /\ s = [t EXCEPT !.token = n + 1])
  BY DEF NextPlace
<1>4. IsPlace(t)
  BY <1>1, <1>2, StepP3Grows DEF Grows
<1> HIDE DEF t
<1>5. CASE s = r
  <2>1. r.token <= n + 1 /\ r.token # n + 1
    BY <1>1, <1>2
  <2> QED BY <1>2, <1>5, <2>1 DEF Marked
<1>6. CASE r.token = n /\ s = [t EXCEPT !.token = n + 1]
  <2>1. /\ IsPlace(s) /\ s.token = n + 1 /\ s.quoted = t.quoted /\ s.nul = t.nul
        /\ s.out = t.out /\ s.append = t.append
    BY <1>4, <1>6 DEF IsPlace
  <2>2. /\ \A p \in n..Len(l) : p \in r.nul => l[p] # ">"
        /\ n > 1 /\ l[n - 1] = ">" /\ l[n] = ">" /\ ~r.quoted => r.append = TRUE
    <3>1. n > 1 => n - 1 >= 1 /\ n - 1 < Len(l)
      BY <1>1
    <3> QED BY <1>1, <1>6, <3>1 DEF Marked
  <2>3. SUFFICES /\ t.out # None => t.append = TRUE
                 /\ \A p \in n + 1..Len(l) : p \in t.nul => l[p] # ">"
                 /\ l[n] = ">" /\ ~t.quoted => t.append = TRUE
    <3>1. s.token \in Nat /\ s.token <= n + 1
      BY <1>1, <2>1
    <3> QED BY <2>1, <2>3, <3>1 DEF Marked, Kept
  <2>4. \A p \in n + 1..Len(l) : p \in n..Len(l) /\ p # n
    BY <1>1
  <2>5. CASE ~r.quoted /\ l[n] = ">"
    <3>1. t = Redirect(l, r, n, "out")
      BY <2>5, StepRedirects DEF t
    <3>2. Char(l, r.nul, n + 1) = ">" \/ r.append = TRUE
      <4>1. n \in DOMAIN l
        BY <1>1
      <4>2. CASE n > 1 /\ l[n - 1] = ">"
        BY <2>2, <2>5, <4>2
      <4>3. CASE n < Len(l) /\ l[n + 1] = ">"
        <5>1. n + 1 \in n..Len(l) /\ ~(n + 1 > Len(l))
          BY <1>1, <4>3
        <5>2. n + 1 \notin r.nul
          BY <2>2, <4>3, <5>1
        <5> QED BY <4>3, <5>1, <5>2 DEF Char
      <4> QED BY <2>5, <4>1, <4>2, <4>3 DEF Appending
    <3>4. Redirects(l, r, n, "out", t)
      BY <1>1, <1>2, <3>1, RedirectMarks
    <3>3. /\ t.append = TRUE
          /\ \A x \in n + 1..Len(l) : x \in t.nul => x \in r.nul \/ l[x] # ">"
      BY <3>2, <3>4 DEF Redirects
    <3> QED BY <2>2, <2>4, <3>3
  <2>6. CASE ~r.quoted /\ l[n] = "<"
    <3>1. t = Redirect(l, r, n, "in")
      BY <2>6, StepRedirects DEF t
    <3>2. /\ t.out = r.out /\ t.append = r.append
          /\ \A x \in n + 1..Len(l) : x \in t.nul => x \in r.nul \/ l[x] # ">"
      <4>1. Redirects(l, r, n, "in", t)
        BY <1>1, <1>2, <3>1, RedirectMarks
      <4> QED BY <4>1 DEF Redirects
    <3>3. l[n] # ">"
      BY <2>6
    <3> QED BY <1>2, <2>2, <2>4, <3>2, <3>3 DEF Kept
  <2>7. CASE r.quoted \/ (l[n] # ">" /\ l[n] # "<")
    <3>1. IsQuote(l[n]) \/ IsBlank(l[n]) \/ IsOther(l[n]) \/ r.quoted
      BY <2>7, Zenon DEF IsQuote, IsBlank, IsOther
    <3>2. t.out = r.out /\ t.append = r.append /\ (t.nul = r.nul \/ t.nul = r.nul \cup {n})
      BY <1>1, <1>2, <3>1, OtherMarks DEF t
    <3>3. l[n] = ">" => t.quoted
      <4> SUFFICES ASSUME l[n] = ">" PROVE t.quoted
        OBVIOUS
      <4>1. r.quoted /\ ~IsQuote(l[n])
        BY <2>7, Zenon DEF IsQuote, Quote
      <4>2. t = r
        BY <4>1, SteppedP3 DEF t
      <4> QED BY <4>1, <4>2
    <3> QED BY <1>2, <2>2, <2>4, <3>2, <3>3 DEF Kept
  <2> QED BY <2>5, <2>6, <2>7
<1> QED BY <1>3, <1>5, <1>6

LEMMA ScanMarks ==
  ASSUME NEW l \in Lines, Appending(l), NEW base, IsPlace(base), base.token = 1, base.nul = {}, Kept(base),
         NEW limit
  PROVE  Kept(ScanLine(l, "P3", base, limit))
<1> DEFINE S == ScanUpTo(l, "P3", base, limit)
           T == {n \in 0..Len(l) : ~Marked(l, S[n], n)}
<1>0. Len(l) \in Nat /\ Len(l) \in 0..Len(l)
  BY LineIs
<1>1. S[0] = base /\ \A n \in 1..Len(l) : S[n] = NextPlace(l, "P3", limit, S[n - 1], n)
  BY <1>0, ScanStep
<1> HIDE DEF S
<1>2. T = {}
  <2> SUFFICES ASSUME T # {} PROVE FALSE
    OBVIOUS
  <2>1. PICK n \in T : \A m \in T : ~(m < n)
    <3>1. T \subseteq Nat
      BY <1>0
    <3> HIDE DEF T
    <3> QED BY <3>1, LeastNumber
  <2>2. n # 0
    <3>1. Marked(l, base, 0)
      BY <1>0 DEF Marked
    <3> QED BY <1>1, <2>1, <3>1
  <2>3. n \in 1..Len(l) /\ n - 1 \in 0..Len(l) /\ n - 1 < n
    BY <1>0, <2>1, <2>2
  <2>4. Marked(l, S[n - 1], n - 1)
    BY <2>1, <2>3
  <2>5. Marked(l, S[n], n)
    BY <1>1, <2>3, <2>4, MarkStep
  <2> QED BY <2>1, <2>5
<1>3. Marked(l, S[Len(l)], Len(l))
  BY <1>0, <1>2
<1> QED BY <1>3 DEF Marked, ScanLine, S

LEMMA NoLeadingAppends ==
  ASSUME NEW s \in Lines, Appending(s)
  PROVE  Appending(NoLeading(s))
<1> DEFINE n == NoLeading(s)
<1>1. n \in Lines /\ \E k \in 0..Len(s) : /\ Len(n) = Len(s) - k /\ \A i \in 1..k : s[i] = Blank
                                          /\ \A i \in 1..(Len(s) - k) : n[i] = s[k + i]
  BY NoLeadingIs
<1> HIDE DEF n
<1>2. PICK k \in 0..Len(s) : /\ Len(n) = Len(s) - k /\ \A i \in 1..k : s[i] = Blank
                             /\ \A i \in 1..(Len(s) - k) : n[i] = s[k + i]
  BY <1>1
<1>3. Len(s) \in Nat /\ DOMAIN s = 1..Len(s) /\ DOMAIN n = 1..Len(n)
  BY <1>1, LineIs
<1>4. ASSUME NEW i \in DOMAIN n, n[i] = ">" PROVE (i > 1 /\ n[i - 1] = ">") \/ (i < Len(n) /\ n[i + 1] = ">")
  <2>1. i \in 1..(Len(s) - k) /\ k + i \in DOMAIN s /\ s[k + i] = ">"
    BY <1>2, <1>3, <1>4
  <2>2. CASE k + i > 1 /\ s[(k + i) - 1] = ">"
    <3>1. i # 1
      <4>1. i = 1 => (k + i) - 1 = k /\ k \in 1..k
        BY <2>1, <2>2
      <4> QED BY <1>2, <2>2, <4>1 DEF Blank
    <3>2. i - 1 \in 1..(Len(s) - k) /\ k + (i - 1) = (k + i) - 1 /\ i > 1
      BY <1>3, <2>1, <3>1
    <3> QED BY <1>2, <2>2, <3>2
  <2>3. CASE k + i < Len(s) /\ s[(k + i) + 1] = ">"
    <3>1. i + 1 \in 1..(Len(s) - k) /\ k + (i + 1) = (k + i) + 1 /\ i < Len(n)
      BY <1>2, <1>3, <2>1, <2>3
    <3> QED BY <1>2, <2>3, <3>1
  <2> QED BY <2>1, <2>2, <2>3 DEF Appending
<1>5. Appending(n)
  BY <1>4 DEF Appending
<1> QED BY <1>5 DEF n

(* A command read from such a line has no output file without append. *)
LEMMA BuildKeeps ==
  ASSUME NEW typed \in Lines, Appending(typed), NEW old, Kept(old)
  PROVE  Kept(BuildCmdBuffP3(typed, old))
<1> DEFINE l == NoLeading(typed)
           base == [Scan EXCEPT !.start = 1, !.in = old.in, !.out = old.out, !.append = old.append]
           r == ScanLine(l, "P3", base, ArgvMax - 1)
           c == BuildCmdBuffP3(typed, old)
<1>1. l \in Lines /\ Appending(l)
  BY NoLeadingIs, NoLeadingAppends
<1>2. IsPlace(base) /\ base.argv = <<>> /\ base.token = 1 /\ base.nul = {} /\ Kept(base)
  BY DEF Scan, IsPlace, Kept
<1>3. c = Parsed(l, r) \/ c = Parsed(l, Push(r))
  BY DEF BuildCmdBuffP3
<1> HIDE DEF c, l, base
<1>4. Kept(r)
  BY <1>1, <1>2, ScanMarks
<1>5. IsPlace(r)
  <2>1. ArgvMax - 1 \in Nat /\ Len(l) \in Nat /\ Len(l) \in 0..Len(l)
    BY <1>1, BoundsAssumption, LineIs
  <2> QED BY <1>2, <2>1, ScanBounded DEF ScanLine
<1> HIDE DEF r
<1>6. Push(r).out = r.out /\ Push(r).append = r.append
  BY <1>5 DEF IsPlace, Push
<1>7. Kept(c)
  BY <1>3, <1>4, <1>6 DEF Kept, Parsed
<1> QED BY <1>7 DEF c

(* A pipe symbol is no ">": what stands between two of them is such a line again. *)
LEMMA SegmentAppends ==
  ASSUME NEW l \in Lines, Appending(l), NEW k \in DOMAIN Tokens(l, "|")
  PROVE  Appending(Tokens(l, "|")[k])
<1> DEFINE i == InOrder(Starts(l, "|"))[k]
           T == {j \in i..Len(l) : l[j] = "|"} \cup {Len(l) + 1}
           e == Min(T)
           g == Tokens(l, "|")[k]
<1>1. Len(l) \in Nat /\ DOMAIN l = 1..Len(l) /\ Starts(l, "|") \subseteq 1..Len(l)
  BY LineIs DEF Starts
<1>2. k \in 1..Cardinality(Starts(l, "|"))
  BY TokensIs
<1>3. i \in Starts(l, "|")
  BY <1>1, <1>2, InOrderIs
<1>4. g = SubSeq(l, i, e - 1)
  BY <1>2 DEF Tokens
<1> HIDE DEF i, g
<1>5. i \in 1..Len(l) /\ (i = 1 \/ l[i - 1] = "|")
  BY <1>3 DEF Starts
<1>6. T \subseteq Nat /\ T # {} /\ \A j \in T : i <= j /\ j <= Len(l) + 1 /\ (j = Len(l) + 1 \/ l[j] = "|")
  BY <1>1, <1>5
<1> HIDE DEF T
<1>7. e \in Nat /\ i <= e /\ e <= Len(l) + 1 /\ (e = Len(l) + 1 \/ l[e] = "|")
  BY <1>6, MinIs
<1> HIDE DEF e
<1>8. e - 1 \in Nat /\ e - 1 <= Len(l) /\ i <= (e - 1) + 1 /\ (e - 1) - i + 1 = e - i /\ i \in Nat /\ 1 <= i
  BY <1>1, <1>5, <1>7
<1>9. g \in Lines /\ Len(g) = e - i /\ \A x \in 1..(e - i) : g[x] = l[i + x - 1]
  BY <1>4, <1>8, PieceIs
<1>10. DOMAIN g = 1..(e - i)
  BY <1>9, LineIs
<1>11. ASSUME NEW x \in DOMAIN g, g[x] = ">" PROVE (x > 1 /\ g[x - 1] = ">") \/ (x < Len(g) /\ g[x + 1] = ">")
  <2> DEFINE p == i + x - 1
  <2>1. x \in Nat /\ x >= 1 /\ x <= e - i /\ p \in DOMAIN l /\ l[p] = ">" /\ p \in Nat
    BY <1>1, <1>5, <1>7, <1>9, <1>10, <1>11
  <2>2. CASE p > 1 /\ l[p - 1] = ">"
    <3>1. x # 1
      <4>1. x = 1 => p = i
        BY <1>8
      <4> QED BY <1>5, <2>2, <4>1
    <3>2. x - 1 \in 1..(e - i) /\ i + (x - 1) - 1 = p - 1 /\ x > 1
      BY <1>8, <2>1, <3>1
    <3> QED BY <1>9, <2>2, <3>2
  <2>3. CASE p < Len(l) /\ l[p + 1] = ">"
    <3>1. p + 1 # e
      <4>1. p + 1 <= Len(l)
        BY <1>1, <2>1, <2>3
      <4> QED BY <1>1, <1>7, <2>3, <4>1
    <3>2. x + 1 \in 1..(e - i) /\ i + (x + 1) - 1 = p + 1 /\ x < e - i
      BY <1>7, <1>8, <2>1, <3>1
    <3> QED BY <1>9, <2>3, <3>2
  <2>4. (p > 1 /\ l[p - 1] = ">") \/ (p < Len(l) /\ l[p + 1] = ">")
    <3> HIDE DEF p
    <3> QED BY <2>1 DEF Appending
  <2> QED BY <2>2, <2>3, <2>4
<1>12. Appending(g)
  BY <1>11 DEF Appending
<1> QED BY <1>12 DEF g

-----------------------------------------------------------------------------
(* A sequence of whatever it has. *)
Listed(f) == f \in Seq({f[i] : i \in DOMAIN f})

LEMMA ListedIs ==
  ASSUME NEW S, NEW f \in Seq(S)
  PROVE  Listed(f)
<1>1. Len(f) \in Nat /\ f \in [1..Len(f) -> S]
  BY LenProperties
<1>2. f = [i \in 1..Len(f) |-> f[i]] /\ DOMAIN f = 1..Len(f)
  BY <1>1
<1>3. f \in Seq({f[i] : i \in 1..Len(f)})
  BY <1>1, <1>2, FunctionLen
<1> QED BY <1>2, <1>3 DEF Listed

(* f is at the beginning of g. *)
LEMMA PrefixIs ==
  ASSUME NEW S, NEW f \in Seq(S), NEW g \in Seq(S)
  PROVE  IsPrefix(f, f \o g) /\ IsPrefix(f, f) /\ f \o g \in Seq(S)
<1> DEFINE h == f \o g
           n == Len(f)
<1>1. n \in Nat /\ \A i \in 1..n : f[i] \in S
  BY LenProperties, ElementOfSeq
<1>2. h \in Seq(S) /\ Len(h) = n + Len(g) /\ \A i \in 1..n + Len(g) : h[i] = IF i <= n THEN f[i] ELSE g[i - n]
  BY ConcatProperties
<1>3. Len(g) \in Nat /\ \A i \in 1..n : i \in 1..n + Len(g) /\ i <= n
  BY <1>1, LenProperties
<1> HIDE DEF h
<1>4. \A i \in 1..n : h[i] = f[i]
  BY <1>2, <1>3
<1>5. SubSeq(f, 1, n) = SubSeq(h, 1, n)
  <2> DEFINE u == SubSeq(f, 1, n)
             v == SubSeq(h, 1, n)
  <2>1. n - 1 + 1 = n /\ 1 \in Int /\ n \in Int /\ \A i \in 1..n : 1 + i - 1 = i
    BY <1>1
  <2>2. u \in Seq(S) /\ Len(u) = (IF 1 <= n THEN n - 1 + 1 ELSE 0) /\ \A i \in 1..n - 1 + 1 : u[i] = f[1 + i - 1]
    BY <1>1, <2>1, SubSeqProperties
  <2>3. v \in Seq(S) /\ Len(v) = (IF 1 <= n THEN n - 1 + 1 ELSE 0) /\ \A i \in 1..n - 1 + 1 : v[i] = h[1 + i - 1]
    BY <1>1, <1>4, <2>1, SubSeqProperties
  <2> HIDE DEF u, v
  <2>4. Len(u) = n /\ Len(v) = n
    BY <1>1, <2>1, <2>2, <2>3
  <2>5. \A i \in 1..n : u[i] = v[i]
    BY <1>4, <2>1, <2>2, <2>3
  <2>6. u = v
    BY <2>2, <2>3, <2>4, <2>5, SeqEqual
  <2> QED BY <2>6 DEF u, v
<1>6. n <= Len(h) /\ n <= n
  BY <1>1, <1>2, <1>3
<1>7. IsPrefix(f, h) /\ IsPrefix(f, f)
  BY <1>5, <1>6 DEF IsPrefix
<1> QED BY <1>2, <1>7 DEF h

LEMMA ListedConcat ==
  ASSUME NEW f, NEW g, Listed(f), Listed(g)
  PROVE  Listed(f \o g) /\ IsPrefix(f, f \o g) /\ IsPrefix(f, f)
<1> DEFINE S == {f[i] : i \in DOMAIN f} \cup {g[i] : i \in DOMAIN g}
<1>1. f \in Seq(S) /\ g \in Seq(S)
  BY SeqDef DEF Listed
<1> HIDE DEF S
<1>2. f \o g \in Seq(S) /\ IsPrefix(f, f \o g) /\ IsPrefix(f, f)
  BY <1>1, PrefixIs
<1> QED BY <1>2, ListedIs

LEMMA EmptyListed == Listed(<<>>)
  BY EmptySeq, ListedIs

(* The files are sequences, whatever is written to them. *)
FilesListed == \A p \in DOMAIN files : Listed(files[p])

LEMMA FlattenListed ==
  ASSUME NEW m \in Nat, m >= 1, NEW s, s = [i \in 1..m |-> s[i]], \A i \in 1..m : Listed(s[i])
  PROVE  Listed(FlattenSeq(s))
<1> DEFINE Sym == UNION {{s[i][j] : j \in DOMAIN s[i]} : i \in 1..m}
<1>1. ASSUME NEW i \in 1..m PROVE s[i] \in Seq(Sym)
  <2>1. {s[i][j] : j \in DOMAIN s[i]} \subseteq Sym
    OBVIOUS
  <2>2. s[i] \in Seq({s[i][j] : j \in DOMAIN s[i]})
    BY DEF Listed
  <2> HIDE DEF Sym
  <2> QED BY <2>1, <2>2, SeqDef
<1> HIDE DEF Sym
<1>2. s \in Parts(Sym, m)
  BY <1>1 DEF Parts
<1>3. PICK F : Joins(F, s, Sym, m) /\ FlattenSeq(s) = F[m]
  BY <1>2, FlattenIs
<1>4. F[m] \in Seq(Sym)
  BY <1>3 DEF Joins, Parts
<1> QED BY <1>3, <1>4, ListedIs

LEMMA OutputListed ==
  ASSUME NEW c, NEW S, c.argv \in Seq(S), NEW f, \A p \in DOMAIN f : Listed(f[p])
  PROVE  Listed(Output(c, f))
<1> DEFINE Contents(n) == IF Place(n) \in DOMAIN f /\ Place(n) # Place(c.out) THEN f[Place(n)] ELSE <<>>
           s == [i \in 1..Len(c.argv) - 1 |-> Contents(c.argv[i + 1])]
<1>1. \A n : Listed(Contents(n))
  BY EmptyListed
<1>2. Len(c.argv) \in Nat
  BY LenProperties
<1>3. CASE Name(c) = <<"echo">>
  <2>1. Output(c, f) = Tail(c.argv)
    BY <1>3 DEF Output
  <2>2. c.argv # <<>>
    <3>1. <<"echo">> # <<>>
      OBVIOUS
    <3> QED BY <1>3, <3>1 DEF Name
  <2>3. Tail(c.argv) \in Seq(S)
    BY <2>2, HeadTailProperties
  <2> QED BY <2>1, <2>3, ListedIs
<1>4. CASE Name(c) # <<"echo">> /\ Len(c.argv) > 1
  <2>1. Output(c, f) = FlattenSeq(s)
    BY <1>4 DEF Output
  <2> HIDE DEF Contents
  <2>2. Len(c.argv) - 1 \in Nat /\ Len(c.argv) - 1 >= 1
    BY <1>2, <1>4
  <2>3. s = [i \in 1..Len(c.argv) - 1 |-> s[i]] /\ \A i \in 1..Len(c.argv) - 1 : Listed(s[i])
    BY <1>1
  <2> HIDE DEF s
  <2> QED BY <2>1, <2>2, <2>3, FlattenListed
<1>5. CASE Name(c) # <<"echo">> /\ ~(Len(c.argv) > 1)
  <2>1. Output(c, f) = IF c.in = None THEN <<>> ELSE Contents(c.in)
    BY <1>5 DEF Output
  <2> HIDE DEF Contents
  <2> QED BY <1>1, <2>1, EmptyListed
<1> QED BY <1>3, <1>4, <1>5

Safe(c) == Kept(c) /\ Listed(c.argv)

LEMMA ParsedListed ==
  ASSUME NEW l, NEW r, IsPlace(r)
  PROVE  Listed(Parsed(l, r).argv)
<1> DEFINE f == Parsed(l, r).argv
           m == Len(r.argv)
<1>1. m \in Nat /\ DOMAIN r.argv = 1..m
  BY LenProperties DEF IsPlace
<1>2. f = [i \in DOMAIN r.argv |-> Text(l, r.nul, r.argv[i])]
  BY DEF Parsed
<1> HIDE DEF f, m
<1>3. f = [i \in 1..m |-> f[i]]
  BY <1>1, <1>2
<1>4. Listed(f)
  BY <1>1, <1>3, FunctionLen, ListedIs
<1> QED BY <1>4 DEF f

LEMMA BuildSafe ==
  ASSUME NEW typed \in Lines, Appending(typed), NEW old, Kept(old)
  PROVE  Safe(BuildCmdBuffP3(typed, old))
<1> DEFINE l == NoLeading(typed)
           base == [Scan EXCEPT !.start = 1, !.in = old.in, !.out = old.out, !.append = old.append]
           r == ScanLine(l, "P3", base, ArgvMax - 1)
           c == BuildCmdBuffP3(typed, old)
<1>1. c = Parsed(l, r) \/ c = Parsed(l, Push(r))
  BY DEF BuildCmdBuffP3
<1>2. IsPlace(base) /\ base.argv = <<>>
  BY DEF Scan, IsPlace
<1>3. l \in Lines /\ Len(l) \in Nat /\ Len(l) \in 0..Len(l) /\ ArgvMax - 1 \in Nat
  <2>1. l \in Lines
    BY NoLeadingIs
  <2> HIDE DEF l
  <2> QED BY <2>1, LineIs, BoundsAssumption
<1> HIDE DEF c, l, base
<1>4. IsPlace(r)
  BY <1>2, <1>3, ScanBounded DEF ScanLine
<1>5. IsPlace(Push(r))
  BY <1>4, PushIs
<1> HIDE DEF r
<1>6. Listed(c.argv)
  BY <1>1, <1>4, <1>5, ParsedListed
<1> QED BY <1>6, BuildKeeps DEF Safe, c

LEMMA ListSafe ==
  ASSUME NEW l \in Lines, Appending(l), NEW x, x = BuildCmdListP3(l), Len(x.commands) = 1
  PROVE  Safe(x.commands[1])
<1> DEFINE segments == Tokens(l, "|")
           S == {i \in DOMAIN segments : NoLeading(segments[i]) # <<>>}
           full == InOrder(S)
           new == [in |-> None, out |-> None, append |-> FALSE]
           commands == [k \in DOMAIN full |-> BuildCmdBuffP3(segments[full[k]], new)]
<1>1. /\ Len(segments) \in Nat /\ DOMAIN segments = 1..Len(segments)
      /\ \A k \in DOMAIN segments : segments[k] \in Lines /\ Appending(segments[k])
  BY TokensIs, SegmentAppends
<1>2. x.commands = <<>> \/ x.commands = commands
  BY DEF BuildCmdListP3, NoList
<1>3. Kept(new)
  BY DEF Kept
<1> HIDE DEF segments, new
<1>4. S \subseteq 1..Len(segments) /\ S \subseteq DOMAIN segments
  BY <1>1
<1> HIDE DEF S
<1>5. Len(full) = Cardinality(S) /\ DOMAIN full = 1..Cardinality(S) /\ Cardinality(S) \in Nat
  BY <1>1, <1>4, InOrderLen
<1>6. \A k \in 1..Cardinality(S) : full[k] \in S
  BY <1>1, <1>4, InOrderIs
<1> HIDE DEF full
<1>7. Len(commands) = Cardinality(S) /\ DOMAIN commands = 1..Cardinality(S)
  <2>1. commands = [k \in 1..Cardinality(S) |-> commands[k]]
    BY <1>5
  <2> HIDE DEF commands
  <2> QED BY <1>5, <2>1, FunctionLen
<1>8. x.commands = commands
  <2>1. Len(<<>>) = 0
    OBVIOUS
  <2> HIDE DEF commands
  <2> QED BY <1>2, <2>1
<1>9. 1 \in 1..Cardinality(S)
  <2> HIDE DEF commands
  <2> QED BY <1>5, <1>7, <1>8
<1>10. commands[1] = BuildCmdBuffP3(segments[full[1]], new)
  BY <1>5, <1>9
<1> HIDE DEF commands
<1>11. segments[full[1]] \in Lines /\ Appending(segments[full[1]])
  BY <1>1, <1>4, <1>6, <1>9
<1> QED BY <1>3, <1>8, <1>10, <1>11, BuildSafe

(* A file is opened and written: what it had stays at its beginning. *)
LEMMA AfterKeeps ==
  ASSUME FilesListed, NEW c, Safe(c)
  PROVE  /\ \A p \in DOMAIN files : p \in DOMAIN After(c) /\ IsPrefix(files[p], After(c)[p])
         /\ \A p \in DOMAIN After(c) : Listed(After(c)[p])
<1> DEFINE g == Opened(c)
           out == Place(c.out)
           o == Output(c, g)
<1>1. \A p \in DOMAIN files : IsPrefix(files[p], files[p]) /\ Listed(files[p])
  BY ListedConcat DEF FilesListed
<1>2. /\ \A p \in DOMAIN files : p \in DOMAIN g /\ g[p] = files[p]
      /\ \A p \in DOMAIN g : Listed(g[p])
  <2>1. CASE c.out = None
    <3>1. g = files
      BY <2>1 DEF Opened
    <3> QED BY <1>1, <3>1
  <2>2. CASE c.out # None
    <3>1. c.append = TRUE
      BY <2>2 DEF Safe, Kept
    <3>2. g = [p \in DOMAIN files \cup {out} |-> IF p = out /\ (~c.append \/ p \notin DOMAIN files) THEN <<>> ELSE files[p]]
      BY <2>2 DEF Opened
    <3> HIDE DEF g, out
    <3>3. DOMAIN g = DOMAIN files \cup {out}
      BY <3>2
    <3>4. \A p \in DOMAIN files : g[p] = files[p]
      BY <3>1, <3>2
    <3>5. out \notin DOMAIN files => g[out] = <<>>
      BY <3>1, <3>2
    <3> QED BY <1>1, <3>3, <3>4, <3>5, EmptyListed
  <2> QED BY <2>1, <2>2
<1>3. Listed(o)
  <2>1. c.argv \in Seq({c.argv[i] : i \in DOMAIN c.argv})
    BY DEF Safe, Listed
  <2> HIDE DEF g
  <2> QED BY <1>2, <2>1, OutputListed
<1>4. CASE After(c) = files
  BY <1>1, <1>4
<1>5. CASE After(c) = g
  <2> HIDE DEF g
  <2> QED BY <1>1, <1>2, <1>5
<1>6. CASE c.out # None /\ After(c) = [g EXCEPT ![out] = @ \o o]
  <2>1. g = [p \in DOMAIN g |-> g[p]] /\ out \in DOMAIN g
    BY <1>6 DEF Opened
  <2> DEFINE h == [g EXCEPT ![out] = @ \o o]
  <2> HIDE DEF g, o, out
  <2>2. DOMAIN h = DOMAIN g /\ h[out] = g[out] \o o /\ \A p \in DOMAIN g : p # out => h[p] = g[p]
    BY <2>1
  <2> HIDE DEF h
  <2>3. Listed(g[out]) /\ Listed(o)
    BY <1>2, <1>3, <2>1
  <2>4. Listed(h[out]) /\ IsPrefix(g[out], h[out])
    BY <2>2, <2>3, ListedConcat
  <2>5. \A p \in DOMAIN h : Listed(h[p])
    BY <1>2, <2>2, <2>4
  <2>6. \A p \in DOMAIN files : p \in DOMAIN h /\ IsPrefix(files[p], h[p])
    <3>1. ASSUME NEW p \in DOMAIN files PROVE p \in DOMAIN h /\ IsPrefix(files[p], h[p])
      <4>1. CASE p = out
        BY <1>2, <2>2, <2>4, <4>1
      <4>2. CASE p # out
        BY <1>1, <1>2, <2>2, <4>2
      <4> QED BY <4>1, <4>2
    <3> QED BY <3>1
  <2> QED BY <1>6, <2>5, <2>6 DEF h
<1>7. After(c) = files \/ After(c) = g \/ (c.out # None /\ After(c) = [g EXCEPT ![out] = @ \o o])
  BY DEF After
<1> QED BY <1>4, <1>5, <1>6, <1>7

AllAppend(lines) == \A i \in DOMAIN lines : Appending(lines[i])
FilesKeep == \A p \in DOMAIN files : IsPrefix(files[p], files'[p])

(* As long as every mark typed is one of two, the command buffer of 5-ShellP3 has no *)
(* output file without append.                                                       *)
KeepInv ==
  /\ line \in Seq(Lines)
  /\ AllAppend(line) => FilesListed /\ (version = "P3" => Kept(cmd))

LEMMA KeepStep ==
  ASSUME KeepInv, [Next]_vars
  PROVE  KeepInv' /\ (AllAppend(line') => FilesKeep)
<1>0. ASSUME FilesListed, UNCHANGED files PROVE FilesKeep /\ FilesListed'
  BY <1>0, ListedConcat DEF FilesListed, FilesKeep
<1>1. ASSUME UNCHANGED <<line, files, cmd, version>> PROVE KeepInv' /\ (AllAppend(line') => FilesKeep)
  <2>1. KeepInv'
    BY <1>1 DEF KeepInv, AllAppend, FilesListed, Kept
  <2> QED BY <1>0, <1>1, <2>1 DEF KeepInv, AllAppend
<1>2. ASSUME NEW l \in Lines, line' = Append(line, l)
      PROVE  line' \in Seq(Lines) /\ (AllAppend(line') => AllAppend(line) /\ Appending(l))
  <2>1. Len(line) \in Nat /\ DOMAIN line = 1..Len(line)
    BY LenProperties DEF KeepInv
  <2>2. /\ line' \in Seq(Lines) /\ Len(line') = Len(line) + 1
        /\ (\A i \in 1..Len(line) : line'[i] = line[i]) /\ line'[Len(line) + 1] = l
    BY <1>2, AppendProperties DEF KeepInv
  <2>3. DOMAIN line' = 1..(Len(line) + 1)
    BY <2>2, LenProperties
  <2>4. Len(line) + 1 \in DOMAIN line' /\ DOMAIN line \subseteq DOMAIN line'
    BY <2>1, <2>3
  <2> QED BY <2>1, <2>2, <2>4 DEF AllAppend
<1>3. ASSUME NEW l \in Lines, line' = Append(line, l), UNCHANGED <<files, version>>,
             version = "P3" => (AllAppend(line') => Kept(cmd'))
      PROVE  KeepInv' /\ (AllAppend(line') => FilesKeep)
  BY <1>0, <1>2, <1>3 DEF KeepInv
<1>4. ASSUME NEW l \in Lines, line' = Append(line, l), UNCHANGED <<files, version, cmd>>
      PROVE  KeepInv' /\ (AllAppend(line') => FilesKeep)
  <2>1. version = "P3" => (AllAppend(line') => Kept(cmd'))
    BY <1>2, <1>4 DEF KeepInv
  <2> QED BY <1>3, <1>4, <2>1
<1>5. ASSUME NEW l \in Lines, line' = Append(line, l), UNCHANGED version, NEW c, files' = After(c),
             AllAppend(line') => Safe(c) /\ Kept(cmd')
      PROVE  KeepInv' /\ (AllAppend(line') => FilesKeep)
  <2>1. ASSUME AllAppend(line') PROVE FilesListed' /\ FilesKeep
    <3>1. FilesListed
      BY <1>2, <1>5, <2>1 DEF KeepInv
    <3>2. Safe(c)
      BY <1>5, <2>1
    <3> QED BY <1>5, <3>1, <3>2, AfterKeeps DEF FilesListed, FilesKeep
  <2>2. KeepInv'
    BY <1>2, <1>5, <2>1 DEF KeepInv
  <2> QED BY <2>1, <2>2
<1>6. CASE UNCHANGED vars \/ Start \/ EndOfInput
  <2>1. UNCHANGED <<line, files, cmd, version>>
    BY <1>6 DEF vars, Start, EndOfInput, NoParse, NothingRun
  <2> QED BY <1>1, <2>1
<1>7. ASSUME NEW l \in Lines, ShowP1(l) \/ NoCommand(l) \/ CrashP2(l) PROVE KeepInv' /\ (AllAppend(line') => FilesKeep)
  <2>1. line' = Append(line, l) /\ UNCHANGED <<files, version, cmd>>
    BY <1>7 DEF ShowP1, NoCommand, CrashP2, Typed, NoParse, NothingRun
  <2> QED BY <1>4, <2>1
<1>8. ASSUME NEW l \in Lines, BuiltInP2(l) \/ ExternalP2(l) PROVE KeepInv' /\ (AllAppend(line') => FilesKeep)
  <2>1. line' = Append(line, l) /\ UNCHANGED <<files, version>> /\ version = "P2"
    BY <1>8 DEF BuiltInP2, ExternalP2, ParseP2, Typed
  <2> QED BY <1>3, <2>1
<1>9. ASSUME NEW l \in Lines, BuiltInP3(l) \/ ExternalP3(l) PROVE KeepInv' /\ (AllAppend(line') => FilesKeep)
  <2>1. ParseP3(l) /\ (UNCHANGED files \/ files' = After(cmd'))
    BY <1>9 DEF BuiltInP3, ExternalP3
  <2>2. line' = Append(line, l) /\ UNCHANGED version /\ version = "P3" /\ cmd' = BuildCmdBuffP3(l, cmd)
    BY <2>1 DEF ParseP3, Typed
  <2>3. AllAppend(line') => Safe(cmd') /\ Kept(cmd')
    <3>1. AllAppend(line') => Kept(cmd) /\ Appending(l)
      BY <1>2, <2>2 DEF KeepInv
    <3> QED BY <2>2, <3>1, BuildSafe DEF Safe
  <2> QED BY <1>3, <1>5, <2>1, <2>2, <2>3
<1>10. ASSUME NEW l \in Lines, NotRun(l) \/ PipelineRuns(l) \/ PipelineMeets(l) \/ PipelineFails(l)
       PROVE  KeepInv' /\ (AllAppend(line') => FilesKeep)
  <2>1. ParseListP3(l) /\ UNCHANGED files
    BY <1>10 DEF NotRun, PipelineRuns, PipelineMeets, PipelineFails
  <2>2. line' = Append(line, l) /\ UNCHANGED <<files, version, cmd>>
    BY <2>1 DEF ParseListP3, Typed
  <2> QED BY <1>4, <2>2
<1>11. ASSUME NEW l \in Lines, SingleP3(l) PROVE KeepInv' /\ (AllAppend(line') => FilesKeep)
  <2> DEFINE c == list'.commands[1]
  <2>1. /\ line' = Append(line, l) /\ UNCHANGED <<version, cmd>> /\ version = "P3"
        /\ list' = BuildCmdListP3(l) /\ Len(list'.commands) = 1
    BY <1>11 DEF SingleP3, ParseListP3, Typed
  <2>2. UNCHANGED files \/ files' = After(c)
    BY <1>11 DEF SingleP3
  <2> HIDE DEF c
  <2>3. AllAppend(line') => Safe(c) /\ Kept(cmd')
    <3>1. AllAppend(line') => Kept(cmd') /\ Appending(l)
      BY <1>2, <2>1 DEF KeepInv
    <3> QED BY <2>1, <3>1, ListSafe DEF c
  <2> QED BY <1>4, <1>5, <2>1, <2>2, <2>3
<1>12. CASE \E l \in IF line = <<>> THEN FirstLines ELSE LaterLines :
             \/ ShowP1(l) \/ NoCommand(l) \/ CrashP2(l) \/ BuiltInP2(l) \/ ExternalP2(l)
             \/ BuiltInP3(l) \/ ExternalP3(l) \/ NotRun(l) \/ SingleP3(l) \/ PipelineRuns(l)
             \/ PipelineMeets(l) \/ PipelineFails(l)
  <2>1. FirstLines \subseteq Lines /\ LaterLines \subseteq Lines
    BY LinesAssumption DEF Lines
  <2>2. \E l \in Lines :
             \/ ShowP1(l) \/ NoCommand(l) \/ CrashP2(l) \/ BuiltInP2(l) \/ ExternalP2(l)
             \/ BuiltInP3(l) \/ ExternalP3(l) \/ NotRun(l) \/ SingleP3(l) \/ PipelineRuns(l)
             \/ PipelineMeets(l) \/ PipelineFails(l)
    BY <1>12, <2>1, Zenon
  <2> QED BY <1>7, <1>8, <1>9, <1>10, <1>11, <2>2, Zenon
<1> QED BY <1>6, <1>12, Zenon DEF Next

(* As long as every mark typed is part of a ">>", no line takes anything from a file, *)
(* whatever else was typed and whatever fails (build_cmd_buff() and exec_cmd()).      *)
THEOREM FilesKept == Spec => AppendKeeps
<1>1. Init => KeepInv
  <2>1. <<>> \in Seq(Lines)
    BY EmptySeq
  <2> SUFFICES ASSUME Init PROVE FilesListed /\ Kept(cmd)
    BY <2>1 DEF Init, KeepInv
  <2>2. Kept(cmd)
    BY DEF Init, EmptyCmd, Kept
  <2>3. Listed(<<<<"text">>>>)
    <3>1. <<<<"text">>>> \in Seq({<<"text">>})
      OBVIOUS
    <3> QED BY <3>1, ListedIs
  <2>4. FilesListed
    BY <2>3 DEF Init, FilesListed
  <2> QED BY <2>2, <2>4
<1>2. KeepInv /\ [Next]_vars => KeepInv'
  BY KeepStep
<1>3. KeepInv /\ [Next]_vars
      => [(\A i \in DOMAIN line' : Appending(line'[i])) => \A p \in DOMAIN files : IsPrefix(files[p], files'[p])]_vars
  BY KeepStep DEF AllAppend, FilesKeep
<1> QED BY <1>1, <1>2, <1>3, PTL DEF Spec, AppendKeeps
=============================================================================
