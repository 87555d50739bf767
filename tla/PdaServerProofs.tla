-------------------------- MODULE PdaServerProofs --------------------------
(***************************************************************************)
(* Proofs about PdaServer, for any bytes, socket addresses, number of       *)
(* scanners and number of bytes they send.                                  *)
(***************************************************************************)
EXTENDS PdaServer, FiniteSetTheorems, SequenceTheorems, TLAPS

(* Places in their order.                                                  *)

\* Every rank up to the number of places is that of one place.
LEMMA Ranks ==
  ASSUME NEW n \in Nat, NEW S, S \subseteq 0 .. n
  PROVE  /\ IsFiniteSet(S)
         /\ Cardinality(S) \in Nat
         /\ \A i \in S : Rank(S, i) \in 1 .. Cardinality(S)
         /\ \A i, k \in S : Rank(S, i) = Rank(S, k) => i = k
         /\ \A m \in 1 .. Cardinality(S) : \E i \in S : Rank(S, i) = m
<1> DEFINE UpTo(i) == {e \in S : e <= i}
<1>1. IsFiniteSet(S) /\ Cardinality(S) \in Nat
  <2>1. IsFiniteSet(0 .. n)
    BY FS_Interval
  <2> QED BY <2>1, FS_Subset, FS_CardinalityType
<1>2. \A i \in S : IsFiniteSet(UpTo(i)) /\ Cardinality(UpTo(i)) \in Nat
                   /\ Cardinality(UpTo(i)) <= Cardinality(S)
  <2>1. \A i \in S : UpTo(i) \in SUBSET S
    OBVIOUS
  <2> HIDE DEF UpTo
  <2> QED BY <1>1, <2>1, FS_Subset, FS_CardinalityType
<1>3. \A i \in S : Cardinality(UpTo(i)) # 0
  <2>1. \A i \in S : i \in UpTo(i)
    OBVIOUS
  <2> HIDE DEF UpTo
  <2> QED BY <1>2, <2>1, FS_EmptySet
<1>4. \A i \in S : Rank(S, i) \in 1 .. Cardinality(S)
  BY <1>1, <1>2, <1>3 DEF Rank
<1>5. ASSUME NEW i \in S, NEW k \in S, i < k
      PROVE  Rank(S, i) # Rank(S, k)
  <2>1. i \in Int /\ k \in Int /\ \A e \in S : e \in Int
    OBVIOUS
  <2>2. UpTo(i) \subseteq UpTo(k) /\ k \in UpTo(k) /\ k \notin UpTo(i)
    <3>1. \A e \in S : e <= i => e <= k
      BY <1>5, <2>1
    <3>2. k <= k /\ ~(k <= i)
      BY <1>5, <2>1
    <3> QED BY <3>1, <3>2
  <2>3. Cardinality(UpTo(i)) # Cardinality(UpTo(k))
    <3> HIDE DEF UpTo
    <3> QED BY <2>2, <1>2, FS_Subset
  <2> QED BY <2>3 DEF Rank
<1>6. \A i, k \in S : Rank(S, i) = Rank(S, k) => i = k
  BY <1>5
<1>7. \A m \in 1 .. Cardinality(S) : \E i \in S : Rank(S, i) = m
  <2> DEFINE f == [i \in S |-> Rank(S, i)]
             T == 1 .. Cardinality(S)
  <2>1. IsFiniteSet(T) /\ Cardinality(T) = Cardinality(S)
    BY <1>1, FS_Interval
  <2>2. f \in Injection(S, T)
    BY <1>4, <1>6 DEF Injection, IsInjective
  <2>3. f \in Surjection(S, T)
    BY <2>1, <2>2, FS_Injection
  <2> QED BY <2>3 DEF Surjection
<1> QED BY <1>1, <1>4, <1>6, <1>7

\* The greatest of places, when one is known to be it.
LEMMA MaxAt ==
  ASSUME NEW S, S \subseteq Int, NEW m \in S, \A y \in S : y <= m
  PROVE  Max(S) = m
<1>1. \A x \in S : (\A y \in S : x >= y) => x = m
  BY SMT
<1> QED BY <1>1 DEF Max

\* And the least.
LEMMA MinAt ==
  ASSUME NEW S, S \subseteq Int, NEW m \in S, \A y \in S : m <= y
  PROVE  Min(S) = m
<1>1. \A x \in S : (\A y \in S : x <= y) => x = m
  BY SMT
<1> QED BY <1>1 DEF Min

\* A set of places has a greatest one: the one whose rank is their number.
LEMMA MaxIs ==
  ASSUME NEW n \in Nat, NEW S, S \subseteq 0 .. n, S # {}
  PROVE  Max(S) \in S /\ \A y \in S : y <= Max(S)
<1>1. IsFiniteSet(S) /\ Cardinality(S) \in Nat /\ Cardinality(S) # 0
  BY Ranks, FS_EmptySet
<1>2. PICK m \in S : Rank(S, m) = Cardinality(S)
  <2>1. Cardinality(S) \in 1 .. Cardinality(S)
    BY <1>1
  <2> QED BY <2>1, Ranks
<1>3. {e \in S : e <= m} = S
  BY <1>1, <1>2, FS_Subset DEF Rank
<1>4. \A y \in S : y <= m
  BY <1>3
<1>5. S \subseteq Int
  OBVIOUS
<1> QED BY <1>4, <1>5, MaxAt

\* And a least one, of rank 1.
LEMMA MinIs ==
  ASSUME NEW n \in Nat, NEW S, S \subseteq 0 .. n, S # {}
  PROVE  Min(S) \in S /\ \A y \in S : Min(S) <= y
<1> DEFINE UpTo(i) == {e \in S : e <= i}
<1>1. IsFiniteSet(S) /\ Cardinality(S) \in Nat /\ Cardinality(S) # 0
  BY Ranks, FS_EmptySet
<1>2. PICK m \in S : Rank(S, m) = 1
  <2>1. 1 \in 1 .. Cardinality(S)
    BY <1>1
  <2> QED BY <2>1, Ranks
<1>3. IsFiniteSet(UpTo(m)) /\ Cardinality(UpTo(m)) = 1
  BY <1>1, <1>2, FS_Subset DEF Rank
<1>4. \E x : UpTo(m) = {x}
  <2> HIDE DEF UpTo
  <2> QED BY <1>3, FS_Singleton
<1>5. \A y \in UpTo(m) : y = m
  BY <1>4
<1>6. \A y \in S : m <= y
  BY <1>5
<1>7. S \subseteq Int
  OBVIOUS
<1> QED BY <1>6, <1>7, MinAt

\* The last terminator before a place is before it.
LEMMA BeforeIs ==
  ASSUME NEW n \in Nat, NEW ends, ends \subseteq 1 .. n, NEW i \in 1 .. n + 1
  PROVE  Before(ends, i) \in 0 .. i - 1
<1> DEFINE S == {0} \cup {e \in ends : e < i}
<1>1. S \subseteq 0 .. n /\ S # {}
  <2>1. \A e \in ends : e \in 0 .. n
    OBVIOUS
  <2>2. 0 \in 0 .. n
    OBVIOUS
  <2> QED BY <2>1, <2>2
<1>2. Max(S) \in S
  <2> HIDE DEF S
  <2> QED BY <1>1, MaxIs
<1>3. \A e \in S : e \in 0 .. i - 1
  OBVIOUS
<1>4. Before(ends, i) = Max(S)
  BY DEF Before
<1> HIDE DEF S
<1> QED BY <1>2, <1>3, <1>4

\* The place in turn m is the one of rank m.
LEMMA InOrderIs ==
  ASSUME NEW n \in Nat, NEW S, S \subseteq 1 .. n
  PROVE  /\ \A m \in 1 .. Cardinality(S) :
              InOrder(S)[m] \in S /\ Rank(S, InOrder(S)[m]) = m
         /\ \A i \in S : InOrder(S)[Rank(S, i)] = i
<1>0. S \subseteq 0 .. n
  OBVIOUS
<1>1. ASSUME NEW m \in 1 .. Cardinality(S)
      PROVE  InOrder(S)[m] \in S /\ Rank(S, InOrder(S)[m]) = m
  <2>1. \E i \in S : Rank(S, i) = m
    BY <1>0, Ranks
  <2> QED BY <2>1 DEF InOrder
<1>2. \A i \in S : Rank(S, i) \in 1 .. Cardinality(S)
  BY <1>0, Ranks
<1>3. \A i, k \in S : Rank(S, i) = Rank(S, k) => i = k
  BY <1>0, Ranks
<1> QED BY <1>1, <1>2, <1>3

\* A place behind the others comes last, and the others keep their turns.
LEMMA InOrderGrows ==
  ASSUME NEW n \in Nat, NEW S, S \subseteq 1 .. n
  PROVE  /\ Cardinality(S) \in Nat
         /\ Cardinality(S \cup {n + 1}) = Cardinality(S) + 1
         /\ \A m \in 1 .. Cardinality(S) :
              InOrder(S)[m] \in S /\ InOrder(S \cup {n + 1})[m] = InOrder(S)[m]
         /\ InOrder(S \cup {n + 1})[Cardinality(S) + 1] = n + 1
<1> DEFINE T == S \cup {n + 1}
<1>1. T \subseteq 1 .. n + 1 /\ n + 1 \in Nat /\ n + 1 \notin S /\ S \subseteq 0 .. n
  OBVIOUS
<1>2. IsFiniteSet(S) /\ Cardinality(S) \in Nat
  BY <1>1, Ranks
<1>3. Cardinality(T) = Cardinality(S) + 1
  BY <1>1, <1>2, FS_AddElement
<1>4. \A i \in S : Rank(T, i) = Rank(S, i)
  <2>1. \A i \in S : {e \in T : e <= i} = {e \in S : e <= i}
    OBVIOUS
  <2> QED BY <2>1 DEF Rank
<1>5. Rank(T, n + 1) = Cardinality(S) + 1
  <2>1. \A e \in T : e <= n + 1
    BY <1>1
  <2>2. {e \in T : e <= n + 1} = T
    <3> HIDE DEF T
    <3> QED BY <2>1
  <2> QED BY <1>3, <2>2 DEF Rank
<1>6. \A i \in T : InOrder(T)[Rank(T, i)] = i
  <2> HIDE DEF T
  <2> QED BY <1>1, InOrderIs
<1>7. \A m \in 1 .. Cardinality(S) : InOrder(S)[m] \in S /\ Rank(S, InOrder(S)[m]) = m
  BY InOrderIs
<1>8. \A m \in 1 .. Cardinality(S) : InOrder(T)[m] = InOrder(S)[m]
  BY <1>4, <1>6, <1>7
<1>9. InOrder(T)[Cardinality(S) + 1] = n + 1
  BY <1>5, <1>6
<1> QED BY <1>2, <1>3, <1>7, <1>8, <1>9
-----------------------------------------------------------------------------
(* Pieces of sequences.                                                    *)

\* A piece of a sequence has the elements of the sequence.
LEMMA PieceTyped ==
  ASSUME NEW S, NEW s \in Seq(S), NEW m \in Nat \ {0}, NEW n \in 0 .. Len(s)
  PROVE  SubSeq(s, m, n) \in Seq(S)
<1>1. \A i \in m .. n : s[i] \in S
  BY LenProperties
<1>2. m \in Int /\ n \in Int
  BY LenProperties
<1> QED BY <1>1, <1>2, SubSeqProperties

\* A piece of a sequence is the same after something is appended.
LEMMA PieceOfAppend ==
  ASSUME NEW S, NEW s \in Seq(S), NEW b \in S,
         NEW m \in Nat \ {0}, NEW n \in 0 .. Len(s)
  PROVE  SubSeq(Append(s, b), m, n) = SubSeq(s, m, n)
<1> DEFINE t == Append(s, b)
<1>1. t \in Seq(S) /\ Len(t) = Len(s) + 1 /\ \A i \in 1 .. Len(s) : t[i] = s[i]
  BY AppendProperties
<1>2. Len(s) \in Nat /\ m \in Int /\ n \in Int
  BY LenProperties
<1>3. \A i \in 1 .. Len(s) : s[i] \in S
  BY LenProperties
<1> HIDE DEF t
<1>4. \A i \in m .. n : s[i] \in S /\ t[i] = s[i]
  BY <1>1, <1>2, <1>3
<1> DEFINE p == SubSeq(t, m, n)
           q == SubSeq(s, m, n)
<1>5. /\ p \in Seq(S) /\ Len(p) = IF m <= n THEN n - m + 1 ELSE 0
      /\ \A i \in 1 .. n - m + 1 : p[i] = t[m + i - 1]
  BY <1>2, <1>4, SubSeqProperties
<1>6. /\ q \in Seq(S) /\ Len(q) = IF m <= n THEN n - m + 1 ELSE 0
      /\ \A i \in 1 .. n - m + 1 : q[i] = s[m + i - 1]
  BY <1>2, <1>4, SubSeqProperties
<1> HIDE DEF p, q
<1>7. \A i \in 1 .. Len(p) : p[i] = q[i]
  BY <1>2, <1>4, <1>5, <1>6
<1>8. p = q
  BY <1>5, <1>6, <1>7, SeqEqual
<1> QED BY <1>8 DEF p, q, t

\* The rest of a sequence grows with it.
LEMMA RestOfAppend ==
  ASSUME NEW S, NEW s \in Seq(S), NEW b \in S, NEW m \in 1 .. Len(s) + 1
  PROVE  SubSeq(Append(s, b), m, Len(s) + 1) = Append(SubSeq(s, m, Len(s)), b)
<1> DEFINE t == Append(s, b)
           n == Len(s)
<1>1. n \in Nat /\ m \in Int /\ \A i \in 1 .. n : s[i] \in S
  BY LenProperties
<1>2. t \in Seq(S) /\ Len(t) = n + 1 /\ (\A i \in 1 .. n : t[i] = s[i]) /\ t[n + 1] = b
  BY AppendProperties
<1> HIDE DEF t, n
<1> USE DEF n
<1>3. \A i \in m .. n + 1 : t[i] \in S
  BY <1>1, <1>2
<1> DEFINE p == SubSeq(t, m, n + 1)
           q == SubSeq(s, m, n)
           r == Append(q, b)
<1>4. p \in Seq(S) /\ Len(p) = n - m + 2 /\ \A i \in 1 .. n - m + 2 : p[i] = t[m + i - 1]
  <2>1. n + 1 \in Int /\ m <= n + 1 /\ (n + 1) - m + 1 = n - m + 2
    BY <1>1
  <2> QED BY <1>1, <1>3, <2>1, SubSeqProperties
<1>5. q \in Seq(S) /\ Len(q) = n - m + 1 /\ \A i \in 1 .. n - m + 1 : q[i] = s[m + i - 1]
  <2>1. n \in Int /\ \A i \in m .. n : s[i] \in S
    BY <1>1
  <2>2. /\ q \in Seq(S) /\ Len(q) = IF m <= n THEN n - m + 1 ELSE 0
        /\ \A i \in 1 .. n - m + 1 : q[i] = s[m + i - 1]
    BY <1>1, <2>1, SubSeqProperties
  <2> QED BY <1>1, <2>2
<1> HIDE DEF p, q
<1>6. r \in Seq(S) /\ Len(r) = Len(q) + 1 /\ (\A i \in 1 .. Len(q) : r[i] = q[i])
      /\ r[Len(q) + 1] = b
  <2>1. q \in Seq(S)
    BY <1>5
  <2> QED BY <2>1, AppendProperties
<1> HIDE DEF r
<1>7. \A i \in 1 .. Len(p) : p[i] = r[i]
  <2> SUFFICES ASSUME NEW i \in 1 .. n - m + 2
               PROVE  p[i] = r[i]
    BY <1>4
  <2>1. p[i] = t[m + i - 1] /\ m + i - 1 \in 1 .. n + 1
    BY <1>1, <1>4
  <2>2. CASE i <= n - m + 1
    <3>1. i \in 1 .. Len(q) /\ m + i - 1 \in 1 .. n
      BY <1>1, <1>5, <2>2
    <3>2. r[i] = q[i] /\ q[i] = s[m + i - 1] /\ t[m + i - 1] = s[m + i - 1]
      BY <3>1, <1>2, <1>5, <1>6
    <3> QED BY <2>1, <3>2
  <2>3. CASE i = n - m + 2
    <3>1. m + i - 1 = n + 1 /\ i = Len(q) + 1
      BY <1>1, <1>5, <2>3
    <3> QED BY <2>1, <3>1, <1>2, <1>6
  <2> QED BY <1>1, <2>2, <2>3
<1>8. p = r
  <2>1. Len(p) = Len(r)
    BY <1>1, <1>4, <1>5, <1>6
  <2> QED BY <1>4, <1>6, <1>7, <2>1, SeqEqual
<1> QED BY <1>8 DEF p, q, r, t, n

\* The parts of Payload keep the bytes of a frame.
LEMMA PayloadTyped ==
  ASSUME NEW S, S \subseteq Byte, NEW s \in Seq(S)
  PROVE  Payload[s] \in Seq(S)
<1>1. \A f \in Seq(S) : WithoutStx(f) \in Seq(S)
  BY HeadTailProperties DEF WithoutStx
<1>2. ASSUME NEW f \in Seq(S) PROVE WithoutCr(f) \in Seq(S)
  <2>1. f # << >> => Front(f) \in Seq(S)
    <3>1. f # << >> => Len(f) - 1 \in 0 .. Len(f)
      BY EmptySeq, LenProperties
    <3> QED BY <3>1, PieceTyped DEF Front
  <2> QED BY <2>1 DEF WithoutCr
<1>3. ASSUME NEW f \in Seq(S) PROVE Trimmed(f) \in Seq(S)
  <2> DEFINE kept == {i \in DOMAIN f : f[i] # "CR"}
  <2>1. kept \subseteq 1 .. Len(f) /\ Len(f) \in Nat
    BY LenProperties
  <2>2. CASE kept = {}
    BY <2>2, EmptySeq DEF Trimmed
  <2>3. CASE kept # {}
    <3> HIDE DEF kept
    <3>1. kept \subseteq 0 .. Len(f)
      BY <2>1
    <3>2. Min(kept) \in kept /\ Max(kept) \in kept
      BY <2>1, <2>3, <3>1, MinIs, MaxIs
    <3>3. SubSeq(f, Min(kept), Max(kept)) \in Seq(S)
      <4>1. \A i \in kept : i \in Nat \ {0} /\ i \in 0 .. Len(f)
        BY <2>1
      <4>2. Min(kept) \in Nat \ {0} /\ Max(kept) \in 0 .. Len(f)
        BY <3>2, <4>1
      <4> QED BY <4>2, PieceTyped
    <3> QED BY <2>3, <3>3 DEF Trimmed, kept
  <2> QED BY <2>2, <2>3
<1>4. s \in Seq(Byte)
  BY SeqMonotonic
<1>5. Payload[s] = Trimmed(WithoutCr(WithoutStx(s)))
  BY <1>4 DEF Payload
<1> QED BY <1>1, <1>2, <1>3, <1>5
-----------------------------------------------------------------------------
(* What the server makes of a buffer, byte by byte.                         *)

\* Where the terminators are.
LEMMA EndsAre ==
  ASSUME NEW s \in Seq(Byte)
  PROVE  Ends(s) \subseteq 1 .. Len(s) /\ Len(s) \in Nat
BY LenProperties DEF Ends

\* One byte more adds its place if it is a terminator.
LEMMA EndsOfAppend ==
  ASSUME NEW s \in Seq(Byte), NEW b \in Byte
  PROVE  Ends(Append(s, b)) =
           Ends(s) \cup (IF b \in Terminator THEN {Len(s) + 1} ELSE {})
<1> DEFINE t == Append(s, b)
<1>1. t \in Seq(Byte) /\ Len(t) = Len(s) + 1 /\ (\A i \in 1 .. Len(s) : t[i] = s[i])
      /\ t[Len(s) + 1] = b
  BY AppendProperties
<1> HIDE DEF t
<1>2. DOMAIN t = 1 .. Len(s) + 1 /\ DOMAIN s = 1 .. Len(s) /\ Len(s) \in Nat
  BY <1>1, LenProperties
<1>3. \A i : i \in 1 .. Len(s) + 1 <=> i \in 1 .. Len(s) \/ i = Len(s) + 1
  BY <1>2
<1>4. Ends(t) = Ends(s) \cup (IF b \in Terminator THEN {Len(s) + 1} ELSE {})
  BY <1>1, <1>2, <1>3 DEF Ends
<1> QED BY <1>4 DEF t

\* The last terminator before a place does not depend on what follows it.
LEMMA BeforeOfAppend ==
  ASSUME NEW s \in Seq(Byte), NEW b \in Byte, NEW i \in 1 .. Len(s) + 1
  PROVE  Before(Ends(Append(s, b)), i) = Before(Ends(s), i)
<1>1. Len(s) \in Nat
  BY LenProperties
<1>2. ~(Len(s) + 1 < i)
  BY <1>1
<1>3. {e \in Ends(Append(s, b)) : e < i} = {e \in Ends(s) : e < i}
  BY <1>2, EndsOfAppend
<1> QED BY <1>3 DEF Before

\* A line is the same after something is appended.
LEMMA LineOfAppend ==
  ASSUME NEW s \in Seq(Byte), NEW b \in Byte, NEW i \in 1 .. Len(s)
  PROVE  Line(Append(s, b), i) = Line(s, i)
<1>1. Len(s) \in Nat /\ i \in 1 .. Len(s) + 1
  BY LenProperties
<1>2. Before(Ends(Append(s, b)), i) = Before(Ends(s), i)
  BY <1>1, BeforeOfAppend
<1>3. Before(Ends(s), i) \in 0 .. i - 1
  BY <1>1, EndsAre, BeforeIs
<1>4. Before(Ends(s), i) + 1 \in Nat \ {0} /\ i - 1 \in 0 .. Len(s)
  BY <1>1, <1>3
<1>5. SubSeq(Append(s, b), Before(Ends(s), i) + 1, i - 1)
        = SubSeq(s, Before(Ends(s), i) + 1, i - 1)
  BY <1>4, PieceOfAppend
<1> QED BY <1>2, <1>5 DEF Line

\* A line consists of bytes.
LEMMA LineTyped ==
  ASSUME NEW s \in Seq(Byte), NEW i \in 1 .. Len(s)
  PROVE  Line(s, i) \in Seq(Byte)
<1>1. Len(s) \in Nat /\ i \in 1 .. Len(s) + 1
  BY LenProperties
<1>2. Before(Ends(s), i) \in 0 .. i - 1
  BY <1>1, EndsAre, BeforeIs
<1>3. Before(Ends(s), i) + 1 \in Nat \ {0} /\ i - 1 \in 0 .. Len(s)
  BY <1>1, <1>2
<1>4. SubSeq(s, Before(Ends(s), i) + 1, i - 1) \in Seq(Byte)
  BY <1>3, PieceTyped
<1> QED BY <1>4, PayloadTyped DEF Line

\* The lines that tell something, and how they are taken in turn.
LEMMA TellingAre ==
  ASSUME NEW s \in Seq(Byte)
  PROVE  /\ Telling(s) \subseteq 1 .. Len(s)
         /\ Cardinality(Telling(s)) \in Nat
         /\ \A n \in 1 .. Cardinality(Telling(s)) : InOrder(Telling(s))[n] \in 1 .. Len(s)
<1>1. Telling(s) \subseteq 1 .. Len(s) /\ Len(s) \in Nat
  BY EndsAre DEF Telling
<1> QED BY <1>1, InOrderGrows

\* The lines, in a form to reason about.
Lines(s) == Drain(s).lines
Rest(s) == Drain(s).buffer

\* The lines are a sequence, one for each place that tells something.
LEMMA LinesAre ==
  ASSUME NEW s \in Seq(Byte)
  PROVE  /\ Lines(s) \in Seq(Seq(Byte))
         /\ Len(Lines(s)) = Cardinality(Telling(s))
         /\ \A n \in 1 .. Cardinality(Telling(s)) :
              Lines(s)[n] = Line(s, InOrder(Telling(s))[n])
<1> DEFINE N == Cardinality(Telling(s))
<1>1. N \in Nat
  BY TellingAre
<1>2. Lines(s) = [n \in 1 .. N |-> Line(s, InOrder(Telling(s))[n])]
  BY DEF Lines, Drain
<1>3. \A n \in 1 .. N : Line(s, InOrder(Telling(s))[n]) \in Seq(Byte)
  BY TellingAre, LineTyped
<1> HIDE DEF N
<1>4. Lines(s) \in Seq(Seq(Byte)) /\ Len(Lines(s)) = N
      /\ \A n \in 1 .. N : Lines(s)[n] = Line(s, InOrder(Telling(s))[n])
  BY <1>1, <1>2, <1>3
<1> QED BY <1>4 DEF N

\* What is behind the last terminator, and before the end.
LEMMA RestIs ==
  ASSUME NEW s \in Seq(Byte)
  PROVE  /\ Before(Ends(s), Len(s) + 1) + 1 \in 1 .. Len(s) + 1
         /\ Rest(s) = SubSeq(s, Before(Ends(s), Len(s) + 1) + 1, Len(s))
         /\ Rest(s) \in Seq(Byte)
<1>1. Len(s) \in Nat /\ Len(s) + 1 \in 1 .. Len(s) + 1 /\ Len(s) \in 0 .. Len(s)
  BY LenProperties
<1>2. Before(Ends(s), Len(s) + 1) \in 0 .. (Len(s) + 1) - 1
  BY <1>1, EndsAre, BeforeIs
<1>3. Before(Ends(s), Len(s) + 1) + 1 \in 1 .. Len(s) + 1
  BY <1>1, <1>2
<1>4. Rest(s) = SubSeq(s, Before(Ends(s), Len(s) + 1) + 1, Len(s))
  BY DEF Rest, Drain
<1>5. Before(Ends(s), Len(s) + 1) + 1 \in Nat \ {0}
  BY <1>3
<1> QED BY <1>1, <1>3, <1>4, <1>5, PieceTyped

\* Bytes without a terminator are all left in the buffer.
LEMMA DrainPlain ==
  ASSUME NEW s \in Seq(Plain)
  PROVE  s \in Seq(Byte) /\ Lines(s) = << >> /\ Rest(s) = s
<1>1. s \in Seq(Byte)
  BY SeqMonotonic DEF Plain
<1>2. Ends(s) = {}
  BY LenProperties DEF Ends, Plain
<1>3. Telling(s) = {}
  BY <1>2 DEF Telling
<1>4. Lines(s) = << >>
  <2>1. Cardinality(Telling(s)) = 0
    BY <1>3, FS_EmptySet
  <2>2. Len(Lines(s)) = 0 /\ Lines(s) \in Seq(Seq(Byte))
    BY <1>1, <2>1, LinesAre
  <2> QED BY <2>2, EmptySeq
<1>5. Before(Ends(s), Len(s) + 1) = 0
  <2>1. {0} \cup {e \in Ends(s) : e < Len(s) + 1} = {0}
    BY <1>2
  <2>2. Max({0}) = 0
    BY MaxAt
  <2> QED BY <2>1, <2>2 DEF Before
<1>6. Rest(s) = SubSeq(s, 1, Len(s))
  <2>1. Rest(s) = SubSeq(s, Before(Ends(s), Len(s) + 1) + 1, Len(s))
    BY <1>1, RestIs
  <2>2. Before(Ends(s), Len(s) + 1) + 1 = 1
    BY <1>5
  <2> QED BY <2>1, <2>2
<1> QED BY <1>1, <1>4, <1>6, SubSeqFull

\* A byte that ends nothing goes into the buffer.
LEMMA DrainByte ==
  ASSUME NEW s \in Seq(Byte), NEW b \in Byte, b \notin Terminator
  PROVE  Lines(Append(s, b)) = Lines(s) /\ Rest(Append(s, b)) = Append(Rest(s), b)
<1> DEFINE t == Append(s, b)
<1>1. t \in Seq(Byte) /\ Len(t) = Len(s) + 1 /\ Len(s) \in Nat
  BY AppendProperties, LenProperties
<1>2. Ends(t) = Ends(s) /\ Ends(s) \subseteq 1 .. Len(s)
  BY EndsOfAppend, EndsAre
<1>3. \A i \in 1 .. Len(s) : Line(t, i) = Line(s, i)
  BY LineOfAppend
<1>4. Telling(t) = Telling(s)
  BY <1>2, <1>3 DEF Telling
<1>5. Lines(t) = Lines(s)
  <2>1. /\ Lines(t) \in Seq(Seq(Byte)) /\ Len(Lines(t)) = Cardinality(Telling(s))
        /\ \A n \in 1 .. Cardinality(Telling(s)) :
             Lines(t)[n] = Line(t, InOrder(Telling(s))[n])
    <3> HIDE DEF t
    <3> QED BY <1>1, <1>4, LinesAre
  <2>2. /\ Lines(s) \in Seq(Seq(Byte)) /\ Len(Lines(s)) = Cardinality(Telling(s))
        /\ \A n \in 1 .. Cardinality(Telling(s)) :
             Lines(s)[n] = Line(s, InOrder(Telling(s))[n])
    BY LinesAre
  <2>3. \A n \in 1 .. Cardinality(Telling(s)) : Lines(t)[n] = Lines(s)[n]
    BY <1>3, <2>1, <2>2, TellingAre
  <2> HIDE DEF t
  <2> QED BY <2>1, <2>2, <2>3, SeqEqual
<1>6. Rest(t) = Append(Rest(s), b)
  <2> DEFINE m == Before(Ends(s), Len(s) + 1)
  <2>1. Before(Ends(t), Len(t) + 1) = m
    <3>1. \A e \in Ends(s) : e < Len(t) + 1 /\ e < Len(s) + 1
      BY <1>1, <1>2
    <3>2. {e \in Ends(t) : e < Len(t) + 1} = {e \in Ends(s) : e < Len(s) + 1}
      BY <1>2, <3>1
    <3> QED BY <3>2 DEF Before
  <2>2. m + 1 \in 1 .. Len(s) + 1 /\ Rest(s) = SubSeq(s, m + 1, Len(s))
    BY RestIs
  <2>3. Rest(t) = SubSeq(t, m + 1, Len(s) + 1)
    <3> HIDE DEF t, m
    <3> QED BY <1>1, <2>1, RestIs
  <2>4. SubSeq(t, m + 1, Len(s) + 1) = Append(SubSeq(s, m + 1, Len(s)), b)
    <3> HIDE DEF m
    <3> QED BY <2>2, RestOfAppend
  <2> QED BY <2>2, <2>3, <2>4
<1> QED BY <1>5, <1>6

\* A terminator makes a line of the buffer, unless there is nothing in it.
LEMMA DrainEnd ==
  ASSUME NEW s \in Seq(Byte), NEW b \in Byte, b \in Terminator
  PROVE  /\ Lines(Append(s, b)) = IF Payload[Rest(s)] = << >> THEN Lines(s)
                                  ELSE Append(Lines(s), Payload[Rest(s)])
         /\ Rest(Append(s, b)) = << >>
<1> DEFINE t == Append(s, b)
           k == Len(s) + 1
           N == Cardinality(Telling(s))
<1>1. t \in Seq(Byte) /\ Len(t) = k /\ Len(s) \in Nat
  BY AppendProperties, LenProperties
<1>2. Ends(t) = Ends(s) \cup {k} /\ Ends(s) \subseteq 1 .. Len(s)
  BY EndsOfAppend, EndsAre
<1>3. \A i \in 1 .. Len(s) : Line(t, i) = Line(s, i)
  BY LineOfAppend
<1>4. Line(t, k) = Payload[Rest(s)]
  <2> DEFINE m == Before(Ends(s), k)
  <2>1. Before(Ends(t), k) = m
    BY <1>1, BeforeOfAppend
  <2>2. m + 1 \in 1 .. Len(s) + 1 /\ Rest(s) = SubSeq(s, m + 1, Len(s))
    BY RestIs
  <2>3. SubSeq(t, m + 1, k - 1) = SubSeq(s, m + 1, Len(s))
    <3> HIDE DEF m
    <3>1. m + 1 \in Nat \ {0} /\ k - 1 = Len(s) /\ Len(s) \in 0 .. Len(s)
      BY <1>1, <2>2
    <3> QED BY <3>1, PieceOfAppend
  <2> QED BY <2>1, <2>2, <2>3 DEF Line
<1>5. Rest(t) = << >>
  <2> DEFINE S == {0} \cup {e \in Ends(t) : e < Len(t) + 1}
  <2>1. k \in S /\ S \subseteq Int /\ \A y \in S : y <= k
    BY <1>1, <1>2
  <2>2. Max(S) = k
    <3> HIDE DEF S, k
    <3> QED BY <2>1, MaxAt
  <2>3. Before(Ends(t), Len(t) + 1) = k
    BY <2>2 DEF Before
  <2>4. Rest(t) = SubSeq(t, k + 1, k)
    <3> HIDE DEF t
    <3> QED BY <1>1, <2>3, RestIs
  <2> QED BY <1>1, <2>4, SubSeqEmpty
<1>6. N \in Nat /\ Telling(s) \subseteq 1 .. Len(s)
      /\ \A n \in 1 .. N : InOrder(Telling(s))[n] \in 1 .. Len(s)
  BY TellingAre
<1>7. /\ Lines(s) \in Seq(Seq(Byte)) /\ Len(Lines(s)) = N
      /\ \A n \in 1 .. N : Lines(s)[n] = Line(s, InOrder(Telling(s))[n])
  BY LinesAre
<1>8. /\ Lines(t) \in Seq(Seq(Byte)) /\ Len(Lines(t)) = Cardinality(Telling(t))
      /\ \A n \in 1 .. Cardinality(Telling(t)) :
           Lines(t)[n] = Line(t, InOrder(Telling(t))[n])
  <2> HIDE DEF t
  <2> QED BY <1>1, LinesAre
<1>9. CASE Payload[Rest(s)] = << >>
  <2>1. Telling(t) = Telling(s)
    BY <1>2, <1>3, <1>4, <1>9 DEF Telling
  <2>2. \A n \in 1 .. N : Lines(t)[n] = Lines(s)[n]
    BY <1>3, <1>6, <1>7, <1>8, <2>1
  <2>3. Lines(t) = Lines(s)
    <3> HIDE DEF t, N
    <3> QED BY <1>7, <1>8, <2>1, <2>2, SeqEqual DEF N
  <2> QED BY <1>5, <1>9, <2>3
<1>10. CASE Payload[Rest(s)] # << >>
  <2> DEFINE u == Append(Lines(s), Payload[Rest(s)])
  <2>1. Telling(t) = Telling(s) \cup {k}
    BY <1>2, <1>3, <1>4, <1>10 DEF Telling
  <2>2. /\ Cardinality(Telling(t)) = N + 1
        /\ \A n \in 1 .. N : InOrder(Telling(t))[n] = InOrder(Telling(s))[n]
        /\ InOrder(Telling(t))[N + 1] = k
    <3>1. Telling(t) = Telling(s) \cup {Len(s) + 1}
      BY <2>1
    <3> DEFINE S == Telling(s)
               T == S \cup {Len(s) + 1}
    <3>2. S \subseteq 1 .. Len(s) /\ Len(s) \in Nat
      BY <1>1, <1>6
    <3> HIDE DEF S
    <3>3. /\ Cardinality(T) = Cardinality(S) + 1
          /\ \A n \in 1 .. Cardinality(S) : InOrder(T)[n] = InOrder(S)[n]
          /\ InOrder(T)[Cardinality(S) + 1] = Len(s) + 1
      BY <3>2, InOrderGrows
    <3> QED BY <3>1, <3>3 DEF S
  <2>3. Payload[Rest(s)] \in Seq(Byte)
    BY RestIs, PayloadTyped
  <2>4. /\ u \in Seq(Seq(Byte)) /\ Len(u) = N + 1 /\ u[N + 1] = Payload[Rest(s)]
        /\ \A n \in 1 .. N : u[n] = Lines(s)[n]
    <3> HIDE DEF N
    <3> QED BY <1>7, <2>3, AppendProperties
  <2>5. \A n \in 1 .. N : Lines(t)[n] = u[n]
    <3>1. \A n \in 1 .. N : n \in 1 .. N + 1
      BY <1>6
    <3> HIDE DEF t, N, u
    <3> QED BY <1>3, <1>6, <1>7, <1>8, <2>2, <2>4, <3>1
  <2>6. Lines(t)[N + 1] = u[N + 1]
    <3>1. N + 1 \in 1 .. N + 1
      BY <1>6
    <3> HIDE DEF t, N, u, k
    <3> QED BY <1>4, <1>8, <2>2, <2>4, <3>1
  <2>7. Lines(t) = u
    <3>1. \A n \in 1 .. N + 1 : n \in 1 .. N \/ n = N + 1
      BY <1>6
    <3>2. Len(Lines(t)) = N + 1 /\ Len(Lines(t)) = Len(u)
      BY <1>8, <2>2, <2>4
    <3>3. Lines(t) \in Seq(Seq(Byte)) /\ u \in Seq(Seq(Byte))
      BY <1>8, <2>4
    <3> HIDE DEF t, N, u
    <3>4. \A n \in 1 .. Len(Lines(t)) : Lines(t)[n] = u[n]
      BY <2>5, <2>6, <3>1, <3>2
    <3> QED BY <3>2, <3>3, <3>4, SeqEqual
  <2> QED BY <1>5, <1>10, <2>7
<1> QED BY <1>9, <1>10
-----------------------------------------------------------------------------
(* Messages so far.                                                        *)

\* To append behind a sequence is to append to the last part of it.
LEMMA AppendToConcat ==
  ASSUME NEW S, NEW u \in Seq(S), NEW v \in Seq(S), NEW b \in S
  PROVE  u \o Append(v, b) = Append(u \o v, b)
<1>1. Append(v, b) = v \o <<b>>
  BY AppendIsConcat
<1>2. u \o v \in Seq(S)
  BY ConcatProperties
<1>3. Append(u \o v, b) = (u \o v) \o <<b>>
  BY <1>2, AppendIsConcat
<1>4. <<b>> \in Seq(S)
  OBVIOUS
<1> QED BY <1>1, <1>3, <1>4, ConcatAssociative

\* What comes first is a prefix.
LEMMA PrefixOfConcat ==
  ASSUME NEW S, NEW u \in Seq(S), NEW v \in Seq(S)
  PROVE  IsPrefix(u, u \o v)
<1>1. Len(u \o v) = Len(u) + Len(v) /\ Len(u) \in Nat /\ Len(v) \in Nat
  BY ConcatProperties, LenProperties
<1>2. SubSeq(u, 1, Len(u)) = SubSeq(u \o v, 1, Len(u))
  <2>1. CASE Len(u) = 0
    <3>1. u \o v \in Seq(S) /\ ~(1 <= 0) /\ 1 \in Int /\ 0 \in Int
      BY ConcatProperties
    <3>2. SubSeq(u, 1, 0) = << >>
      BY <3>1, SubSeqEmpty
    <3>3. SubSeq(u \o v, 1, 0) = << >>
      BY <3>1, SubSeqEmpty
    <3> QED BY <2>1, <3>2, <3>3
  <2>2. CASE Len(u) # 0
    <3>1. 1 \in 1 .. Len(u) /\ Len(u) \in 1 .. Len(u)
      BY <1>1, <2>2
    <3> QED BY <3>1, SubSeqOfConcat1
  <2> QED BY <2>1, <2>2
<1> QED BY <1>1, <1>2 DEF IsPrefix

\* What has arrived consists of bytes.
LEMMA ArrivedTyped ==
  ASSUME Typed, NEW k \in Client
  PROVE  Arrived(k) \in Seq(Byte)
<1>1. unread[k] \in Seq(Byte)
  BY DEF Typed
<1>2. k \in DOMAIN m_clients => m_clients[k].buffer \in Seq(Byte)
  <2>1. k \in DOMAIN m_clients => m_clients[k].buffer \in Seq(Plain)
    BY DEF Typed, ClientEntry
  <2> QED BY <2>1, SeqMonotonic DEF Plain
<1>3. << >> \in Seq(Byte)
  BY EmptySeq
<1> QED BY <1>1, <1>2, <1>3, ConcatProperties DEF Arrived

\* When all has been read, what has arrived is the buffer, and no message.
LEMMA ArrivedRead ==
  ASSUME Typed, NEW k \in Client, unread[k] = << >>
  PROVE  /\ Arrived(k) \in Seq(Plain)
         /\ k \in DOMAIN m_clients => Arrived(k) = m_clients[k].buffer
<1>1. k \in DOMAIN m_clients => m_clients[k].buffer \in Seq(Plain)
  BY DEF Typed, ClientEntry
<1>2. << >> \in Seq(Plain)
  BY EmptySeq
<1> QED BY <1>1, <1>2, ConcatEmptySeq DEF Arrived

\* A scanner that has no part in a step is understood after it.
LEMMA UnderstoodStays ==
  ASSUME NEW k \in Client, UnderstoodOf(k),
         peer'[k] = peer[k], unread'[k] = unread[k], said'[k] = said[k],
         messageReceived'[k] = messageReceived[k],
         k \in DOMAIN m_clients' <=> k \in DOMAIN m_clients,
         k \in DOMAIN m_clients => m_clients'[k].buffer = m_clients[k].buffer,
         m_nextClientId' <= k => m_nextClientId <= k
  PROVE  UnderstoodOf(k)'
<1>1. Arrived(k)' = Arrived(k)
  BY DEF Arrived
<1> QED BY <1>1 DEF UnderstoodOf

\* The client found for a connection is the one of that number.
LEMMA FoundIs ==
  ASSUME Typed, Addressed, NEW k \in Client
  PROVE  /\ k \in DOMAIN m_clients => Found(k) = {k}
         /\ Found(k) \subseteq {k}
<1>1. ASSUME NEW i \in Matching(k)
      PROVE  i = k
  <2>1. i \in DOMAIN m_clients /\ i \in Client /\ socketOf[k] = {m_clients[i].socket}
    BY DEF Matching, Typed
  <2>2. socketOf[i] = {m_clients[i].socket}
    BY <2>1 DEF Addressed
  <2>3. socketOf[i] \cap socketOf[k] # {}
    BY <2>1, <2>2
  <2> QED BY <2>1, <2>3 DEF Addressed
<1>2. k \in DOMAIN m_clients => k \in Matching(k)
  BY DEF Matching, Addressed
<1>3. k <= k
  BY DEF Client
<1> QED BY <1>1, <1>2, <1>3 DEF Found
-----------------------------------------------------------------------------
(* The steps.                                                              *)

\* At first nothing has been sent or received.
LEMMA InitPda == Init => PdaInv
<1> SUFFICES ASSUME Init PROVE PdaInv
  OBVIOUS
<1> USE DEF Init
<1>1. Typed
  <2>1. DOMAIN m_clients = {} /\ m_clients \in [DOMAIN m_clients -> ClientEntry]
    BY SMT
  <2>2. \A S : << >> \in Seq(S)
    BY EmptySeq
  <2>3. said \in [Client -> Saids]
    BY <2>2 DEF Saids
  <2>4. unread \in [Client -> Seq(Byte)] /\ messageReceived \in [Client -> Seq(Message)]
        /\ pending \in Seq(Client)
    BY <2>2
  <2>5. 1 \in 1 .. MaxClients + 1 /\ 0 \in 0 .. MaxBytes
    BY PdaAssumption
  <2>6. peer \in [Client -> Peer] /\ main \in MainPc /\ listening \in BOOLEAN
        /\ socketOf \in [Client -> SUBSET Socket]
    BY DEF Peer, MainPc
  <2> QED BY <2>1, <2>3, <2>4, <2>5, <2>6 DEF Typed
<1>2. InTurn
  <2>1. Len(pending) = 0 /\ DOMAIN pending = {}
    BY EmptySeq
  <2>2. \A k \in Client : ~(k < 1 + 0)
    BY DEF Client
  <2> QED BY <2>1, <2>2 DEF InTurn
<1>3. Addressed
  BY DEF Addressed
<1>4. Understood
  <2> SUFFICES ASSUME NEW k \in Client PROVE UnderstoodOf(k)
    BY DEF Understood
  <2>1. << >> \in Seq(Plain) /\ << >> \in Seq(Message)
    BY EmptySeq
  <2>2. k \notin DOMAIN m_clients /\ unread[k] = << >>
    OBVIOUS
  <2>3. Arrived(k) = << >>
    BY <2>1, <2>2, ConcatEmptySeq DEF Arrived
  <2>4. Lines(<< >>) = << >> /\ Rest(<< >>) = << >>
    BY <2>1, DrainPlain
  <2>5. << >> \o << >> = << >>
    BY <2>1, ConcatEmptySeq
  <2> QED BY <2>3, <2>4, <2>5 DEF UnderstoodOf, Lines, Rest
<1> QED BY <1>1, <1>2, <1>3, <1>4 DEF PdaInv

\* A step that changes neither clients nor scanners keeps all of them understood.
LEMMA AllUnderstood ==
  ASSUME PdaInv, UNCHANGED <<server, scanner>>
  PROVE  Understood'
<1> SUFFICES ASSUME NEW k \in Client PROVE UnderstoodOf(k)'
  BY DEF Understood
<1>1. UnderstoodOf(k)
  BY DEF PdaInv, Understood
<1>2. UNCHANGED <<m_clients, m_nextClientId, messageReceived, peer, unread, said, sent>>
  BY DEF server, scanner
<1> QED BY <1>1, <1>2, UnderstoodStays

\* The server starts.
LEMMA StartStep ==
  ASSUME PdaInv, Start
  PROVE  PdaInv'
<1> USE DEF Start
<1>1. UNCHANGED <<m_clients, m_nextClientId, messageReceived, peer, unread, said, sent,
                  pending, socketOf>>
  BY DEF server, scanner
<1>2. Typed'
  BY <1>1 DEF PdaInv, Typed, MainPc
<1>3. InTurn'
  BY <1>1 DEF PdaInv, InTurn
<1>4. Addressed'
  BY <1>1 DEF PdaInv, Addressed
<1> QED BY <1>2, <1>3, <1>4, AllUnderstood DEF PdaInv

\* A scanner connects: it is the next one.
LEMMA ConnectsStep ==
  ASSUME PdaInv, NEW k \in Client, Connects(k)
  PROVE  PdaInv'
<1> USE DEF Connects
<1>1. UNCHANGED <<m_clients, m_nextClientId, messageReceived, unread, said, sent,
                  listening, socketOf, main>>
  BY DEF server
<1>2. pending \in Seq(Client) /\ pending' = Append(pending, k)
  BY DEF PdaInv, Typed
<1>3. Typed'
  <2>1. pending' \in Seq(Client)
    BY <1>2, AppendProperties
  <2>2. peer' \in [Client -> Peer]
    BY DEF PdaInv, Typed, Peer
  <2> QED BY <1>1, <2>1, <2>2 DEF PdaInv, Typed
<1>4. InTurn'
  <2> SUFFICES ASSUME main \in {"start", "loop"} PROVE InTurn'
    BY <1>1 DEF InTurn
  <2> DEFINE L == Len(pending)
             n == m_nextClientId
  <2>1. L \in Nat /\ DOMAIN pending = 1 .. L
    BY <1>2, LenProperties
  <2>2. n \in Nat \ {0} /\ k \in Nat \ {0} /\ k <= MaxClients /\ MaxClients \in Nat
    BY PdaAssumption DEF PdaInv, Typed, Client
  <2>3. /\ \A j \in 1 .. L : pending[j] = n + j - 1
        /\ \A l \in Client : peer[l] # "none" <=> l < n + L
    BY <2>1 DEF PdaInv, InTurn
  <2> HIDE DEF L, n
  <2>4. k = n + L
    <3>1. ~(k < n + L)
      BY <2>3
    <3>2. ASSUME n + L < k PROVE FALSE
      <4>1. n + L \in 1 .. k - 1 /\ n + L \in Client /\ ~(n + L < n + L)
        BY <2>1, <2>2, <3>2 DEF Client
      <4> QED BY <2>3, <4>1
    <3> QED BY <2>1, <2>2, <3>1, <3>2
  <2>5. /\ Len(pending') = L + 1 /\ DOMAIN pending' = 1 .. L + 1
        /\ \A j \in 1 .. L : pending'[j] = pending[j]
        /\ pending'[L + 1] = k
    BY <1>2, AppendProperties, LenProperties DEF L
  <2>6. \A j \in DOMAIN pending' : pending'[j] = n + j - 1
    <3> SUFFICES ASSUME NEW j \in 1 .. L + 1 PROVE pending'[j] = n + j - 1
      BY <2>5
    <3>1. CASE j \in 1 .. L
      BY <3>1, <2>3, <2>5
    <3>2. CASE j = L + 1
      <4>1. n + L = n + (L + 1) - 1
        BY <2>1, <2>2
      <4> QED BY <3>2, <2>4, <2>5, <4>1
    <3> QED BY <2>1, <3>1, <3>2
  <2>7. \A l \in Client : peer'[l] # "none" <=> l < n + (L + 1)
    <3> SUFFICES ASSUME NEW l \in Client PROVE peer'[l] # "none" <=> l < n + (L + 1)
      OBVIOUS
    <3>1. l \in Nat
      BY DEF Client
    <3>2. CASE l = k
      <4>1. peer'[l] = "open"
        BY <3>2 DEF PdaInv, Typed
      <4> QED BY <4>1, <3>2, <2>1, <2>2, <2>4
    <3>3. CASE l # k
      <4>1. peer'[l] = peer[l]
        BY <3>3 DEF PdaInv, Typed
      <4>2. l < n + (L + 1) <=> l < n + L
        BY <3>1, <3>3, <2>1, <2>2, <2>4
      <4> QED BY <4>1, <4>2, <2>3
    <3> QED BY <3>2, <3>3
  <2> QED BY <1>1, <2>5, <2>6, <2>7 DEF InTurn, n
<1>5. Addressed'
  BY <1>1 DEF PdaInv, Addressed
<1>6. Understood'
  <2> SUFFICES ASSUME NEW l \in Client PROVE UnderstoodOf(l)'
    BY DEF Understood
  <2>1. UnderstoodOf(l)
    BY DEF PdaInv, Understood
  <2>2. CASE l # k
    <3>1. peer'[l] = peer[l]
      BY <2>2 DEF PdaInv, Typed
    <3> QED BY <1>1, <2>1, <3>1, UnderstoodStays
  <2>3. CASE l = k
    <3>1. peer[l] = "none" /\ peer'[l] = "open"
      BY <2>3 DEF PdaInv, Typed
    <3>2. Arrived(l)' = Arrived(l)
      BY <1>1 DEF Arrived
    <3> QED BY <1>1, <2>1, <3>1, <3>2 DEF UnderstoodOf
  <2> QED BY <2>2, <2>3
<1> QED BY <1>3, <1>4, <1>5, <1>6 DEF PdaInv

\* What a scanner says, and its types.
LEMMA SayingTyped ==
  ASSUME NEW m \in Saids, NEW b \in Byte
  PROVE  Saying(m, b) \in Saids
<1>1. m.messages \in Seq(Message) /\ m.begun \in Seq(Plain)
      /\ m = [messages |-> m.messages, begun |-> m.begun]
  BY DEF Saids
<1>2. CASE b \notin Terminator
  <2>1. Append(m.begun, b) \in Seq(Plain)
    BY <1>1, <1>2, AppendProperties DEF Plain
  <2>2. \A v \in Seq(Plain) : [m EXCEPT !.begun = v] \in Saids
    BY DEF Saids
  <2> QED BY <1>2, <2>1, <2>2 DEF Saying
<1>3. CASE b \in Terminator
  <2>1. Payload[m.begun] \in Seq(Plain)
    BY <1>1, PayloadTyped DEF Plain
  <2>2. Payload[m.begun] # << >> => Append(m.messages, Payload[m.begun]) \in Seq(Message)
    BY <1>1, <2>1, AppendProperties DEF Message
  <2>3. << >> \in Seq(Plain)
    BY EmptySeq
  <2>4. Saying(m, b) =
          [messages |-> IF Payload[m.begun] = << >> THEN m.messages
                        ELSE Append(m.messages, Payload[m.begun]),
           begun |-> << >>]
    BY <1>3 DEF Saying
  <2> HIDE DEF Message
  <2> QED BY <1>1, <2>2, <2>3, <2>4 DEF Saids
<1> QED BY <1>2, <1>3
\* Messages are sequences of bytes.
LEMMA MessagesAreBytes ==
  ASSUME NEW s \in Seq(Message)
  PROVE  s \in Seq(Seq(Byte))
<1>1. \A m \in Seq(Plain) : m \in Seq(Byte)
  BY SeqMonotonic DEF Plain
<1>2. Message \subseteq Seq(Byte)
  BY <1>1 DEF Message
<1> QED BY <1>2, SeqMonotonic

\* One byte more of a scanner that is understood: it still is.
LEMMA SendsUnderstood ==
  ASSUME PdaInv, NEW k \in Client, NEW b \in Byte, peer[k] = "open",
         UNCHANGED <<m_clients, messageReceived, peer>>,
         unread'[k] = Append(unread[k], b), said'[k] = Saying(said[k], b)
  PROVE  UnderstoodOf(k)'
<1> DEFINE A == Arrived(k)
           mr == messageReceived[k]
<1>1. A \in Seq(Byte) /\ mr \in Seq(Seq(Byte))
  <2>1. mr \in Seq(Message)
    BY DEF PdaInv, Typed
  <2> QED BY <2>1, ArrivedTyped, MessagesAreBytes DEF PdaInv
<1>2. said[k].messages = mr \o Lines(A) /\ said[k].begun = Rest(A)
  BY DEF PdaInv, Understood, UnderstoodOf, Lines, Rest
<1>3. Arrived(k)' = Append(A, b)
  <2> DEFINE u == IF k \in DOMAIN m_clients THEN m_clients[k].buffer ELSE << >>
  <2>1. u \in Seq(Byte)
    <3>1. k \in DOMAIN m_clients => m_clients[k].buffer \in Seq(Plain)
      BY DEF PdaInv, Typed, ClientEntry
    <3> QED BY <3>1, EmptySeq, SeqMonotonic DEF Plain
  <2>2. unread[k] \in Seq(Byte)
    BY DEF PdaInv, Typed
  <2>3. A = u \o unread[k] /\ Arrived(k)' = u \o Append(unread[k], b)
    BY DEF Arrived
  <2> HIDE DEF u, A
  <2> QED BY <2>1, <2>2, <2>3, AppendToConcat
<1> HIDE DEF A, mr
<1>4. said'[k].messages = mr \o Lines(Append(A, b)) /\ said'[k].begun = Rest(Append(A, b))
  <2>1. CASE b \notin Terminator
    <3>1. /\ Saying(said[k], b).messages = said[k].messages
          /\ Saying(said[k], b).begun = Append(said[k].begun, b)
      <4>1. said[k] \in Saids
        BY DEF PdaInv, Typed
      <4> QED BY <4>1, <2>1 DEF Saying, Saids
    <3> QED BY <1>1, <1>2, <2>1, <3>1, DrainByte
  <2>2. CASE b \in Terminator
    <3> DEFINE p == Payload[Rest(A)]
    <3>1. /\ Saying(said[k], b).messages =
               IF p = << >> THEN mr \o Lines(A) ELSE Append(mr \o Lines(A), p)
          /\ Saying(said[k], b).begun = << >>
      BY <1>2, <2>2 DEF Saying
    <3>2. /\ Lines(Append(A, b)) = IF p = << >> THEN Lines(A) ELSE Append(Lines(A), p)
          /\ Rest(Append(A, b)) = << >>
      BY <1>1, <2>2, DrainEnd
    <3>3. p \in Seq(Byte) /\ Lines(A) \in Seq(Seq(Byte))
      BY <1>1, RestIs, PayloadTyped, LinesAre
    <3> HIDE DEF p
    <3>4. mr \o Append(Lines(A), p) = Append(mr \o Lines(A), p)
      BY <1>1, <3>3, AppendToConcat
    <3> QED BY <3>1, <3>2, <3>4
  <2> QED BY <2>1, <2>2
<1>5. peer'[k] = "open" /\ messageReceived'[k] = mr
  BY DEF mr
<1> QED BY <1>3, <1>4, <1>5 DEF UnderstoodOf, Lines, Rest

\* A scanner sends a byte.
LEMMA SendsStep ==
  ASSUME PdaInv, NEW k \in Client, Sends(k)
  PROVE  PdaInv'
<1>1. UNCHANGED <<m_clients, m_nextClientId, messageReceived, listening, pending, socketOf,
                  peer, main>>
  BY DEF Sends, server
<1>2. PICK b \in Byte :
        /\ unread' = [unread EXCEPT ![k] = Append(unread[k], b)]
        /\ said' = [said EXCEPT ![k] = Saying(said[k], b)]
  BY DEF Sends
<1>3. peer[k] = "open"
  BY DEF Sends, Scanning
<1>4. unread \in [Client -> Seq(Byte)] /\ said \in [Client -> Saids]
  BY DEF PdaInv, Typed
<1>5. Typed'
  <2>1. unread' \in [Client -> Seq(Byte)]
    <3>1. Append(unread[k], b) \in Seq(Byte)
      BY <1>4, AppendProperties
    <3> QED BY <1>2, <1>4, <3>1
  <2>2. said' \in [Client -> Saids]
    <3>1. Saying(said[k], b) \in Saids
      BY <1>4, SayingTyped
    <3> QED BY <1>2, <1>4, <3>1
  <2>3. sent' \in 0 .. MaxBytes
    BY PdaAssumption DEF Sends, PdaInv, Typed
  <2> QED BY <1>1, <2>1, <2>2, <2>3 DEF PdaInv, Typed
<1>6. InTurn' /\ Addressed'
  BY <1>1 DEF PdaInv, InTurn, Addressed
<1>7. Understood'
  <2> SUFFICES ASSUME NEW l \in Client PROVE UnderstoodOf(l)'
    BY DEF Understood
  <2>1. CASE l # k
    <3>1. unread'[l] = unread[l] /\ said'[l] = said[l]
      BY <1>2, <1>4, <2>1
    <3>2. UnderstoodOf(l)
      BY DEF PdaInv, Understood
    <3> QED BY <1>1, <3>1, <3>2, UnderstoodStays
  <2>2. CASE l = k
    <3>1. unread'[k] = Append(unread[k], b) /\ said'[k] = Saying(said[k], b)
      BY <1>2, <1>4
    <3> QED BY <1>1, <1>3, <2>2, <3>1, SendsUnderstood
  <2> QED BY <2>1, <2>2
<1> QED BY <1>5, <1>6, <1>7 DEF PdaInv

\* A scanner hangs up.
LEMMA ClosesStep ==
  ASSUME PdaInv, NEW k \in Client, Closes(k)
  PROVE  PdaInv'
<1>1. UNCHANGED <<m_clients, m_nextClientId, messageReceived, listening, pending, socketOf,
                  unread, said, sent, main>>
  BY DEF Closes, server
<1>2. /\ peer \in [Client -> Peer] /\ peer[k] = "open"
      /\ peer' = [peer EXCEPT ![k] = "closed"]
  BY DEF Closes, Scanning, PdaInv, Typed
<1>3. Typed'
  <2>1. peer' \in [Client -> Peer]
    BY <1>2 DEF Peer
  <2> QED BY <1>1, <2>1 DEF PdaInv, Typed
<1>4. InTurn'
  BY <1>1, <1>2 DEF PdaInv, InTurn
<1>5. Addressed'
  BY <1>1 DEF PdaInv, Addressed
<1>6. Understood'
  <2> SUFFICES ASSUME NEW l \in Client PROVE UnderstoodOf(l)'
    BY DEF Understood
  <2>1. UnderstoodOf(l)
    BY DEF PdaInv, Understood
  <2>2. CASE l # k
    BY <1>1, <1>2, <2>1, <2>2, UnderstoodStays
  <2>3. CASE l = k
    <3>1. Arrived(k)' = Arrived(k) /\ peer'[k] = "closed"
      BY <1>1, <1>2 DEF Arrived
    <3> QED BY <1>1, <1>2, <2>1, <2>3, <3>1 DEF UnderstoodOf
  <2> QED BY <2>2, <2>3
<1> QED BY <1>3, <1>4, <1>5, <1>6 DEF PdaInv

\* The connection of a scanner is reset: what was not read of it is lost.
LEMMA ResetsStep ==
  ASSUME PdaInv, NEW k \in Client, Resets(k)
  PROVE  PdaInv'
<1>1. UNCHANGED <<m_clients, m_nextClientId, messageReceived, listening, pending, socketOf,
                  said, sent, main>>
  BY DEF Resets, server
<1>2. /\ peer \in [Client -> Peer] /\ peer[k] = "open" /\ unread \in [Client -> Seq(Byte)]
      /\ peer' = [peer EXCEPT ![k] = "reset"]
      /\ unread' = [unread EXCEPT ![k] = << >>]
  BY DEF Resets, Scanning, PdaInv, Typed
<1>3. Typed'
  <2>1. peer' \in [Client -> Peer] /\ unread' \in [Client -> Seq(Byte)]
    BY <1>2, EmptySeq DEF Peer
  <2> QED BY <1>1, <2>1 DEF PdaInv, Typed
<1>4. InTurn'
  BY <1>1, <1>2 DEF PdaInv, InTurn
<1>5. Addressed'
  BY <1>1 DEF PdaInv, Addressed
<1>6. Understood'
  <2> SUFFICES ASSUME NEW l \in Client PROVE UnderstoodOf(l)'
    BY DEF Understood
  <2>1. UnderstoodOf(l)
    BY DEF PdaInv, Understood
  <2>2. CASE l # k
    BY <1>1, <1>2, <2>1, <2>2, UnderstoodStays
  <2>3. CASE l = k
    <3>1. said[k].messages = messageReceived[k] \o Lines(Arrived(k))
      BY <1>2, <2>1, <2>3 DEF UnderstoodOf, Lines
    <3>2. messageReceived[k] \in Seq(Seq(Byte)) /\ Lines(Arrived(k)) \in Seq(Seq(Byte))
      <4>1. messageReceived[k] \in Seq(Message)
        BY DEF PdaInv, Typed
      <4> QED BY <4>1, MessagesAreBytes, ArrivedTyped, LinesAre DEF PdaInv
    <3>3. IsPrefix(messageReceived[k], said[k].messages)
      BY <3>1, <3>2, PrefixOfConcat
    <3>4. peer'[k] = "reset" /\ unread'[k] = << >>
      BY <1>2
    <3> QED BY <1>1, <2>3, <3>3, <3>4 DEF UnderstoodOf
  <2> QED BY <2>2, <2>3
<1> QED BY <1>3, <1>4, <1>5, <1>6 DEF PdaInv
\* The connections that wait are those of the next ids, which have no client yet.
LEMMA WaitingAreNext ==
  ASSUME PdaInv, main = "loop", pending # << >>
  PROVE  /\ Len(pending) \in Nat \ {0} /\ DOMAIN pending = 1 .. Len(pending)
         /\ m_nextClientId \in Nat \ {0}
         /\ m_nextClientId + Len(pending) \in 1 .. MaxClients + 1
         /\ \A j \in 1 .. Len(pending) : pending[j] = m_nextClientId + j - 1
         /\ \A k \in m_nextClientId .. m_nextClientId + Len(pending) - 1 :
              k \in Client /\ k \notin DOMAIN m_clients /\ socketOf[k] = {}
<1> DEFINE L == Len(pending)
           n == m_nextClientId
<1>1. pending \in Seq(Client) /\ n \in Nat \ {0} /\ MaxClients \in Nat
  BY PdaAssumption DEF PdaInv, Typed
<1>2. L \in Nat \ {0} /\ DOMAIN pending = 1 .. L /\ \A j \in 1 .. L : pending[j] \in Client
  BY <1>1, EmptySeq, LenProperties
<1>3. \A j \in 1 .. L : pending[j] = n + j - 1
  BY <1>2 DEF PdaInv, InTurn
<1> HIDE DEF L, n
<1>4. n + L \in 1 .. MaxClients + 1
  <2>1. L \in 1 .. L
    BY <1>2
  <2>2. n + L - 1 \in 1 .. MaxClients
    BY <1>2, <1>3, <2>1 DEF Client
  <2> QED BY <1>1, <1>2, <2>2
<1>5. ASSUME NEW k \in n .. n + L - 1
      PROVE  k \in Client /\ k \notin DOMAIN m_clients /\ socketOf[k] = {}
  <2>1. k \in Client /\ ~(k < n)
    BY <1>1, <1>2, <1>4 DEF Client
  <2> QED BY <2>1 DEF PdaInv, Addressed, n
<1> QED BY <1>1, <1>2, <1>3, <1>4, <1>5 DEF L, n

\* In a sequence that counts up from n, what it has is at one place.
LEMMA PlaceOfCount ==
  ASSUME NEW seq, NEW L \in Nat, NEW n \in Nat, DOMAIN seq = 1 .. L,
         \A j \in 1 .. L : seq[j] = n + j - 1,
         NEW k \in Nat
  PROVE  {i \in DOMAIN seq : seq[i] = k}
           = IF k \in n .. n + L - 1 THEN {k - n + 1} ELSE {}
<1>1. \A i \in 1 .. L : seq[i] = k <=> i = k - n + 1
  OBVIOUS
<1>2. CASE k \in n .. n + L - 1
  <2>1. k - n + 1 \in 1 .. L
    BY <1>2
  <2> QED BY <1>1, <1>2, <2>1, Zenon
<1>3. CASE k \notin n .. n + L - 1
  <2>1. k - n + 1 \notin 1 .. L
    BY <1>3
  <2> QED BY <1>1, <1>3, <2>1, Zenon
<1> QED BY <1>2, <1>3

\* Every connection that waits becomes a client, with an address that no other has.
LEMMA OnNewConnectionStep ==
  ASSUME PdaInv, OnNewConnection
  PROVE  PdaInv'
<1> DEFINE L == Len(pending)
           n == m_nextClientId
           New == n .. n + L - 1
<1>1. /\ main = "loop" /\ pending # << >> /\ n' = n + L /\ pending' = << >>
      /\ UNCHANGED <<listening, peer, unread, said, sent, messageReceived, main>>
  BY DEF OnNewConnection, scanner
<1>2. /\ L \in Nat \ {0} /\ DOMAIN pending = 1 .. L /\ n \in Nat \ {0}
      /\ n + L \in 1 .. MaxClients + 1
      /\ \A j \in 1 .. L : pending[j] = n + j - 1
      /\ \A k \in New : k \in Client /\ k \notin DOMAIN m_clients /\ socketOf[k] = {}
  BY <1>1, WaitingAreNext
<1>3. PICK address \in Injection(DOMAIN pending, FreeAddress) :
        /\ socketOf' = [k \in Client |->
             socketOf[k] \cup {address[j] : j \in {i \in DOMAIN pending : pending[i] = k}}]
        /\ m_clients' = [id \in DOMAIN m_clients \cup New |->
             IF id \in New THEN [socket |-> address[id - n + 1], buffer |-> << >>]
             ELSE m_clients[id]]
  BY DEF OnNewConnection, NextIds
<1>4. /\ \A k \in New : k - n + 1 \in 1 .. L
      /\ \A j \in 1 .. L : j = (n + j - 1) - n + 1 /\ n + j - 1 \in New
      /\ \A k, l \in New : k - n + 1 = l - n + 1 => k = l
      /\ \A k \in New : k < n + L
  BY <1>2
<1>5. /\ \A j \in 1 .. L : address[j] \in Socket /\ \A k \in Client : address[j] \notin socketOf[k]
      /\ \A i, j \in 1 .. L : address[i] = address[j] => i = j
  <2>1. address \in [1 .. L -> FreeAddress]
    BY <1>2 DEF Injection
  <2>2. IsInjective(address)
    BY DEF Injection
  <2> QED BY <2>1, <2>2 DEF IsInjective, FreeAddress
<1>6. /\ DOMAIN m_clients' = DOMAIN m_clients \cup New
      /\ \A k \in DOMAIN m_clients : m_clients'[k] = m_clients[k]
      /\ \A k \in New : m_clients'[k] = [socket |-> address[k - n + 1], buffer |-> << >>]
      /\ m_clients' \in [DOMAIN m_clients' -> ClientEntry]
  <2>1. \A k \in New : [socket |-> address[k - n + 1], buffer |-> << >>] \in ClientEntry
    BY <1>4, <1>5, EmptySeq DEF ClientEntry
  <2>2. \A k \in DOMAIN m_clients : m_clients[k] \in ClientEntry /\ k \notin New
    BY <1>2 DEF PdaInv, Typed
  <2> HIDE DEF New
  <2>3. DOMAIN m_clients' = DOMAIN m_clients \cup New
    BY <1>3
  <2>4. \A x \in DOMAIN m_clients \cup New :
          m_clients'[x] = IF x \in New THEN [socket |-> address[x - n + 1], buffer |-> << >>]
                          ELSE m_clients[x]
    BY <1>3
  <2>5. m_clients' \in [DOMAIN m_clients \cup New -> ClientEntry]
    BY <1>3, <2>1, <2>2
  <2> QED BY <2>2, <2>3, <2>4, <2>5
<1>7. /\ \A k \in New : socketOf'[k] = {address[k - n + 1]}
      /\ \A k \in Client : k \notin New => socketOf'[k] = socketOf[k]
      /\ socketOf' \in [Client -> SUBSET Socket]
  <2>1. ASSUME NEW k \in New
        PROVE  socketOf'[k] = {address[k - n + 1]}
    <3>1. {i \in DOMAIN pending : pending[i] = k} = {k - n + 1}
      <4>1. k \in Nat
        BY <1>2
      <4> QED BY <1>2, <4>1, PlaceOfCount
    <3>2. socketOf[k] = {} /\ k \in Client
      BY <1>2
    <3> QED BY <1>3, <3>1, <3>2
  <2>2. ASSUME NEW k \in Client, k \notin New
        PROVE  socketOf'[k] = socketOf[k]
    <3>1. {i \in DOMAIN pending : pending[i] = k} = {}
      <4>1. k \in Nat
        BY <2>2 DEF Client
      <4> QED BY <1>2, <2>2, <4>1, PlaceOfCount
    <3> QED BY <1>3, <3>1
  <2>3. \A k \in Client : socketOf'[k] \subseteq Socket
    <3>1. \A k \in Client : socketOf[k] \subseteq Socket
      BY DEF PdaInv, Typed
    <3> HIDE DEF L, n, New
    <3> QED BY <1>4, <1>5, <2>1, <2>2, <3>1
  <2> QED BY <1>3, <2>1, <2>2, <2>3
<1> HIDE DEF L, n, New
<1>8. Typed'
  <2>1. DOMAIN m_clients' \subseteq Client
    BY <1>2, <1>6 DEF PdaInv, Typed
  <2>2. pending' \in Seq(Client)
    BY <1>1, EmptySeq
  <2>3. m_nextClientId' \in 1 .. MaxClients + 1
    BY <1>1, <1>2 DEF n
  <2> QED BY <1>1, <1>6, <1>7, <2>1, <2>2, <2>3 DEF PdaInv, Typed
<1>9. InTurn'
  <2>1. DOMAIN pending' = {} /\ Len(pending') = 0
    BY <1>1, EmptySeq
  <2>2. \A k \in Client : peer[k] # "none" <=> k < n + L
    BY <1>1 DEF PdaInv, InTurn, n, L
  <2>3. (n + L) + 0 = n + L
    BY <1>2
  <2>4. m_nextClientId' + Len(pending') = n + L
    BY <1>1, <2>1, <2>3 DEF n
  <2> QED BY <1>1, <2>1, <2>2, <2>4 DEF InTurn
<1>10. Addressed'
  <2>1. ASSUME NEW k \in Client
        PROVE  (k \in DOMAIN m_clients' <=> socketOf'[k] # {})
               /\ (k \in DOMAIN m_clients' =>
                     k < m_nextClientId' /\ socketOf'[k] = {m_clients'[k].socket})
    <3>1. CASE k \in New
      BY <1>1, <1>4, <1>6, <1>7, <3>1 DEF n
    <3>2. CASE k \notin New
      <4>1. k \in DOMAIN m_clients => k < n /\ socketOf[k] = {m_clients[k].socket}
        BY DEF PdaInv, Addressed, n
      <4>2. k < n => k < n + L
        BY <1>2 DEF Client
      <4>3. k \in DOMAIN m_clients <=> socketOf[k] # {}
        BY DEF PdaInv, Addressed
      <4> QED BY <1>1, <1>6, <1>7, <3>2, <4>1, <4>2, <4>3 DEF n
    <3> QED BY <3>1, <3>2
  <2>2. ASSUME NEW k \in Client, NEW l \in Client, k # l
        PROVE  socketOf'[k] \cap socketOf'[l] = {}
    <3>1. socketOf[k] \cap socketOf[l] = {}
      BY <2>2 DEF PdaInv, Addressed
    <3>2. CASE k \in New /\ l \in New
      <4>1. address[k - n + 1] # address[l - n + 1]
        BY <1>4, <1>5, <2>2, <3>2
      <4> QED BY <1>7, <3>2, <4>1
    <3>3. CASE k \in New /\ l \notin New
      <4>1. address[k - n + 1] \notin socketOf[l]
        BY <1>4, <1>5, <3>3
      <4> QED BY <1>7, <3>3, <4>1
    <3>4. CASE k \notin New /\ l \in New
      <4>1. address[l - n + 1] \notin socketOf[k]
        BY <1>4, <1>5, <3>4
      <4> QED BY <1>7, <3>4, <4>1
    <3>5. CASE k \notin New /\ l \notin New
      BY <1>7, <3>1, <3>5
    <3> QED BY <3>2, <3>3, <3>4, <3>5
  <2> QED BY <2>1, <2>2 DEF Addressed
<1>11. Understood'
  <2> SUFFICES ASSUME NEW k \in Client PROVE UnderstoodOf(k)'
    BY DEF Understood
  <2>1. UnderstoodOf(k)
    BY DEF PdaInv, Understood
  <2>2. CASE k \notin New
    <3>1. n' <= k => n <= k
      BY <1>1, <1>2 DEF Client
    <3> QED BY <1>1, <1>6, <2>1, <2>2, <3>1, UnderstoodStays DEF n
  <2>3. CASE k \in New
    <3>1. n <= k
      BY <1>2, <2>3 DEF New
    <3>2. Arrived(k)' = Arrived(k)
      <4>1. k \notin DOMAIN m_clients /\ k \in DOMAIN m_clients'
        BY <1>2, <1>6, <2>3
      <4>2. m_clients'[k].buffer = << >> /\ unread'[k] = unread[k]
        BY <1>1, <1>6, <2>3
      <4> QED BY <4>1, <4>2 DEF Arrived
    <3> QED BY <1>1, <2>1, <3>1, <3>2 DEF UnderstoodOf, n
  <2> QED BY <2>2, <2>3
<1> QED BY <1>8, <1>9, <1>10, <1>11 DEF PdaInv
\* The bytes that have arrived of a scanner are read: the messages they complete go out
\* under its number, and the rest stays in its buffer.
LEMMA OnSocketReadyReadStep ==
  ASSUME PdaInv, NEW k \in Client, OnSocketReadyRead(k)
  PROVE  PdaInv'
<1>1. /\ unread[k] # << >> /\ unread' = [unread EXCEPT ![k] = << >>]
      /\ UNCHANGED <<m_nextClientId, listening, pending, socketOf, peer, said, sent, main>>
  BY DEF OnSocketReadyRead
<1> DEFINE A == Arrived(k)
           c == m_clients[k]
           mr == messageReceived[k]
<1>2. /\ k \in DOMAIN m_clients
      /\ m_clients' = [m_clients EXCEPT ![k].buffer = Rest(A)]
      /\ messageReceived' = [messageReceived EXCEPT ![k] = mr \o Lines(A)]
  <2>1. PICK id \in Found(k) :
          /\ m_clients' =
               [m_clients EXCEPT ![id].buffer = Drain(m_clients[id].buffer \o unread[k]).buffer]
          /\ messageReceived' =
               [messageReceived EXCEPT
                  ![id] = messageReceived[id] \o Drain(m_clients[id].buffer \o unread[k]).lines]
    BY DEF OnSocketReadyRead
  <2>2. id = k /\ k \in DOMAIN m_clients
    <3>1. Found(k) \subseteq {k} /\ Found(k) \subseteq DOMAIN m_clients
      BY FoundIs DEF PdaInv, Found, Matching
    <3> QED BY <3>1
  <2>3. m_clients[k].buffer \o unread[k] = A
    BY <2>2 DEF Arrived
  <2> QED BY <2>1, <2>2, <2>3 DEF Lines, Rest
<1>3. /\ A \in Seq(Byte) /\ mr \in Seq(Seq(Byte)) /\ Lines(A) \in Seq(Seq(Byte))
  <2>1. messageReceived[k] \in Seq(Message)
    BY DEF PdaInv, Typed
  <2> QED BY <2>1, MessagesAreBytes, ArrivedTyped, LinesAre DEF PdaInv
<1>4. peer[k] # "reset" /\ said[k].messages = mr \o Lines(A) /\ said[k].begun = Rest(A)
  <2>1. UnderstoodOf(k) /\ peer[k] \in Peer
    BY DEF PdaInv, Understood, Typed
  <2> QED BY <1>1, <1>2, <2>1 DEF UnderstoodOf, Peer, Lines, Rest
<1>5. said[k].messages \in Seq(Message) /\ said[k].begun \in Seq(Plain)
  BY DEF PdaInv, Typed, Saids
<1> HIDE DEF A, c, mr
<1>6. /\ DOMAIN m_clients' = DOMAIN m_clients
      /\ \A l \in DOMAIN m_clients : l # k => m_clients'[l] = m_clients[l]
      /\ m_clients'[k].buffer = Rest(A) /\ m_clients'[k].socket = m_clients[k].socket
      /\ m_clients' \in [DOMAIN m_clients' -> ClientEntry]
  <2>1. m_clients \in [DOMAIN m_clients -> ClientEntry]
    BY DEF PdaInv, Typed
  <2>2. Rest(A) \in Seq(Plain)
    BY <1>4, <1>5
  <2>3. DOMAIN m_clients' = DOMAIN m_clients
        /\ \A l \in DOMAIN m_clients : l # k => m_clients'[l] = m_clients[l]
    BY <1>2
  <2>4. m_clients'[k] = [m_clients[k] EXCEPT !.buffer = Rest(A)]
    BY <1>2
  <2>5. \A e \in ClientEntry : LET d == [e EXCEPT !.buffer = Rest(A)]
                               IN d \in ClientEntry /\ d.buffer = Rest(A) /\ d.socket = e.socket
    BY <2>2 DEF ClientEntry
  <2>6. /\ m_clients'[k] \in ClientEntry /\ m_clients'[k].buffer = Rest(A)
        /\ m_clients'[k].socket = m_clients[k].socket
    BY <1>2, <2>1, <2>4, <2>5
  <2>7. m_clients' \in [DOMAIN m_clients -> ClientEntry]
    <3>1. m_clients' = [l \in DOMAIN m_clients |-> m_clients'[l]]
      BY <1>2
    <3>2. \A l \in DOMAIN m_clients : m_clients'[l] \in ClientEntry
      BY <2>1, <2>3, <2>6
    <3> QED BY <3>1, <3>2
  <2> QED BY <2>3, <2>6, <2>7
<1>7. /\ messageReceived' \in [Client -> Seq(Message)]
      /\ messageReceived'[k] = said[k].messages
      /\ \A l \in Client : l # k => messageReceived'[l] = messageReceived[l]
  <2>1. messageReceived \in [Client -> Seq(Message)]
    BY DEF PdaInv, Typed
  <2> QED BY <1>2, <1>4, <1>5, <2>1
<1>8. /\ unread' \in [Client -> Seq(Byte)] /\ unread'[k] = << >>
      /\ \A l \in Client : l # k => unread'[l] = unread[l]
  <2>1. unread \in [Client -> Seq(Byte)] /\ << >> \in Seq(Byte)
    BY EmptySeq DEF PdaInv, Typed
  <2> QED BY <1>1, <2>1
<1>9. Typed'
  BY <1>1, <1>6, <1>7, <1>8 DEF PdaInv, Typed
<1>10. InTurn'
  BY <1>1 DEF PdaInv, InTurn
<1>11. Addressed'
  <2>1. \A l \in DOMAIN m_clients : m_clients'[l].socket = m_clients[l].socket
    BY <1>6
  <2> QED BY <1>1, <1>6, <2>1 DEF PdaInv, Addressed
<1>12. Understood'
  <2> SUFFICES ASSUME NEW l \in Client PROVE UnderstoodOf(l)'
    BY DEF Understood
  <2>1. CASE l # k
    <3>1. UnderstoodOf(l)
      BY DEF PdaInv, Understood
    <3> QED BY <1>1, <1>6, <1>7, <1>8, <2>1, <3>1, UnderstoodStays
  <2>2. CASE l = k
    <3>1. Rest(A) \in Seq(Plain)
      BY <1>4, <1>5
    <3>2. Arrived(k)' = Rest(A)
      <4>1. Arrived(k)' = Rest(A) \o << >>
        BY <1>2, <1>6, <1>8 DEF Arrived
      <4> QED BY <3>1, <4>1, ConcatEmptySeq
    <3>3. Lines(Rest(A)) = << >> /\ Rest(Rest(A)) = Rest(A)
      BY <3>1, DrainPlain
    <3>4. said[k].messages \o << >> = said[k].messages
      BY <1>5, ConcatEmptySeq
    <3> QED BY <1>1, <1>4, <1>7, <2>2, <3>2, <3>3, <3>4 DEF UnderstoodOf, Lines, Rest
  <2> QED BY <2>1, <2>2
<1> QED BY <1>9, <1>10, <1>11, <1>12 DEF PdaInv

\* A connection ends, when all of it has been read: the entry of its client goes, and the
\* address of its socket is free.
LEMMA OnSocketDisconnectedStep ==
  ASSUME PdaInv, NEW k \in Client, OnSocketDisconnected(k)
  PROVE  PdaInv'
<1>1. /\ peer[k] \in {"closed", "reset"} /\ unread[k] = << >>
      /\ socketOf' = [socketOf EXCEPT ![k] = {}]
      /\ UNCHANGED <<m_nextClientId, messageReceived, listening, pending, peer, unread, said,
                     sent, main>>
  BY DEF OnSocketDisconnected, scanner
<1>2. k \in DOMAIN m_clients /\ Found(k) = {k} /\ k < m_nextClientId
  <2>1. k \in DOMAIN m_clients
    BY DEF PdaInv, Addressed, OnSocketDisconnected
  <2> QED BY <2>1, FoundIs DEF PdaInv, Addressed
<1>3. m_clients' = [l \in DOMAIN m_clients \ {k} |-> m_clients[l]]
  BY <1>2 DEF OnSocketDisconnected, Restrict
<1>4. DOMAIN m_clients' = DOMAIN m_clients \ {k}
      /\ \A l \in DOMAIN m_clients : l # k => m_clients'[l] = m_clients[l]
  BY <1>3
<1>5. /\ socketOf' \in [Client -> SUBSET Socket] /\ socketOf'[k] = {}
      /\ \A l \in Client : l # k => socketOf'[l] = socketOf[l]
  <2>1. socketOf \in [Client -> SUBSET Socket]
    BY DEF PdaInv, Typed
  <2> QED BY <1>1, <2>1
<1>6. Typed'
  <2>1. m_clients' \in [DOMAIN m_clients' -> ClientEntry]
    BY <1>3 DEF PdaInv, Typed
  <2> QED BY <1>1, <1>4, <1>5, <2>1 DEF PdaInv, Typed
<1>7. InTurn'
  BY <1>1 DEF PdaInv, InTurn
<1>8. Addressed'
  <2>1. \A l \in Client : (l \in DOMAIN m_clients' <=> socketOf'[l] # {})
          /\ (l \in DOMAIN m_clients' =>
                l < m_nextClientId /\ socketOf'[l] = {m_clients'[l].socket})
    BY <1>2, <1>4, <1>5 DEF PdaInv, Addressed
  <2>2. \A l, m \in Client : l # m => socketOf'[l] \cap socketOf'[m] = {}
    BY <1>5 DEF PdaInv, Addressed
  <2> QED BY <1>1, <2>1, <2>2 DEF Addressed
<1>9. Understood'
  <2> SUFFICES ASSUME NEW l \in Client PROVE UnderstoodOf(l)'
    BY DEF Understood
  <2>1. UnderstoodOf(l)
    BY DEF PdaInv, Understood
  <2>2. CASE l # k
    <3>1. l \in DOMAIN m_clients' <=> l \in DOMAIN m_clients
      BY <1>4, <2>2
    <3>2. l \in DOMAIN m_clients => m_clients'[l].buffer = m_clients[l].buffer
      BY <1>4, <2>2
    <3> QED BY <1>1, <2>1, <3>1, <3>2, UnderstoodStays
  <2>3. CASE l = k
    <3>1. Arrived(k)' = << >>
      <4>1. << >> \o << >> = << >>
        BY EmptySeq, ConcatEmptySeq
      <4> QED BY <1>1, <1>4, <4>1 DEF Arrived
    <3>2. Lines(<< >>) = << >>
      <4>1. << >> \in Seq(Plain)
        BY EmptySeq
      <4> QED BY <4>1, DrainPlain
    <3>3. Lines(Arrived(k)) = << >>
      <4>1. Arrived(k) \in Seq(Plain)
        BY <1>1, ArrivedRead DEF PdaInv
      <4> QED BY <4>1, DrainPlain
    <3>4. ~(m_nextClientId <= k)
      BY <1>2 DEF PdaInv, Typed, Client
    <3>5. k \notin DOMAIN m_clients' /\ peer'[k] \in {"closed", "reset"}
      BY <1>1, <1>4
    <3> QED BY <1>1, <2>1, <2>3, <3>1, <3>2, <3>3, <3>4, <3>5 DEF UnderstoodOf, Lines
  <2> QED BY <2>2, <2>3
<1> QED BY <1>6, <1>7, <1>8, <1>9 DEF PdaInv

\* The server stops: those that wait are not accepted any more.
LEMMA StopStep ==
  ASSUME PdaInv, Stop
  PROVE  PdaInv'
<1>1. /\ UNCHANGED <<m_clients, m_nextClientId, messageReceived, socketOf, peer, unread, said,
                     sent>>
      /\ listening' = FALSE /\ pending' = << >> /\ main' = "stop"
  BY DEF Stop, server, scanner
<1>2. Typed'
  BY <1>1, EmptySeq DEF PdaInv, Typed, MainPc
<1>3. InTurn'
  BY <1>1 DEF InTurn
<1>4. Addressed'
  BY <1>1 DEF PdaInv, Addressed
<1> QED BY <1>1, <1>2, <1>3, <1>4, AllUnderstood DEF PdaInv, server, scanner

\* stop goes on, to its end or into the slot that waits for it.
LEMMA StoppingStep ==
  ASSUME PdaInv, Stopping
  PROVE  PdaInv'
<1>1. /\ UNCHANGED <<m_clients, m_nextClientId, messageReceived, socketOf, peer, unread, said,
                     sent, listening, pending>>
      /\ main' \in {"blocked", "stopped"}
  BY DEF Stopping, StopDisconnects, StopReturns, server, scanner
<1>2. Typed'
  BY <1>1 DEF PdaInv, Typed, MainPc
<1>3. InTurn'
  BY <1>1 DEF InTurn
<1>4. Addressed'
  BY <1>1 DEF PdaInv, Addressed
<1> QED BY <1>1, <1>2, <1>3, <1>4, AllUnderstood DEF PdaInv, server, scanner

\* Every step, and no step, keeps the invariant.
LEMMA NextPda ==
  ASSUME PdaInv, [Next]_vars
  PROVE  PdaInv'
<1>1. CASE Start
  BY <1>1, StartStep
<1>2. ASSUME NEW k \in Client, Connects(k) \/ Sends(k) \/ Closes(k) \/ Resets(k)
      PROVE  PdaInv'
  BY <1>2, ConnectsStep, SendsStep, ClosesStep, ResetsStep
<1>3. CASE OnNewConnection
  BY <1>3, OnNewConnectionStep
<1>4. ASSUME NEW k \in Client, OnSocketReadyRead(k) \/ OnSocketDisconnected(k)
      PROVE  PdaInv'
  BY <1>4, OnSocketReadyReadStep, OnSocketDisconnectedStep
<1>5. CASE Stop \/ Stopping
  BY <1>5, StopStep, StoppingStep
<1>6. CASE UNCHANGED vars
  <2>1. UNCHANGED <<m_clients, m_nextClientId, messageReceived, socketOf, peer, unread, said,
                    sent, listening, pending, main>>
    BY <1>6 DEF vars, server, scanner
  <2>2. Typed' /\ InTurn' /\ Addressed'
    BY <2>1 DEF PdaInv, Typed, InTurn, Addressed
  <2> QED BY <2>1, <2>2, AllUnderstood DEF PdaInv, server, scanner
<1> QED BY <1>1, <1>2, <1>3, <1>4, <1>5, <1>6 DEF Next, Slots
-----------------------------------------------------------------------------
(* The theorems.                                                           *)

\* In every state of every behaviour, whatever the bytes and however they are cut into
\* pieces, the server has understood what the scanners said: PdaInv is inductive.
THEOREM PdaInvariant == Spec => []PdaInv
<1>1. PdaInv /\ [Next]_vars => PdaInv'
  BY NextPda
<1> QED BY <1>1, InitPda, PTL DEF Spec

\* The types: the ids stay within the scanners, a connection has one socket at most, no
\* message emitted is empty, and no buffer keeps a terminator (qttcpserver.cpp).
THEOREM TypeCorrect == Spec => []TypeOK
<1>1. ASSUME PdaInv PROVE TypeOK
  <2> USE DEF PdaInv, Typed
  <2>1. \A i \in DOMAIN m_clients : m_clients[i].socket \in Socket
                                    /\ m_clients[i].buffer \in Seq(Byte \ Terminator)
    BY <1>1 DEF ClientEntry, Plain
  <2>2. ASSUME NEW k \in Client
        PROVE  Cardinality(socketOf[k]) <= 1
    <3>1. socketOf[k] = {} \/ \E x : socketOf[k] = {x}
      BY <1>1 DEF Addressed
    <3>2. CASE socketOf[k] = {}
      <4>1. Cardinality(socketOf[k]) = 0
        BY <3>2, FS_EmptySet
      <4> QED BY <4>1
    <3>3. CASE \E x : socketOf[k] = {x}
      <4>1. Cardinality(socketOf[k]) = 1
        BY <3>3, FS_Singleton
      <4> QED BY <4>1
    <3> QED BY <3>1, <3>2, <3>3
  <2>3. ASSUME NEW k \in Client
        PROVE  said[k].messages \in Seq(Seq(Byte)) /\ said[k].begun \in Seq(Byte)
    <3>1. said[k].messages \in Seq(Message) /\ said[k].begun \in Seq(Plain)
      BY <1>1 DEF Saids
    <3> QED BY <3>1, MessagesAreBytes, SeqMonotonic DEF Plain
  <2>4. messageReceived \in [Client -> Seq(Seq(Byte \ Terminator) \ {<< >>})]
    BY <1>1 DEF Message, Plain
  <2> QED BY <1>1, <2>1, <2>2, <2>3, <2>4 DEF TypeOK, Peer, MainPc
<1> QED BY <1>1, PdaInvariant, PTL

\* However its bytes were cut into pieces, and whoever had its address before, what is
\* emitted under the number of a scanner is what that scanner sent, in order, and all of it
\* once it has been read (the buffers of qttcpserver.cpp).
THEOREM MessagesWhole == Spec => []MessagesOfScanner
<1>1. ASSUME PdaInv PROVE MessagesOfScanner
  <2> SUFFICES ASSUME NEW k \in Client
               PROVE  /\ IsPrefix(messageReceived[k], said[k].messages)
                      /\ unread[k] = << >> /\ peer[k] # "reset" =>
                           /\ messageReceived[k] = said[k].messages
                           /\ k \in DOMAIN m_clients => m_clients[k].buffer = said[k].begun
    BY DEF MessagesOfScanner
  <2>1. UnderstoodOf(k) /\ peer[k] \in Peer
    BY <1>1 DEF PdaInv, Understood, Typed
  <2>2. messageReceived[k] \in Seq(Seq(Byte)) /\ Lines(Arrived(k)) \in Seq(Seq(Byte))
    <3>1. messageReceived[k] \in Seq(Message)
      BY <1>1 DEF PdaInv, Typed
    <3> QED BY <1>1, <3>1, MessagesAreBytes, ArrivedTyped, LinesAre DEF PdaInv
  <2>3. IsPrefix(messageReceived[k], said[k].messages)
    <3>1. IsPrefix(messageReceived[k], messageReceived[k] \o Lines(Arrived(k)))
      BY <2>2, PrefixOfConcat
    <3> QED BY <2>1, <3>1 DEF UnderstoodOf, Lines
  <2>4. ASSUME unread[k] = << >>, peer[k] # "reset"
        PROVE  /\ messageReceived[k] = said[k].messages
               /\ k \in DOMAIN m_clients => m_clients[k].buffer = said[k].begun
    <3>1. /\ Arrived(k) \in Seq(Plain)
          /\ k \in DOMAIN m_clients => Arrived(k) = m_clients[k].buffer
      BY <1>1, <2>4, ArrivedRead DEF PdaInv
    <3>2. Lines(Arrived(k)) = << >> /\ Rest(Arrived(k)) = Arrived(k)
      BY <3>1, DrainPlain
    <3>3. messageReceived[k] \o << >> = messageReceived[k]
      BY <2>2, ConcatEmptySeq
    <3> QED BY <2>1, <2>4, <3>1, <3>2, <3>3 DEF UnderstoodOf, Peer, Lines, Rest
  <2> QED BY <2>3, <2>4
<1> QED BY <1>1, PdaInvariant, PTL
=============================================================================
