---------------------------- MODULE TerminalProofs ----------------------------
(***************************************************************************)
(* For every user, shell, buffer and pipe: lab1a neither loses, doubles    *)
(* nor reorders what is typed and what the shell writes, leaves its loop   *)
(* for a reason only, and then leaves the terminal as it was found and no  *)
(* shell that was not waited for.                                          *)
(***************************************************************************)
EXTENDS Terminal, WellFoundedInduction, SequenceTheorems, TLAPS

(* What numbers the bytes.  With a name of its own, the provers take       *)
(* Seq(Number) for a set of sequences like any other.                      *)
Number == Nat

-----------------------------------------------------------------------------
(* Induction, over sets: over operators it could not be used.              *)

(* Over the numbers: there is no least one outside T.                      *)
LEMMA Induction ==
  ASSUME NEW T, 0 \in T, \A n \in Nat : n \in T => n + 1 \in T
  PROVE  \A n \in Nat : n \in T
<1> DEFINE R == OpToRel(<, Nat)
           U == {n \in Nat : n \notin T}
<1> SUFFICES ASSUME U # {} PROVE FALSE
  OBVIOUS
<1>1. IsWellFoundedOn(R, Nat)
  BY NatLessThanWellFounded
<1>2. PICK m \in U : \A k \in U : ~ (<<k, m>> \in R)
  <2> HIDE DEF R
  <2> QED BY <1>1, WFMin
<1>3. m \in Nat /\ m # 0 /\ m \notin T
  BY <1>2
<1>4. m - 1 \in Nat /\ (m - 1) + 1 = m /\ m - 1 < m
  BY <1>3
<1>5. m - 1 \in U /\ <<m - 1, m>> \in R
  BY <1>3, <1>4 DEF OpToRel
<1> QED BY <1>2, <1>5

(* Over sequences: what holds of <<>>, and of a longer one if of a shorter.*)
LEMMA SequenceInduction ==
  ASSUME NEW T, NEW P, <<>> \in P,
         \A q \in Seq(T), b \in T : q \in P => Append(q, b) \in P
  PROVE  Seq(T) \subseteq P
<1> DEFINE N == {n \in Nat : \A q \in Seq(T) : Len(q) = n => q \in P}
<1>1. 0 \in N
  <2>1. \A q \in Seq(T) : Len(q) = 0 => q = <<>>
    BY EmptySeq
  <2> QED BY <2>1
<1>2. ASSUME NEW n \in Nat, n \in N PROVE n + 1 \in N
  <2> SUFFICES ASSUME NEW q \in Seq(T), Len(q) = n + 1 PROVE q \in P
    OBVIOUS
  <2>1. q # <<>>
    BY EmptySeq
  <2>2. PICK r \in Seq(T), b \in T : q = Append(r, b)
    BY <2>1, SequenceEmptyOrAppend
  <2>3. Len(r) = n
    BY <2>2, AppendProperties, LenProperties
  <2> QED BY <1>2, <2>2, <2>3
<1> HIDE DEF N
<1>3. \A n \in Nat : n \in N
  BY <1>1, <1>2, Induction
<1> QED BY <1>3, LenProperties DEF N

-----------------------------------------------------------------------------
(* Selecting from a sequence.                                              *)

(* A selection from the first n bytes of q exists, so NumbersOf is one.    *)
IsSelection(g, kinds, q, n) ==
  g = [i \in 0..n |-> IF i = 0 THEN <<>>
                      ELSE IF q[i][1] \in kinds THEN Append(g[i - 1], q[i][2]) ELSE g[i - 1]]

(* The recursion of a selection has a solution.                            *)
LEMMA SelectionExists ==
  ASSUME NEW kinds, NEW q
  PROVE  \A n \in Nat : \E g : IsSelection(g, kinds, q, n)
<1> DEFINE T == {n \in Nat : \E g : IsSelection(g, kinds, q, n)}
<1>1. 0 \in T
  <2> DEFINE h == [i \in 0..0 |-> <<>>]
  <2>1. h = [i \in 0..0 |-> IF i = 0 THEN <<>>
                      ELSE IF q[i][1] \in kinds THEN Append(h[i - 1], q[i][2]) ELSE h[i - 1]]
    OBVIOUS
  <2> HIDE DEF h
  <2>2. IsSelection(h, kinds, q, 0)
    BY <2>1 DEF IsSelection
  <2> QED BY <2>2
<1>2. ASSUME NEW m \in Nat, m \in T PROVE m + 1 \in T
  <2>1. PICK g : IsSelection(g, kinds, q, m)
    BY <1>2
  <2> DEFINE next(i, s) == IF q[i][1] \in kinds THEN Append(s, q[i][2]) ELSE s
             h == [i \in 0..(m + 1) |-> IF i = m + 1 THEN next(i, g[m]) ELSE g[i]]
  <2>2. \A i \in 0..m : g[i] = IF i = 0 THEN <<>> ELSE next(i, g[i - 1])
    BY <2>1 DEF IsSelection
  <2> HIDE DEF next
  <2>3. \A i \in 0..(m + 1) : h[i] = IF i = 0 THEN <<>> ELSE next(i, h[i - 1])
    <3> SUFFICES ASSUME NEW i \in 0..(m + 1)
                 PROVE  h[i] = IF i = 0 THEN <<>> ELSE next(i, h[i - 1])
      OBVIOUS
    <3>1. CASE i = m + 1
      <4>1. h[i - 1] = g[m] /\ h[i] = next(i, g[m])
        BY <3>1
      <4> QED BY <3>1, <4>1
    <3>2. CASE i # m + 1
      <4>1. i \in 0..m /\ h[i] = g[i] /\ (i # 0 => h[i - 1] = g[i - 1])
        BY <3>2
      <4> QED BY <2>2, <4>1
    <3> QED BY <3>1, <3>2
  <2>4. h = [i \in 0..(m + 1) |-> IF i = 0 THEN <<>> ELSE next(i, h[i - 1])]
    <3>1. h = [i \in 0..(m + 1) |-> h[i]]
      OBVIOUS
    <3> HIDE DEF h
    <3> QED BY <2>3, <3>1
  <2> HIDE DEF h
  <2>5. IsSelection(h, kinds, q, m + 1)
    BY <2>4 DEF IsSelection, next
  <2> QED BY <2>5
<1> HIDE DEF T
<1>3. \A n \in Nat : n \in T
  BY <1>1, <1>2, Induction
<1> QED BY <1>3 DEF T

(* Selections from sequences that begin alike begin alike.                 *)
LEMMA SameSelection ==
  ASSUME NEW kinds, NEW q, NEW r, NEW n \in Nat, NEW m \in Nat, n <= m,
         NEW g, NEW h, IsSelection(g, kinds, q, n), IsSelection(h, kinds, r, m),
         \A i \in 1..n : q[i] = r[i]
  PROVE  g[n] = h[n]
<1> DEFINE T == {k \in Nat : k <= n => g[k] = h[k]}
<1>1. 0 \in T
  BY DEF IsSelection
<1>2. ASSUME NEW k \in Nat, k \in T PROVE k + 1 \in T
  <2> SUFFICES ASSUME k + 1 <= n PROVE g[k + 1] = h[k + 1]
    OBVIOUS
  <2>1. k + 1 \in 0..n /\ k + 1 \in 0..m /\ k + 1 # 0 /\ (k + 1) - 1 = k /\ q[k + 1] = r[k + 1]
    OBVIOUS
  <2>2. g[k] = h[k]
    BY <1>2
  <2>3. g[k + 1] = IF q[k + 1][1] \in kinds THEN Append(g[k], q[k + 1][2]) ELSE g[k]
    BY <2>1 DEF IsSelection
  <2>4. h[k + 1] = IF r[k + 1][1] \in kinds THEN Append(h[k], r[k + 1][2]) ELSE h[k]
    BY <2>1 DEF IsSelection
  <2> QED BY <2>1, <2>2, <2>3, <2>4
<1> HIDE DEF T
<1>3. \A k \in Nat : k \in T
  BY <1>1, <1>2, Induction
<1> QED BY <1>3 DEF T

(* NumbersOf is what a selection of the whole sequence ends with.          *)
LEMMA NumbersOfIs ==
  ASSUME NEW kinds, NEW T, NEW q \in Seq(T)
  PROVE  \E g : IsSelection(g, kinds, q, Len(q)) /\ NumbersOf(kinds, q) = g[Len(q)]
<1> DEFINE f == CHOOSE g : IsSelection(g, kinds, q, Len(q))
<1>1. Len(q) \in Nat
  OBVIOUS
<1>2. IsSelection(f, kinds, q, Len(q))
  BY <1>1, SelectionExists
<1>3. NumbersOf(kinds, q) = f[Len(q)]
  BY DEF NumbersOf, IsSelection
<1> QED BY <1>2, <1>3

(* Nothing is selected from nothing.                                       *)
LEMMA NumbersOfNone ==
  ASSUME NEW kinds
  PROVE  NumbersOf(kinds, <<>>) = <<>>
<1>1. <<>> \in Seq({}) /\ Len(<<>>) = 0
  BY EmptySeq
<1>2. PICK g : IsSelection(g, kinds, <<>>, 0) /\ NumbersOf(kinds, <<>>) = g[0]
  BY <1>1, NumbersOfIs
<1> QED BY <1>2 DEF IsSelection

(* One byte more is selected after the rest, or is not.                    *)
LEMMA NumbersOfAppend ==
  ASSUME NEW kinds, NEW T, NEW q \in Seq(T), NEW b \in T
  PROVE  NumbersOf(kinds, Append(q, b)) =
           IF b[1] \in kinds THEN Append(NumbersOf(kinds, q), b[2]) ELSE NumbersOf(kinds, q)
<1> DEFINE r == Append(q, b)
<1>1. /\ r \in Seq(T) /\ Len(q) \in Nat /\ Len(r) = Len(q) + 1
      /\ r[Len(q) + 1] = b /\ \A i \in 1..Len(q) : q[i] = r[i]
  BY AppendProperties, LenProperties
<1> HIDE DEF r
<1>2. PICK g : IsSelection(g, kinds, q, Len(q)) /\ NumbersOf(kinds, q) = g[Len(q)]
  BY NumbersOfIs
<1>3. PICK h : IsSelection(h, kinds, r, Len(r)) /\ NumbersOf(kinds, r) = h[Len(r)]
  BY <1>1, NumbersOfIs
<1>4. g[Len(q)] = h[Len(q)]
  BY <1>1, <1>2, <1>3, SameSelection
<1>5. h[Len(r)] = IF b[1] \in kinds THEN Append(h[Len(q)], b[2]) ELSE h[Len(q)]
  <2>1. Len(r) \in 0..Len(r) /\ Len(r) # 0 /\ Len(r) - 1 = Len(q) /\ r[Len(r)] = b
    BY <1>1
  <2> QED BY <1>3, <2>1 DEF IsSelection
<1> QED BY <1>2, <1>3, <1>4, <1>5 DEF r

(* A selection is a sequence of numbers.                                   *)
LEMMA NumbersOfType ==
  ASSUME NEW kinds, NEW T, \A b \in T : b[2] \in Number, NEW q \in Seq(T)
  PROVE  NumbersOf(kinds, q) \in Seq(Number)
<1> DEFINE P == {r \in Seq(T) : NumbersOf(kinds, r) \in Seq(Number)}
<1>1. <<>> \in P
  <2>1. <<>> \in Seq(T) /\ <<>> \in Seq(Number)
    BY EmptySeq
  <2> QED BY <2>1, NumbersOfNone
<1>2. ASSUME NEW r \in Seq(T), NEW b \in T, r \in P PROVE Append(r, b) \in P
  <2>1. Append(r, b) \in Seq(T) /\ NumbersOf(kinds, r) \in Seq(Number) /\ b[2] \in Number
    BY <1>2, AppendProperties
  <2>2. NumbersOf(kinds, Append(r, b)) =
           IF b[1] \in kinds THEN Append(NumbersOf(kinds, r), b[2]) ELSE NumbersOf(kinds, r)
    BY NumbersOfAppend
  <2>3. Append(NumbersOf(kinds, r), b[2]) \in Seq(Number)
    BY <2>1, AppendProperties
  <2> QED BY <2>1, <2>2, <2>3
<1> HIDE DEF P
<1>3. Seq(T) \subseteq P
  BY <1>1, <1>2, SequenceInduction
<1> QED BY <1>3 DEF P

(* A selection from two parts is one from each.                            *)
LEMMA NumbersOfConcat ==
  ASSUME NEW kinds, NEW T, \A b \in T : b[2] \in Number, NEW p \in Seq(T), NEW q \in Seq(T)
  PROVE  NumbersOf(kinds, p \o q) = NumbersOf(kinds, p) \o NumbersOf(kinds, q)
<1> DEFINE P == {r \in Seq(T) :
                   NumbersOf(kinds, p \o r) = NumbersOf(kinds, p) \o NumbersOf(kinds, r)}
<1>1. <<>> \in P
  <2>1. p \o <<>> = p
    BY ConcatEmptySeq
  <2>2. NumbersOf(kinds, p) \o <<>> = NumbersOf(kinds, p)
    BY NumbersOfType, ConcatEmptySeq
  <2>3. <<>> \in Seq(T)
    BY EmptySeq
  <2> QED BY <2>1, <2>2, <2>3, NumbersOfNone
<1>2. ASSUME NEW r \in Seq(T), NEW b \in T, r \in P PROVE Append(r, b) \in P
  <2> DEFINE np == NumbersOf(kinds, p)
             nr == NumbersOf(kinds, r)
  <2>1. p \o r \in Seq(T) /\ Append(r, b) \in Seq(T) /\ p \o Append(r, b) = Append(p \o r, b)
    BY AppendProperties, ConcatProperties
  <2>2. np \in Seq(Number) /\ nr \in Seq(Number) /\ b[2] \in Number
    BY NumbersOfType
  <2>3. NumbersOf(kinds, p \o r) = np \o nr
    BY <1>2
  <2>4. NumbersOf(kinds, p \o Append(r, b)) =
          IF b[1] \in kinds THEN Append(np \o nr, b[2]) ELSE np \o nr
    <3>1. ASSUME NEW pr \in Seq(T)
          PROVE  NumbersOf(kinds, Append(pr, b)) =
            IF b[1] \in kinds THEN Append(NumbersOf(kinds, pr), b[2]) ELSE NumbersOf(kinds, pr)
      BY NumbersOfAppend
    <3> QED BY <2>1, <2>3, <3>1
  <2>5. NumbersOf(kinds, Append(r, b)) = IF b[1] \in kinds THEN Append(nr, b[2]) ELSE nr
    BY NumbersOfAppend
  <2> HIDE DEF np, nr
  <2>6. Append(np \o nr, b[2]) = np \o Append(nr, b[2])
    <3> PICK n : n = b[2]
      OBVIOUS
    <3>1. np \o nr \in Seq(Number) /\ <<n>> \in Seq(Number) /\ n \in Number
      BY <2>2, ConcatProperties
    <3>2. Append(np \o nr, n) = (np \o nr) \o <<n>> /\ Append(nr, n) = nr \o <<n>>
      BY <2>2, <3>1, AppendIsConcat
    <3>3. (np \o nr) \o <<n>> = np \o (nr \o <<n>>)
      <4>1. PICK one : one = <<n>>
        OBVIOUS
      <4>2. np \in Seq(Number) /\ nr \in Seq(Number) /\ one \in Seq(Number)
        BY <2>2, <3>1, <4>1
      <4>3. (np \o nr) \o one = np \o (nr \o one)
        BY ONLY <4>2, SMTT(30)
      <4> QED BY <4>1, <4>3
    <3> QED BY <3>2, <3>3
  <2>7. NumbersOf(kinds, p \o Append(r, b)) = np \o NumbersOf(kinds, Append(r, b))
    BY <2>4, <2>5, <2>6
  <2> QED BY <2>1, <2>7 DEF np
<1> HIDE DEF P
<1>3. Seq(T) \subseteq P
  BY <1>1, <1>2, SequenceInduction
<1> QED BY <1>3 DEF P

(* What a byte adds to a selection that it comes after, or before.         *)
NumberOf(kinds, b) == IF b[1] \in kinds THEN <<b[2]>> ELSE <<>>

LEMMA NumberOfType ==
  ASSUME NEW kinds, NEW b, b[2] \in Number
  PROVE  NumberOf(kinds, b) \in Seq(Number)
<1>1. <<b[2]>> \in Seq(Number) /\ <<>> \in Seq(Number)
  BY EmptySeq
<1> QED BY <1>1 DEF NumberOf

LEMMA NumbersOfMore ==
  ASSUME NEW kinds, NEW T, \A b \in T : b[2] \in Number, NEW q \in Seq(T), NEW b \in T
  PROVE  NumbersOf(kinds, Append(q, b)) = NumbersOf(kinds, q) \o NumberOf(kinds, b)
<1> DEFINE nq == NumbersOf(kinds, q)
<1>1. nq \in Seq(Number) /\ b[2] \in Number
  BY NumbersOfType
<1>2. NumbersOf(kinds, Append(q, b)) = IF b[1] \in kinds THEN Append(nq, b[2]) ELSE nq
  BY NumbersOfAppend
<1> HIDE DEF nq
<1>3. Append(nq, b[2]) = nq \o <<b[2]>>
  BY <1>1, AppendIsConcat
<1>4. nq \o <<>> = nq
  BY <1>1, ConcatEmptySeq
<1>5. NumbersOf(kinds, Append(q, b)) = nq \o NumberOf(kinds, b)
  BY <1>2, <1>3, <1>4 DEF NumberOf
<1> QED BY <1>5 DEF nq

(* The first byte comes first in a selection.                              *)
LEMMA NumbersOfFirst ==
  ASSUME NEW kinds, NEW T, \A b \in T : b[2] \in Number, NEW q \in Seq(T), q # <<>>
  PROVE  NumbersOf(kinds, q) = NumberOf(kinds, Head(q)) \o NumbersOf(kinds, Tail(q))
<1>1. /\ Head(q) \in T /\ Tail(q) \in Seq(T) /\ <<Head(q)>> \in Seq(T) /\ <<>> \in Seq(T)
      /\ q = <<Head(q)>> \o Tail(q)
  BY HeadTailProperties, EmptySeq
<1>2. NumbersOf(kinds, q) = NumbersOf(kinds, <<Head(q)>>) \o NumbersOf(kinds, Tail(q))
  <2> PICK one, rest : one = <<Head(q)>> /\ rest = Tail(q)
    OBVIOUS
  <2>1. NumbersOf(kinds, one \o rest) = NumbersOf(kinds, one) \o NumbersOf(kinds, rest)
    BY <1>1, NumbersOfConcat
  <2> QED BY <1>1, <2>1
<1>3. NumbersOf(kinds, <<Head(q)>>) = NumberOf(kinds, Head(q))
  <2> PICK b : b = Head(q)
    OBVIOUS
  <2>1. NumbersOf(kinds, Append(<<>>, b)) = NumbersOf(kinds, <<>>) \o NumberOf(kinds, b)
    <3>1. ASSUME NEW none \in Seq(T)
          PROVE  NumbersOf(kinds, Append(none, b)) = NumbersOf(kinds, none) \o NumberOf(kinds, b)
      BY <1>1, NumbersOfMore
    <3> QED BY <1>1, <3>1
  <2>2. <<>> \o NumberOf(kinds, b) = NumberOf(kinds, b)
    BY <1>1, NumberOfType, ConcatEmptySeq
  <2>3. Append(<<>>, b) = <<b>>
    BY <1>1
  <2> QED BY <2>1, <2>2, <2>3, NumbersOfNone
<1> QED BY <1>2, <1>3

(* All numbers of q, one byte more, and one byte on its way.               *)
LEMMA NumbersType ==
  ASSUME NEW T, \A b \in T : b[2] \in Number, NEW q \in Seq(T)
  PROVE  /\ Numbers(q) \in Seq(Number) /\ Len(Numbers(q)) = Len(q)
         /\ \A i \in 1..Len(q) : Numbers(q)[i] = q[i][2]
BY LenProperties DEF Numbers

(* One byte more adds its number.                                          *)
LEMMA NumbersAppend ==
  ASSUME NEW T, \A b \in T : b[2] \in Number, NEW q \in Seq(T), NEW b \in T
  PROVE  Numbers(Append(q, b)) = Append(Numbers(q), b[2])
<1>1. ASSUME NEW r \in Seq(T)
      PROVE  /\ Numbers(r) \in Seq(Number) /\ Len(Numbers(r)) = Len(r)
             /\ \A i \in 1..Len(r) : Numbers(r)[i] = r[i][2]
  BY NumbersType
<1>2. /\ Append(q, b) \in Seq(T) /\ Len(q) \in Nat /\ Len(Append(q, b)) = Len(q) + 1
      /\ \A i \in 1..(Len(q) + 1) : Append(q, b)[i] = IF i <= Len(q) THEN q[i] ELSE b
  BY AppendProperties, LenProperties
<1> DEFINE s == Numbers(Append(q, b))
           t == Append(Numbers(q), b[2])
<1>3. s \in Seq(Number) /\ Len(s) = Len(q) + 1
      /\ \A i \in 1..Len(s) : s[i] = IF i <= Len(q) THEN q[i][2] ELSE b[2]
  <2> PICK a : a = Append(q, b)
    OBVIOUS
  <2>1. /\ Numbers(a) \in Seq(Number) /\ Len(Numbers(a)) = Len(a)
        /\ \A i \in 1..Len(a) : Numbers(a)[i] = a[i][2]
    BY <1>1, <1>2
  <2> QED BY <1>2, <2>1
<1>4. t \in Seq(Number) /\ Len(t) = Len(q) + 1
      /\ \A i \in 1..Len(t) : t[i] = IF i <= Len(q) THEN q[i][2] ELSE b[2]
  BY <1>1, <1>2, AppendProperties
<1>5. s = t
  <2> HIDE DEF s, t
  <2> QED BY <1>3, <1>4, SeqEqual
<1> QED BY <1>1, <1>5

(* A sequence is a prefix of itself, and of a longer one.                  *)
LEMMA PrefixOfConcat ==
  ASSUME NEW T, NEW s \in Seq(T), NEW t \in Seq(T)
  PROVE  IsPrefix(s, s \o t)
BY ConcatProperties, LenProperties DEF IsPrefix

LEMMA PrefixOfAppend ==
  ASSUME NEW T, NEW s \in Seq(T), NEW t \in Seq(T), NEW b \in T, IsPrefix(s, t)
  PROVE  IsPrefix(s, Append(t, b))
BY AppendProperties, LenProperties DEF IsPrefix

(* The first n bytes of a queue.                                           *)
LEMMA FirstOfQueue ==
  ASSUME NEW T, NEW q \in Seq(T), NEW n \in Nat, n <= Len(q)
  PROVE  SubSeq(q, 1, n) \in Seq(T) /\ Len(SubSeq(q, 1, n)) = n
<1>1. \A i \in 1..n : q[i] \in T
  BY ElementOfSeq
<1>2. /\ SubSeq(q, 1, n) \in Seq(T)
      /\ Len(SubSeq(q, 1, n)) = IF 1 <= n THEN n - 1 + 1 ELSE 0
  BY <1>1, SubSeqProperties
<1> QED BY <1>2

(* The bytes after them.                                                   *)
LEMMA LastOfQueue ==
  ASSUME NEW T, NEW q \in Seq(T), NEW n \in Nat
  PROVE  SubSeq(q, n + 1, Len(q)) \in Seq(T)
<1>1. \A i \in (n + 1)..Len(q) : q[i] \in T
  BY ElementOfSeq
<1> QED BY <1>1, SubSeqProperties

(* read() takes no more than the buffer holds; nothing is lost in between. *)
LEMMA ReadOfQueue ==
  ASSUME NEW T, NEW q \in Seq(T)
  PROVE  /\ ReadOf(q) \in Seq(T) /\ RestOf(q) \in Seq(T) /\ ReadOf(q) \o RestOf(q) = q
         /\ Len(ReadOf(q)) <= BufSize /\ Len(RestOf(q)) <= Len(q)
<1>1. BufSize \in Nat /\ BufSize > 0 /\ Len(q) \in Nat /\ \A i \in 1..Len(q) : q[i] \in T
  BY TerminalAssumption, ElementOfSeq
<1>0. Len(RestOf(q)) <= Len(q)
  <2>1. \A i \in (BufSize + 1)..Len(q) : q[i] \in T
    BY <1>1
  <2>2. Len(RestOf(q)) = IF BufSize + 1 <= Len(q) THEN Len(q) - (BufSize + 1) + 1 ELSE 0
    BY <1>1, <2>1, SubSeqProperties DEF RestOf
  <2> QED BY <1>1, <2>2
<1>2. CASE BufSize < Len(q)
  <2>1. ReadOf(q) = SubSeq(q, 1, BufSize)
    BY <1>2 DEF ReadOf, Shorter
  <2>3. SubSeq(q, 1, BufSize) \o SubSeq(q, BufSize + 1, Len(q)) = SubSeq(q, 1, Len(q))
    <3>1. 1 \in 1..(Len(q) + 1) /\ BufSize \in (1 - 1)..Len(q) /\ Len(q) \in BufSize..Len(q)
      BY <1>1, <1>2
    <3> QED BY <3>1, ConcatAdjacentSubSeq, Zenon
  <2>4. SubSeq(q, 1, BufSize) \in Seq(T) /\ Len(SubSeq(q, 1, BufSize)) = BufSize
    <3>1. BufSize \in Nat /\ BufSize <= Len(q)
      BY <1>1, <1>2
    <3> QED BY <3>1, FirstOfQueue, Zenon
  <2>5. SubSeq(q, BufSize + 1, Len(q)) \in Seq(T)
    BY <1>1, LastOfQueue
  <2>6. SubSeq(q, 1, Len(q)) = q
    BY SubSeqFull
  <2>7. RestOf(q) = SubSeq(q, BufSize + 1, Len(q))
    BY DEF RestOf
  <2>8. BufSize <= BufSize
    BY <1>1
  <2> QED BY <2>1, <2>3, <2>4, <2>5, <2>6, <2>7, <2>8, <1>0, Zenon
<1>3. CASE ~(BufSize < Len(q))
  <2>1. ReadOf(q) = q
    BY <1>1, <1>3, SubSeqFull DEF ReadOf, Shorter
  <2>2. RestOf(q) = <<>>
    BY <1>1, <1>3, SubSeqEmpty DEF RestOf
  <2>3. <<>> \in Seq(T) /\ q \o <<>> = q
    BY EmptySeq, ConcatEmptySeq
  <2> QED BY <1>0, <1>1, <1>3, <2>1, <2>2, <2>3
<1> QED BY <1>2, <1>3

-----------------------------------------------------------------------------
(* One direction: all that came, what of it is displayed, what was read and *)
(* not handled yet, and what was not read.                                  *)
Entries == {"fromKeyboard", "fromShell"} \X Number \X {"a", "crlf", "text"}

InOrder(all, displayed, source, buf, queue) ==
  PlainNumbers(all) =
    NumbersOf({source}, displayed) \o (PlainNumbers(buf) \o PlainNumbers(queue))

(* One byte more on the display, of the one source or of the other.        *)
LEMMA Displayed ==
  ASSUME NEW displayed \in Seq(Entries), NEW source
  PROVE  /\ NumbersOf({source}, displayed) \in Seq(Number)
         /\ \A e \in Entries : NumbersOf({source}, Append(displayed, e)) =
              NumbersOf({source}, displayed) \o (IF e[1] = source THEN <<e[2]>> ELSE <<>>)
<1>1. \A e \in Entries : e[2] \in Number
  BY DEF Entries
<1>2. NumbersOf({source}, displayed) \in Seq(Number)
  BY <1>1, NumbersOfType
<1>3. ASSUME NEW e \in Entries
      PROVE  NumbersOf({source}, Append(displayed, e)) =
               NumbersOf({source}, displayed) \o NumberOf({source}, e)
  BY <1>1, NumbersOfMore
<1> QED BY <1>2, <1>3 DEF NumberOf

(* One byte more in a queue.                                               *)
LEMMA PlainType ==
  ASSUME NEW T, \A b \in T : b[2] \in Number, NEW q \in Seq(T)
  PROVE  /\ PlainNumbers(q) \in Seq(Number)
         /\ \A b \in T : /\ NumberOf(Plain, b) \in Seq(Number)
                         /\ PlainNumbers(Append(q, b)) = PlainNumbers(q) \o NumberOf(Plain, b)
<1>1. PlainNumbers(q) \in Seq(Number)
  BY NumbersOfType DEF PlainNumbers
<1>2. ASSUME NEW b \in T PROVE NumberOf(Plain, b) \in Seq(Number)
  BY NumberOfType
<1>3. ASSUME NEW b \in T PROVE PlainNumbers(Append(q, b)) = PlainNumbers(q) \o NumberOf(Plain, b)
  BY NumbersOfMore DEF PlainNumbers
<1> QED BY <1>1, <1>2, <1>3

(* One byte more at the end of the queue.                                  *)
LEMMA OrderGrows ==
  ASSUME NEW T, \A b \in T : b[2] \in Number,
         NEW all \in Seq(T), NEW displayed \in Seq(Entries), NEW source,
         NEW buf \in Seq(T), NEW queue \in Seq(T), NEW b \in T,
         InOrder(all, displayed, source, buf, queue)
  PROVE  InOrder(Append(all, b), displayed, source, buf, Append(queue, b))
<1> DEFINE shown == NumbersOf({source}, displayed)
           first == PlainNumbers(buf)
           rest  == PlainNumbers(queue)
           one   == NumberOf(Plain, b)
<1>1. shown \in Seq(Number) /\ first \in Seq(Number) /\ rest \in Seq(Number) /\ one \in Seq(Number)
  BY Displayed, PlainType
<1>2. PlainNumbers(Append(all, b)) = PlainNumbers(all) \o one
  BY PlainType
<1>3. PlainNumbers(Append(queue, b)) = rest \o one
  BY PlainType
<1>4. PlainNumbers(all) = shown \o (first \o rest)
  BY DEF InOrder
<1> HIDE DEF shown, first, rest, one
<1>5. (shown \o (first \o rest)) \o one = shown \o (first \o (rest \o one))
  <2>1. PICK both : both = first \o rest
    OBVIOUS
  <2>2. shown \in Seq(Number) /\ both \in Seq(Number) /\ one \in Seq(Number)
    BY <1>1, <2>1, ConcatProperties
  <2>3. first \in Seq(Number) /\ rest \in Seq(Number) /\ one \in Seq(Number)
    BY <1>1
  <2>4. (shown \o both) \o one = shown \o (both \o one)
    BY ONLY <2>2, SMTT(30)
  <2>5. (first \o rest) \o one = first \o (rest \o one)
    BY ONLY <2>3, SMTT(30)
  <2> QED BY <2>1, <2>4, <2>5, Zenon
<1>6. PlainNumbers(Append(all, b)) = shown \o (first \o PlainNumbers(Append(queue, b)))
  BY <1>2, <1>3, <1>4, <1>5
<1> QED BY <1>6 DEF InOrder, shown, first

(* The first byte of the buffer is handled: displayed if it is plain.      *)
LEMMA OrderHandled ==
  ASSUME NEW T, \A b \in T : b[2] \in Number,
         NEW all, NEW displayed \in Seq(Entries), NEW after, NEW source,
         NEW buf \in Seq(T), NEW queue \in Seq(T), buf # <<>>,
         InOrder(all, displayed, source, buf, queue),
         NumbersOf({source}, after) =
           NumbersOf({source}, displayed) \o NumberOf(Plain, Head(buf))
  PROVE  InOrder(all, after, source, Tail(buf), queue)
<1> DEFINE shown == NumbersOf({source}, displayed)
           left  == PlainNumbers(Tail(buf))
           rest  == PlainNumbers(queue)
           one   == NumberOf(Plain, Head(buf))
<1>1. Head(buf) \in T /\ Tail(buf) \in Seq(T)
  BY HeadTailProperties
<1>2. shown \in Seq(Number) /\ left \in Seq(Number) /\ rest \in Seq(Number) /\ one \in Seq(Number)
  BY <1>1, Displayed, PlainType
<1>3. PlainNumbers(buf) = one \o left
  BY NumbersOfFirst DEF PlainNumbers
<1>4. PlainNumbers(all) = shown \o (PlainNumbers(buf) \o rest)
  BY DEF InOrder
<1>5. NumbersOf({source}, after) = shown \o one
  OBVIOUS
<1> HIDE DEF shown, left, rest, one
<1>6. shown \o ((one \o left) \o rest) = (shown \o one) \o (left \o rest)
  BY ONLY <1>2, SMTT(20)
<1>7. PlainNumbers(all) = NumbersOf({source}, after) \o (left \o rest)
  BY <1>3, <1>4, <1>5, <1>6
<1> QED BY <1>7 DEF InOrder, left, rest

(* The queue is read into the buffer.                                      *)
LEMMA OrderRead ==
  ASSUME NEW T, \A b \in T : b[2] \in Number,
         NEW all, NEW displayed, NEW source, NEW queue \in Seq(T),
         InOrder(all, displayed, source, <<>>, queue)
  PROVE  InOrder(all, displayed, source, ReadOf(queue), RestOf(queue))
<1> DEFINE read == ReadOf(queue)
           rest == RestOf(queue)
<1>1. read \in Seq(T) /\ rest \in Seq(T) /\ read \o rest = queue
  BY ReadOfQueue
<1> HIDE DEF read, rest
<1>2. PlainNumbers(read \o rest) = PlainNumbers(read) \o PlainNumbers(rest)
  BY <1>1, NumbersOfConcat DEF PlainNumbers
<1>3. PlainNumbers(<<>>) \o PlainNumbers(queue) = PlainNumbers(queue)
  BY PlainType, NumbersOfNone, ConcatEmptySeq DEF PlainNumbers
<1>4. PlainNumbers(<<>>) \o PlainNumbers(queue) = PlainNumbers(read) \o PlainNumbers(rest)
  BY <1>1, <1>2, <1>3
<1>5. InOrder(all, displayed, source, read, rest)
  BY <1>4 DEF InOrder
<1> QED BY <1>5 DEF read, rest

(* What is displayed is a prefix, and stays one.                           *)
LEMMA OrderPrefix ==
  ASSUME NEW T, \A b \in T : b[2] \in Number,
         NEW all, NEW displayed \in Seq(Entries), NEW source,
         NEW buf \in Seq(T), NEW queue \in Seq(T),
         InOrder(all, displayed, source, buf, queue)
  PROVE  IsPrefix(NumbersOf({source}, displayed), PlainNumbers(all))
<1> DEFINE rest  == PlainNumbers(buf) \o PlainNumbers(queue)
           shown == NumbersOf({source}, displayed)
<1>1. rest \in Seq(Number) /\ shown \in Seq(Number)
  <2>1. PlainNumbers(buf) \in Seq(Number) /\ PlainNumbers(queue) \in Seq(Number)
    BY PlainType
  <2> QED BY <2>1, Displayed, ConcatProperties
<1>2. PlainNumbers(all) = shown \o rest
  BY DEF InOrder
<1> HIDE DEF rest, shown
<1>3. IsPrefix(shown, shown \o rest)
  BY <1>1, PrefixOfConcat
<1> QED BY <1>2, <1>3 DEF shown

LEMMA PrefixGrows ==
  ASSUME NEW T, \A b \in T : b[2] \in Number,
         NEW all \in Seq(T), NEW b \in T, NEW shown \in Seq(Number),
         IsPrefix(shown, PlainNumbers(all))
  PROVE  IsPrefix(shown, PlainNumbers(Append(all, b)))
<1> DEFINE pn == PlainNumbers(all)
<1>1. pn \in Seq(Number) /\ b[2] \in Number
  BY NumbersOfType DEF PlainNumbers
<1>2. PlainNumbers(Append(all, b)) = IF b[1] \in Plain THEN Append(pn, b[2]) ELSE pn
  BY NumbersOfAppend DEF PlainNumbers
<1>3. IsPrefix(shown, Append(pn, b[2]))
  <2>1. IsPrefix(shown, pn)
    OBVIOUS
  <2> HIDE DEF pn
  <2> QED BY <1>1, <2>1, PrefixOfAppend
<1> QED BY <1>2, <1>3

-----------------------------------------------------------------------------
(* The inductive invariant.                                                *)

Steps == {"setup", "options", "fork", "poll", "read", "readShell", "fromKeyboard", "fromShell",
          "pass", "restore", "waitpid", "exited"}

(* What was read and is not handled yet.                                   *)
KeysIn(p) == IF p.at = "pass" THEN Tail(p.buf) ELSE IF p.at = "fromKeyboard" THEN p.buf ELSE <<>>
OutputIn(p) == IF p.at = "fromShell" THEN p.buf ELSE <<>>

(* The end of the shell is never among what poll() said.                   *)
Shape ==
  /\ keyboard \in Seq(KeyBytes)
  /\ prog \in [at     : Steps,
               buf    : Seq(KeyBytes) \cup Seq(OutputBytes),
               polled : SUBSET {"keyboard", "shell"}]
  /\ Len(prog.buf) <= BufSize
  /\ shell_flag \in BOOLEAN
  /\ terminal \in {"default_mode", "project_mode"}
  /\ pipes \in [shell_in : Seq(PassedBytes), shell_out : Seq(OutputBytes), in_open : BOOLEAN]
  /\ Len(pipes.shell_in) <= PipeSize /\ Len(pipes.shell_out) <= PipeSize
  /\ shell \in {"none", "idle", "writing", "exited", "reaped"}
  /\ hist \in [typed : Seq(KeyBytes), consumed : Seq(PassedBytes), written : Seq(OutputBytes),
               displayed : Seq(Entries)]

(* What each step of the program knows of its buffer and of the shell.     *)
Phases ==
  /\ prog.at \in {"fromKeyboard", "pass"} => prog.buf \in Seq(KeyBytes)
  /\ prog.at = "fromShell" => prog.buf \in Seq(OutputBytes)
  /\ prog.at \notin {"fromKeyboard", "pass", "fromShell"} => prog.buf = <<>>
  /\ prog.at = "pass" => prog.buf # <<>> /\ Head(prog.buf)[1] \in {"a", "cr"}
  /\ prog.at \in {"fork", "poll", "readShell", "fromShell", "pass"} \/ shell # "none" => shell_flag
  /\ shell = "writing" => Len(hist.written) < MaxWritten
  /\ prog.at \in {"setup", "options", "fork"} =>
       /\ shell = "none" /\ pipes.shell_in = <<>>
       /\ hist.consumed = <<>> /\ hist.displayed = <<>>

(* exit() restores the terminal and only then waits.                       *)
Leaves ==
  /\ prog.at \in {"waitpid", "exited"} => terminal = "default_mode"
  /\ prog.at = "exited" => shell \in {"none", "reaped"}

(* A ^D that is on its way was typed, or written by the shell.             *)
Origins ==
  /\ HasEof(keyboard) \/ HasEof(KeysIn(prog)) => HasEof(hist.typed)
  /\ HasEof(pipes.shell_out) \/ HasEof(OutputIn(prog)) => HasEof(hist.written)

KeysInOrder ==
  Looping => InOrder(hist.typed, hist.displayed, "fromKeyboard", KeysIn(prog), keyboard)
OutputInOrder ==
  Looping => InOrder(hist.written, hist.displayed, "fromShell", OutputIn(prog), pipes.shell_out)

DisplayIsPrefix ==
  /\ IsPrefix(ShownOf("fromKeyboard"), PlainNumbers(hist.typed))
  /\ IsPrefix(ShownOf("fromShell"), PlainNumbers(hist.written))

Reached == Numbers(hist.consumed \o pipes.shell_in)

(* The byte that was echoed last is not passed on.                         *)
Refused == ShellGone /\ \E n \in Number : ShownOf("fromKeyboard") = Append(Reached, n)

PassedOn ==
  shell_flag =>
    /\ prog.at = "pass" => ShownOf("fromKeyboard") = Append(Reached, Head(prog.buf)[2])
    /\ Looping /\ prog.at # "pass" => ShownOf("fromKeyboard") = Reached
    /\ ~Looping => ShownOf("fromKeyboard") = Reached \/ Refused

Reason ==
  ~Looping /\ shell # "none" => HasEof(hist.typed) \/ HasEof(hist.written) \/ Refused

IInv ==
  /\ Shape /\ Phases /\ Leaves /\ Origins
  /\ KeysInOrder /\ OutputInOrder /\ DisplayIsPrefix
  /\ PassedOn /\ Reason

-----------------------------------------------------------------------------
(* Every byte has a kind of its direction and a number.                    *)
LEMMA Bytes ==
  /\ \A b \in KeyBytes : b[1] \in {"a", "cr", "^C", "^D"} /\ b[2] \in Number
  /\ \A b \in OutputBytes : b[1] \in {"text", "nl", "^C", "^D"} /\ b[2] \in Number
  /\ \A b \in PassedBytes : b[2] \in Number
<1>1. ASSUME NEW b \in KeyBytes PROVE b[1] \in {"a", "cr", "^C", "^D"} /\ b[2] \in Number
  <2>1. b[1] \in Keys /\ b[2] \in 1..MaxTyped
    BY DEF KeyBytes
  <2>2. Keys \subseteq {"a", "cr", "^C", "^D"}
    BY TerminalAssumption
  <2>3. b[2] \in Nat
    BY <2>1
  <2> QED BY <2>1, <2>2, <2>3 DEF Number
<1>2. ASSUME NEW b \in OutputBytes PROVE b[1] \in {"text", "nl", "^C", "^D"} /\ b[2] \in Number
  <2>1. b[1] \in OutputKinds /\ b[2] \in 1..MaxWritten
    BY DEF OutputBytes
  <2>2. OutputKinds \subseteq {"text", "nl", "^C", "^D"}
    BY TerminalAssumption
  <2>3. b[2] \in Nat
    BY <2>1
  <2> QED BY <2>1, <2>2, <2>3 DEF Number
<1>3. \A b \in PassedBytes : b[2] \in Number
  BY TerminalAssumption DEF PassedBytes, Number
<1> QED BY <1>1, <1>2, <1>3

(* A step with an empty buffer.                                            *)
LEMMA AtIs ==
  ASSUME NEW step \in Steps
  PROVE  /\ At(step) \in [at : Steps, buf : Seq(KeyBytes) \cup Seq(OutputBytes),
                         polled : SUBSET {"keyboard", "shell"}]
         /\ At(step).at = step /\ At(step).buf = <<>> /\ Len(At(step).buf) <= BufSize
<1>1. <<>> \in Seq(KeyBytes) /\ Len(<<>>) = 0
  BY EmptySeq
<1>2. 0 <= BufSize
  BY TerminalAssumption
<1> QED BY <1>1, <1>2 DEF At

(* The invariant holds before main().                                      *)
LEMMA InitIInv == Init => IInv
<1> SUFFICES ASSUME Init PROVE IInv
  OBVIOUS
<1>1. prog.at = "setup" /\ prog.buf = <<>>
  BY DEF Init, At
<1>2. Looping /\ KeysIn(prog) = <<>> /\ OutputIn(prog) = <<>>
  BY <1>1 DEF Looping, KeysIn, OutputIn
<1>3. \A T : <<>> \in Seq(T)
  BY EmptySeq
<1>4. Len(<<>>) = 0
  BY EmptySeq
<1>5. Shape
  <2>1. prog \in [at : Steps, buf : Seq(KeyBytes) \cup Seq(OutputBytes),
                         polled : SUBSET {"keyboard", "shell"}] /\ Len(prog.buf) <= BufSize
    BY AtIs DEF Init, Steps
  <2>2. 0 <= PipeSize
    BY TerminalAssumption
  <2>3. pipes \in [shell_in : Seq(PassedBytes), shell_out : Seq(OutputBytes), in_open : BOOLEAN]
        /\ Len(pipes.shell_in) <= PipeSize /\ Len(pipes.shell_out) <= PipeSize
    BY <1>3, <1>4, <2>2 DEF Init
  <2>4. hist \in [typed : Seq(KeyBytes), consumed : Seq(PassedBytes), written : Seq(OutputBytes),
               displayed : Seq(Entries)]
    BY <1>3 DEF Init
  <2> QED BY <1>3, <2>1, <2>3, <2>4 DEF Shape, Init
<1>6. Phases /\ ~shell_flag
  BY <1>1 DEF Phases, Init
<1>7. Origins
  BY <1>2 DEF Origins, HasEof, Init
<1>8. /\ InOrder(<<>>, <<>>, "fromKeyboard", <<>>, <<>>)
      /\ InOrder(<<>>, <<>>, "fromShell", <<>>, <<>>)
  <2>1. <<>> \o <<>> = <<>>
    BY <1>3, ConcatEmptySeq
  <2> QED BY <2>1, NumbersOfNone DEF InOrder, PlainNumbers
<1>9. KeysInOrder /\ OutputInOrder
  BY <1>2, <1>8 DEF KeysInOrder, OutputInOrder, Init
<1>10. DisplayIsPrefix
  <2>1. IsPrefix(<<>>, <<>>)
    BY <1>4 DEF IsPrefix
  <2> QED BY <2>1, NumbersOfNone DEF DisplayIsPrefix, ShownOf, PlainNumbers, Init
<1>11. PassedOn /\ Reason
  BY <1>2, <1>6 DEF PassedOn, Reason
<1>12. Leaves
  BY <1>1 DEF Leaves
<1> QED BY <1>5, <1>6, <1>7, <1>9, <1>10, <1>11, <1>12 DEF IInv

-----------------------------------------------------------------------------
(* Shape and Phases, step by step.                                         *)

LEMMA SetupShape ==
  ASSUME Shape, Phases, SetupTerminal \/ ParseOptions \/ SetupShell
  PROVE  Shape' /\ Phases'
<1>1. PICK step \in Steps : prog' = At(step)
  BY DEF SetupTerminal, ParseOptions, SetupShell, Steps
<1>2. /\ prog' \in [at : Steps, buf : Seq(KeyBytes) \cup Seq(OutputBytes),
                   polled : SUBSET {"keyboard", "shell"}]
      /\ prog'.at = step /\ prog'.buf = <<>> /\ Len(prog'.buf) <= BufSize
  BY <1>1, AtIs
<1>3. Shape'
  BY <1>2 DEF Shape, SetupTerminal, ParseOptions, SetupShell
<1>4. Phases'
  BY <1>1, <1>2, AtIs DEF Phases, Shape, SetupTerminal, ParseOptions, SetupShell, Steps
<1> QED BY <1>3, <1>4

(* The loop goes on with a read or with poll(), never to the end.          *)
LEMMA GoesOnShape ==
  ASSUME Shape, NEW polled \in SUBSET {"keyboard", "shell"}, GoesOn(polled)
  PROVE  /\ prog' \in [at : Steps, buf : Seq(KeyBytes) \cup Seq(OutputBytes),
                       polled : SUBSET {"keyboard", "shell"}]
         /\ prog'.buf = <<>> /\ Len(prog'.buf) <= BufSize
         /\ prog'.at \in {"read", "readShell", "poll"}
         /\ prog'.at # "read" => shell_flag
<1>1. <<>> \in Seq(KeyBytes) /\ Len(<<>>) = 0
  BY EmptySeq
<1>2. 0 <= BufSize
  BY TerminalAssumption
<1> QED BY <1>1, <1>2 DEF GoesOn, Steps, Shape

(* poll() cannot tell the end of the shell, so the loop goes on.           *)
LEMMA PollShape ==
  ASSUME Shape, Phases, Poll \/ Processed
  PROVE  Shape' /\ Phases' /\ prog'.at \in {"read", "readShell", "poll"} /\ prog'.buf = <<>>
<1>1. PICK polled \in SUBSET {"keyboard", "shell"} : GoesOn(polled)
  <2>1. CASE Poll
    BY <2>1 DEF Poll, ShellEvents, EndEvents
  <2>2. CASE Processed
    BY <2>2 DEF Processed, Shape
  <2> QED BY <2>1, <2>2
<1>2. UNCHANGED <<keyboard, shell_flag, terminal, pipes, shell, hist>>
  BY DEF Poll, Processed
<1>3. Shape'
  BY <1>1, <1>2, GoesOnShape DEF Shape
<1>4. Phases'
  BY <1>1, <1>2, GoesOnShape DEF Phases
<1> QED BY <1>1, <1>3, <1>4, GoesOnShape

LEMMA ReadShape ==
  ASSUME Shape, Phases, ReadKeyboard \/ ReadShell
  PROVE  Shape' /\ Phases'
<1>1. CASE ReadKeyboard
  <2>1. /\ ReadOf(keyboard) \in Seq(KeyBytes) /\ RestOf(keyboard) \in Seq(KeyBytes)
        /\ Len(ReadOf(keyboard)) <= BufSize
    BY ReadOfQueue DEF Shape
  <2>2. /\ prog'.at = "fromKeyboard" /\ prog'.buf = ReadOf(keyboard)
        /\ prog' \in [at : Steps, buf : Seq(KeyBytes) \cup Seq(OutputBytes),
                     polled : SUBSET {"keyboard", "shell"}]
    BY <1>1, <2>1 DEF ReadKeyboard, Shape, Steps
  <2>3. Shape'
    BY <1>1, <2>1, <2>2 DEF ReadKeyboard, Shape
  <2>4. Phases'
    BY <1>1, <2>1, <2>2 DEF ReadKeyboard, Phases
  <2> QED BY <2>3, <2>4
<1>2. CASE ReadShell
  <2> DEFINE out == pipes.shell_out
  <2>1. /\ ReadOf(out) \in Seq(OutputBytes) /\ RestOf(out) \in Seq(OutputBytes)
        /\ Len(ReadOf(out)) <= BufSize /\ Len(RestOf(out)) <= Len(out)
    BY ReadOfQueue DEF Shape
  <2>2. /\ prog'.at = "fromShell" /\ prog'.buf = ReadOf(out)
        /\ prog' \in [at : Steps, buf : Seq(KeyBytes) \cup Seq(OutputBytes),
                     polled : SUBSET {"keyboard", "shell"}]
    BY <1>2, <2>1 DEF ReadShell, Shape, Steps
  <2>3. /\ pipes'.shell_in = pipes.shell_in /\ pipes'.shell_out = RestOf(out)
        /\ pipes' \in [shell_in : Seq(PassedBytes), shell_out : Seq(OutputBytes),
                      in_open : BOOLEAN]
    BY <1>2, <2>1 DEF ReadShell, Shape
  <2>4. Len(RestOf(out)) <= PipeSize
    <3>1. Len(out) <= PipeSize /\ Len(out) \in Nat /\ PipeSize \in Nat /\ Len(RestOf(out)) \in Nat
      BY <2>1, TerminalAssumption, LenProperties DEF Shape
    <3> QED BY <2>1, <3>1
  <2>5. Shape'
    BY <1>2, <2>1, <2>2, <2>3, <2>4 DEF ReadShell, Shape
  <2>6. Phases'
    BY <1>2, <2>1, <2>2, <2>3 DEF ReadShell, Phases
  <2> QED BY <2>5, <2>6
<1> QED BY <1>1, <1>2

(* The byte being handled, of either side.                                 *)
LEMMA Handled ==
  ASSUME Shape, Phases, Processing \/ prog.at = "pass"
  PROVE  /\ prog.buf # <<>> /\ Len(Tail(prog.buf)) <= BufSize
         /\ Tail(prog.buf) \in Seq(KeyBytes) \cup Seq(OutputBytes)
         /\ prog.at \in {"fromKeyboard", "pass"} =>
              NextByte \in KeyBytes /\ Tail(prog.buf) \in Seq(KeyBytes)
         /\ prog.at = "fromShell" =>
              NextByte \in OutputBytes /\ Tail(prog.buf) \in Seq(OutputBytes)
<1>1. prog.buf # <<>> /\ prog.at \in {"fromKeyboard", "fromShell", "pass"}
  BY DEF Processing, Phases
<1>2. ASSUME NEW T, prog.buf \in Seq(T)
      PROVE  /\ Head(prog.buf) \in T /\ Tail(prog.buf) \in Seq(T)
             /\ Len(Tail(prog.buf)) = Len(prog.buf) - 1 /\ Len(prog.buf) \in Nat
  BY <1>1, <1>2, HeadTailProperties, LenProperties
<1>3. prog.buf \in Seq(KeyBytes) \/ prog.buf \in Seq(OutputBytes)
  BY <1>1 DEF Phases
<1>4. Len(Tail(prog.buf)) = Len(prog.buf) - 1 /\ Len(prog.buf) \in Nat
  BY <1>2, <1>3
<1>5. Len(Tail(prog.buf)) <= BufSize
  <2>1. Len(prog.buf) <= BufSize /\ BufSize \in Nat
    BY TerminalAssumption DEF Shape
  <2> QED BY <1>4, <2>1
<1>6. prog.at \in {"fromKeyboard", "pass"} =>
        Head(prog.buf) \in KeyBytes /\ Tail(prog.buf) \in Seq(KeyBytes)
  BY <1>2 DEF Phases
<1>7. prog.at = "fromShell" => Head(prog.buf) \in OutputBytes /\ Tail(prog.buf) \in Seq(OutputBytes)
  BY <1>2 DEF Phases
<1> QED BY <1>1, <1>5, <1>6, <1>7 DEF NextByte

LEMMA InterruptShape ==
  ASSUME Shape, Phases, Interrupt
  PROVE  Shape' /\ Phases'
<1>1. /\ prog'.at = prog.at /\ prog'.buf = Tail(prog.buf) /\ Len(prog'.buf) <= BufSize
      /\ prog' \in [at : Steps, buf : Seq(KeyBytes) \cup Seq(OutputBytes),
                   polled : SUBSET {"keyboard", "shell"}]
      /\ prog.at \in {"fromKeyboard", "fromShell"}
  BY Handled DEF Interrupt, Shape, Processing
<1>2. shell' \in {"none", "idle", "writing", "exited", "reaped"} /\ (shell' # shell => shell_flag)
  BY DEF Interrupt, Shape
<1>3. Shape'
  BY <1>1, <1>2 DEF Interrupt, Shape
<1>4. Phases'
  BY <1>1, <1>2, Handled DEF Interrupt, Phases
<1> QED BY <1>3, <1>4

LEMMA EndOfInputShape ==
  ASSUME Shape, Phases, EndOfInput
  PROVE  Shape' /\ Phases' /\ prog'.at = "restore" /\ prog'.buf = <<>>
<1>1. /\ prog' \in [at : Steps, buf : Seq(KeyBytes) \cup Seq(OutputBytes),
                   polled : SUBSET {"keyboard", "shell"}]
      /\ prog'.at = "restore" /\ prog'.buf = <<>> /\ Len(prog'.buf) <= BufSize
  BY AtIs DEF EndOfInput, Exits, Steps
<1>2. /\ pipes'.shell_in = pipes.shell_in /\ pipes'.shell_out = pipes.shell_out
      /\ pipes' \in [shell_in : Seq(PassedBytes), shell_out : Seq(OutputBytes),
                    in_open : BOOLEAN]
  BY DEF EndOfInput, Shape
<1>3. Shape'
  BY <1>1, <1>2 DEF EndOfInput, Shape
<1>4. Phases'
  BY <1>1 DEF EndOfInput, Phases
<1> QED BY <1>1, <1>3, <1>4

(* What is displayed is the byte that is handled.                          *)
LEMMA DisplayShape ==
  ASSUME Shape, Phases, Display
  PROVE  /\ Shape' /\ Phases'
         /\ \E e \in Entries : /\ e[1] = prog.at /\ e[2] = NextByte[2]
                               /\ hist'.displayed = Append(hist.displayed, e)
         /\ hist'.typed = hist.typed /\ hist'.written = hist.written
         /\ hist'.consumed = hist.consumed
<1> DEFINE e == <<prog.at, NextByte[2], Shown(NextByte[1])>>
<1>1. /\ prog.at \in {"fromKeyboard", "fromShell"} /\ NextByte[1] \in {"a", "cr", "text", "nl"}
      /\ NextByte[2] \in Number
  BY Handled, Bytes DEF Display, Processing
<1>2. e \in Entries /\ e[1] = prog.at /\ e[2] = NextByte[2]
  BY <1>1 DEF Entries, Shown
<1> HIDE DEF e
<1>3. /\ hist'.displayed = Append(hist.displayed, e)
      /\ hist'.typed = hist.typed /\ hist'.written = hist.written
      /\ hist'.consumed = hist.consumed
      /\ hist' \in [typed : Seq(KeyBytes), consumed : Seq(PassedBytes),
                   written : Seq(OutputBytes), displayed : Seq(Entries)]
  <2>1. hist' = [hist EXCEPT !.displayed = Append(@, e)]
    BY DEF Display, e
  <2>2. Append(hist.displayed, e) \in Seq(Entries)
    BY <1>2, AppendProperties DEF Shape
  <2> QED BY <2>1, <2>2 DEF Shape
<1>4. /\ prog' \in [at : Steps, buf : Seq(KeyBytes) \cup Seq(OutputBytes),
                   polled : SUBSET {"keyboard", "shell"}]
      /\ Len(prog'.buf) <= BufSize
  BY Handled DEF Display, Shape, Steps
<1>5. Shape'
  BY <1>3, <1>4 DEF Display, Shape
<1>6. Phases'
  <2>1. CASE shell_flag /\ prog.at = "fromKeyboard"
    <3>1. prog'.at = "pass" /\ prog'.buf = prog.buf /\ Head(prog.buf)[1] \in {"a", "cr"}
      BY <2>1, Handled, Bytes DEF Display, Shape, NextByte
    <3> QED BY <2>1, <3>1, Handled DEF Phases, Display, Processing
  <2>2. CASE ~(shell_flag /\ prog.at = "fromKeyboard")
    <3>1. prog'.at = prog.at /\ prog'.buf = Tail(prog.buf)
      BY <2>2 DEF Display, Shape
    <3> QED BY <1>1, <3>1, Handled DEF Phases, Display
  <2> QED BY <2>1, <2>2
<1> QED BY <1>2, <1>3, <1>5, <1>6

(* What is passed on is the byte that is handled, or the program exits.    *)
LEMMA PassShape ==
  ASSUME Shape, Phases, Pass
  PROVE  /\ Shape' /\ Phases'
         /\ \/ /\ ~ShellGone /\ prog'.at = "fromKeyboard" /\ prog'.buf = Tail(prog.buf)
               /\ \E b \in PassedBytes :
                    b[2] = NextByte[2] /\ pipes'.shell_in = Append(pipes.shell_in, b)
            \/ /\ ShellGone /\ prog'.at = "restore" /\ prog'.buf = <<>>
               /\ pipes' = pipes
         /\ pipes'.shell_out = pipes.shell_out
<1>1. CASE ShellGone /\ Exits /\ UNCHANGED pipes
  <2>1. /\ prog' \in [at : Steps, buf : Seq(KeyBytes) \cup Seq(OutputBytes),
                     polled : SUBSET {"keyboard", "shell"}]
        /\ prog'.at = "restore" /\ prog'.buf = <<>> /\ Len(prog'.buf) <= BufSize
    BY <1>1, AtIs DEF Exits, Steps
  <2>2. Shape'
    BY <1>1, <2>1 DEF Pass, Shape
  <2>3. Phases'
    BY <1>1, <2>1 DEF Pass, Phases
  <2> QED BY <1>1, <2>1, <2>2, <2>3
<1>2. CASE ~(ShellGone /\ Exits /\ UNCHANGED pipes)
  <2> DEFINE b == <<Passed(NextByte[1]), NextByte[2]>>
             in == pipes.shell_in
  <2>1. /\ ~ShellGone /\ Len(in) < PipeSize /\ pipes' = [pipes EXCEPT !.shell_in = Append(@, b)]
        /\ prog' = [prog EXCEPT !.at = "fromKeyboard", !.buf = Tail(@)]
    BY <1>2 DEF Pass
  <2>2. b \in PassedBytes /\ b[2] = NextByte[2]
    <3>1. NextByte \in KeyBytes /\ NextByte[1] \in {"a", "cr"}
      BY Handled DEF Pass, Phases, NextByte
    <3>2. NextByte[2] \in 1..MaxTyped
      BY <3>1 DEF KeyBytes
    <3> QED BY <3>1, <3>2 DEF PassedBytes, Passed
  <2> HIDE DEF b
  <2>3. /\ prog'.at = "fromKeyboard" /\ prog'.buf = Tail(prog.buf) /\ Len(prog'.buf) <= BufSize
        /\ prog' \in [at : Steps, buf : Seq(KeyBytes) \cup Seq(OutputBytes),
                     polled : SUBSET {"keyboard", "shell"}]
    BY <2>1, Handled DEF Pass, Shape, Steps
  <2>4. Append(in, b) \in Seq(PassedBytes) /\ Len(Append(in, b)) = Len(in) + 1 /\ Len(in) \in Nat
    BY <2>2, AppendProperties, LenProperties DEF Shape
  <2>5. /\ pipes'.shell_in = Append(in, b) /\ pipes'.shell_out = pipes.shell_out
        /\ pipes' \in [shell_in : Seq(PassedBytes), shell_out : Seq(OutputBytes),
                      in_open : BOOLEAN]
    BY <2>1, <2>4 DEF Shape
  <2>6. Len(Append(in, b)) <= PipeSize
    <3>1. PipeSize \in Nat
      BY TerminalAssumption
    <3> QED BY <2>1, <2>4, <3>1
  <2>7. Shape'
    BY <2>3, <2>5, <2>6 DEF Pass, Shape
  <2>8. Phases'
    BY <2>3, <2>5, Handled DEF Pass, Phases
  <2> QED BY <2>1, <2>2, <2>3, <2>5, <2>7, <2>8
<1> QED BY <1>1, <1>2

LEMMA EndShape ==
  ASSUME Shape, Phases, RestoreTerminal \/ WaitPid
  PROVE  /\ Shape' /\ Phases'
         /\ prog.at \in {"restore", "waitpid"} /\ prog'.at \in {"waitpid", "exited"}
         /\ prog.buf = <<>> /\ prog'.buf = <<>>
<1>1. PICK step \in {"waitpid", "exited"} : prog' = At(step)
  BY DEF RestoreTerminal, WaitPid
<1>2. /\ prog' \in [at : Steps, buf : Seq(KeyBytes) \cup Seq(OutputBytes),
                   polled : SUBSET {"keyboard", "shell"}]
      /\ prog'.at = step /\ prog'.buf = <<>> /\ Len(prog'.buf) <= BufSize
  BY <1>1, AtIs DEF Steps
<1>3. Shape'
  BY <1>2 DEF RestoreTerminal, WaitPid, Shape
<1>4. Phases'
  BY <1>1, <1>2 DEF RestoreTerminal, WaitPid, Phases
<1>5. prog.at \in {"restore", "waitpid"} /\ prog.buf = <<>>
  BY DEF RestoreTerminal, WaitPid, Phases
<1> QED BY <1>1, <1>2, <1>3, <1>4, <1>5

(* A byte that moves from one queue to the next stays in line.             *)
LEMMA HeadMoves ==
  ASSUME NEW T, NEW c \in Seq(T), NEW q \in Seq(T), q # <<>>
  PROVE  Append(c, Head(q)) \o Tail(q) = c \o q
<1>1. /\ Head(q) \in T /\ Tail(q) \in Seq(T) /\ <<Head(q)>> \in Seq(T)
      /\ q = <<Head(q)>> \o Tail(q)
  BY HeadTailProperties
<1>2. PICK h, t : h = <<Head(q)>> /\ t = Tail(q)
  OBVIOUS
<1>3. Append(c, Head(q)) = c \o h
  BY <1>1, <1>2, AppendIsConcat
<1>4. (c \o h) \o t = c \o (h \o t)
  BY <1>1, <1>2
<1>5. h \o t = q
  BY <1>1, <1>2
<1> QED BY <1>2, <1>3, <1>4, <1>5, Zenon

(* The shell takes what it reads from the pipe.                            *)
LEMMA ShellReadShape ==
  ASSUME Shape, Phases, ShellRead
  PROVE  /\ Shape' /\ Phases'
         /\ hist'.typed = hist.typed /\ hist'.written = hist.written
         /\ hist'.displayed = hist.displayed /\ pipes'.shell_out = pipes.shell_out
         /\ hist'.consumed \o pipes'.shell_in = hist.consumed \o pipes.shell_in
<1> DEFINE in == pipes.shell_in
<1>1. in # <<>> /\ in \in Seq(PassedBytes) /\ hist.consumed \in Seq(PassedBytes)
  BY DEF ShellRead, Shape
<1>2. /\ Head(in) \in PassedBytes /\ Tail(in) \in Seq(PassedBytes)
      /\ Len(Tail(in)) = Len(in) - 1 /\ Len(in) \in Nat
  BY <1>1, HeadTailProperties, LenProperties
<1>3. Append(hist.consumed, Head(in)) \in Seq(PassedBytes)
  BY <1>1, <1>2, AppendProperties
<1>4. /\ pipes'.shell_in = Tail(in) /\ pipes'.shell_out = pipes.shell_out
      /\ pipes' \in [shell_in : Seq(PassedBytes), shell_out : Seq(OutputBytes),
                    in_open : BOOLEAN]
  BY <1>2 DEF ShellRead, Shape
<1>5. /\ hist'.typed = hist.typed /\ hist'.written = hist.written
      /\ hist'.displayed = hist.displayed
      /\ hist'.consumed = Append(hist.consumed, Head(in))
      /\ hist' \in [typed : Seq(KeyBytes), consumed : Seq(PassedBytes),
                   written : Seq(OutputBytes), displayed : Seq(Entries)]
  BY <1>3 DEF ShellRead, Shape
<1>6. Len(Tail(in)) <= PipeSize
  <2>1. PipeSize \in Nat /\ Len(in) <= PipeSize
    BY TerminalAssumption DEF Shape
  <2> QED BY <1>2, <2>1
<1>7. Append(hist.consumed, Head(in)) \o Tail(in) = hist.consumed \o in
  BY <1>1, HeadMoves
<1>8. Shape'
  BY <1>4, <1>5, <1>6 DEF ShellRead, Shape
<1>9. Phases'
  BY <1>4, <1>5 DEF ShellRead, Phases
<1>10. hist'.consumed \o pipes'.shell_in = hist.consumed \o pipes.shell_in
  BY <1>4, <1>5, <1>7, Zenon
<1> QED BY <1>4, <1>5, <1>8, <1>9, <1>10

LEMMA ShellShape ==
  ASSUME Shape, Phases, ShellReadsEnd \/ ShellExit \/ ShellStartsToWrite
  PROVE  Shape' /\ Phases'
<1>1. /\ UNCHANGED <<keyboard, prog, shell_flag, terminal, pipes, hist>>
      /\ shell = "idle" /\ shell' \in {"writing", "exited"}
      /\ shell' = "writing" => Len(hist.written) < MaxWritten
  BY DEF ShellReadsEnd, ShellExit, ShellStartsToWrite
<1> QED BY <1>1 DEF Shape, Phases

(* What the shell writes is numbered within the bound.                     *)
LEMMA ShellWriteShape ==
  ASSUME Shape, Phases, ShellWrite
  PROVE  /\ Shape' /\ Phases'
         /\ \E piece \in OutputBytes :
              /\ hist'.written = Append(hist.written, piece)
              /\ pipes'.shell_out = Append(pipes.shell_out, piece)
         /\ hist'.typed = hist.typed /\ hist'.displayed = hist.displayed
         /\ hist'.consumed = hist.consumed /\ pipes'.shell_in = pipes.shell_in
<1> DEFINE out == pipes.shell_out
<1>1. PICK kind \in OutputKinds :
        /\ pipes' = [pipes EXCEPT !.shell_out = Append(@, <<kind, Len(hist.written) + 1>>)]
        /\ hist' = [hist EXCEPT !.written = Append(@, <<kind, Len(hist.written) + 1>>)]
  BY DEF ShellWrite
<1>2. PICK piece : piece = <<kind, Len(hist.written) + 1>>
  OBVIOUS
<1>3. piece \in OutputBytes
  <2>1. Len(hist.written) < MaxWritten /\ Len(hist.written) \in Nat /\ MaxWritten \in Nat
    BY TerminalAssumption, LenProperties DEF ShellWrite, Shape, Phases
  <2>2. Len(hist.written) + 1 \in 1..MaxWritten
    BY <2>1
  <2> QED BY <1>2, <2>2 DEF OutputBytes
<1>4. /\ Append(hist.written, piece) \in Seq(OutputBytes)
      /\ Append(out, piece) \in Seq(OutputBytes)
      /\ Len(Append(out, piece)) = Len(out) + 1 /\ Len(out) \in Nat
  BY <1>3, AppendProperties, LenProperties DEF Shape
<1>5. /\ pipes'.shell_out = Append(out, piece) /\ pipes'.shell_in = pipes.shell_in
      /\ pipes' \in [shell_in : Seq(PassedBytes), shell_out : Seq(OutputBytes),
                    in_open : BOOLEAN]
  BY <1>1, <1>2, <1>4 DEF Shape
<1>6. /\ hist'.typed = hist.typed /\ hist'.consumed = hist.consumed
      /\ hist'.displayed = hist.displayed
      /\ hist'.written = Append(hist.written, piece)
      /\ hist' \in [typed : Seq(KeyBytes), consumed : Seq(PassedBytes),
                   written : Seq(OutputBytes), displayed : Seq(Entries)]
  BY <1>1, <1>2, <1>4 DEF Shape
<1>7. Len(Append(out, piece)) <= PipeSize
  <2>1. PipeSize \in Nat /\ Len(out) < PipeSize
    BY TerminalAssumption DEF ShellWrite
  <2> QED BY <1>4, <2>1
<1>8. Shape'
  BY <1>5, <1>6, <1>7 DEF ShellWrite, Shape
<1>9. Phases'
  BY <1>5, <1>6 DEF ShellWrite, Phases
<1> QED BY <1>3, <1>5, <1>6, <1>8, <1>9

(* What the user types is numbered within the bound.                       *)
LEMMA TypeShape ==
  ASSUME Shape, Phases, Type
  PROVE  /\ Shape' /\ Phases'
         /\ \E b \in KeyBytes :
              /\ hist'.typed = Append(hist.typed, b)
              /\ keyboard' = Append(keyboard, b)
         /\ hist'.written = hist.written /\ hist'.displayed = hist.displayed
         /\ hist'.consumed = hist.consumed
<1>1. PICK kind \in Keys :
        /\ keyboard' = Append(keyboard, <<kind, Len(hist.typed) + 1>>)
        /\ hist' = [hist EXCEPT !.typed = Append(@, <<kind, Len(hist.typed) + 1>>)]
  BY DEF Type
<1>2. PICK b : b = <<kind, Len(hist.typed) + 1>>
  OBVIOUS
<1>3. b \in KeyBytes
  <2>1. Len(hist.typed) < MaxTyped /\ Len(hist.typed) \in Nat /\ MaxTyped \in Nat
    BY TerminalAssumption, LenProperties DEF Type, Shape
  <2>2. Len(hist.typed) + 1 \in 1..MaxTyped
    BY <2>1
  <2> QED BY <1>2, <2>2 DEF KeyBytes
<1>4. Append(hist.typed, b) \in Seq(KeyBytes) /\ Append(keyboard, b) \in Seq(KeyBytes)
  BY <1>3, AppendProperties DEF Shape
<1>5. /\ hist'.written = hist.written /\ hist'.consumed = hist.consumed
      /\ hist'.displayed = hist.displayed
      /\ hist'.typed = Append(hist.typed, b)
      /\ hist' \in [typed : Seq(KeyBytes), consumed : Seq(PassedBytes),
                   written : Seq(OutputBytes), displayed : Seq(Entries)]
  BY <1>1, <1>2, <1>4 DEF Shape
<1>6. keyboard' = Append(keyboard, b)
  BY <1>1, <1>2
<1>7. Shape'
  BY <1>4, <1>5, <1>6 DEF Type, Shape
<1>8. Phases'
  BY <1>5 DEF Type, Phases
<1> QED BY <1>3, <1>5, <1>6, <1>7, <1>8

-----------------------------------------------------------------------------
(* A ^D in a queue.                                                        *)

LEMMA EofConcat ==
  ASSUME NEW T, NEW p \in Seq(T), NEW q \in Seq(T)
  PROVE  HasEof(p \o q) <=> HasEof(p) \/ HasEof(q)
<1>1. /\ p \o q \in Seq(T) /\ Len(p \o q) = Len(p) + Len(q) /\ Len(p) \in Nat /\ Len(q) \in Nat
      /\ \A i \in 1..Len(p) : (p \o q)[i] = p[i]
      /\ \A i \in 1..Len(q) : (p \o q)[i + Len(p)] = q[i]
      /\ DOMAIN p = 1..Len(p) /\ DOMAIN q = 1..Len(q) /\ DOMAIN (p \o q) = 1..(Len(p) + Len(q))
  BY ConcatProperties, LenProperties
<1> PICK pq : pq = p \o q
  OBVIOUS
<1>2. ASSUME HasEof(p) \/ HasEof(q) PROVE HasEof(pq)
  <2>1. CASE HasEof(p)
    <3>1. PICK i \in 1..Len(p) : p[i][1] = "^D"
      BY <1>1, <2>1 DEF HasEof
    <3>2. i \in DOMAIN pq /\ pq[i][1] = "^D"
      BY <1>1, <3>1
    <3> QED BY <3>2 DEF HasEof
  <2>2. CASE HasEof(q)
    <3>1. PICK i \in 1..Len(q) : q[i][1] = "^D"
      BY <1>1, <2>2 DEF HasEof
    <3>2. i + Len(p) \in DOMAIN pq /\ pq[i + Len(p)][1] = "^D"
      BY <1>1, <3>1
    <3> QED BY <3>2 DEF HasEof
  <2> QED BY <1>2, <2>1, <2>2
<1>3. ASSUME HasEof(pq) PROVE HasEof(p) \/ HasEof(q)
  <2>1. PICK i \in DOMAIN pq : pq[i][1] = "^D"
    BY <1>3 DEF HasEof
  <2>2. CASE i <= Len(p)
    <3>1. i \in DOMAIN p /\ p[i][1] = "^D"
      BY <1>1, <2>1, <2>2
    <3> QED BY <3>1 DEF HasEof
  <2>3. CASE ~(i <= Len(p))
    <3>1. i - Len(p) \in 1..Len(q) /\ (i - Len(p)) + Len(p) = i
      BY <1>1, <2>1, <2>3
    <3>2. q[i - Len(p)][1] = "^D"
      BY <1>1, <2>1, <3>1
    <3> QED BY <1>1, <3>1, <3>2 DEF HasEof
  <2> QED BY <2>2, <2>3
<1> QED BY <1>2, <1>3

LEMMA EofAppend ==
  ASSUME NEW T, NEW q \in Seq(T), NEW b \in T
  PROVE  HasEof(Append(q, b)) <=> HasEof(q) \/ b[1] = "^D"
<1> PICK one : one = <<b>>
  OBVIOUS
<1>1. one \in Seq(T) /\ DOMAIN one = {1} /\ one[1] = b
  OBVIOUS
<1>2. Append(q, b) = q \o one
  BY AppendIsConcat
<1>3. HasEof(one) <=> b[1] = "^D"
  BY <1>1 DEF HasEof
<1>4. HasEof(q \o one) <=> HasEof(q) \/ HasEof(one)
  BY <1>1, EofConcat
<1> QED BY <1>2, <1>3, <1>4

LEMMA EofTail ==
  ASSUME NEW T, NEW q \in Seq(T), q # <<>>
  PROVE  HasEof(q) <=> Head(q)[1] = "^D" \/ HasEof(Tail(q))
<1> PICK one, rest : one = <<Head(q)>> /\ rest = Tail(q)
  OBVIOUS
<1>1. /\ one \in Seq(T) /\ DOMAIN one = {1} /\ one[1] = Head(q) /\ rest \in Seq(T)
      /\ q = one \o rest
  BY HeadTailProperties
<1>2. HasEof(one) <=> Head(q)[1] = "^D"
  BY <1>1 DEF HasEof
<1>3. HasEof(one \o rest) <=> HasEof(one) \/ HasEof(rest)
  BY <1>1, EofConcat
<1> QED BY <1>1, <1>2, <1>3

LEMMA EofRead ==
  ASSUME NEW T, NEW q \in Seq(T)
  PROVE  HasEof(q) <=> HasEof(ReadOf(q)) \/ HasEof(RestOf(q))
<1> PICK read, rest : read = ReadOf(q) /\ rest = RestOf(q)
  OBVIOUS
<1>1. read \in Seq(T) /\ rest \in Seq(T) /\ q = read \o rest
  BY ReadOfQueue
<1>2. HasEof(read \o rest) <=> HasEof(read) \/ HasEof(rest)
  BY <1>1, EofConcat
<1> QED BY <1>1, <1>2

LEMMA NoEof == ~HasEof(<<>>)
BY DEF HasEof

-----------------------------------------------------------------------------
(* The two directions, step by step.                                       *)

Flow == Origins /\ KeysInOrder /\ OutputInOrder /\ DisplayIsPrefix

(* What is pending of a direction is of its kinds.                         *)
LEMMA InTypes ==
  ASSUME Shape, Phases
  PROVE  KeysIn(prog) \in Seq(KeyBytes) /\ OutputIn(prog) \in Seq(OutputBytes)
<1>1. <<>> \in Seq(KeyBytes) /\ <<>> \in Seq(OutputBytes)
  BY EmptySeq
<1>2. prog.at = "pass" => Tail(prog.buf) \in Seq(KeyBytes)
  BY Handled
<1> QED BY <1>1, <1>2 DEF KeysIn, OutputIn, Phases

(* Bytes neither come nor go.                                              *)
LEMMA Unmoved ==
  ASSUME Flow, keyboard' = keyboard, hist'.typed = hist.typed, hist'.written = hist.written,
         hist'.displayed = hist.displayed, pipes'.shell_out = pipes.shell_out,
         KeysIn(prog') \in {<<>>, KeysIn(prog)}, OutputIn(prog') \in {<<>>, OutputIn(prog)},
         Looping' => /\ Looping
                     /\ KeysIn(prog') = KeysIn(prog) /\ OutputIn(prog') = OutputIn(prog)
  PROVE  Flow'
<1>1. Origins'
  <2>1. (HasEof(keyboard) \/ HasEof(KeysIn(prog)) => HasEof(hist.typed))
        /\ (HasEof(pipes.shell_out) \/ HasEof(OutputIn(prog)) => HasEof(hist.written))
    BY DEF Flow, Origins
  <2>2. HasEof(KeysIn(prog')) => HasEof(KeysIn(prog))
    BY NoEof
  <2>3. HasEof(OutputIn(prog')) => HasEof(OutputIn(prog))
    BY NoEof
  <2> QED BY <2>1, <2>2, <2>3 DEF Origins
<1>2. KeysInOrder'
  BY DEF Flow, KeysInOrder
<1>3. OutputInOrder'
  BY DEF Flow, OutputInOrder
<1>4. DisplayIsPrefix'
  BY DEF Flow, DisplayIsPrefix, ShownOf
<1> QED BY <1>1, <1>2, <1>3, <1>4 DEF Flow

(* What is displayed while the loop runs is a prefix because it is in order.*)
LEMMA InOrderIsPrefix ==
  ASSUME Shape, Phases, Looping, KeysInOrder, OutputInOrder
  PROVE  DisplayIsPrefix
<1>1. /\ InOrder(hist.typed, hist.displayed, "fromKeyboard", KeysIn(prog), keyboard)
      /\ InOrder(hist.written, hist.displayed, "fromShell", OutputIn(prog), pipes.shell_out)
  BY DEF KeysInOrder, OutputInOrder
<1>2. /\ \A b \in KeyBytes : b[2] \in Number
      /\ \A b \in OutputBytes : b[2] \in Number
  BY Bytes
<1>3. /\ hist.displayed \in Seq(Entries)
      /\ keyboard \in Seq(KeyBytes) /\ pipes.shell_out \in Seq(OutputBytes)
      /\ KeysIn(prog) \in Seq(KeyBytes) /\ OutputIn(prog) \in Seq(OutputBytes)
  BY InTypes DEF Shape
<1>4. IsPrefix(NumbersOf({"fromKeyboard"}, hist.displayed), PlainNumbers(hist.typed))
  BY <1>1, <1>2, <1>3, OrderPrefix
<1>5. IsPrefix(NumbersOf({"fromShell"}, hist.displayed), PlainNumbers(hist.written))
  BY <1>1, <1>2, <1>3, OrderPrefix
<1> QED BY <1>4, <1>5 DEF DisplayIsPrefix, ShownOf

(* read() moves a part of a queue into the empty buffer.                   *)
LEMMA ReadFlow ==
  ASSUME Shape, Phases, Flow, ReadKeyboard \/ ReadShell
  PROVE  Flow'
<1>0. keyboard \in Seq(KeyBytes) /\ pipes.shell_out \in Seq(OutputBytes)
  BY DEF Shape
<1>1. prog.at \in {"read", "readShell"} /\ KeysIn(prog) = <<>> /\ OutputIn(prog) = <<>>
  BY DEF ReadKeyboard, ReadShell, KeysIn, OutputIn
<1>2. Looping /\ hist' = hist
  BY <1>1 DEF Looping, ReadKeyboard, ReadShell
<1>3. \A b \in KeyBytes : b[2] \in Number
  BY Bytes
<1>4. \A b \in OutputBytes : b[2] \in Number
  BY Bytes
<1>5. CASE ReadKeyboard
  <2>1. /\ prog'.at = "fromKeyboard" /\ prog'.buf = ReadOf(keyboard)
        /\ keyboard' = RestOf(keyboard) /\ pipes' = pipes
    BY <1>5 DEF ReadKeyboard, Shape
  <2>2. KeysIn(prog') = ReadOf(keyboard) /\ OutputIn(prog') = <<>>
    BY <2>1 DEF KeysIn, OutputIn
  <2>3. InOrder(hist.typed, hist.displayed, "fromKeyboard", ReadOf(keyboard), RestOf(keyboard))
    <3>1. InOrder(hist.typed, hist.displayed, "fromKeyboard", <<>>, keyboard)
      BY <1>1, <1>2 DEF Flow, KeysInOrder
    <3> QED BY <1>0, <1>3, <3>1, OrderRead
  <2>4. KeysInOrder'
    BY <1>2, <2>1, <2>2, <2>3 DEF KeysInOrder
  <2>5. OutputInOrder'
    BY <1>1, <1>2, <2>1, <2>2 DEF Flow, OutputInOrder
  <2>6. Origins'
    <3>1. HasEof(keyboard) <=> HasEof(ReadOf(keyboard)) \/ HasEof(RestOf(keyboard))
      BY <1>0, EofRead
    <3> QED BY <1>1, <1>2, <2>1, <2>2, <3>1 DEF Flow, Origins
  <2>7. DisplayIsPrefix'
    BY <1>2 DEF Flow, DisplayIsPrefix, ShownOf
  <2> QED BY <2>4, <2>5, <2>6, <2>7 DEF Flow
<1>6. CASE ReadShell
  <2> PICK out : out = pipes.shell_out
    OBVIOUS
  <2>1. /\ prog'.at = "fromShell" /\ prog'.buf = ReadOf(out)
        /\ keyboard' = keyboard /\ pipes'.shell_out = RestOf(out)
    BY <1>6 DEF ReadShell, Shape
  <2>2. KeysIn(prog') = <<>> /\ OutputIn(prog') = ReadOf(out)
    BY <2>1 DEF KeysIn, OutputIn
  <2>3. InOrder(hist.written, hist.displayed, "fromShell", ReadOf(out), RestOf(out))
    <3>1. InOrder(hist.written, hist.displayed, "fromShell", <<>>, out)
      BY <1>1, <1>2 DEF Flow, OutputInOrder
    <3> QED BY <1>0, <1>4, <3>1, OrderRead
  <2>4. OutputInOrder'
    BY <1>2, <2>1, <2>2, <2>3 DEF OutputInOrder
  <2>5. KeysInOrder'
    BY <1>1, <1>2, <2>1, <2>2 DEF Flow, KeysInOrder
  <2>6. Origins'
    <3>1. HasEof(out) <=> HasEof(ReadOf(out)) \/ HasEof(RestOf(out))
      BY <1>0, EofRead
    <3> QED BY <1>1, <1>2, <2>1, <2>2, <3>1 DEF Flow, Origins
  <2>7. DisplayIsPrefix'
    BY <1>2 DEF Flow, DisplayIsPrefix, ShownOf
  <2> QED BY <2>4, <2>5, <2>6, <2>7 DEF Flow
<1> QED BY <1>5, <1>6

(* A keystroke is typed and queued at once.                                *)
LEMMA TypeFlow ==
  ASSUME Shape, Phases, Flow, Type
  PROVE  Flow'
<1>1. PICK b \in KeyBytes : hist'.typed = Append(hist.typed, b) /\ keyboard' = Append(keyboard, b)
  BY TypeShape
<1>2. /\ hist'.written = hist.written /\ hist'.displayed = hist.displayed
      /\ prog' = prog /\ pipes' = pipes
  BY TypeShape DEF Type
<1> PICK typed, keys, displayed, in :
      typed = hist.typed /\ keys = keyboard /\ displayed = hist.displayed /\ in = KeysIn(prog)
  OBVIOUS
<1>3. /\ typed \in Seq(KeyBytes) /\ keys \in Seq(KeyBytes) /\ displayed \in Seq(Entries)
      /\ in \in Seq(KeyBytes)
  BY InTypes DEF Shape
<1>4. \A k \in KeyBytes : k[2] \in Number
  BY Bytes
<1>5. Looping' <=> Looping
  BY <1>2 DEF Looping
<1>6. KeysInOrder'
  <2>1. ASSUME InOrder(typed, displayed, "fromKeyboard", in, keys)
        PROVE  InOrder(Append(typed, b), displayed, "fromKeyboard", in, Append(keys, b))
    BY <1>3, <1>4, <2>1, OrderGrows
  <2> QED BY <1>1, <1>2, <1>5, <2>1 DEF Flow, KeysInOrder
<1>7. OutputInOrder'
  BY <1>2, <1>5 DEF Flow, OutputInOrder
<1>8. Origins'
  <2>1. /\ HasEof(Append(typed, b)) <=> HasEof(typed) \/ b[1] = "^D"
        /\ HasEof(Append(keys, b)) <=> HasEof(keys) \/ b[1] = "^D"
    BY <1>3, EofAppend
  <2> QED BY <1>1, <1>2, <2>1 DEF Flow, Origins
<1>9. DisplayIsPrefix'
  <2> PICK shown : shown = NumbersOf({"fromKeyboard"}, displayed)
    OBVIOUS
  <2>1. shown \in Seq(Number)
    BY <1>3, Displayed
  <2>2. IsPrefix(shown, PlainNumbers(typed))
    BY DEF Flow, DisplayIsPrefix, ShownOf
  <2>3. IsPrefix(shown, PlainNumbers(Append(typed, b)))
    BY <1>3, <1>4, <2>1, <2>2, PrefixGrows
  <2> QED BY <1>1, <1>2, <2>3 DEF Flow, DisplayIsPrefix, ShownOf
<1> QED BY <1>6, <1>7, <1>8, <1>9 DEF Flow

(* So is a piece of output.                                                *)
LEMMA WriteFlow ==
  ASSUME Shape, Phases, Flow, ShellWrite
  PROVE  Flow'
<1>1. PICK b \in OutputBytes : /\ hist'.written = Append(hist.written, b)
                               /\ pipes'.shell_out = Append(pipes.shell_out, b)
  BY ShellWriteShape
<1>2. /\ hist'.typed = hist.typed /\ hist'.displayed = hist.displayed
      /\ prog' = prog /\ keyboard' = keyboard
  BY ShellWriteShape DEF ShellWrite
<1> PICK written, out, displayed, in :
      /\ written = hist.written /\ out = pipes.shell_out
      /\ displayed = hist.displayed /\ in = OutputIn(prog)
  OBVIOUS
<1>3. /\ written \in Seq(OutputBytes) /\ out \in Seq(OutputBytes) /\ displayed \in Seq(Entries)
      /\ in \in Seq(OutputBytes)
  BY InTypes DEF Shape
<1>4. \A k \in OutputBytes : k[2] \in Number
  BY Bytes
<1>5. Looping' <=> Looping
  BY <1>2 DEF Looping
<1>6. OutputInOrder'
  <2>1. ASSUME InOrder(written, displayed, "fromShell", in, out)
        PROVE  InOrder(Append(written, b), displayed, "fromShell", in, Append(out, b))
    BY <1>3, <1>4, <2>1, OrderGrows
  <2> QED BY <1>1, <1>2, <1>5, <2>1 DEF Flow, OutputInOrder
<1>7. KeysInOrder'
  BY <1>2, <1>5 DEF Flow, KeysInOrder
<1>8. Origins'
  <2>1. /\ HasEof(Append(written, b)) <=> HasEof(written) \/ b[1] = "^D"
        /\ HasEof(Append(out, b)) <=> HasEof(out) \/ b[1] = "^D"
    BY <1>3, EofAppend
  <2> QED BY <1>1, <1>2, <2>1 DEF Flow, Origins
<1>9. DisplayIsPrefix'
  <2> PICK shown : shown = NumbersOf({"fromShell"}, displayed)
    OBVIOUS
  <2>1. shown \in Seq(Number)
    BY <1>3, Displayed
  <2>2. IsPrefix(shown, PlainNumbers(written))
    BY DEF Flow, DisplayIsPrefix, ShownOf
  <2>3. IsPrefix(shown, PlainNumbers(Append(written, b)))
    BY <1>3, <1>4, <2>1, <2>2, PrefixGrows
  <2> QED BY <1>1, <1>2, <2>3 DEF Flow, DisplayIsPrefix, ShownOf
<1> QED BY <1>6, <1>7, <1>8, <1>9 DEF Flow

(* A byte is shown for its own direction, if it is plain.                  *)
LEMMA HandledShown ==
  ASSUME Shape, Phases, Interrupt \/ Display
  PROVE  \A source \in {"fromKeyboard", "fromShell"} :
           NumbersOf({source}, hist'.displayed) =
             NumbersOf({source}, hist.displayed) \o
               (IF source = prog.at THEN NumberOf(Plain, Head(prog.buf)) ELSE <<>>)
<1> SUFFICES ASSUME NEW source \in {"fromKeyboard", "fromShell"}
             PROVE  NumbersOf({source}, hist'.displayed) =
                      NumbersOf({source}, hist.displayed) \o
                        (IF source = prog.at THEN NumberOf(Plain, Head(prog.buf)) ELSE <<>>)
  OBVIOUS
<1> PICK shown : shown = NumbersOf({source}, hist.displayed)
  OBVIOUS
<1>1. shown \in Seq(Number) /\ shown \o <<>> = shown
  <2>1. shown \in Seq(Number)
    BY Displayed DEF Shape
  <2> QED BY <2>1, ConcatEmptySeq
<1>2. CASE Interrupt
  <2>1. hist' = hist /\ Head(prog.buf)[1] = "^C"
    BY <1>2 DEF Interrupt, NextByte
  <2>2. NumberOf(Plain, Head(prog.buf)) = <<>>
    BY <2>1 DEF NumberOf, Plain
  <2>3. shown = shown \o (IF source = prog.at THEN NumberOf(Plain, Head(prog.buf)) ELSE <<>>)
    BY <1>1, <2>2
  <2> QED BY <2>1, <2>3
<1>3. CASE Display
  <2>1. PICK e \in Entries : /\ e[1] = prog.at /\ e[2] = Head(prog.buf)[2]
                             /\ hist'.displayed = Append(hist.displayed, e)
    BY <1>3, DisplayShape DEF NextByte
  <2>2. NumberOf(Plain, Head(prog.buf)) = <<e[2]>>
    <3>1. Head(prog.buf)[1] \in Plain
      BY <1>3, Handled, Bytes DEF Display, Processing, NextByte, Plain
    <3> QED BY <2>1, <3>1 DEF NumberOf
  <2>3. NumbersOf({source}, Append(hist.displayed, e)) =
          shown \o (IF e[1] = source THEN <<e[2]>> ELSE <<>>)
    BY Displayed DEF Shape
  <2> QED BY <2>1, <2>2, <2>3
<1> QED BY <1>2, <1>3

(* The byte that is handled leaves the buffer for the display, or is a ^C. *)
LEMMA HandledFlow ==
  ASSUME Shape, Phases, Flow, Interrupt \/ Display
  PROVE  Flow'
<1>1. /\ prog.at \in {"fromKeyboard", "fromShell"} /\ prog.buf # <<>>
      /\ keyboard' = keyboard /\ pipes' = pipes
      /\ hist'.typed = hist.typed /\ hist'.written = hist.written
  BY DisplayShape DEF Interrupt, Display, Processing
<1>2. \/ prog'.at = prog.at /\ prog'.buf = Tail(prog.buf)
      \/ prog.at = "fromKeyboard" /\ prog'.at = "pass" /\ prog'.buf = prog.buf
  BY DEF Interrupt, Display, Shape
<1>3. Looping /\ Looping'
  BY <1>1, <1>2 DEF Looping
<1>4. Shape' /\ Phases'
  BY InterruptShape, DisplayShape
<1> PICK typed, written, displayed, after, keys, out, buf :
      /\ typed = hist.typed /\ written = hist.written
      /\ displayed = hist.displayed /\ after = hist'.displayed
      /\ keys = keyboard /\ out = pipes.shell_out /\ buf = prog.buf
  OBVIOUS
<1>5. /\ typed \in Seq(KeyBytes) /\ keys \in Seq(KeyBytes) /\ displayed \in Seq(Entries)
      /\ written \in Seq(OutputBytes) /\ out \in Seq(OutputBytes)
  BY DEF Shape
<1>6. /\ NumbersOf({"fromKeyboard"}, displayed) \in Seq(Number)
      /\ NumbersOf({"fromShell"}, displayed) \in Seq(Number)
  BY <1>5, Displayed
<1>7. CASE prog.at = "fromKeyboard"
  <2>1. /\ KeysIn(prog) = buf /\ KeysIn(prog') = Tail(buf)
        /\ OutputIn(prog) = <<>> /\ OutputIn(prog') = <<>> /\ buf \in Seq(KeyBytes)
    BY <1>2, <1>7 DEF KeysIn, OutputIn, Phases
  <2>2. NumbersOf({"fromKeyboard"}, after) =
          NumbersOf({"fromKeyboard"}, displayed) \o NumberOf(Plain, Head(buf))
    BY <1>7, HandledShown
  <2>3. NumbersOf({"fromShell"}, after) = NumbersOf({"fromShell"}, displayed)
    <3>1. NumbersOf({"fromShell"}, after) = NumbersOf({"fromShell"}, displayed) \o <<>>
      BY <1>7, HandledShown
    <3> QED BY <1>6, <3>1, ConcatEmptySeq
  <2>4. InOrder(typed, after, "fromKeyboard", Tail(buf), keys)
    <3>1. InOrder(typed, displayed, "fromKeyboard", buf, keys)
      BY <1>3, <2>1 DEF Flow, KeysInOrder
    <3>2. \A b \in KeyBytes : b[2] \in Number
      BY Bytes
    <3> QED BY <1>1, <1>5, <2>1, <2>2, <3>1, <3>2, OrderHandled
  <2>5. KeysInOrder'
    BY <1>1, <2>1, <2>4 DEF KeysInOrder
  <2>6. OutputInOrder'
    <3>1. InOrder(written, displayed, "fromShell", <<>>, out)
      BY <1>3, <2>1 DEF Flow, OutputInOrder
    <3>2. InOrder(written, after, "fromShell", <<>>, out)
      BY <2>3, <3>1 DEF InOrder
    <3> QED BY <1>1, <2>1, <3>2 DEF OutputInOrder
  <2>7. Origins'
    <3>1. HasEof(Tail(buf)) => HasEof(buf)
      BY <1>1, <2>1, EofTail
    <3> QED BY <1>1, <2>1, <3>1 DEF Flow, Origins
  <2>8. DisplayIsPrefix'
    <3>1. Looping' /\ Shape' /\ Phases' /\ KeysInOrder' /\ OutputInOrder' => DisplayIsPrefix'
      BY InOrderIsPrefix, PTL
    <3> QED BY <1>3, <1>4, <2>5, <2>6, <3>1
  <2> QED BY <2>5, <2>6, <2>7, <2>8 DEF Flow
<1>8. CASE prog.at = "fromShell"
  <2>1. /\ KeysIn(prog) = <<>> /\ KeysIn(prog') = <<>>
        /\ OutputIn(prog) = buf /\ OutputIn(prog') = Tail(buf) /\ buf \in Seq(OutputBytes)
    BY <1>2, <1>8 DEF KeysIn, OutputIn, Phases
  <2>2. NumbersOf({"fromShell"}, after) =
          NumbersOf({"fromShell"}, displayed) \o NumberOf(Plain, Head(buf))
    BY <1>8, HandledShown
  <2>3. NumbersOf({"fromKeyboard"}, after) = NumbersOf({"fromKeyboard"}, displayed)
    <3>1. NumbersOf({"fromKeyboard"}, after) = NumbersOf({"fromKeyboard"}, displayed) \o <<>>
      BY <1>8, HandledShown
    <3> QED BY <1>6, <3>1, ConcatEmptySeq
  <2>4. InOrder(written, after, "fromShell", Tail(buf), out)
    <3>1. InOrder(written, displayed, "fromShell", buf, out)
      BY <1>3, <2>1 DEF Flow, OutputInOrder
    <3>2. \A b \in OutputBytes : b[2] \in Number
      BY Bytes
    <3> QED BY <1>1, <1>5, <2>1, <2>2, <3>1, <3>2, OrderHandled
  <2>5. OutputInOrder'
    BY <1>1, <2>1, <2>4 DEF OutputInOrder
  <2>6. KeysInOrder'
    <3>1. InOrder(typed, displayed, "fromKeyboard", <<>>, keys)
      BY <1>3, <2>1 DEF Flow, KeysInOrder
    <3>2. InOrder(typed, after, "fromKeyboard", <<>>, keys)
      BY <2>3, <3>1 DEF InOrder
    <3> QED BY <1>1, <2>1, <3>2 DEF KeysInOrder
  <2>7. Origins'
    <3>1. HasEof(Tail(buf)) => HasEof(buf)
      BY <1>1, <2>1, EofTail
    <3> QED BY <1>1, <2>1, <3>1 DEF Flow, Origins
  <2>8. DisplayIsPrefix'
    <3>1. Looping' /\ Shape' /\ Phases' /\ KeysInOrder' /\ OutputInOrder' => DisplayIsPrefix'
      BY InOrderIsPrefix, PTL
    <3> QED BY <1>3, <1>4, <2>5, <2>6, <3>1
  <2> QED BY <2>5, <2>6, <2>7, <2>8 DEF Flow
<1> QED BY <1>1, <1>7, <1>8

(* The steps that move no byte of the two queues.                          *)
LEMMA OtherFlow ==
  ASSUME Shape, Phases, Flow,
         \/ SetupTerminal \/ ParseOptions \/ SetupShell \/ Poll \/ EndOfInput \/ Pass
         \/ Processed \/ RestoreTerminal \/ WaitPid
         \/ ShellRead \/ ShellReadsEnd \/ ShellExit \/ ShellStartsToWrite
  PROVE  Flow'
<1>1. CASE SetupTerminal \/ ParseOptions \/ SetupShell
  <2>1. PICK step \in {"options", "fork", "read", "poll", "restore"} : prog' = At(step)
    BY <1>1 DEF SetupTerminal, ParseOptions, SetupShell
  <2>2. KeysIn(prog') = <<>> /\ OutputIn(prog') = <<>>
    BY <2>1, AtIs DEF KeysIn, OutputIn, Steps
  <2>3. prog.at \in {"setup", "options", "fork"}
    BY <1>1 DEF SetupTerminal, ParseOptions, SetupShell
  <2>4. KeysIn(prog) = <<>> /\ OutputIn(prog) = <<>> /\ Looping
    BY <2>3 DEF KeysIn, OutputIn, Looping
  <2>5. keyboard' = keyboard /\ hist' = hist /\ pipes'.shell_out = pipes.shell_out
    BY <1>1 DEF SetupTerminal, ParseOptions, SetupShell, Shape
  <2> QED BY <2>2, <2>4, <2>5, Unmoved
<1>2. CASE Poll \/ Processed
  <2>1. /\ prog'.at \in {"read", "readShell", "poll"} /\ prog'.buf = <<>>
        /\ UNCHANGED <<keyboard, pipes, hist>>
    BY <1>2, PollShape DEF Poll, Processed
  <2>2. /\ prog.at \in {"poll", "fromKeyboard", "fromShell"} /\ prog.buf = <<>>
    BY <1>2 DEF Poll, Processed, Phases
  <2>3. /\ KeysIn(prog) = <<>> /\ OutputIn(prog) = <<>> /\ Looping
        /\ KeysIn(prog') = <<>> /\ OutputIn(prog') = <<>>
    BY <2>1, <2>2 DEF KeysIn, OutputIn, Looping
  <2> QED BY <2>1, <2>3, Unmoved
<1>3. CASE EndOfInput
  <2>1. prog'.at = "restore" /\ UNCHANGED <<keyboard, hist>> /\ pipes'.shell_out = pipes.shell_out
    BY <1>3, EndOfInputShape DEF EndOfInput, Shape
  <2>2. KeysIn(prog') = <<>> /\ OutputIn(prog') = <<>> /\ ~Looping'
    BY <2>1 DEF KeysIn, OutputIn, Looping
  <2> QED BY <2>1, <2>2, Unmoved
<1>4. CASE Pass
  <2>1. /\ prog.at = "pass" /\ UNCHANGED <<keyboard, hist>> /\ pipes'.shell_out = pipes.shell_out
        /\ \/ prog'.at = "fromKeyboard" /\ prog'.buf = Tail(prog.buf)
           \/ prog'.at = "restore"
    BY <1>4, PassShape DEF Pass
  <2>2. /\ KeysIn(prog') \in {<<>>, KeysIn(prog)} /\ OutputIn(prog') = <<>> /\ OutputIn(prog) = <<>>
        /\ Looping /\ (Looping' => KeysIn(prog') = KeysIn(prog))
    BY <2>1 DEF KeysIn, OutputIn, Looping
  <2> QED BY <2>1, <2>2, Unmoved
<1>5. CASE RestoreTerminal \/ WaitPid
  <2>1. /\ prog'.at \in {"waitpid", "exited"} /\ UNCHANGED <<keyboard, hist, pipes>>
    BY <1>5, EndShape DEF RestoreTerminal, WaitPid
  <2>2. KeysIn(prog') = <<>> /\ OutputIn(prog') = <<>> /\ ~Looping'
    BY <2>1 DEF KeysIn, OutputIn, Looping
  <2> QED BY <2>1, <2>2, Unmoved
<1>6. CASE ShellRead \/ ShellReadsEnd \/ ShellExit \/ ShellStartsToWrite
  <2>1. /\ prog' = prog /\ keyboard' = keyboard
        /\ hist'.typed = hist.typed /\ hist'.written = hist.written
        /\ hist'.displayed = hist.displayed /\ pipes'.shell_out = pipes.shell_out
    BY <1>6, ShellReadShape DEF ShellRead, ShellReadsEnd, ShellExit, ShellStartsToWrite
  <2>2. Looping' => Looping
    BY <2>1 DEF Looping
  <2> QED BY <2>1, <2>2, Unmoved
<1> QED BY <1>1, <1>2, <1>3, <1>4, <1>5, <1>6

-----------------------------------------------------------------------------
(* What reached the shell, and why the loop ended.                         *)

LEMMA ReachedType ==
  ASSUME Shape
  PROVE  Reached \in Seq(Number) /\ Len(Reached) = Len(hist.consumed \o pipes.shell_in)
<1>1. hist.consumed \o pipes.shell_in \in Seq(PassedBytes)
  BY ConcatProperties DEF Shape
<1>2. PICK q \in Seq(PassedBytes) : q = hist.consumed \o pipes.shell_in
  BY <1>1
<1>3. \A b \in PassedBytes : b[2] \in Number
  BY Bytes
<1>4. Numbers(q) \in Seq(Number) /\ Len(Numbers(q)) = Len(q)
  BY <1>3, NumbersType
<1> QED BY <1>2, <1>4 DEF Reached

(* What is displayed and what reached the shell stay the same.             *)
LEMMA Kept ==
  ASSUME PassedOn, Reason, shell_flag' = shell_flag,
         ShownOf("fromKeyboard")' = ShownOf("fromKeyboard"), Reached' = Reached,
         ShellGone => ShellGone', Looping' <=> Looping,
         HasEof(hist.typed) => HasEof(hist'.typed),
         HasEof(hist.written) => HasEof(hist'.written),
         prog'.at = "pass" <=> prog.at = "pass", prog.at = "pass" => prog' = prog,
         shell' # "none" => shell # "none" \/ Looping'
  PROVE  PassedOn' /\ Reason'
<1> PICK echoed, reached : echoed = ShownOf("fromKeyboard") /\ reached = Reached
  OBVIOUS
<1>1. Refused => Refused'
  BY DEF Refused
<1>2. PassedOn'
  BY <1>1 DEF PassedOn
<1>3. Reason'
  BY <1>1 DEF Reason
<1> QED BY <1>2, <1>3

(* Before the loop nothing is echoed and nothing is passed on.             *)
LEMMA SetupPassed ==
  ASSUME Shape, Phases, SetupTerminal \/ ParseOptions \/ SetupShell
  PROVE  PassedOn' /\ Reason'
<1>1. /\ hist.consumed = <<>> /\ hist.displayed = <<>> /\ pipes.shell_in = <<>> /\ hist' = hist
      /\ pipes'.shell_in = pipes.shell_in
  BY DEF SetupTerminal, ParseOptions, SetupShell, Phases, Shape
<1>2. ShownOf("fromKeyboard")' = <<>>
  BY <1>1, NumbersOfNone DEF ShownOf
<1>3. Reached' = <<>>
  <2>1. <<>> \o <<>> = <<>>
    <3>1. <<>> \in Seq(PassedBytes)
      BY EmptySeq
    <3> QED BY <3>1, ConcatEmptySeq
  <2>2. Numbers(<<>>) = <<>>
    BY DEF Numbers
  <2> QED BY <1>1, <2>1, <2>2 DEF Reached
<1>4. PICK step \in {"options", "fork", "read", "poll", "restore"} :
        prog' = At(step) /\ (step = "restore" => shell' = "none")
  BY DEF SetupTerminal, ParseOptions, SetupShell, Phases
<1>5. prog'.at # "pass" /\ (~Looping' => shell' = "none")
  BY <1>4, AtIs DEF Steps, Looping
<1> QED BY <1>2, <1>3, <1>5 DEF PassedOn, Reason

(* The echo gets one byte ahead.                                           *)
LEMMA DisplayPassed ==
  ASSUME Shape, Phases, PassedOn, Reason, Display
  PROVE  PassedOn' /\ Reason'
<1> PICK shown : shown = ShownOf("fromKeyboard")
  OBVIOUS
<1>1. PICK e \in Entries : /\ e[1] = prog.at /\ e[2] = Head(prog.buf)[2]
                           /\ hist'.displayed = Append(hist.displayed, e)
  BY DisplayShape DEF NextByte
<1>2. shown \in Seq(Number) /\ e[2] \in Number
  BY Displayed DEF Shape, ShownOf, Entries
<1>3. ShownOf("fromKeyboard")' = shown \o (IF e[1] = "fromKeyboard" THEN <<e[2]>> ELSE <<>>)
  <2>1. NumbersOf({"fromKeyboard"}, Append(hist.displayed, e)) =
          NumbersOf({"fromKeyboard"}, hist.displayed) \o
            (IF e[1] = "fromKeyboard" THEN <<e[2]>> ELSE <<>>)
    BY Displayed DEF Shape
  <2> QED BY <1>1, <2>1 DEF ShownOf
<1>4. /\ prog.at \in {"fromKeyboard", "fromShell"} /\ shell_flag' = shell_flag /\ shell' = shell
      /\ pipes' = pipes
  BY DEF Display, Processing
<1>5. /\ hist'.typed = hist.typed /\ hist'.written = hist.written
      /\ hist'.consumed = hist.consumed
  BY DisplayShape
<1>6. Reached' = Reached
  BY <1>4, <1>5 DEF Reached
<1>7. CASE shell_flag /\ prog.at = "fromKeyboard"
  <2>1. prog'.at = "pass" /\ prog'.buf = prog.buf /\ Looping' /\ Looping
    BY <1>7 DEF Display, Shape, Looping
  <2>2. shown = Reached
    BY <1>7, <2>1 DEF PassedOn
  <2>3. ShownOf("fromKeyboard")' = Append(shown, Head(prog.buf)[2])
    BY <1>1, <1>2, <1>3, <1>7, AppendIsConcat
  <2>4. ShownOf("fromKeyboard")' = Append(Reached', Head(prog'.buf)[2])
    BY <1>6, <2>1, <2>2, <2>3
  <2> QED BY <2>1, <2>4 DEF PassedOn, Reason
<1>8. CASE ~(shell_flag /\ prog.at = "fromKeyboard")
  <2>1. prog'.at = prog.at /\ Looping' /\ Looping
    BY <1>4, <1>8 DEF Display, Shape, Looping
  <2>2. CASE ~shell_flag
    BY <1>4, <2>1, <2>2 DEF PassedOn, Reason
  <2>3. CASE prog.at = "fromShell"
    <3>1. ShownOf("fromKeyboard")' = shown
      BY <1>1, <1>2, <1>3, <2>3, ConcatEmptySeq
    <3> QED BY <1>4, <1>6, <2>1, <3>1 DEF PassedOn, Reason
  <2> QED BY <1>4, <1>8, <2>2, <2>3
<1> QED BY <1>7, <1>8

(* The shell catches up, or SIGPIPE ends the program one byte ahead.       *)
LEMMA PassPassed ==
  ASSUME Shape, Phases, PassedOn, Reason, Pass
  PROVE  PassedOn' /\ Reason'
<1> PICK consumed, in, n :
      consumed = hist.consumed /\ in = pipes.shell_in /\ n = Head(prog.buf)[2]
  OBVIOUS
<1>1. prog.at = "pass" /\ shell_flag /\ shell_flag' = shell_flag /\ hist' = hist /\ shell' = shell
  BY DEF Pass, Phases
<1>2. ShownOf("fromKeyboard") = Append(Reached, n) /\ n \in Number
  <2>1. n \in Number
    BY <1>1, Handled, Bytes DEF NextByte
  <2> QED BY <1>1, <2>1 DEF PassedOn
<1>3. ShownOf("fromKeyboard")' = ShownOf("fromKeyboard")
  BY <1>1 DEF ShownOf
<1>4. consumed \in Seq(PassedBytes) /\ in \in Seq(PassedBytes)
  BY DEF Shape
<1>5. CASE ~ShellGone
  <2>1. PICK b \in PassedBytes : b[2] = n /\ pipes'.shell_in = Append(in, b)
    BY <1>5, PassShape DEF NextByte
  <2>2. prog'.at = "fromKeyboard" /\ Looping'
    BY <1>5, PassShape DEF Looping
  <2>3. consumed \o Append(in, b) = Append(consumed \o in, b) /\ consumed \o in \in Seq(PassedBytes)
    <3> PICK one : one = <<b>>
      OBVIOUS
    <3>0. one \in Seq(PassedBytes)
      BY <2>1
    <3>1. consumed \o in \in Seq(PassedBytes)
      BY <1>4, ConcatProperties
    <3>2. Append(in, b) = in \o one /\ Append(consumed \o in, b) = (consumed \o in) \o one
      BY <1>4, <2>1, <3>1, AppendIsConcat
    <3>3. (consumed \o in) \o one = consumed \o (in \o one)
      BY ONLY <1>4, <3>0, SMTT(20)
    <3> QED BY <3>1, <3>2, <3>3
  <2>4. Reached' = Append(Reached, n)
    <3>1. ASSUME NEW q \in Seq(PassedBytes)
          PROVE  Numbers(Append(q, b)) = Append(Numbers(q), b[2])
      <4>1. \A k \in PassedBytes : k[2] \in Number
        BY Bytes
      <4> QED BY <2>1, <4>1, NumbersAppend
    <3> PICK all \in Seq(PassedBytes) : all = consumed \o in
      BY <2>3
    <3>2. hist'.consumed \o pipes'.shell_in = Append(all, b)
      BY <1>1, <2>1, <2>3, Zenon
    <3>3. Numbers(Append(all, b)) = Append(Numbers(all), n)
      BY <2>1, <3>1
    <3> QED BY <3>2, <3>3 DEF Reached
  <2> QED BY <1>2, <1>3, <2>2, <2>4 DEF PassedOn, Reason
<1>6. CASE ShellGone
  <2>1. prog'.at = "restore" /\ pipes' = pipes /\ ShellGone'
    BY <1>1, <1>6, PassShape DEF ShellGone
  <2>2. ~Looping' /\ Reached' = Reached
    BY <1>1, <2>1 DEF Looping, Reached
  <2>3. Refused'
    BY <1>2, <1>3, <2>1, <2>2 DEF Refused
  <2> QED BY <2>1, <2>2, <2>3 DEF PassedOn, Reason
<1> QED BY <1>5, <1>6

(* A ^D ends the program, and was typed or written.                        *)
LEMMA EndPassed ==
  ASSUME Shape, Phases, Origins, PassedOn, Reason, EndOfInput
  PROVE  PassedOn' /\ Reason'
<1>1. /\ prog.at \in {"fromKeyboard", "fromShell"} /\ prog.buf # <<>> /\ Head(prog.buf)[1] = "^D"
      /\ shell_flag' = shell_flag /\ hist' = hist /\ pipes'.shell_in = pipes.shell_in
  BY DEF EndOfInput, Processing, NextByte, Shape
<1>2. prog'.at = "restore" /\ ~Looping' /\ Looping
  BY <1>1, EndOfInputShape DEF Looping
<1>3. ShownOf("fromKeyboard")' = ShownOf("fromKeyboard") /\ Reached' = Reached
  BY <1>1 DEF ShownOf, Reached
<1>4. PassedOn'
  BY <1>1, <1>2, <1>3 DEF PassedOn
<1>5. HasEof(hist.typed) \/ HasEof(hist.written)
  <2>1. CASE prog.at = "fromKeyboard"
    <3>1. prog.buf \in Seq(KeyBytes) /\ KeysIn(prog) = prog.buf
      BY <2>1 DEF Phases, KeysIn
    <3>2. HasEof(prog.buf)
      BY <1>1, <3>1, EofTail
    <3> QED BY <3>1, <3>2 DEF Origins
  <2>2. CASE prog.at = "fromShell"
    <3>1. prog.buf \in Seq(OutputBytes) /\ OutputIn(prog) = prog.buf
      BY <2>2 DEF Phases, OutputIn
    <3>2. HasEof(prog.buf)
      BY <1>1, <3>1, EofTail
    <3> QED BY <3>1, <3>2 DEF Origins
  <2> QED BY <1>1, <2>1, <2>2
<1> QED BY <1>1, <1>4, <1>5 DEF Reason

(* All other steps: neither the echo nor what reached the shell changes.   *)
LEMMA OtherPassed ==
  ASSUME Shape, Phases, PassedOn, Reason,
         \/ Poll \/ Processed \/ ReadKeyboard \/ ReadShell \/ Interrupt
         \/ RestoreTerminal \/ WaitPid
         \/ ShellRead \/ ShellReadsEnd \/ ShellExit \/ ShellStartsToWrite \/ ShellWrite \/ Type
  PROVE  PassedOn' /\ Reason'
<1>1. CASE Poll \/ Processed \/ ReadKeyboard \/ ReadShell \/ Interrupt
  <2>1. /\ hist' = hist /\ pipes'.shell_in = pipes.shell_in /\ shell_flag' = shell_flag
        /\ shell' = shell \/ shell' = "exited"
    BY <1>1 DEF Poll, Processed, ReadKeyboard, ReadShell, Interrupt, Shape
  <2>2. /\ prog.at \in {"poll", "fromKeyboard", "fromShell", "read", "readShell"}
        /\ prog'.at \in {"poll", "fromKeyboard", "fromShell", "read", "readShell"}
    <3>1. CASE Poll \/ Processed
      BY <3>1, PollShape DEF Poll, Processed
    <3>2. CASE ReadKeyboard \/ ReadShell \/ Interrupt
      BY <3>2 DEF ReadKeyboard, ReadShell, Interrupt, Processing, Shape
    <3> QED BY <1>1, <3>1, <3>2
  <2>3. /\ Looping' /\ Looping
        /\ prog.at # "pass" /\ prog'.at # "pass"
    BY <2>2 DEF Looping
  <2>4. ShownOf("fromKeyboard")' = ShownOf("fromKeyboard") /\ Reached' = Reached
    BY <2>1 DEF ShownOf, Reached
  <2>5. ShellGone => ShellGone'
    BY <2>1 DEF ShellGone
  <2> QED BY <2>1, <2>3, <2>4, <2>5, Kept
<1>2. CASE RestoreTerminal \/ WaitPid
  <2>1. /\ hist' = hist /\ pipes' = pipes /\ shell_flag' = shell_flag
        /\ shell' = shell \/ (shell = "exited" /\ shell' = "reaped")
    BY <1>2 DEF RestoreTerminal, WaitPid
  <2>2. /\ ~Looping' /\ ~Looping
        /\ prog.at # "pass" /\ prog'.at # "pass"
    BY <1>2, EndShape DEF Looping
  <2>3. ShownOf("fromKeyboard")' = ShownOf("fromKeyboard") /\ Reached' = Reached
    BY <2>1 DEF ShownOf, Reached
  <2>4. ShellGone => ShellGone'
    BY <2>1 DEF ShellGone
  <2> QED BY <2>1, <2>2, <2>3, <2>4, Kept
<1>3. CASE \/ ShellRead \/ ShellReadsEnd \/ ShellExit \/ ShellStartsToWrite \/ ShellWrite \/ Type
  <2>1. /\ prog' = prog /\ shell_flag' = shell_flag
        /\ hist'.displayed = hist.displayed
        /\ shell' = shell \/ shell \in {"idle", "writing"}
    BY <1>3, ShellReadShape, ShellWriteShape, TypeShape
       DEF ShellRead, ShellReadsEnd, ShellExit, ShellStartsToWrite, ShellWrite, Type
  <2>2. Reached' = Reached
    <3>1. CASE ShellRead
      BY <3>1, ShellReadShape DEF Reached
    <3>2. CASE ShellReadsEnd \/ ShellExit \/ ShellStartsToWrite
      BY <3>2 DEF ShellReadsEnd, ShellExit, ShellStartsToWrite, Reached
    <3>3. CASE ShellWrite
      BY <3>3, ShellWriteShape DEF Reached
    <3>4. CASE Type
      <4>1. hist'.consumed = hist.consumed /\ pipes' = pipes
        BY <3>4, TypeShape DEF Type
      <4> QED BY <4>1 DEF Reached
    <3> QED BY <1>3, <3>1, <3>2, <3>3, <3>4
  <2>3. HasEof(hist.typed) => HasEof(hist'.typed)
    <3>1. CASE Type
      <4>1. PICK b \in KeyBytes : hist'.typed = Append(hist.typed, b)
        BY <3>1, TypeShape
      <4>2. HasEof(hist.typed) => HasEof(Append(hist.typed, b))
        BY <4>1, EofAppend DEF Shape
      <4> QED BY <4>1, <4>2
    <3>2. CASE ~Type
      <4>1. hist'.typed = hist.typed
        BY <1>3, <3>2, ShellReadShape, ShellWriteShape
           DEF ShellReadsEnd, ShellExit, ShellStartsToWrite
      <4> QED BY <4>1
    <3> QED BY <3>1, <3>2
  <2>4. HasEof(hist.written) => HasEof(hist'.written)
    <3>1. CASE ShellWrite
      <4>1. PICK b \in OutputBytes : hist'.written = Append(hist.written, b)
        BY <3>1, ShellWriteShape
      <4>2. HasEof(hist.written) => HasEof(Append(hist.written, b))
        BY <4>1, EofAppend DEF Shape
      <4> QED BY <4>1, <4>2
    <3>2. CASE ~ShellWrite
      <4>1. hist'.written = hist.written
        BY <1>3, <3>2, ShellReadShape, TypeShape
           DEF ShellReadsEnd, ShellExit, ShellStartsToWrite
      <4> QED BY <4>1
    <3> QED BY <3>1, <3>2
  <2>5. ShownOf("fromKeyboard")' = ShownOf("fromKeyboard")
    BY <2>1 DEF ShownOf
  <2>6. (ShellGone => ShellGone') /\ (Looping' <=> Looping)
    BY <2>1 DEF ShellGone, Looping
  <2>7. shell' # "none" => shell # "none"
    BY <2>1
  <2> QED BY <2>1, <2>2, <2>3, <2>4, <2>5, <2>6, <2>7, Kept
<1> QED BY <1>1, <1>2, <1>3

-----------------------------------------------------------------------------
(* Only exit() leads to the end, and it restores the terminal first.       *)
LEMMA LeavesStep ==
  ASSUME Shape, Phases, Leaves, Next
  PROVE  Leaves'
<1>1. CASE \/ SetupTerminal \/ ParseOptions \/ SetupShell \/ Poll \/ ReadKeyboard \/ ReadShell
           \/ Interrupt \/ EndOfInput \/ Display \/ Pass \/ Processed
  <2>1. prog'.at \notin {"waitpid", "exited"}
    <3>1. CASE SetupTerminal \/ ParseOptions \/ SetupShell
      <4>1. PICK step \in {"options", "fork", "read", "poll", "restore"} : prog' = At(step)
        BY <3>1 DEF SetupTerminal, ParseOptions, SetupShell
      <4> QED BY <4>1 DEF At
    <3>2. CASE Poll \/ Processed
      BY <3>2, PollShape
    <3>3. CASE EndOfInput \/ Pass
      BY <3>3, EndOfInputShape, PassShape
    <3>4. CASE ReadKeyboard \/ ReadShell \/ Interrupt \/ Display
      BY <3>4 DEF ReadKeyboard, ReadShell, Interrupt, Display, Processing, Shape
    <3> QED BY <1>1, <3>1, <3>2, <3>3, <3>4
  <2> QED BY <2>1 DEF Leaves
<1>2. CASE RestoreTerminal
  <2>1. /\ prog' = At(IF shell = "none" THEN "exited" ELSE "waitpid")
        /\ terminal' = "default_mode" /\ shell' = shell
    BY <1>2 DEF RestoreTerminal
  <2> QED BY <2>1 DEF At, Leaves
<1>3. CASE WaitPid
  BY <1>3 DEF WaitPid, At, Leaves
<1>4. CASE ShellGoesOn \/ ShellExit \/ ShellStartsToWrite
  BY <1>4 DEF ShellGoesOn, ShellRead, ShellReadsEnd, ShellWrite, ShellExit, ShellStartsToWrite,
              Leaves
<1>5. CASE Type
  BY <1>5 DEF Type, Leaves
<1> QED BY <1>1, <1>2, <1>3, <1>4, <1>5 DEF Next, Program

(* Every step keeps the invariant.                                         *)
LEMMA StepIInv ==
  ASSUME IInv, Next
  PROVE  IInv'
<1>1. Shape /\ Phases /\ Leaves /\ Flow /\ PassedOn /\ Reason /\ Origins
  BY DEF IInv, Flow
<1>2. Leaves'
  BY <1>1, LeavesStep
<1>3. CASE SetupTerminal \/ ParseOptions \/ SetupShell
  <2>1. Shape' /\ Phases' /\ Flow' /\ PassedOn' /\ Reason'
    BY <1>1, <1>3, SetupShape, OtherFlow, SetupPassed
  <2> QED BY <1>2, <2>1 DEF IInv, Flow
<1>4. CASE Poll \/ Processed \/ RestoreTerminal \/ WaitPid
  <2>1. Shape' /\ Phases' /\ Flow' /\ PassedOn' /\ Reason'
    BY <1>1, <1>4, PollShape, EndShape, OtherFlow, OtherPassed
  <2> QED BY <1>2, <2>1 DEF IInv, Flow
<1>5. CASE ReadKeyboard \/ ReadShell
  <2>1. Shape' /\ Phases' /\ Flow' /\ PassedOn' /\ Reason'
    BY <1>1, <1>5, ReadShape, ReadFlow, OtherPassed
  <2> QED BY <1>2, <2>1 DEF IInv, Flow
<1>6. CASE Interrupt \/ Display
  <2>1. Shape' /\ Phases' /\ Flow' /\ PassedOn' /\ Reason'
    BY <1>1, <1>6, InterruptShape, DisplayShape, HandledFlow, OtherPassed, DisplayPassed
  <2> QED BY <1>2, <2>1 DEF IInv, Flow
<1>7. CASE EndOfInput \/ Pass
  <2>1. Shape' /\ Phases' /\ Flow' /\ PassedOn' /\ Reason'
    BY <1>1, <1>7, EndOfInputShape, PassShape, OtherFlow, EndPassed, PassPassed
  <2> QED BY <1>2, <2>1 DEF IInv, Flow
<1>8. CASE ShellRead \/ ShellReadsEnd \/ ShellExit \/ ShellStartsToWrite
  <2>1. Shape' /\ Phases' /\ Flow' /\ PassedOn' /\ Reason'
    BY <1>1, <1>8, ShellReadShape, ShellShape, OtherFlow, OtherPassed
  <2> QED BY <1>2, <2>1 DEF IInv, Flow
<1>9. CASE ShellWrite \/ Type
  <2>1. Shape' /\ Phases' /\ Flow' /\ PassedOn' /\ Reason'
    BY <1>1, <1>9, ShellWriteShape, TypeShape, WriteFlow, TypeFlow, OtherPassed
  <2> QED BY <1>2, <2>1 DEF IInv, Flow
<1> QED BY <1>3, <1>4, <1>5, <1>6, <1>7, <1>8, <1>9 DEF Next, Program, ShellGoesOn

(* So it holds of every state.                                             *)
LEMMA Inductive == Spec => []IInv
<1>1. IInv /\ [Next]_vars => IInv'
  <2> SUFFICES ASSUME IInv, UNCHANGED vars PROVE IInv'
    BY StepIInv
  <2> QED BY DEF vars, IInv, Shape, Phases, Leaves, Origins, KeysInOrder, OutputInOrder,
             DisplayIsPrefix, ShownOf, Looping, PassedOn, Reason, Refused, Reached, ShellGone
<1> QED BY <1>1, InitIInv, PTL DEF Spec

-----------------------------------------------------------------------------
(* The theorems.                                                           *)

(* Each variable has its type; no pipe and no buffer overflows.            *)
THEOREM TypeCorrect == Spec => []TypeOK
<1>1. ASSUME IInv PROVE TypeOK
  <2>1. Shape
    BY <1>1 DEF IInv
  <2>2. prog.buf \in Seq(KeyBytes \cup OutputBytes)
    <3>1. PICK T \in {KeyBytes, OutputBytes} : prog.buf \in Seq(T)
      BY <2>1 DEF Shape
    <3>2. \A i \in 1..Len(prog.buf) : prog.buf[i] \in KeyBytes \cup OutputBytes
      BY <3>1, ElementOfSeq
    <3>3. prog.buf = [i \in 1..Len(prog.buf) |-> prog.buf[i]] /\ Len(prog.buf) \in Nat
      BY <3>1, LenProperties
    <3> QED BY <3>2, <3>3, SeqDef
  <2> QED BY <2>1, <2>2 DEF Shape, TypeOK, Steps
<1> QED BY <1>1, Inductive, PTL

(* What is typed is echoed once and in order, and with a shell is passed   *)
(* on in the same order, a return as a newline; the echo is ahead of it by *)
(* the one byte being written, or that raised SIGPIPE.  What the shell     *)
(* writes is shown once and in order.  Nothing is lost while the loop runs.*)
THEOREM NothingLost == Spec => []EchoIntact
<1>1. ASSUME IInv PROVE EchoIntact
  <2> DEFINE pending == IF prog.at = "pass" THEN Tail(prog.buf) ELSE InBuffer({"fromKeyboard"})
             echoed  == ShownOf("fromKeyboard")
             reached == Numbers(hist.consumed \o pipes.shell_in)
  <2>1. Shape /\ Phases /\ KeysInOrder /\ OutputInOrder /\ DisplayIsPrefix /\ PassedOn
    BY <1>1 DEF IInv
  <2>2. pending = KeysIn(prog) /\ InBuffer({"fromShell"}) = OutputIn(prog)
    BY DEF InBuffer, KeysIn, OutputIn
  <2>3. ASSUME NEW T, \A b \in T : b[2] \in Number, NEW p \in Seq(T), NEW q \in Seq(T)
        PROVE  PlainNumbers(p \o q) = PlainNumbers(p) \o PlainNumbers(q)
    BY <2>3, NumbersOfConcat DEF PlainNumbers
  <2>4. Looping => PlainNumbers(hist.typed) = echoed \o PlainNumbers(pending \o keyboard)
    <3> SUFFICES ASSUME Looping
                 PROVE  PlainNumbers(hist.typed) = echoed \o PlainNumbers(pending \o keyboard)
      OBVIOUS
    <3>1. PlainNumbers(hist.typed) =
            echoed \o (PlainNumbers(KeysIn(prog)) \o PlainNumbers(keyboard))
      BY <2>1 DEF KeysInOrder, InOrder, ShownOf
    <3>2. KeysIn(prog) \in Seq(KeyBytes) /\ keyboard \in Seq(KeyBytes)
      BY <2>1, InTypes DEF Shape
    <3>3. PlainNumbers(KeysIn(prog) \o keyboard) =
            PlainNumbers(KeysIn(prog)) \o PlainNumbers(keyboard)
      BY <2>3, <3>2, Bytes
    <3> QED BY <2>2, <3>1, <3>3
  <2>5. Looping => PlainNumbers(hist.written) =
           ShownOf("fromShell") \o PlainNumbers(InBuffer({"fromShell"}) \o pipes.shell_out)
    <3> SUFFICES ASSUME Looping
                 PROVE  PlainNumbers(hist.written) =
           ShownOf("fromShell") \o PlainNumbers(InBuffer({"fromShell"}) \o pipes.shell_out)
      OBVIOUS
    <3>1. PlainNumbers(hist.written) = ShownOf("fromShell") \o
            (PlainNumbers(OutputIn(prog)) \o PlainNumbers(pipes.shell_out))
      BY <2>1 DEF OutputInOrder, InOrder, ShownOf
    <3>2. OutputIn(prog) \in Seq(OutputBytes) /\ pipes.shell_out \in Seq(OutputBytes)
      BY <2>1, InTypes DEF Shape
    <3>3. PlainNumbers(OutputIn(prog) \o pipes.shell_out) =
            PlainNumbers(OutputIn(prog)) \o PlainNumbers(pipes.shell_out)
      BY <2>3, <3>2, Bytes
    <3> QED BY <2>2, <3>1, <3>3
  <2>6. shell_flag => /\ IsPrefix(reached, echoed)
                      /\ Len(echoed) - Len(reached) <=
                           (IF prog.at = "pass" \/ ShellGone THEN 1 ELSE 0)
    <3> SUFFICES ASSUME shell_flag
                 PROVE  /\ IsPrefix(reached, echoed)
                        /\ Len(echoed) - Len(reached) <=
                             (IF prog.at = "pass" \/ ShellGone THEN 1 ELSE 0)
      OBVIOUS
    <3>1. reached \in Seq(Number) /\ Len(reached) \in Nat
      BY <2>1, ReachedType, LenProperties DEF Reached
    <3>2. \/ echoed = reached
          \/ /\ prog.at = "pass" \/ ShellGone
             /\ \E n \in Number : echoed = Append(reached, n)
      <4>1. prog.at = "pass" => Head(prog.buf)[2] \in Number
        BY <2>1, Handled, Bytes DEF NextByte
      <4> QED BY <2>1, <4>1 DEF PassedOn, Refused, Reached
    <3> HIDE DEF echoed, reached
    <3>3. IsPrefix(reached, reached)
      BY <3>1 DEF IsPrefix
    <3>4. CASE echoed = reached
      BY <3>1, <3>3, <3>4
    <3>5. CASE echoed # reached
      <4>1. PICK n \in Number : echoed = Append(reached, n)
        BY <3>2, <3>5
      <4>2. IsPrefix(reached, echoed)
        BY <3>1, <3>3, <4>1, PrefixOfAppend
      <4>3. Len(echoed) = Len(reached) + 1
        BY <3>1, <4>1, AppendProperties
      <4>4. prog.at = "pass" \/ ShellGone
        BY <3>2, <3>5
      <4> QED BY <3>1, <4>2, <4>3, <4>4
    <3> QED BY <3>4, <3>5
  <2>7. Looping /\ prog.at # "pass" /\ shell_flag => reached = echoed
    BY <2>1 DEF PassedOn, Reached
  <2>8. IsPrefix(echoed, PlainNumbers(hist.typed))
        /\ IsPrefix(ShownOf("fromShell"), PlainNumbers(hist.written))
    BY <2>1 DEF DisplayIsPrefix
  <2> QED BY <2>4, <2>5, <2>6, <2>7, <2>8, Zenon DEF EchoIntact
<1> QED BY <1>1, Inductive, PTL

(* However the program ends, by an option, a failed fork(), a ^D or a      *)
(* SIGPIPE, the terminal is as it was found, and no zombie is left.        *)
THEOREM LeavesClean == Spec => []ExitClean
<1>1. IInv => ExitClean
  BY DEF IInv, Leaves, ExitClean
<1> QED BY <1>1, Inductive, PTL

(* The program leaves its loop only for a ^D, or for a key that was echoed *)
(* and that the shell was not there to take: never for the end of a shell. *)
THEOREM LeavesForAReason == Spec => []EndsForAReason
<1>1. ASSUME IInv PROVE EndsForAReason
  <2>1. Shape /\ Reason
    BY <1>1 DEF IInv
  <2>2. Refused => /\ ShellGone
                   /\ Len(ShownOf("fromKeyboard")) > Len(hist.consumed \o pipes.shell_in)
    <3> SUFFICES ASSUME Refused
                 PROVE  /\ ShellGone
                        /\ Len(ShownOf("fromKeyboard")) > Len(hist.consumed \o pipes.shell_in)
      OBVIOUS
    <3>1. PICK n \in Number : ShownOf("fromKeyboard") = Append(Reached, n)
      BY DEF Refused
    <3>2. Len(Append(Reached, n)) = Len(Reached) + 1 /\ Len(Reached) \in Nat
      BY <2>1, <3>1, ReachedType, AppendProperties, LenProperties
    <3>3. Len(Reached) = Len(hist.consumed \o pipes.shell_in)
      BY <2>1, ReachedType
    <3>4. ShellGone
      BY DEF Refused
    <3>5. Len(Reached) + 1 > Len(Reached)
      BY <3>2
    <3>6. Len(ShownOf("fromKeyboard")) = Len(Reached) + 1
      BY <3>1, <3>2
    <3> QED BY <3>3, <3>4, <3>5, <3>6
  <2> QED BY <2>1, <2>2 DEF Reason, EndsForAReason
<1> QED BY <1>1, Inductive, PTL

=============================================================================
