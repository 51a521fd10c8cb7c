--------------------------- MODULE RemoteShellProofs ---------------------------
(***************************************************************************)
(* For every user, shell, buffer, pipe and connection, with and without    *)
(* --compress: a session of lab1b neither loses, doubles nor reorders what *)
(* is typed and what the shell writes while it goes on, and the client     *)
(* leaves the terminal as it found it unless SIGPIPE ends it.              *)
(***************************************************************************)
EXTENDS RemoteShell, WellFoundedInduction, SequenceTheorems, TLAPS

-----------------------------------------------------------------------------
(* Induction, over sets: over operators it could not be used.              *)

(* Over the numbers: there is no least one outside T.                      *)
LEMMA Induction ==
  ASSUME NEW T, 0 \in T, \A n \in Nat : n \in T => n + 1 \in T
  PROVE  \A n \in Nat : n \in T
<1> DEFINE R == OpToRel(<, Nat)
           U == {n \in Nat : n \notin T}
<1> SUFFICES ASSUME U # {} PROVE FALSE
  OBVIOUS
<1>1. IsWellFoundedOn(R, Nat)
  BY NatLessThanWellFounded
<1>2. PICK m \in U : \A k \in U : ~ (<<k, m>> \in R)
  <2> HIDE DEF R
  <2> QED BY <1>1, WFMin
<1>3. m \in Nat /\ m # 0 /\ m \notin T
  BY <1>2
<1>4. m - 1 \in Nat /\ (m - 1) + 1 = m /\ m - 1 < m
  BY <1>3
<1>5. m - 1 \in U /\ <<m - 1, m>> \in R
  BY <1>3, <1>4 DEF OpToRel
<1> QED BY <1>2, <1>5

(* Over sequences: what holds of <<>>, and of a longer one if of a shorter.*)
LEMMA SequenceInduction ==
  ASSUME NEW T, NEW P, <<>> \in P,
         \A q \in Seq(T), b \in T : q \in P => Append(q, b) \in P
  PROVE  Seq(T) \subseteq P
<1> DEFINE N == {n \in Nat : \A q \in Seq(T) : Len(q) = n => q \in P}
<1>1. 0 \in N
  <2>1. \A q \in Seq(T) : Len(q) = 0 => q = <<>>
    BY EmptySeq
  <2> QED BY <2>1
<1>2. ASSUME NEW n \in Nat, n \in N PROVE n + 1 \in N
  <2> SUFFICES ASSUME NEW q \in Seq(T), Len(q) = n + 1 PROVE q \in P
    OBVIOUS
  <2>1. q # <<>>
    BY EmptySeq
  <2>2. PICK r \in Seq(T), b \in T : q = Append(r, b)
    BY <2>1, SequenceEmptyOrAppend
  <2>3. Len(r) = n
    BY <2>2, AppendProperties, LenProperties
  <2> QED BY <1>2, <2>2, <2>3
<1> HIDE DEF N
<1>3. \A n \in Nat : n \in N
  BY <1>1, <1>2, Induction
<1> QED BY <1>3, LenProperties DEF N

-----------------------------------------------------------------------------
(* Joining the sequences of a sequence.                                    *)

(* FlattenSeq of the first n of q.                                         *)
IsJoin(g, q, n) == g = [i \in 1..n |-> IF i = 1 THEN q[i] ELSE g[i - 1] \o q[i]]

(* The recursion of FlattenSeq has a solution.                             *)
LEMMA JoinExists ==
  ASSUME NEW q
  PROVE  \A n \in Nat : \E g : IsJoin(g, q, n)
<1> DEFINE T == {n \in Nat : \E g : IsJoin(g, q, n)}
<1>1. 0 \in T
  <2> DEFINE h == [i \in 1..0 |-> <<>>]
  <2>1. h = [i \in 1..0 |-> IF i = 1 THEN q[i] ELSE h[i - 1] \o q[i]]
    OBVIOUS
  <2> HIDE DEF h
  <2>2. IsJoin(h, q, 0)
    BY <2>1 DEF IsJoin
  <2> QED BY <2>2
<1>2. ASSUME NEW m \in Nat, m \in T PROVE m + 1 \in T
  <2>1. PICK g : IsJoin(g, q, m)
    BY <1>2
  <2> DEFINE next(i, s) == s \o q[i]
             h == [i \in 1..(m + 1) |-> IF i = 1 THEN q[1]
                                        ELSE IF i = m + 1 THEN next(i, g[m]) ELSE g[i]]
  <2>2. \A i \in 1..m : g[i] = IF i = 1 THEN q[1] ELSE next(i, g[i - 1])
    BY <2>1 DEF IsJoin
  <2> HIDE DEF next
  <2>3. \A i \in 1..(m + 1) : h[i] = IF i = 1 THEN q[1] ELSE next(i, h[i - 1])
    <3> SUFFICES ASSUME NEW i \in 1..(m + 1)
                 PROVE  h[i] = IF i = 1 THEN q[1] ELSE next(i, h[i - 1])
      OBVIOUS
    <3>1. CASE i = m + 1 /\ i # 1
      <4>1. h[i - 1] = g[m] /\ h[i] = next(i, g[m])
        BY <2>2, <3>1
      <4> QED BY <3>1, <4>1
    <3>2. CASE i # m + 1 \/ i = 1
      <4>1. i # 1 => i \in 1..m /\ i - 1 \in 1..m /\ h[i] = g[i] /\ h[i - 1] = g[i - 1]
        BY <2>2, <3>2
      <4> QED BY <2>2, <3>2, <4>1
    <3> QED BY <3>1, <3>2
  <2>4. h = [i \in 1..(m + 1) |-> IF i = 1 THEN q[1] ELSE next(i, h[i - 1])]
    <3>1. h = [i \in 1..(m + 1) |-> h[i]]
      OBVIOUS
    <3> HIDE DEF h
    <3> QED BY <2>3, <3>1
  <2> HIDE DEF h
  <2>5. IsJoin(h, q, m + 1)
    BY <2>4 DEF IsJoin, next
  <2> QED BY <2>5
<1> HIDE DEF T
<1>3. \A n \in Nat : n \in T
  BY <1>1, <1>2, Induction
<1> QED BY <1>3 DEF T

(* Sequences that begin alike are joined alike.                            *)
LEMMA SameJoin ==
  ASSUME NEW q, NEW r, NEW n \in Nat, NEW m \in Nat, n # 0, n <= m,
         NEW g, NEW h, IsJoin(g, q, n), IsJoin(h, r, m),
         \A i \in 1..n : q[i] = r[i]
  PROVE  g[n] = h[n]
<1> DEFINE T == {k \in Nat : k \in 1..n => g[k] = h[k]}
<1>1. 0 \in T
  OBVIOUS
<1>2. ASSUME NEW k \in Nat, k \in T PROVE k + 1 \in T
  <2> SUFFICES ASSUME k + 1 <= n PROVE g[k + 1] = h[k + 1]
    OBVIOUS
  <2>1. k + 1 \in 1..n /\ k + 1 \in 1..m /\ (k + 1) - 1 = k /\ q[k + 1] = r[k + 1]
    OBVIOUS
  <2>2. k + 1 # 1 => g[k] = h[k]
    BY <1>2
  <2>3. g[k + 1] = IF k + 1 = 1 THEN q[k + 1] ELSE g[k] \o q[k + 1]
    BY ONLY IsJoin(g, q, n), <2>1 DEF IsJoin
  <2>4. h[k + 1] = IF k + 1 = 1 THEN r[k + 1] ELSE h[k] \o r[k + 1]
    BY ONLY IsJoin(h, r, m), <2>1 DEF IsJoin
  <2> QED BY <2>1, <2>2, <2>3, <2>4
<1> HIDE DEF T
<1>3. \A k \in Nat : k \in T
  BY <1>1, <1>2, Induction
<1> QED BY <1>3 DEF T

(* FlattenSeq is what a join of the whole sequence ends with.              *)
LEMMA FlattenIs ==
  ASSUME NEW T, NEW q \in Seq(T), q # <<>>
  PROVE  \E g : IsJoin(g, q, Len(q)) /\ FlattenSeq(q) = g[Len(q)]
<1> DEFINE f == CHOOSE g : IsJoin(g, q, Len(q))
<1>1. Len(q) \in Nat /\ Len(q) # 0
  BY EmptySeq
<1>2. IsJoin(f, q, Len(q))
  BY <1>1, JoinExists
<1>3. FlattenSeq(q) = f[Len(q)]
  BY <1>1 DEF FlattenSeq, IsJoin
<1> QED BY <1>2, <1>3

LEMMA FlattenNone == FlattenSeq(<<>>) = <<>>
BY DEF FlattenSeq

(* One sequence more comes after the others.                               *)
LEMMA FlattenOne ==
  ASSUME NEW T, NEW u \in Seq(T)
  PROVE  FlattenSeq(<<u>>) = u
<1>1. <<u>> \in Seq(Seq(T)) /\ <<u>> # <<>> /\ Len(<<u>>) = 1 /\ <<u>>[1] = u
  OBVIOUS
<1>2. PICK g : IsJoin(g, <<u>>, 1) /\ FlattenSeq(<<u>>) = g[1]
  BY <1>1, FlattenIs
<1> QED BY <1>1, <1>2 DEF IsJoin

LEMMA FlattenAppend ==
  ASSUME NEW T, NEW q \in Seq(T), q # <<>>, NEW u \in T
  PROVE  FlattenSeq(Append(q, u)) = FlattenSeq(q) \o u
<1> DEFINE r == Append(q, u)
<1>1. /\ r \in Seq(T) /\ r # <<>> /\ Len(q) \in Nat /\ Len(q) # 0 /\ Len(r) = Len(q) + 1
      /\ r[Len(q) + 1] = u /\ \A i \in 1..Len(q) : q[i] = r[i]
  BY AppendProperties, LenProperties, EmptySeq
<1> HIDE DEF r
<1>2. PICK g : IsJoin(g, q, Len(q)) /\ FlattenSeq(q) = g[Len(q)]
  BY FlattenIs
<1>3. PICK h : IsJoin(h, r, Len(r)) /\ FlattenSeq(r) = h[Len(r)]
  BY <1>1, FlattenIs
<1>4. g[Len(q)] = h[Len(q)]
  BY <1>1, <1>2, <1>3, SameJoin
<1>5. h[Len(r)] = h[Len(q)] \o u
  <2>1. Len(r) \in 1..Len(r) /\ Len(r) # 1 /\ Len(r) - 1 = Len(q) /\ r[Len(r)] = u
    BY <1>1
  <2> QED BY <1>3, <2>1 DEF IsJoin
<1> QED BY <1>2, <1>3, <1>4, <1>5 DEF r

LEMMA FlattenMore ==
  ASSUME NEW T, NEW q \in Seq(Seq(T)), NEW u \in Seq(T)
  PROVE  FlattenSeq(Append(q, u)) = FlattenSeq(q) \o u
<1>1. CASE q = <<>>
  <2>1. Append(q, u) = <<u>>
    BY <1>1
  <2>2. <<>> \o u = u
    BY ConcatEmptySeq
  <2> QED BY <1>1, <2>1, <2>2, FlattenNone, FlattenOne
<1>2. CASE q # <<>>
  BY <1>2, FlattenAppend
<1> QED BY <1>1, <1>2

LEMMA FlattenType ==
  ASSUME NEW T, NEW q \in Seq(Seq(T))
  PROVE  FlattenSeq(q) \in Seq(T)
<1> DEFINE P == {r \in Seq(Seq(T)) : FlattenSeq(r) \in Seq(T)}
<1>1. <<>> \in P
  BY EmptySeq, FlattenNone
<1>2. ASSUME NEW r \in Seq(Seq(T)), NEW u \in Seq(T), r \in P PROVE Append(r, u) \in P
  <2>1. FlattenSeq(r) \in Seq(T) /\ Append(r, u) \in Seq(Seq(T))
    BY <1>2, AppendProperties
  <2>2. FlattenSeq(r) \o u \in Seq(T)
    BY <2>1, ConcatProperties
  <2> QED BY <2>1, <2>2, FlattenMore
<1> HIDE DEF P
<1>3. Seq(Seq(T)) \subseteq P
  BY <1>1, <1>2, SequenceInduction
<1> QED BY <1>3 DEF P

LEMMA FlattenConcat ==
  ASSUME NEW T, NEW p \in Seq(Seq(T)), NEW q \in Seq(Seq(T))
  PROVE  FlattenSeq(p \o q) = FlattenSeq(p) \o FlattenSeq(q)
<1> DEFINE P == {r \in Seq(Seq(T)) : FlattenSeq(p \o r) = FlattenSeq(p) \o FlattenSeq(r)}
<1>1. <<>> \in P
  <2>1. p \o <<>> = p /\ FlattenSeq(p) \o <<>> = FlattenSeq(p)
    BY FlattenType, ConcatEmptySeq
  <2> QED BY <2>1, FlattenNone, EmptySeq
<1>2. ASSUME NEW r \in Seq(Seq(T)), NEW u \in Seq(T), r \in P PROVE Append(r, u) \in P
  <2>1. /\ p \o r \in Seq(Seq(T)) /\ Append(r, u) \in Seq(Seq(T))
        /\ p \o Append(r, u) = Append(p \o r, u)
    BY AppendProperties, ConcatProperties
  <2>2. PICK fp, fr : fp = FlattenSeq(p) /\ fr = FlattenSeq(r)
    OBVIOUS
  <2>3. fp \in Seq(T) /\ fr \in Seq(T) /\ u \in Seq(T)
    BY <2>2, FlattenType
  <2>4. FlattenSeq(p \o r) = fp \o fr
    BY <1>2, <2>2
  <2>5. (fp \o fr) \o u = fp \o (fr \o u)
    BY ONLY <2>3, SMTT(30)
  <2>6. FlattenSeq(Append(p \o r, u)) = (fp \o fr) \o u
    BY <2>1, <2>4, FlattenMore
  <2>7. FlattenSeq(Append(r, u)) = fr \o u
    BY <2>2, FlattenMore
  <2> QED BY <2>1, <2>2, <2>5, <2>6, <2>7
<1> HIDE DEF P
<1>3. Seq(Seq(T)) \subseteq P
  BY <1>1, <1>2, SequenceInduction
<1> QED BY <1>3 DEF P

(* The first sequence comes first.                                         *)
LEMMA FlattenFirst ==
  ASSUME NEW T, NEW q \in Seq(Seq(T)), q # <<>>
  PROVE  FlattenSeq(q) = Head(q) \o FlattenSeq(Tail(q))
<1>1. PICK one, rest : one = <<Head(q)>> /\ rest = Tail(q)
  OBVIOUS
<1>2. /\ Head(q) \in Seq(T) /\ rest \in Seq(Seq(T)) /\ one \in Seq(Seq(T)) /\ q = one \o rest
  BY <1>1, HeadTailProperties
<1>3. FlattenSeq(one) = Head(q)
  BY <1>1, <1>2, FlattenOne
<1> QED BY <1>1, <1>2, <1>3, FlattenConcat

-----------------------------------------------------------------------------
(* The bytes that are no control characters.                               *)

(* A selection from the first n bytes of q exists, so Plain is one.        *)
IsSelection(g, q, n) ==
  g = [i \in 0..n |-> IF i = 0 THEN <<>>
                      ELSE IF IsPlain(q[i]) THEN Append(g[i - 1], q[i]) ELSE g[i - 1]]

(* The recursion of a selection has a solution.                            *)
LEMMA SelectionExists ==
  ASSUME NEW q
  PROVE  \A n \in Nat : \E g : IsSelection(g, q, n)
<1> DEFINE T == {n \in Nat : \E g : IsSelection(g, q, n)}
<1>1. 0 \in T
  <2> DEFINE h == [i \in 0..0 |-> <<>>]
  <2>1. h = [i \in 0..0 |-> IF i = 0 THEN <<>>
                      ELSE IF IsPlain(q[i]) THEN Append(h[i - 1], q[i]) ELSE h[i - 1]]
    OBVIOUS
  <2> HIDE DEF h
  <2>2. IsSelection(h, q, 0)
    BY <2>1 DEF IsSelection
  <2> QED BY <2>2
<1>2. ASSUME NEW m \in Nat, m \in T PROVE m + 1 \in T
  <2>1. PICK g : IsSelection(g, q, m)
    BY <1>2
  <2> DEFINE next(i, s) == IF IsPlain(q[i]) THEN Append(s, q[i]) ELSE s
             h == [i \in 0..(m + 1) |-> IF i = m + 1 THEN next(i, g[m]) ELSE g[i]]
  <2>2. \A i \in 0..m : g[i] = IF i = 0 THEN <<>> ELSE next(i, g[i - 1])
    BY <2>1 DEF IsSelection
  <2> HIDE DEF next
  <2>3. \A i \in 0..(m + 1) : h[i] = IF i = 0 THEN <<>> ELSE next(i, h[i - 1])
    <3> SUFFICES ASSUME NEW i \in 0..(m + 1)
                 PROVE  h[i] = IF i = 0 THEN <<>> ELSE next(i, h[i - 1])
      OBVIOUS
    <3>1. CASE i = m + 1
      <4>1. h[i - 1] = g[m] /\ h[i] = next(i, g[m])
        BY <3>1
      <4> QED BY <3>1, <4>1
    <3>2. CASE i # m + 1
      <4>1. i \in 0..m /\ h[i] = g[i] /\ (i # 0 => h[i - 1] = g[i - 1])
        BY <3>2
      <4> QED BY <2>2, <4>1
    <3> QED BY <3>1, <3>2
  <2>4. h = [i \in 0..(m + 1) |-> IF i = 0 THEN <<>> ELSE next(i, h[i - 1])]
    <3>1. h = [i \in 0..(m + 1) |-> h[i]]
      OBVIOUS
    <3> HIDE DEF h
    <3> QED BY <2>3, <3>1
  <2> HIDE DEF h
  <2>5. IsSelection(h, q, m + 1)
    BY <2>4 DEF IsSelection, next
  <2> QED BY <2>5
<1> HIDE DEF T
<1>3. \A n \in Nat : n \in T
  BY <1>1, <1>2, Induction
<1> QED BY <1>3 DEF T

(* Selections from sequences that begin alike begin alike.                 *)
LEMMA SameSelection ==
  ASSUME NEW q, NEW r, NEW n \in Nat, NEW m \in Nat, n <= m,
         NEW g, NEW h, IsSelection(g, q, n), IsSelection(h, r, m),
         \A i \in 1..n : q[i] = r[i]
  PROVE  g[n] = h[n]
<1> DEFINE T == {k \in Nat : k <= n => g[k] = h[k]}
<1>1. 0 \in T
  BY DEF IsSelection
<1>2. ASSUME NEW k \in Nat, k \in T PROVE k + 1 \in T
  <2> SUFFICES ASSUME k + 1 <= n PROVE g[k + 1] = h[k + 1]
    OBVIOUS
  <2>1. k + 1 \in 0..n /\ k + 1 \in 0..m /\ k + 1 # 0 /\ (k + 1) - 1 = k /\ q[k + 1] = r[k + 1]
    OBVIOUS
  <2>2. g[k] = h[k]
    BY <1>2
  <2>3. g[k + 1] = IF IsPlain(q[k + 1]) THEN Append(g[k], q[k + 1]) ELSE g[k]
    BY <2>1 DEF IsSelection
  <2>4. h[k + 1] = IF IsPlain(r[k + 1]) THEN Append(h[k], r[k + 1]) ELSE h[k]
    BY <2>1 DEF IsSelection
  <2> QED BY <2>1, <2>2, <2>3, <2>4
<1> HIDE DEF T
<1>3. \A k \in Nat : k \in T
  BY <1>1, <1>2, Induction
<1> QED BY <1>3 DEF T

(* Plain is what a selection of the whole sequence ends with.              *)
LEMMA PlainIs ==
  ASSUME NEW T, NEW q \in Seq(T)
  PROVE  \E g : IsSelection(g, q, Len(q)) /\ Plain(q) = g[Len(q)]
<1> DEFINE f == CHOOSE g : IsSelection(g, q, Len(q))
<1>1. Len(q) \in Nat
  OBVIOUS
<1>2. IsSelection(f, q, Len(q))
  BY <1>1, SelectionExists
<1>3. Plain(q) = f[Len(q)]
  BY DEF Plain, IsSelection
<1> QED BY <1>2, <1>3

LEMMA PlainNone == Plain(<<>>) = <<>>
<1>1. <<>> \in Seq({}) /\ Len(<<>>) = 0
  BY EmptySeq
<1>2. PICK g : IsSelection(g, <<>>, 0) /\ Plain(<<>>) = g[0]
  BY <1>1, PlainIs
<1> QED BY <1>2 DEF IsSelection

(* One byte more is selected after the rest, or is not.                    *)
LEMMA PlainAppend ==
  ASSUME NEW T, NEW q \in Seq(T), NEW b \in T
  PROVE  Plain(Append(q, b)) = IF IsPlain(b) THEN Append(Plain(q), b) ELSE Plain(q)
<1> DEFINE r == Append(q, b)
<1>1. /\ r \in Seq(T) /\ Len(q) \in Nat /\ Len(r) = Len(q) + 1
      /\ r[Len(q) + 1] = b /\ \A i \in 1..Len(q) : q[i] = r[i]
  BY AppendProperties, LenProperties
<1> HIDE DEF r
<1>2. PICK g : IsSelection(g, q, Len(q)) /\ Plain(q) = g[Len(q)]
  BY PlainIs
<1>3. PICK h : IsSelection(h, r, Len(r)) /\ Plain(r) = h[Len(r)]
  BY <1>1, PlainIs
<1>4. g[Len(q)] = h[Len(q)]
  BY <1>1, <1>2, <1>3, SameSelection
<1>5. h[Len(r)] = IF IsPlain(b) THEN Append(h[Len(q)], b) ELSE h[Len(q)]
  <2>1. Len(r) \in 0..Len(r) /\ Len(r) # 0 /\ Len(r) - 1 = Len(q) /\ r[Len(r)] = b
    BY <1>1
  <2> QED BY <1>3, <2>1 DEF IsSelection
<1> QED BY <1>2, <1>3, <1>4, <1>5 DEF r

(* A selection is no longer than what it is from.                          *)
LEMMA PlainType ==
  ASSUME NEW T, NEW q \in Seq(T)
  PROVE  Plain(q) \in Seq(T) /\ Len(Plain(q)) <= Len(q)
<1> DEFINE P == {r \in Seq(T) : Plain(r) \in Seq(T) /\ Len(Plain(r)) <= Len(r)}
<1>1. <<>> \in P
  <2>1. <<>> \in Seq(T) /\ Len(<<>>) <= Len(<<>>)
    BY EmptySeq
  <2> QED BY <2>1, PlainNone, Zenon
<1>2. ASSUME NEW r \in Seq(T), NEW b \in T, r \in P PROVE Append(r, b) \in P
  <2> PICK pr, s : pr = Plain(r) /\ s = Append(r, b)
    OBVIOUS
  <2>1. /\ pr \in Seq(T) /\ Len(pr) <= Len(r) /\ Len(pr) \in Nat /\ Len(r) \in Nat
        /\ s \in Seq(T) /\ Len(s) = Len(r) + 1
    BY <1>2, AppendProperties, LenProperties
  <2>2. Append(pr, b) \in Seq(T) /\ Len(Append(pr, b)) = Len(pr) + 1
    BY <2>1, AppendProperties
  <2>3. Plain(s) = pr \/ Plain(s) = Append(pr, b)
    BY PlainAppend
  <2>4. Plain(s) \in Seq(T) /\ Len(Plain(s)) <= Len(s)
    <3>1. CASE Plain(s) = pr
      BY ONLY <2>1, <3>1
    <3>2. CASE Plain(s) = Append(pr, b)
      <4>1. Len(Plain(s)) = Len(pr) + 1
        BY <2>2, <3>2, Zenon
      <4>2. Len(Plain(s)) <= Len(s)
        BY ONLY <2>1, <4>1
      <4> QED BY <2>2, <3>2, <4>2, Zenon
    <3> QED BY <2>3, <3>1, <3>2, Zenon
  <2> QED BY <2>1, <2>4
<1> HIDE DEF P
<1>3. Seq(T) \subseteq P
  BY <1>1, <1>2, SequenceInduction
<1> QED BY <1>3 DEF P

(* A selection from two parts is one from each.                            *)
LEMMA PlainConcat ==
  ASSUME NEW T, NEW p \in Seq(T), NEW q \in Seq(T)
  PROVE  Plain(p \o q) = Plain(p) \o Plain(q)
<1> DEFINE P == {r \in Seq(T) : Plain(p \o r) = Plain(p) \o Plain(r)}
<1>1. <<>> \in P
  <2>1. p \o <<>> = p
    BY ConcatEmptySeq
  <2>2. Plain(p) \o <<>> = Plain(p)
    BY PlainType, ConcatEmptySeq
  <2>3. <<>> \in Seq(T)
    BY EmptySeq
  <2> QED BY <2>1, <2>2, <2>3, PlainNone
<1>2. ASSUME NEW r \in Seq(T), NEW b \in T, r \in P PROVE Append(r, b) \in P
  <2> PICK np, nr, one : np = Plain(p) /\ nr = Plain(r) /\ one = <<b>>
    OBVIOUS
  <2>1. p \o r \in Seq(T) /\ Append(r, b) \in Seq(T) /\ p \o Append(r, b) = Append(p \o r, b)
    BY AppendProperties, ConcatProperties
  <2>2. np \in Seq(T) /\ nr \in Seq(T) /\ one \in Seq(T)
    BY PlainType
  <2>3. Plain(p \o r) = np \o nr /\ np \o nr \in Seq(T)
    BY <1>2, <2>2, ConcatProperties
  <2>4. Plain(p \o Append(r, b)) = IF IsPlain(b) THEN Append(np \o nr, b) ELSE np \o nr
    <3>1. ASSUME NEW pr \in Seq(T)
          PROVE  Plain(Append(pr, b)) = IF IsPlain(b) THEN Append(Plain(pr), b) ELSE Plain(pr)
      BY PlainAppend
    <3> QED BY <2>1, <2>3, <3>1
  <2>5. Plain(Append(r, b)) = IF IsPlain(b) THEN Append(nr, b) ELSE nr
    BY PlainAppend
  <2>6. Append(np \o nr, b) = (np \o nr) \o one /\ Append(nr, b) = nr \o one
    BY <2>2, <2>3, AppendIsConcat
  <2>7. (np \o nr) \o one = np \o (nr \o one)
    BY ONLY <2>2, SMTT(30)
  <2>8. Plain(p \o Append(r, b)) = np \o Plain(Append(r, b))
    BY <2>4, <2>5, <2>6, <2>7
  <2> QED BY <2>1, <2>8
<1> HIDE DEF P
<1>3. Seq(T) \subseteq P
  BY <1>1, <1>2, SequenceInduction
<1> QED BY <1>3 DEF P

(* All of a selection would be selected again.                             *)
LEMMA PlainTwice ==
  ASSUME NEW T, NEW q \in Seq(T)
  PROVE  Plain(Plain(q)) = Plain(q)
<1> DEFINE P == {r \in Seq(T) : Plain(Plain(r)) = Plain(r)}
<1>1. <<>> \in P
  BY EmptySeq, PlainNone
<1>2. ASSUME NEW r \in Seq(T), NEW b \in T, r \in P PROVE Append(r, b) \in P
  <2> PICK pr : pr = Plain(r)
    OBVIOUS
  <2>1. pr \in Seq(T) /\ Plain(pr) = pr
    BY <1>2, PlainType
  <2>2. Plain(Append(pr, b)) = IF IsPlain(b) THEN Append(pr, b) ELSE pr
    BY <2>1, PlainAppend
  <2>3. Plain(Append(r, b)) = IF IsPlain(b) THEN Append(pr, b) ELSE pr
    BY PlainAppend
  <2>4. Plain(Plain(Append(r, b))) = Plain(Append(r, b))
    BY <2>1, <2>2, <2>3
  <2> QED BY <2>4, AppendProperties
<1> HIDE DEF P
<1>3. Seq(T) \subseteq P
  BY <1>1, <1>2, SequenceInduction
<1> QED BY <1>3 DEF P

(* What a byte adds to a selection.                                        *)
LEMMA PlainOne ==
  ASSUME NEW T, NEW b \in T
  PROVE  Plain(<<b>>) = IF IsPlain(b) THEN <<b>> ELSE <<>>
<1>1. <<>> \in Seq(T)
  BY EmptySeq
<1>2. \A none \in Seq(T) : Plain(Append(none, b)) = IF IsPlain(b) THEN Append(Plain(none), b)
                                                     ELSE Plain(none)
  BY PlainAppend
<1>3. Append(<<>>, b) = <<b>>
  OBVIOUS
<1> QED BY <1>1, <1>2, <1>3, PlainNone

-----------------------------------------------------------------------------
(* The first ^D.                                                           *)

LEMMA EofConcat ==
  ASSUME NEW T, NEW p \in Seq(T), NEW q \in Seq(T)
  PROVE  HasEof(p \o q) <=> HasEof(p) \/ HasEof(q)
<1>1. /\ p \o q \in Seq(T) /\ Len(p \o q) = Len(p) + Len(q) /\ Len(p) \in Nat /\ Len(q) \in Nat
      /\ \A i \in 1..Len(p) : (p \o q)[i] = p[i]
      /\ \A i \in 1..Len(q) : (p \o q)[i + Len(p)] = q[i]
      /\ DOMAIN p = 1..Len(p) /\ DOMAIN q = 1..Len(q) /\ DOMAIN (p \o q) = 1..(Len(p) + Len(q))
  BY ConcatProperties, LenProperties
<1> PICK pq : pq = p \o q
  OBVIOUS
<1>2. ASSUME HasEof(p) \/ HasEof(q) PROVE HasEof(pq)
  <2>1. CASE HasEof(p)
    <3>1. PICK i \in 1..Len(p) : p[i][1] = "^D"
      BY <1>1, <2>1 DEF HasEof
    <3>2. i \in DOMAIN pq /\ pq[i][1] = "^D"
      BY <1>1, <3>1
    <3> QED BY <3>2 DEF HasEof
  <2>2. CASE HasEof(q)
    <3>1. PICK i \in 1..Len(q) : q[i][1] = "^D"
      BY <1>1, <2>2 DEF HasEof
    <3>2. i + Len(p) \in DOMAIN pq /\ pq[i + Len(p)][1] = "^D"
      BY <1>1, <3>1
    <3> QED BY <3>2 DEF HasEof
  <2> QED BY <1>2, <2>1, <2>2
<1>3. ASSUME HasEof(pq) PROVE HasEof(p) \/ HasEof(q)
  <2>1. PICK i \in DOMAIN pq : pq[i][1] = "^D"
    BY <1>3 DEF HasEof
  <2>2. CASE i <= Len(p)
    <3>1. i \in DOMAIN p /\ p[i][1] = "^D"
      BY <1>1, <2>1, <2>2
    <3> QED BY <3>1 DEF HasEof
  <2>3. CASE ~(i <= Len(p))
    <3>1. i - Len(p) \in 1..Len(q) /\ (i - Len(p)) + Len(p) = i
      BY <1>1, <2>1, <2>3
    <3>2. q[i - Len(p)][1] = "^D"
      BY <1>1, <2>1, <3>1
    <3> QED BY <1>1, <3>1, <3>2 DEF HasEof
  <2> QED BY <2>2, <2>3
<1> QED BY <1>2, <1>3

LEMMA EofOne == ASSUME NEW b PROVE HasEof(<<b>>) <=> b[1] = "^D"
BY DEF HasEof

LEMMA NoEof == ~HasEof(<<>>)
BY DEF HasEof

(* Every sequence is what comes before its first ^D, and the rest.         *)
BeforeEof(p, r) == ~HasEof(p) /\ (r # <<>> => r[1][1] = "^D")

LEMMA EofSplits ==
  ASSUME NEW T, NEW q \in Seq(T)
  PROVE  \E p, r \in Seq(T) : q = p \o r /\ BeforeEof(p, r)
<1> DEFINE P == {s \in Seq(T) : \E p, r \in Seq(T) : s = p \o r /\ BeforeEof(p, r)}
<1>1. <<>> \in P
  <2>1. <<>> \in Seq(T) /\ <<>> \o <<>> = <<>>
    BY EmptySeq
  <2> QED BY <2>1, NoEof DEF BeforeEof
<1>2. ASSUME NEW s \in Seq(T), NEW b \in T, s \in P PROVE Append(s, b) \in P
  <2>1. PICK p \in Seq(T), r \in Seq(T) : s = p \o r /\ BeforeEof(p, r)
    BY <1>2
  <2> PICK one, none : one = <<b>> /\ none = <<>>
    OBVIOUS
  <2>2. one \in Seq(T) /\ none \in Seq(T) /\ Append(s, b) = s \o one
    BY EmptySeq, AppendIsConcat
  <2>3. Append(s, b) \in Seq(T)
    BY AppendProperties
  <2>4. CASE r # <<>>
    <3>1. (p \o r) \o one = p \o (r \o one)
      BY ONLY <2>2, p \in Seq(T), r \in Seq(T), SMTT(30)
    <3>2. r \o one \in Seq(T) /\ (r \o one)[1] = r[1]
      BY <2>2, <2>4, ConcatProperties, EmptySeq
    <3>3. BeforeEof(p, r \o one)
      BY <2>1, <2>4, <3>2 DEF BeforeEof
    <3> QED BY <2>1, <2>2, <2>3, <3>1, <3>2, <3>3
  <2>5. CASE r = <<>>
    <3>1. s = p
      BY <2>1, <2>5, ConcatEmptySeq
    <3>2. CASE b[1] = "^D"
      <4>1. BeforeEof(p, one)
        BY <2>1, <3>2 DEF BeforeEof
      <4> QED BY <2>2, <2>3, <3>1, <4>1
    <3>3. CASE b[1] # "^D"
      <4>1. p \o one \in Seq(T) /\ (p \o one) \o none = p \o one
        BY <2>2, ConcatProperties, ConcatEmptySeq
      <4>2. ~HasEof(p \o one)
        BY <2>1, <2>2, <3>3, EofConcat, EofOne DEF BeforeEof
      <4>3. BeforeEof(p \o one, none)
        BY <4>2 DEF BeforeEof
      <4> QED BY <2>2, <2>3, <3>1, <4>1, <4>3
    <3> QED BY <3>2, <3>3
  <2> QED BY <2>4, <2>5
<1> HIDE DEF P
<1>3. Seq(T) \subseteq P
  BY <1>1, <1>2, SequenceInduction
<1> QED BY <1>3 DEF P

(* The parts of a concatenation.                                           *)
LEMMA ConcatIs ==
  ASSUME NEW T, NEW p \in Seq(T), NEW r \in Seq(T), NEW q, q = p \o r
  PROVE  /\ q \in Seq(T) /\ Len(p) \in 0..Len(q) /\ Len(q) = Len(p) + Len(r)
         /\ Len(p) \in Nat /\ Len(r) \in Nat
         /\ \A i \in 1..Len(p) : q[i] = p[i]
         /\ \A i \in 1..Len(r) : q[Len(p) + i] = r[i]
         /\ SubSeq(q, 1, Len(p)) = p
<1>1. /\ q \in Seq(T) /\ Len(p) \in 0..Len(q) /\ Len(q) = Len(p) + Len(r)
      /\ Len(p) \in Nat /\ Len(r) \in Nat
      /\ \A i \in 1..Len(p) : q[i] = p[i]
      /\ \A i \in 1..Len(r) : q[Len(p) + i] = r[i]
  BY ConcatProperties, LenProperties
<1>2. PICK s : s = SubSeq(q, 1, Len(p))
  OBVIOUS
<1>3. s \in Seq(T) /\ Len(s) = Len(p) /\ \A i \in 1..Len(p) : s[i] = q[i]
  <2>1. \A i \in 1..Len(p) : q[i] \in T
    BY <1>1, ElementOfSeq
  <2> QED BY <1>1, <1>2, <2>1, SubSeqProperties
<1>4. s = p
  BY <1>1, <1>3, SeqEqual
<1> QED BY <1>1, <1>2, <1>4

LEMMA UpToEofIs ==
  ASSUME NEW T, NEW p \in Seq(T), NEW r \in Seq(T), NEW q, q = p \o r, BeforeEof(p, r)
  PROVE  UpToEof(q) = p
<1>1. /\ q \in Seq(T) /\ Len(p) \in 0..Len(q) /\ Len(q) = Len(p) + Len(r)
      /\ Len(p) \in Nat /\ Len(r) \in Nat
      /\ \A i \in 1..Len(p) : q[i] = p[i]
      /\ \A i \in 1..Len(r) : q[Len(p) + i] = r[i]
      /\ SubSeq(q, 1, Len(p)) = p
  BY ConcatIs
<1> DEFINE Cut(n) == ~HasEof(SubSeq(q, 1, n)) /\ (n < Len(q) => q[n + 1][1] = "^D")
<1>2. Cut(Len(p))
  <2>1. ~HasEof(SubSeq(q, 1, Len(p)))
    BY <1>1 DEF BeforeEof
  <2>2. ASSUME Len(p) < Len(q) PROVE q[Len(p) + 1][1] = "^D"
    <3>1. Len(r) # 0 /\ 1 \in 1..Len(r)
      BY <1>1, <2>2
    <3>2. r # <<>> /\ q[Len(p) + 1] = r[1]
      BY <1>1, <3>1, EmptySeq
    <3> QED BY <3>2 DEF BeforeEof
  <2> QED BY <2>1, <2>2
<1>3. ASSUME NEW n \in 0..Len(q), Cut(n) PROVE n = Len(p)
  <2> PICK s : s = SubSeq(q, 1, n)
    OBVIOUS
  <2>1. s \in Seq(T) /\ Len(s) = n /\ DOMAIN s = 1..n /\ \A i \in 1..n : s[i] = q[i]
    <3>1. \A i \in 1..n : q[i] \in T
      BY <1>1, ElementOfSeq
    <3> QED BY <1>1, <3>1, SubSeqProperties, LenProperties
  <2>2. ~HasEof(s) /\ (n < Len(q) => q[n + 1][1] = "^D")
    BY <1>3
  <2>3. ~(n < Len(p))
    <3> SUFFICES ASSUME n < Len(p) PROVE FALSE
      OBVIOUS
    <3>1. n + 1 \in DOMAIN p /\ p[n + 1][1] = "^D"
      BY <1>1, <2>2, LenProperties
    <3> QED BY <3>1 DEF BeforeEof, HasEof
  <2>4. ~(n > Len(p))
    <3> SUFFICES ASSUME n > Len(p) PROVE FALSE
      OBVIOUS
    <3>1. r # <<>> /\ Len(p) + 1 \in 1..n /\ q[Len(p) + 1] = r[1]
      BY <1>1, EmptySeq
    <3>2. s[Len(p) + 1][1] = "^D"
      BY <2>1, <3>1 DEF BeforeEof
    <3> QED BY <2>1, <2>2, <3>1, <3>2 DEF HasEof
  <2>5. n \in Nat /\ Len(p) \in Nat
    BY <1>1
  <2> QED BY ONLY <2>3, <2>4, <2>5
<1>4. (CHOOSE n \in 0..Len(q) : Cut(n)) = Len(p)
  BY <1>1, <1>2, <1>3
<1> QED BY <1>1, <1>4 DEF UpToEof

(* A beginning without ^D comes before it.                                 *)
LEMMA EofAfter ==
  ASSUME NEW T, NEW past \in Seq(T), NEW rest \in Seq(T), ~HasEof(past)
  PROVE  \E more \in Seq(T) : UpToEof(past \o rest) = past \o more
<1>1. PICK p \in Seq(T), r \in Seq(T) : rest = p \o r /\ BeforeEof(p, r)
  BY EofSplits
<1>2. past \o (p \o r) = (past \o p) \o r
  BY ONLY past \in Seq(T), p \in Seq(T), r \in Seq(T), SMTT(30)
<1>3. past \o p \in Seq(T) /\ BeforeEof(past \o p, r)
  BY <1>1, EofConcat, ConcatProperties DEF BeforeEof
<1>4. UpToEof(past \o rest) = past \o p
  BY <1>1, <1>2, <1>3, UpToEofIs
<1> QED BY <1>4

-----------------------------------------------------------------------------
(* Queues.                                                                 *)

(* A sequence is a prefix of itself, and of a longer one.                  *)
LEMMA PrefixOfConcat ==
  ASSUME NEW T, NEW s \in Seq(T), NEW t \in Seq(T)
  PROVE  IsPrefix(s, s \o t)
BY ConcatProperties, LenProperties DEF IsPrefix

LEMMA PrefixOfAppend ==
  ASSUME NEW T, NEW s \in Seq(T), NEW t \in Seq(T), NEW b \in T, IsPrefix(s, t)
  PROVE  IsPrefix(s, Append(t, b))
BY AppendProperties, LenProperties DEF IsPrefix

(* The first n bytes of a queue.                                           *)
LEMMA FirstOfQueue ==
  ASSUME NEW T, NEW q \in Seq(T), NEW n \in Nat, n <= Len(q)
  PROVE  SubSeq(q, 1, n) \in Seq(T) /\ Len(SubSeq(q, 1, n)) = n
<1>1. \A i \in 1..n : q[i] \in T
  BY ElementOfSeq
<1>2. /\ SubSeq(q, 1, n) \in Seq(T)
      /\ Len(SubSeq(q, 1, n)) = IF 1 <= n THEN n - 1 + 1 ELSE 0
  BY <1>1, SubSeqProperties
<1> QED BY <1>2

(* The bytes after them.                                                   *)
LEMMA LastOfQueue ==
  ASSUME NEW T, NEW q \in Seq(T), NEW n \in Nat
  PROVE  SubSeq(q, n + 1, Len(q)) \in Seq(T)
<1>1. \A i \in (n + 1)..Len(q) : q[i] \in T
  BY ElementOfSeq
<1> QED BY <1>1, SubSeqProperties

(* read() takes no more than the buffer holds; nothing is lost in between. *)
LEMMA ReadOfQueue ==
  ASSUME NEW T, NEW q \in Seq(T)
  PROVE  /\ ReadOf(q) \in Seq(T) /\ RestOf(q) \in Seq(T) /\ ReadOf(q) \o RestOf(q) = q
         /\ Len(ReadOf(q)) <= BufSize /\ Len(RestOf(q)) <= Len(q)
<1>1. BufSize \in Nat /\ BufSize > 0 /\ Len(q) \in Nat /\ \A i \in 1..Len(q) : q[i] \in T
  BY SessionAssumption, ElementOfSeq
<1>0. Len(RestOf(q)) <= Len(q)
  <2>1. \A i \in (BufSize + 1)..Len(q) : q[i] \in T
    BY <1>1
  <2>2. Len(RestOf(q)) = IF BufSize + 1 <= Len(q) THEN Len(q) - (BufSize + 1) + 1 ELSE 0
    BY <1>1, <2>1, SubSeqProperties DEF RestOf
  <2> QED BY <1>1, <2>2
<1>2. CASE BufSize < Len(q)
  <2>1. ReadOf(q) = SubSeq(q, 1, BufSize)
    BY <1>2 DEF ReadOf, Shorter
  <2>3. SubSeq(q, 1, BufSize) \o SubSeq(q, BufSize + 1, Len(q)) = SubSeq(q, 1, Len(q))
    <3>1. 1 \in 1..(Len(q) + 1) /\ BufSize \in (1 - 1)..Len(q) /\ Len(q) \in BufSize..Len(q)
      BY <1>1, <1>2
    <3> QED BY <3>1, ConcatAdjacentSubSeq, Zenon
  <2>4. SubSeq(q, 1, BufSize) \in Seq(T) /\ Len(SubSeq(q, 1, BufSize)) = BufSize
    <3>1. BufSize \in Nat /\ BufSize <= Len(q)
      BY <1>1, <1>2
    <3> QED BY <3>1, FirstOfQueue, Zenon
  <2>5. SubSeq(q, BufSize + 1, Len(q)) \in Seq(T)
    BY <1>1, LastOfQueue
  <2>6. SubSeq(q, 1, Len(q)) = q
    BY SubSeqFull
  <2>7. RestOf(q) = SubSeq(q, BufSize + 1, Len(q))
    BY DEF RestOf
  <2>8. BufSize <= BufSize
    BY <1>1
  <2> QED BY <2>1, <2>3, <2>4, <2>5, <2>6, <2>7, <2>8, <1>0, Zenon
<1>3. CASE ~(BufSize < Len(q))
  <2>1. ReadOf(q) = q
    BY <1>1, <1>3, SubSeqFull DEF ReadOf, Shorter
  <2>2. RestOf(q) = <<>>
    BY <1>1, <1>3, SubSeqEmpty DEF RestOf
  <2>3. <<>> \in Seq(T) /\ q \o <<>> = q
    BY EmptySeq, ConcatEmptySeq
  <2> QED BY <1>0, <1>1, <1>3, <2>1, <2>2, <2>3
<1> QED BY <1>2, <1>3

-----------------------------------------------------------------------------
(* What deflate() makes of a read.                                         *)

(* Units of no bytes carry none.                                           *)
LEMMA FlattenEmpties ==
  ASSUME NEW T, NEW q \in Seq({<<>>})
  PROVE  q \in Seq(Seq(T)) /\ FlattenSeq(q) = <<>>
<1> DEFINE P == {r \in Seq({<<>>}) : r \in Seq(Seq(T)) /\ FlattenSeq(r) = <<>>}
<1>1. <<>> \in P
  BY EmptySeq, FlattenNone
<1>2. ASSUME NEW r \in Seq({<<>>}), NEW u \in {<<>>}, r \in P PROVE Append(r, u) \in P
  <2> PICK none : none = <<>>
    OBVIOUS
  <2>1. none \in Seq(T) /\ none \o none = none
    BY EmptySeq, ConcatEmptySeq
  <2>2. r \in Seq(Seq(T)) /\ FlattenSeq(r) = none /\ u = none
    BY <1>2
  <2>3. Append(r, u) \in Seq({<<>>}) /\ Append(r, u) \in Seq(Seq(T))
    BY <2>1, <2>2, AppendProperties
  <2>4. FlattenSeq(Append(r, u)) = none
    BY <2>1, <2>2, FlattenMore
  <2> QED BY <2>3, <2>4
<1> HIDE DEF P
<1>3. Seq({<<>>}) \subseteq P
  BY <1>1, <1>2, SequenceInduction
<1> QED BY <1>3 DEF P

(* A unit for each byte carries them all.                                  *)
OneByOne(q) == [i \in DOMAIN q |-> <<q[i]>>]

LEMMA FlattenOneByOne ==
  ASSUME NEW T, NEW q \in Seq(T)
  PROVE  OneByOne(q) \in Seq(Seq(T)) /\ FlattenSeq(OneByOne(q)) = q
<1> DEFINE P == {r \in Seq(T) : OneByOne(r) \in Seq(Seq(T)) /\ FlattenSeq(OneByOne(r)) = r}
<1>1. <<>> \in P
  <2>1. OneByOne(<<>>) = <<>>
    BY DEF OneByOne
  <2> QED BY <2>1, EmptySeq, FlattenNone
<1>2. ASSUME NEW r \in Seq(T), NEW b \in T, r \in P PROVE Append(r, b) \in P
  <2> PICK s, u, one : s = Append(r, b) /\ u = OneByOne(r) /\ one = <<b>>
    OBVIOUS
  <2>1. /\ s \in Seq(T) /\ Len(s) = Len(r) + 1 /\ Len(r) \in Nat /\ DOMAIN s = 1..(Len(r) + 1)
        /\ s[Len(r) + 1] = b /\ \A i \in 1..Len(r) : s[i] = r[i]
    BY AppendProperties, LenProperties
  <2>2. u \in Seq(Seq(T)) /\ FlattenSeq(u) = r /\ one \in Seq(T)
    BY <1>2
  <2>3. Len(u) = Len(r) /\ \A i \in 1..Len(r) : u[i] = <<r[i]>>
    BY <2>2, LenProperties DEF OneByOne
  <2>4. /\ Append(u, one) \in Seq(Seq(T)) /\ Len(Append(u, one)) = Len(r) + 1
        /\ Append(u, one)[Len(r) + 1] = one
        /\ \A i \in 1..Len(r) : Append(u, one)[i] = <<r[i]>>
    BY <2>1, <2>2, <2>3, AppendProperties
  <2>5. OneByOne(s) = Append(u, one)
    <3>1. \A i \in 1..(Len(r) + 1) : Append(u, one)[i] = <<s[i]>>
      BY <2>1, <2>4
    <3>2. Append(u, one) = [i \in 1..(Len(r) + 1) |-> Append(u, one)[i]]
      BY <2>1, <2>4
    <3> QED BY <2>1, <3>1, <3>2 DEF OneByOne
  <2>6. FlattenSeq(Append(u, one)) = r \o one
    BY <2>2, FlattenMore
  <2>7. r \o one = s
    BY AppendIsConcat
  <2> QED BY <2>1, <2>4, <2>5, <2>6, <2>7
<1> HIDE DEF P
<1>3. Seq(T) \subseteq P
  BY <1>1, <1>2, SequenceInduction
<1> QED BY <1>3 DEF P

LEMMA PackedBytes ==
  ASSUME NEW T, NEW q \in Seq(T), NEW units \in Packed(q)
  PROVE  units \in Seq(Seq(T)) /\ FlattenSeq(units) = q
<1>1. CASE units = <<q>>
  BY <1>1, FlattenOne
<1>2. CASE units # <<q>>
  <2> PICK none : none = [i \in 1..Overhead |-> <<>>]
    OBVIOUS
  <2>1. units = none \o OneByOne(q)
    BY <1>2 DEF Packed, OneByOne
  <2>2. none \in Seq({<<>>})
    BY SessionAssumption
  <2>3. none \in Seq(Seq(T)) /\ FlattenSeq(none) = <<>>
    BY <2>2, FlattenEmpties
  <2>4. OneByOne(q) \in Seq(Seq(T)) /\ FlattenSeq(OneByOne(q)) = q
    BY FlattenOneByOne
  <2>5. FlattenSeq(none \o OneByOne(q)) = FlattenSeq(none) \o FlattenSeq(OneByOne(q))
    BY <2>3, <2>4, FlattenConcat
  <2>6. <<>> \o q = q
    BY ConcatEmptySeq
  <2>7. none \o OneByOne(q) \in Seq(Seq(T))
    BY <2>3, <2>4, ConcatProperties
  <2> QED BY <2>1, <2>3, <2>4, <2>5, <2>6, <2>7
<1> QED BY <1>1, <1>2

(* Without --compress, units of one byte.                                  *)
Singles(T) == {<<b>> : b \in T}

LEMMA FlattenSingles ==
  ASSUME NEW T, NEW q \in Seq(Singles(T))
  PROVE  q \in Seq(Seq(T)) /\ Len(FlattenSeq(q)) = Len(q)
<1> DEFINE P == {r \in Seq(Singles(T)) : r \in Seq(Seq(T)) /\ Len(FlattenSeq(r)) = Len(r)}
<1>1. <<>> \in P
  BY EmptySeq, FlattenNone
<1>2. ASSUME NEW r \in Seq(Singles(T)), NEW u \in Singles(T), r \in P PROVE Append(r, u) \in P
  <2> PICK fr : fr = FlattenSeq(r)
    OBVIOUS
  <2>1. u \in Seq(T) /\ Len(u) = 1
    <3>1. PICK b \in T : u = <<b>>
      BY DEF Singles
    <3> QED BY <3>1
  <2>2. r \in Seq(Seq(T)) /\ Len(fr) = Len(r) /\ fr \in Seq(T) /\ Len(r) \in Nat
    BY <1>2, FlattenType
  <2>3. /\ Append(r, u) \in Seq(Singles(T)) /\ Append(r, u) \in Seq(Seq(T))
        /\ Len(Append(r, u)) = Len(r) + 1
    BY <2>1, <2>2, AppendProperties
  <2>4. FlattenSeq(Append(r, u)) = fr \o u
    BY <2>1, <2>2, FlattenMore
  <2>5. Len(fr \o u) = Len(r) + 1
    <3>1. \A s, t \in Seq(T) : Len(s \o t) = Len(s) + Len(t)
      BY ConcatProperties
    <3> QED BY ONLY <2>1, <2>2, <3>1
  <2> QED BY <2>3, <2>4, <2>5
<1> HIDE DEF P
<1>3. Seq(Singles(T)) \subseteq P
  BY <1>1, <1>2, SequenceInduction
<1> QED BY <1>3 DEF P

-----------------------------------------------------------------------------
(* What one program has read and not passed on.                            *)

Buffered(at, buf, steps) ==
  IF at \notin steps THEN <<>> ELSE IF at = "write" THEN FlattenSeq(buf) ELSE buf

(* A write comes first, then what deflate() holds back, then what was read *)
(* after that, then what was not read yet.                                 *)
Pending(at, buf, steps, held, queue) ==
  Buffered(at, buf, {"write"}) \o (FlattenSeq(held) \o (Buffered(at, buf, steps) \o queue))

LEMMA PendingElse ==
  ASSUME NEW T, NEW held \in Seq(Seq(T)), NEW queue \in Seq(T), NEW buf, NEW steps, NEW at,
         at \notin steps, at # "write"
  PROVE  Pending(at, buf, steps, held, queue) = FlattenSeq(held) \o queue
<1>1. <<>> \o queue = queue
  BY ConcatEmptySeq
<1>2. FlattenSeq(held) \o queue \in Seq(T)
  BY FlattenType, ConcatProperties
<1>3. <<>> \o (FlattenSeq(held) \o queue) = FlattenSeq(held) \o queue
  BY <1>2, ConcatEmptySeq
<1> QED BY <1>1, <1>3 DEF Pending, Buffered

LEMMA PendingHere ==
  ASSUME NEW T, NEW held \in Seq(Seq(T)), NEW queue \in Seq(T), NEW buf \in Seq(T), NEW steps,
         NEW at \in steps, at # "write"
  PROVE  Pending(at, buf, steps, held, queue) = FlattenSeq(held) \o (buf \o queue)
<1>1. FlattenSeq(held) \o (buf \o queue) \in Seq(T)
  BY FlattenType, ConcatProperties
<1>2. <<>> \o (FlattenSeq(held) \o (buf \o queue)) = FlattenSeq(held) \o (buf \o queue)
  BY <1>1, ConcatEmptySeq
<1> QED BY <1>2 DEF Pending, Buffered

LEMMA PendingWrite ==
  ASSUME NEW T, NEW held \in Seq(Seq(T)), NEW queue \in Seq(T), NEW buf, NEW steps,
         "write" \notin steps
  PROVE  Pending("write", buf, steps, held, queue) =
           FlattenSeq(buf) \o (FlattenSeq(held) \o queue)
<1>1. <<>> \o queue = queue
  BY ConcatEmptySeq
<1> QED BY <1>1 DEF Pending, Buffered

(* What was read is deflated, or waits to be.                              *)
DeflatedType(T, d) ==
  /\ d.kept \in Seq(Seq(T))
  /\ \/ d.at = "write" /\ d.buf \in Seq(Seq(T)) /\ Len(d.buf) <= BufSize
     \/ d.at = "deflating" /\ d.buf \in Seq(T) /\ Len(d.buf) <= BufSize

LEMMA DeflatedBytes ==
  ASSUME NEW T, NEW held \in Seq(Seq(T)), NEW queue \in Seq(T), NEW steps,
         "write" \notin steps, "deflating" \in steps,
         NEW d \in Deflated(held, ReadOf(queue))
  PROVE  /\ DeflatedType(T, d)
         /\ Pending(d.at, d.buf, steps, d.kept, RestOf(queue)) = FlattenSeq(held) \o queue
         /\ d.at = "write" =>
              FlattenSeq(d.buf) \o FlattenSeq(d.kept) = FlattenSeq(held) \o ReadOf(queue)
<1> PICK now, later, h : now = ReadOf(queue) /\ later = RestOf(queue) /\ h = FlattenSeq(held)
  OBVIOUS
<1>1. now \in Seq(T) /\ later \in Seq(T) /\ now \o later = queue /\ Len(now) <= BufSize
  BY ReadOfQueue
<1>2. h \in Seq(T)
  BY FlattenType
<1>3. CASE Len(held) >= BufSize
  <2>1. d = [at |-> "deflating", buf |-> now, kept |-> held]
    BY <1>3 DEF Deflated
  <2>2. d.at = "deflating" /\ d.buf = now /\ d.kept = held
    BY <2>1
  <2>3. Pending("deflating", now, steps, held, later) = h \o (now \o later)
    <3>1. \A at \in steps : at # "write" =>
            Pending(at, now, steps, held, later) = h \o (now \o later)
      <4>1. ASSUME NEW l \in Seq(T), NEW n \in Seq(T), NEW at \in steps, at # "write"
            PROVE  Pending(at, n, steps, held, l) = FlattenSeq(held) \o (n \o l)
        BY ONLY held \in Seq(Seq(T)), l \in Seq(T), n \in Seq(T), at \in steps, at # "write",
                PendingHere, SMTT(30)
      <4> QED BY <1>1, <4>1, Zenon
    <3> QED BY <3>1
  <2> QED BY <1>1, <2>2, <2>3 DEF DeflatedType
<1>4. CASE ~(Len(held) >= BufSize)
  <2>1. PICK units \in Packed(now) :
          d = [at |-> "write", buf |-> ReadOf(held \o units), kept |-> RestOf(held \o units)]
    BY <1>4 DEF Deflated
  <2>2. units \in Seq(Seq(T)) /\ FlattenSeq(units) = now
    BY <1>1, PackedBytes
  <2>3. held \o units \in Seq(Seq(T)) /\ FlattenSeq(held \o units) = h \o now
    BY <2>2, FlattenConcat, ConcatProperties
  <2> PICK buf, kept : buf = ReadOf(held \o units) /\ kept = RestOf(held \o units)
    OBVIOUS
  <2>4. /\ buf \in Seq(Seq(T)) /\ kept \in Seq(Seq(T)) /\ buf \o kept = held \o units
        /\ Len(buf) <= BufSize
    BY <2>3, ReadOfQueue
  <2> PICK fb, fk : fb = FlattenSeq(buf) /\ fk = FlattenSeq(kept)
    OBVIOUS
  <2>5. fb \in Seq(T) /\ fk \in Seq(T) /\ FlattenSeq(buf \o kept) = fb \o fk
    BY <2>4, FlattenType, FlattenConcat
  <2>6. fb \o fk = h \o now
    BY <2>3, <2>4, <2>5
  <2>7. /\ (fb \o fk) \o later = fb \o (fk \o later)
        /\ (h \o now) \o later = h \o (now \o later)
    <3>1. (fb \o fk) \o later = fb \o (fk \o later)
      BY ONLY <1>1, <2>5, SMTT(30)
    <3>2. h \in Seq(T) /\ now \in Seq(T) /\ later \in Seq(T)
      BY <1>1, <1>2
    <3>3. (h \o now) \o later = h \o (now \o later)
      BY ONLY <3>2, SMTT(30)
    <3> QED BY <3>1, <3>3
  <2>8. Pending("write", buf, steps, kept, later) = fb \o (fk \o later)
    <3>1. Pending("write", buf, steps, kept, later)
            = FlattenSeq(buf) \o (FlattenSeq(kept) \o later)
      BY ONLY <1>1, <2>4, "write" \notin steps, PendingWrite
    <3> QED BY <3>1
  <2>9. d.at = "write" /\ d.buf = buf /\ d.kept = kept
    BY <2>1
  <2>10. DeflatedType(T, d)
    BY <2>4, <2>9 DEF DeflatedType
  <2> QED BY <1>1, <2>6, <2>7, <2>8, <2>9, <2>10
<1> QED BY <1>3, <1>4

(* A queue that grows.                                                     *)
LEMMA PendingGrows ==
  ASSUME NEW T, NEW held \in Seq(Seq(T)), NEW queue \in Seq(T), NEW b \in T, NEW steps, NEW at,
         NEW buf, Buffered(at, buf, {"write"}) \in Seq(T), Buffered(at, buf, steps) \in Seq(T)
  PROVE  Pending(at, buf, steps, held, Append(queue, b)) =
           Pending(at, buf, steps, held, queue) \o <<b>>
<1> PICK one, w, s, h :
      /\ one = <<b>> /\ w = Buffered(at, buf, {"write"}) /\ s = Buffered(at, buf, steps)
      /\ h = FlattenSeq(held)
  OBVIOUS
<1>1. one \in Seq(T) /\ w \in Seq(T) /\ s \in Seq(T) /\ h \in Seq(T)
  BY FlattenType
<1>2. Append(queue, b) = queue \o one
  BY AppendIsConcat
<1>3. s \o (queue \o one) = (s \o queue) \o one
  BY ONLY <1>1, queue \in Seq(T), SMTT(30)
<1> PICK sq : sq = s \o queue
  OBVIOUS
<1>4. sq \in Seq(T)
  BY <1>1, ConcatProperties
<1>5. h \o (sq \o one) = (h \o sq) \o one
  BY ONLY <1>1, <1>4, SMTT(30)
<1> PICK hsq : hsq = h \o sq
  OBVIOUS
<1>6. hsq \in Seq(T)
  BY <1>1, <1>4, ConcatProperties
<1>7. w \o (hsq \o one) = (w \o hsq) \o one
  BY ONLY <1>1, <1>6, SMTT(30)
<1> QED BY <1>2, <1>3, <1>5, <1>7 DEF Pending

(* What was received and not passed on.                                    *)
Incoming(at, buf, steps, units) == Buffered(at, buf, steps) \o FlattenSeq(units)

LEMMA IncomingElse ==
  ASSUME NEW T, NEW units \in Seq(Seq(T)), NEW buf, NEW steps, NEW at, at \notin steps
  PROVE  Incoming(at, buf, steps, units) = FlattenSeq(units)
<1>1. <<>> \o FlattenSeq(units) = FlattenSeq(units)
  BY FlattenType, ConcatEmptySeq
<1> QED BY <1>1 DEF Incoming, Buffered

LEMMA IncomingGrows ==
  ASSUME NEW T, NEW units \in Seq(Seq(T)), NEW more \in Seq(Seq(T)), NEW buf, NEW steps, NEW at,
         Buffered(at, buf, steps) \in Seq(T)
  PROVE  Incoming(at, buf, steps, units \o more) =
           Incoming(at, buf, steps, units) \o FlattenSeq(more)
<1> PICK s, f, g : s = Buffered(at, buf, steps) /\ f = FlattenSeq(units) /\ g = FlattenSeq(more)
  OBVIOUS
<1>1. s \in Seq(T) /\ f \in Seq(T) /\ g \in Seq(T)
  BY FlattenType
<1>2. s \o (f \o g) = (s \o f) \o g
  BY ONLY <1>1, SMTT(30)
<1>3. FlattenSeq(units \o more) = f \o g
  BY FlattenConcat
<1> QED BY <1>2, <1>3 DEF Incoming

(* A read of the socket moves units to the buffer.                         *)
LEMMA IncomingRead ==
  ASSUME NEW T, NEW units \in Seq(Seq(T))
  PROVE  FlattenSeq(ReadOf(units)) \o FlattenSeq(RestOf(units)) = FlattenSeq(units)
<1>1. ReadOf(units) \in Seq(Seq(T)) /\ RestOf(units) \in Seq(Seq(T))
      /\ ReadOf(units) \o RestOf(units) = units
  BY ReadOfQueue
<1> QED BY <1>1, FlattenConcat

-----------------------------------------------------------------------------
(* The types.                                                              *)

KeyQueue    == Seq(KeyBytes)
KeyUnits    == Seq(KeyQueue)
OutputQueue == Seq(OutputBytes)
OutputUnits == Seq(OutputQueue)
Buffers     == KeyQueue \cup KeyUnits \cup OutputQueue \cup OutputUnits
Errors      == {"none", "EPIPE", "ECONNRESET"}

ClientSteps == {"poll", "readKeyboard", "send", "write", "readSocket", "deflating",
                "inflating", "exit", "exited", "sigpipe", "killed"}
ClientEvents == {"keyboard", "socket", "hup"}

ClientBuffer(at, buf) ==
  /\ at = "write" => buf \in KeyUnits
  /\ at = "inflating" => buf \in OutputQueue
  /\ at \notin {"write", "inflating"} => buf \in KeyQueue
  /\ at # "inflating" => Len(buf) <= BufSize

ServerSteps == {"poll", "readSocket", "readShell", "toShell", "toSocket", "write",
                "deflating", "inflating", "restore", "exited"}
ServerEvents == {"socket", "shell", "hup"}

ServerBuffer(at, buf) ==
  /\ at = "write" => buf \in OutputUnits
  /\ at \in {"toShell", "inflating"} => buf \in KeyQueue
  /\ at \notin {"write", "toShell", "inflating"} => buf \in OutputQueue
  /\ at \notin {"toShell", "inflating"} => Len(buf) <= BufSize
  /\ at = "toShell" => Len(buf) <= OutSize

ClientType ==
  /\ cl \in [at : ClientSteps, buf : Buffers, polled : SUBSET ClientEvents]
  /\ ClientBuffer(cl.at, cl.buf)

ServerType ==
  /\ sv \in [at : ServerSteps, buf : Buffers, polled : SUBSET ServerEvents]
  /\ ServerBuffer(sv.at, sv.buf)

NetType ==
  /\ net \in [c2s : KeyUnits, s2c : OutputUnits, c_held : KeyUnits, s_held : OutputUnits,
              c_err : Errors, s_err : Errors]
  /\ Len(net.c2s) <= Room /\ Len(net.s2c) <= Room

PipesType ==
  /\ pipes \in [shell_in : KeyQueue, shell_out : OutputQueue, in_open : BOOLEAN]
  /\ Len(pipes.shell_in) <= PipeSize /\ Len(pipes.shell_out) <= PipeSize

HistType == hist \in [typed : KeyQueue, consumed : KeyQueue,
                      written : OutputQueue, displayed : OutputQueue]

TypeInv ==
  /\ compress_flag \in BOOLEAN
  /\ keyboard \in KeyQueue
  /\ ClientType
  /\ terminal \in {"project_mode", "default_mode"}
  /\ NetType
  /\ ServerType
  /\ PipesType
  /\ shell \in {"idle", "writing", "exited", "reaped"}
  /\ HistType
  /\ shell = "writing" => Len(hist.written) < MaxWritten

(* Which bytes are where: typed, and not sent; sent, and not passed on to  *)
(* the shell; written, and not sent; sent, and not displayed.              *)
cKeys   == Pending(cl.at, cl.buf, {"send", "deflating"}, net.c_held, keyboard)
sKeys   == Incoming(sv.at, sv.buf, {"toShell", "inflating"}, net.c2s)
sOutput == Pending(sv.at, sv.buf, {"toSocket", "deflating"}, net.s_held, pipes.shell_out)
cOutput == Incoming(cl.at, cl.buf, {"inflating"}, net.s2c)

LEMMA ClientPlaces ==
  ASSUME TypeInv
  PROVE  /\ Buffered(cl.at, cl.buf, {"write"}) \in KeyQueue
         /\ Buffered(cl.at, cl.buf, {"send", "deflating"}) \in KeyQueue
         /\ Buffered(cl.at, cl.buf, {"inflating"}) \in OutputQueue
         /\ cKeys \in KeyQueue /\ cOutput \in OutputQueue
<1> PICK at, buf : at = cl.at /\ buf = cl.buf
  OBVIOUS
<1>1. /\ ClientBuffer(at, buf) /\ net.c_held \in KeyUnits /\ net.s2c \in OutputUnits
      /\ keyboard \in KeyQueue
  BY DEF TypeInv, ClientType, NetType, Room
<1>2. <<>> \in KeyQueue /\ <<>> \in OutputQueue
  BY EmptySeq DEF KeyQueue, OutputQueue
<1>3. buf \in KeyUnits => FlattenSeq(buf) \in KeyQueue
  BY FlattenType DEF KeyUnits, KeyQueue
<1>4. Buffered(at, buf, {"write"}) \in KeyQueue
  <2>1. CASE at = "write"
    BY <1>1, <1>3, <2>1 DEF Buffered, ClientBuffer
  <2>2. CASE at # "write"
    BY <1>2, <2>2 DEF Buffered
  <2> QED BY <2>1, <2>2
<1>5. Buffered(at, buf, {"send", "deflating"}) \in KeyQueue
  <2>1. CASE at \in {"send", "deflating"}
    BY <1>1, <2>1 DEF Buffered, ClientBuffer
  <2>2. CASE at \notin {"send", "deflating"}
    BY <1>2, <2>2 DEF Buffered
  <2> QED BY <2>1, <2>2
<1>6. Buffered(at, buf, {"inflating"}) \in OutputQueue
  <2>1. CASE at = "inflating"
    BY <1>1, <2>1 DEF Buffered, ClientBuffer
  <2>2. CASE at # "inflating"
    BY <1>2, <2>2 DEF Buffered
  <2> QED BY <2>1, <2>2
<1>7. FlattenSeq(net.c_held) \in KeyQueue /\ FlattenSeq(net.s2c) \in OutputQueue
  BY <1>1, FlattenType DEF KeyUnits, KeyQueue, OutputUnits, OutputQueue
<1>8. ASSUME NEW a \in KeyQueue, NEW b \in KeyQueue PROVE a \o b \in KeyQueue
  BY ConcatProperties DEF KeyQueue
<1>9. ASSUME NEW a \in OutputQueue, NEW b \in OutputQueue PROVE a \o b \in OutputQueue
  BY ConcatProperties DEF OutputQueue
<1>10. cKeys \in KeyQueue
  BY <1>1, <1>4, <1>5, <1>7, <1>8 DEF cKeys, Pending
<1>11. cOutput \in OutputQueue
  BY <1>6, <1>7, <1>9 DEF cOutput, Incoming
<1> QED BY <1>4, <1>5, <1>6, <1>10, <1>11

LEMMA ServerPlaces ==
  ASSUME TypeInv
  PROVE  /\ Buffered(sv.at, sv.buf, {"write"}) \in OutputQueue
         /\ Buffered(sv.at, sv.buf, {"toSocket", "deflating"}) \in OutputQueue
         /\ Buffered(sv.at, sv.buf, {"toShell", "inflating"}) \in KeyQueue
         /\ sKeys \in KeyQueue /\ sOutput \in OutputQueue
<1> PICK at, buf : at = sv.at /\ buf = sv.buf
  OBVIOUS
<1>1. /\ ServerBuffer(at, buf) /\ net.s_held \in OutputUnits /\ net.c2s \in KeyUnits
      /\ pipes.shell_out \in OutputQueue
  BY DEF TypeInv, ServerType, NetType, Room, PipesType
<1>2. <<>> \in KeyQueue /\ <<>> \in OutputQueue
  BY EmptySeq DEF KeyQueue, OutputQueue
<1>3. buf \in OutputUnits => FlattenSeq(buf) \in OutputQueue
  BY FlattenType DEF OutputUnits, OutputQueue
<1>4. Buffered(at, buf, {"write"}) \in OutputQueue
  <2>1. CASE at = "write"
    BY <1>1, <1>3, <2>1 DEF Buffered, ServerBuffer
  <2>2. CASE at # "write"
    BY <1>2, <2>2 DEF Buffered
  <2> QED BY <2>1, <2>2
<1>5. Buffered(at, buf, {"toSocket", "deflating"}) \in OutputQueue
  <2>1. CASE at \in {"toSocket", "deflating"}
    BY <1>1, <2>1 DEF Buffered, ServerBuffer
  <2>2. CASE at \notin {"toSocket", "deflating"}
    BY <1>2, <2>2 DEF Buffered
  <2> QED BY <2>1, <2>2
<1>6. Buffered(at, buf, {"toShell", "inflating"}) \in KeyQueue
  <2>1. CASE at \in {"toShell", "inflating"}
    BY <1>1, <2>1 DEF Buffered, ServerBuffer
  <2>2. CASE at \notin {"toShell", "inflating"}
    BY <1>2, <2>2 DEF Buffered
  <2> QED BY <2>1, <2>2
<1>7. FlattenSeq(net.s_held) \in OutputQueue /\ FlattenSeq(net.c2s) \in KeyQueue
  BY <1>1, FlattenType DEF KeyUnits, KeyQueue, OutputUnits, OutputQueue
<1>8. ASSUME NEW a \in KeyQueue, NEW b \in KeyQueue PROVE a \o b \in KeyQueue
  BY ConcatProperties DEF KeyQueue
<1>9. ASSUME NEW a \in OutputQueue, NEW b \in OutputQueue PROVE a \o b \in OutputQueue
  BY ConcatProperties DEF OutputQueue
<1>10. sOutput \in OutputQueue
  BY <1>1, <1>4, <1>5, <1>7, <1>9 DEF sOutput, Pending
<1>11. sKeys \in KeyQueue
  BY <1>6, <1>7, <1>8 DEF sKeys, Incoming
<1> QED BY <1>4, <1>5, <1>6, <1>10, <1>11

-----------------------------------------------------------------------------
(* What is invariant about the queues.                                     *)

(* What the shell has read, and will.                                      *)
Reached == hist.consumed \o pipes.shell_in

(* A ^D was typed, and the server has closed shell_in for it.              *)
EofTyped == sv.at = "restore" /\ ~pipes.in_open /\ ~HasEof(hist.written)

(* What was typed is: what the shell has got, or the server has taken for  *)
(* control characters; what the server has, or the two programs have lost; *)
(* and what the client has.                                                *)
InputSplit(past, mid, rest) ==
  /\ hist.typed = past \o (mid \o rest)
  /\ Reached = Plain(past)
  /\ ~HasEof(past)
  /\ ClientRuns => rest = cKeys
  /\ ServerRuns => mid = sKeys
  /\ EofTyped => mid # <<>> /\ Head(mid)[1] = "^D"

InputInv == \E past, mid, rest \in KeyQueue : InputSplit(past, mid, rest)

(* And of what the shell wrote, displayed is what is shown but for wire.   *)
OutputSplit(past, rest, wire) ==
  /\ hist.written = past \o rest
  /\ Shown(past) = hist.displayed \o wire
  /\ ServerRuns => rest = sOutput
  /\ ClientRuns => wire = cOutput

OutputInv == \E past, rest, wire \in OutputQueue : OutputSplit(past, rest, wire)

(* A step: new keys are typed, some are sent or lost, and the server is    *)
(* done with some.                                                         *)
InputFlow(new, sent, done) ==
  /\ new \in KeyQueue /\ sent \in KeyQueue /\ done \in KeyQueue
  /\ hist'.typed = hist.typed \o new
  /\ Reached' = Reached \o Plain(done)
  /\ ~HasEof(done)
  /\ ClientRuns' => ClientRuns /\ cKeys \o new = sent \o cKeys'
  /\ ~ClientRuns' => sent = <<>>
  /\ ServerRuns' => ServerRuns /\ sKeys \o sent = done \o sKeys'
  /\ ~ServerRuns' => done = <<>>
  /\ EofTyped' => EofTyped \/ (ServerRuns /\ sKeys # <<>> /\ Head(sKeys)[1] = "^D")

LEMMA HeadOfConcat ==
  ASSUME NEW T, NEW p \in Seq(T), NEW q \in Seq(T), p # <<>>
  PROVE  p \o q # <<>> /\ Head(p \o q) = Head(p)
<1>1. /\ Len(p) \in Nat /\ Len(p) # 0 /\ Len(q) \in Nat /\ Len(p \o q) = Len(p) + Len(q)
      /\ p \o q \in Seq(T) /\ (p \o q)[1] = p[1]
  BY ConcatProperties, EmptySeq, LenProperties
<1>2. p \o q # <<>>
  BY <1>1, EmptySeq
<1>3. Head(p) = p[1] /\ Head(p \o q) = (p \o q)[1]
  BY <1>1, <1>2
<1> QED BY <1>1, <1>2, <1>3

LEMMA Places ==
  TypeInv => cKeys \in KeyQueue /\ sKeys \in KeyQueue /\ cOutput \in OutputQueue
             /\ sOutput \in OutputQueue
BY ClientPlaces, ServerPlaces

LEMMA InputStep ==
  ASSUME TypeInv, TypeInv', InputInv,
         NEW new, NEW sent, NEW done, InputFlow(new, sent, done)
  PROVE  InputInv'
<1> PICK past \in KeyQueue, mid \in KeyQueue, rest \in KeyQueue : InputSplit(past, mid, rest)
  BY DEF InputInv
<1>1. new \in KeyQueue /\ sent \in KeyQueue /\ done \in KeyQueue
  BY DEF InputFlow
<1>2. cKeys \in KeyQueue /\ sKeys \in KeyQueue
  BY ClientPlaces, ServerPlaces
<1>3. cKeys' \in KeyQueue /\ sKeys' \in KeyQueue
  <2>1. TypeInv' => (cKeys \in KeyQueue /\ sKeys \in KeyQueue)'
    BY Places, PTL
  <2> QED BY <2>1
<1>4. ASSUME NEW a \in KeyQueue, NEW b \in KeyQueue PROVE a \o b \in KeyQueue
  BY ConcatProperties DEF KeyQueue
<1>6. ASSUME NEW a \in KeyQueue PROVE <<>> \o a = a /\ a \o <<>> = a
  BY ConcatEmptySeq DEF KeyQueue
<1>7. <<>> \in KeyQueue
  BY EmptySeq DEF KeyQueue
(* The client's part.                                                      *)
<1>8. PICK more \in KeyQueue : rest \o new = sent \o more /\ (ClientRuns' => more = cKeys')
  <2>1. CASE ClientRuns'
    <3>1. rest = cKeys /\ cKeys \o new = sent \o cKeys'
      BY <2>1 DEF InputFlow, InputSplit
    <3> QED BY <1>3, <3>1
  <2>2. CASE ~ClientRuns'
    <3>1. sent = <<>>
      BY <2>2 DEF InputFlow
    <3>2. rest \o new \in KeyQueue /\ <<>> \o (rest \o new) = rest \o new
      BY <1>1, <1>4, <1>6
    <3> QED BY <2>2, <3>1, <3>2
  <2> QED BY <2>1, <2>2
(* The server's part.                                                      *)
<1>9. PICK middle \in KeyQueue : mid \o sent = done \o middle /\ (ServerRuns' => middle = sKeys')
  <2>1. CASE ServerRuns'
    <3>1. mid = sKeys /\ sKeys \o sent = done \o sKeys'
      BY <2>1 DEF InputFlow, InputSplit
    <3> QED BY <1>3, <3>1
  <2>2. CASE ~ServerRuns'
    <3>1. done = <<>>
      BY <2>2 DEF InputFlow
    <3>2. mid \o sent \in KeyQueue /\ <<>> \o (mid \o sent) = mid \o sent
      BY <1>1, <1>4, <1>6
    <3> QED BY <2>2, <3>1, <3>2
  <2> QED BY <2>1, <2>2
<1>10. hist'.typed = (past \o done) \o (middle \o more)
  <2>1. hist'.typed = (past \o (mid \o rest)) \o new
    BY DEF InputFlow, InputSplit
  <2> PICK mr, mm : mr = mid \o rest /\ mm = middle \o more
    OBVIOUS
  <2>2. /\ past \in KeyQueue /\ mid \in KeyQueue /\ rest \in KeyQueue /\ new \in KeyQueue
        /\ sent \in KeyQueue /\ done \in KeyQueue /\ more \in KeyQueue /\ middle \in KeyQueue
        /\ mr \in KeyQueue /\ mm \in KeyQueue
    BY <1>1, <1>4
  <2>3. (past \o mr) \o new = past \o (mr \o new)
    BY ONLY <2>2, SMTT(30) DEF KeyQueue
  <2>4. (mid \o rest) \o new = mid \o (rest \o new)
    BY ONLY <2>2, SMTT(30) DEF KeyQueue
  <2>5. (mid \o sent) \o more = mid \o (sent \o more)
    BY ONLY <2>2, SMTT(30) DEF KeyQueue
  <2>6. (done \o middle) \o more = done \o (middle \o more)
    BY ONLY <2>2, SMTT(30) DEF KeyQueue
  <2>7. (past \o done) \o mm = past \o (done \o mm)
    BY ONLY <2>2, SMTT(30) DEF KeyQueue
  <2> QED BY <1>8, <1>9, <2>1, <2>3, <2>4, <2>5, <2>6, <2>7, Zenon
<1>11. Reached' = Plain(past \o done)
  <2>1. Plain(past \o done) = Plain(past) \o Plain(done)
    BY <1>1, PlainConcat DEF KeyQueue
  <2> QED BY <2>1 DEF InputFlow, InputSplit
<1>12. ~HasEof(past \o done)
  BY <1>1, EofConcat DEF InputFlow, InputSplit, KeyQueue
<1>13. ASSUME EofTyped' PROVE middle # <<>> /\ Head(middle)[1] = "^D"
  <2>1. mid # <<>> /\ Head(mid)[1] = "^D"
    BY <1>13 DEF InputFlow, InputSplit
  <2>2. done = <<>>
    <3>1. ~ServerRuns'
      BY <1>13 DEF EofTyped, ServerRuns
    <3> QED BY <3>1 DEF InputFlow
  <2>3. middle = mid \o sent
    BY <1>6, <1>9, <2>2
  <2> QED BY <1>1, <2>1, <2>3, HeadOfConcat DEF KeyQueue
<1>14. past \o done \in KeyQueue
  BY <1>1, <1>4
<1>15. InputSplit(past \o done, middle, more)'
  BY <1>8, <1>9, <1>10, <1>11, <1>12, <1>13 DEF InputSplit
<1> QED BY <1>14, <1>15 DEF InputInv

(* The same for the output: pieces are written, some are sent or lost, and *)
(* some are displayed.                                                     *)
OutputFlow(new, sent, shown) ==
  /\ new \in OutputQueue /\ sent \in OutputQueue /\ shown \in OutputQueue
  /\ compress_flag' = compress_flag
  /\ hist'.written = hist.written \o new
  /\ hist'.displayed = hist.displayed \o shown
  /\ ServerRuns' => ServerRuns /\ sOutput \o new = sent \o sOutput'
  /\ ~ServerRuns' => sent = <<>> \/ (ServerRuns /\ sOutput \o new = sent \o sOutput')
  /\ ClientRuns' => ClientRuns /\ cOutput \o Shown(sent) = shown \o cOutput'
  /\ ~ClientRuns' => shown = <<>>

LEMMA ShownType ==
  ASSUME NEW q \in OutputQueue
  PROVE  Shown(q) \in OutputQueue
BY PlainType DEF Shown, OutputQueue

LEMMA ShownConcat ==
  ASSUME NEW p \in OutputQueue, NEW q \in OutputQueue
  PROVE  Shown(p \o q) = Shown(p) \o Shown(q)
BY PlainConcat DEF Shown, OutputQueue

LEMMA ShownTwice ==
  ASSUME NEW q \in OutputQueue
  PROVE  Shown(Shown(q)) = Shown(q)
BY PlainTwice DEF Shown, OutputQueue

LEMMA ShownNone == Shown(<<>>) = <<>>
BY PlainNone DEF Shown

LEMMA OutputStep ==
  ASSUME TypeInv, TypeInv', OutputInv,
         NEW new, NEW sent, NEW shown, OutputFlow(new, sent, shown)
  PROVE  OutputInv'
<1> PICK past \in OutputQueue, rest \in OutputQueue, wire \in OutputQueue :
      OutputSplit(past, rest, wire)
  BY DEF OutputInv
<1> PICK more : more = Shown(sent)
  OBVIOUS
<1>1. /\ new \in OutputQueue /\ sent \in OutputQueue /\ shown \in OutputQueue
      /\ more \in OutputQueue /\ hist.displayed \in OutputQueue
  BY ShownType DEF OutputFlow, TypeInv, HistType
<1>2. cOutput' \in OutputQueue /\ sOutput' \in OutputQueue
  <2>1. TypeInv' => (cOutput \in OutputQueue /\ sOutput \in OutputQueue)'
    BY Places, PTL
  <2> QED BY <2>1
<1>3. ASSUME NEW a \in OutputQueue, NEW b \in OutputQueue PROVE a \o b \in OutputQueue
  BY ConcatProperties DEF OutputQueue
<1>5. ASSUME NEW a \in OutputQueue PROVE <<>> \o a = a /\ a \o <<>> = a
  BY ConcatEmptySeq DEF OutputQueue
<1>6. PICK left \in OutputQueue : rest \o new = sent \o left /\ (ServerRuns' => left = sOutput')
  <2>1. CASE ServerRuns /\ sOutput \o new = sent \o sOutput'
    <3>1. rest = sOutput
      BY <2>1 DEF OutputSplit
    <3> QED BY <1>2, <2>1, <3>1
  <2>2. CASE ~ServerRuns' /\ sent = <<>>
    <3>1. rest \o new \in OutputQueue /\ <<>> \o (rest \o new) = rest \o new
      BY <1>1, <1>3, <1>5
    <3> QED BY <2>2, <3>1
  <2> QED BY <2>1, <2>2 DEF OutputFlow
<1>7. PICK line \in OutputQueue : wire \o more = shown \o line /\ (ClientRuns' => line = cOutput')
  <2>1. CASE ClientRuns'
    <3>1. wire = cOutput /\ cOutput \o more = shown \o cOutput'
      BY <2>1 DEF OutputFlow, OutputSplit
    <3> QED BY <1>2, <3>1
  <2>2. CASE ~ClientRuns'
    <3>1. shown = <<>>
      BY <2>2 DEF OutputFlow
    <3>2. wire \o more \in OutputQueue /\ <<>> \o (wire \o more) = wire \o more
      BY <1>1, <1>3, <1>5
    <3> QED BY <2>2, <3>1, <3>2
  <2> QED BY <2>1, <2>2
<1>8. hist'.written = (past \o sent) \o left
  <2>1. hist'.written = (past \o rest) \o new
    BY DEF OutputFlow, OutputSplit
  <2>2. /\ past \in OutputQueue /\ rest \in OutputQueue /\ new \in OutputQueue
        /\ sent \in OutputQueue /\ left \in OutputQueue
    BY <1>1
  <2>3. (past \o rest) \o new = past \o (rest \o new)
    BY ONLY <2>2, SMTT(30) DEF OutputQueue
  <2>4. (past \o sent) \o left = past \o (sent \o left)
    BY ONLY <2>2, SMTT(30) DEF OutputQueue
  <2> QED BY <1>6, <2>1, <2>3, <2>4, Zenon
<1>9. Shown(past \o sent)' = hist'.displayed \o line
  <2>0. Shown(past) = hist.displayed \o wire /\ Shown(past \o sent) = Shown(past) \o more
    <3>1. sent \in OutputQueue
      BY <1>1
    <3>2. Shown(past \o sent) = Shown(past) \o Shown(sent)
      BY ONLY <3>1, past \in OutputQueue, ShownConcat
    <3>3. OutputSplit(past, rest, wire) => Shown(past) = hist.displayed \o wire
      BY Zenon DEF OutputSplit
    <3> QED BY <3>2, <3>3, Zenon
  <2>1. Shown(past \o sent) = (hist.displayed \o wire) \o more
    BY <2>0, Zenon
  <2> PICK old : old = hist.displayed
    OBVIOUS
  <2>2. /\ old \in OutputQueue /\ wire \in OutputQueue /\ more \in OutputQueue
        /\ shown \in OutputQueue /\ line \in OutputQueue
    BY <1>1
  <2>3. (old \o wire) \o more = old \o (wire \o more)
    BY ONLY <2>2, SMTT(30) DEF OutputQueue
  <2>4. (old \o shown) \o line = old \o (shown \o line)
    BY ONLY <2>2, SMTT(30) DEF OutputQueue
  <2>5. Shown(past \o sent) = (old \o shown) \o line
    BY <1>7, <2>1, <2>3, <2>4, Zenon
  <2>6. Shown(past \o sent)' = Shown(past \o sent)
    BY DEF OutputFlow, Shown
  <2> QED BY <2>5, <2>6 DEF OutputFlow
<1>10. past \o sent \in OutputQueue
  BY <1>1, <1>3
<1>11. OutputSplit(past \o sent, left, line)'
  BY <1>6, <1>7, <1>8, <1>9 DEF OutputSplit
<1> QED BY <1>10, <1>11 DEF OutputInv

-----------------------------------------------------------------------------
(* The flows that single steps are.                                        *)

LEMMA KeyEmpty ==
  /\ <<>> \in KeyQueue
  /\ \A q \in KeyQueue : q \o <<>> = q /\ <<>> \o q = q
BY EmptySeq, ConcatEmptySeq DEF KeyQueue

LEMMA OutputEmpty ==
  /\ <<>> \in OutputQueue
  /\ \A q \in OutputQueue : q \o <<>> = q /\ <<>> \o q = q
BY EmptySeq, ConcatEmptySeq DEF OutputQueue

LEMMA KeyConcat ==
  ASSUME NEW p \in KeyQueue, NEW q \in KeyQueue
  PROVE  p \o q \in KeyQueue
BY ConcatProperties DEF KeyQueue

LEMMA OutputConcat ==
  ASSUME NEW p \in OutputQueue, NEW q \in OutputQueue
  PROVE  p \o q \in OutputQueue
BY ConcatProperties DEF OutputQueue

LEMMA HistFields ==
  TypeInv => /\ hist.typed \in KeyQueue /\ hist.consumed \in KeyQueue
             /\ hist.written \in OutputQueue /\ hist.displayed \in OutputQueue
             /\ pipes.shell_in \in KeyQueue /\ pipes.shell_out \in OutputQueue
             /\ Reached \in KeyQueue
BY KeyConcat DEF TypeInv, HistType, PipesType, Reached

(* The client sends some keys, or the server is done with some, or neither.*)
LEMMA InputPassed ==
  ASSUME TypeInv, TypeInv', InputInv,
         hist'.typed = hist.typed,
         NEW sent \in KeyQueue, NEW done \in KeyQueue,
         Reached' = Reached \o Plain(done),
         ~HasEof(done),
         ClientRuns' => ClientRuns /\ cKeys = sent \o cKeys',
         ~ClientRuns' => sent = <<>>,
         ServerRuns' => ServerRuns /\ sKeys \o sent = done \o sKeys',
         ~ServerRuns' => done = <<>>,
         EofTyped' => EofTyped \/ (ServerRuns /\ sKeys # <<>> /\ Head(sKeys)[1] = "^D")
  PROVE  InputInv'
<1>1. hist.typed \o <<>> = hist.typed /\ cKeys \o <<>> = cKeys /\ <<>> \in KeyQueue
  BY KeyEmpty, HistFields, ClientPlaces
<1>2. InputFlow(<<>>, sent, done)
  BY <1>1 DEF InputFlow
<1> QED BY <1>2, InputStep

LEMMA InputStays ==
  ASSUME TypeInv, TypeInv', InputInv,
         hist'.typed = hist.typed,
         Reached' = Reached,
         ClientRuns' => ClientRuns /\ cKeys' = cKeys,
         ServerRuns' => ServerRuns /\ sKeys' = sKeys,
         EofTyped' => EofTyped \/ (ServerRuns /\ sKeys # <<>> /\ Head(sKeys)[1] = "^D")
  PROVE  InputInv'
<1> PICK none, reached : none = <<>> /\ reached = Reached
  OBVIOUS
<1>1. none \in KeyQueue /\ cKeys = none \o cKeys /\ sKeys \o none = none \o sKeys
  BY KeyEmpty, ClientPlaces, ServerPlaces
<1>2. Plain(none) = none /\ ~HasEof(none) /\ reached \o none = reached
  BY PlainNone, NoEof, KeyEmpty, HistFields
<1>3. Reached' = Reached \o Plain(none)
  BY <1>2
<1>4. ClientRuns' => ClientRuns /\ cKeys = none \o cKeys'
  BY <1>1
<1>5. ServerRuns' => ServerRuns /\ sKeys \o none = none \o sKeys'
  BY <1>1
<1> QED BY <1>1, <1>2, <1>3, <1>4, <1>5, InputPassed

(* The server sends some output, or the client displays some, or neither.  *)
LEMMA OutputPassed ==
  ASSUME TypeInv, TypeInv', OutputInv, compress_flag' = compress_flag,
         hist'.written = hist.written,
         NEW sent \in OutputQueue, NEW shown \in OutputQueue,
         hist'.displayed = hist.displayed \o shown,
         ServerRuns' => ServerRuns /\ sOutput = sent \o sOutput',
         ~ServerRuns' => sent = <<>> \/ (ServerRuns /\ sOutput = sent \o sOutput'),
         ClientRuns' => ClientRuns /\ cOutput \o Shown(sent) = shown \o cOutput',
         ~ClientRuns' => shown = <<>>
  PROVE  OutputInv'
<1>1. hist.written \o <<>> = hist.written /\ sOutput \o <<>> = sOutput /\ <<>> \in OutputQueue
  BY OutputEmpty, HistFields, ServerPlaces
<1>2. OutputFlow(<<>>, sent, shown)
  BY <1>1 DEF OutputFlow
<1> QED BY <1>2, OutputStep

LEMMA OutputStays ==
  ASSUME TypeInv, TypeInv', OutputInv, compress_flag' = compress_flag,
         hist'.written = hist.written,
         hist'.displayed = hist.displayed,
         ServerRuns' => ServerRuns /\ sOutput' = sOutput,
         ClientRuns' => ClientRuns /\ cOutput' = cOutput
  PROVE  OutputInv'
<1> PICK none : none = <<>>
  OBVIOUS
<1>1. none \in OutputQueue /\ sOutput = none \o sOutput /\ cOutput \o none = none \o cOutput
  BY OutputEmpty, ClientPlaces, ServerPlaces
<1>2. Shown(none) = none /\ hist.displayed \o none = hist.displayed
  BY ShownNone, OutputEmpty, HistFields
<1>3. ServerRuns' => ServerRuns /\ sOutput = none \o sOutput'
  BY <1>1
<1>4. ClientRuns' => ClientRuns /\ cOutput \o Shown(none) = none \o cOutput'
  BY <1>1, <1>2
<1> QED BY <1>1, <1>2, <1>3, <1>4, OutputPassed

(* The client sends or loses keys.                                         *)
LEMMA InputSent ==
  ASSUME TypeInv, TypeInv', InputInv, hist'.typed = hist.typed, Reached' = Reached,
         NEW sent \in KeyQueue,
         ClientRuns' => ClientRuns /\ cKeys = sent \o cKeys',
         ~ClientRuns' => sent = <<>>,
         ServerRuns' => ServerRuns /\ sKeys' = sKeys \o sent,
         EofTyped' => EofTyped
  PROVE  InputInv'
<1> PICK none, reached : none = <<>> /\ reached = Reached
  OBVIOUS
<1>1. none \in KeyQueue /\ Plain(none) = none /\ ~HasEof(none) /\ reached \o none = reached
  BY PlainNone, NoEof, KeyEmpty, HistFields
<1>2. Reached' = Reached \o Plain(none)
  BY <1>1
<1>3. sKeys \o sent \in KeyQueue
  BY ServerPlaces, KeyConcat
<1>4. none \o (sKeys \o sent) = sKeys \o sent
  BY <1>3, KeyEmpty
<1>5. ServerRuns' => ServerRuns /\ sKeys \o sent = none \o sKeys'
  BY <1>4
<1>6. ~ServerRuns' => none = <<>>
  OBVIOUS
<1> QED BY <1>1, <1>2, <1>5, <1>6, InputPassed

(* The server is done with keys.                                           *)
LEMMA InputDone ==
  ASSUME TypeInv, TypeInv', InputInv, hist'.typed = hist.typed,
         NEW done \in KeyQueue, Reached' = Reached \o Plain(done), ~HasEof(done),
         ClientRuns' => ClientRuns /\ cKeys' = cKeys,
         ServerRuns', ServerRuns, sKeys = done \o sKeys',
         EofTyped' => EofTyped
  PROVE  InputInv'
<1> PICK none : none = <<>>
  OBVIOUS
<1>1. none \in KeyQueue /\ none \o cKeys = cKeys /\ sKeys \o none = sKeys
  BY KeyEmpty, Places
<1>2. ClientRuns' => ClientRuns /\ cKeys = none \o cKeys'
  BY <1>1
<1>3. ServerRuns' => ServerRuns /\ sKeys \o none = done \o sKeys'
  BY <1>1
<1>4. ~ClientRuns' => none = <<>>
  OBVIOUS
<1> QED BY <1>1, <1>2, <1>3, <1>4, InputPassed

(* The server sends or loses output.                                       *)
LEMMA OutputSent ==
  ASSUME TypeInv, TypeInv', OutputInv, compress_flag' = compress_flag,
         hist'.written = hist.written, hist'.displayed = hist.displayed,
         NEW sent \in OutputQueue,
         ServerRuns' => ServerRuns /\ sOutput = sent \o sOutput',
         ~ServerRuns' => sent = <<>> \/ (ServerRuns /\ sOutput = sent \o sOutput'),
         ClientRuns' => ClientRuns /\ cOutput' = cOutput \o Shown(sent)
  PROVE  OutputInv'
<1> PICK none, more : none = <<>> /\ more = Shown(sent)
  OBVIOUS
<1>1. none \in OutputQueue /\ hist.displayed \o none = hist.displayed
  BY OutputEmpty, HistFields
<1>2. cOutput \o more \in OutputQueue
  BY Places, ShownType, OutputConcat
<1>3. none \o (cOutput \o more) = cOutput \o more
  BY <1>2, OutputEmpty
<1>4. ClientRuns' => ClientRuns /\ cOutput \o Shown(sent) = none \o cOutput'
  BY <1>3
<1>5. ~ClientRuns' => none = <<>>
  OBVIOUS
<1> QED BY <1>1, <1>4, <1>5, OutputPassed

(* The client displays output.                                             *)
LEMMA OutputShown ==
  ASSUME TypeInv, TypeInv', OutputInv, compress_flag' = compress_flag,
         hist'.written = hist.written,
         NEW shown \in OutputQueue, hist'.displayed = hist.displayed \o shown,
         ServerRuns' => ServerRuns /\ sOutput' = sOutput,
         ClientRuns', ClientRuns, cOutput = shown \o cOutput'
  PROVE  OutputInv'
<1> PICK none : none = <<>>
  OBVIOUS
<1>1. none \in OutputQueue /\ none \o sOutput = sOutput /\ cOutput \o none = cOutput
  BY OutputEmpty, Places
<1>2. Shown(none) = none
  BY ShownNone
<1>3. ServerRuns' => ServerRuns /\ sOutput = none \o sOutput'
  BY <1>1
<1>4. ClientRuns' => ClientRuns /\ cOutput \o Shown(none) = shown \o cOutput'
  BY <1>1, <1>2
<1>5. ~ServerRuns' => none = <<>>
  OBVIOUS
<1> QED BY <1>1, <1>3, <1>4, <1>5, OutputPassed

-----------------------------------------------------------------------------
(* What a program has, by its step.                                        *)

LEMMA cKeysElse ==
  TypeInv /\ cl.at \notin {"write", "send", "deflating"}
    => cKeys = FlattenSeq(net.c_held) \o keyboard
<1> SUFFICES ASSUME TypeInv, cl.at \notin {"write", "send", "deflating"}
    PROVE  cKeys = FlattenSeq(net.c_held) \o keyboard
  OBVIOUS
<1> PICK at, buf, held, queue : /\ at = cl.at /\ buf = cl.buf /\ held = net.c_held
                                 /\ queue = keyboard
  OBVIOUS
<1>1. held \in Seq(Seq(KeyBytes)) /\ queue \in Seq(KeyBytes)
  BY DEF TypeInv, NetType, Room, PipesType, KeyUnits, KeyQueue, OutputUnits, OutputQueue
<1>2. at \notin {"send", "deflating"} /\ at # "write"
  OBVIOUS
<1>3. Pending(at, buf, {"send", "deflating"}, held, queue) = FlattenSeq(held) \o queue
  BY ONLY <1>1, <1>2, PendingElse
<1> QED BY <1>3 DEF cKeys

LEMMA cKeysElseNext ==
  (TypeInv /\ cl.at \notin {"write", "send", "deflating"})'
    => (cKeys = FlattenSeq(net.c_held) \o keyboard)'
BY cKeysElse, PTL

LEMMA cKeysHere ==
  TypeInv /\ cl.at \in {"send", "deflating"}
    => cKeys = FlattenSeq(net.c_held) \o (cl.buf \o keyboard)
<1> SUFFICES ASSUME TypeInv, cl.at \in {"send", "deflating"}
    PROVE  cKeys = FlattenSeq(net.c_held) \o (cl.buf \o keyboard)
  OBVIOUS
<1> PICK at, buf, held, queue : /\ at = cl.at /\ buf = cl.buf /\ held = net.c_held
                                 /\ queue = keyboard
  OBVIOUS
<1>1. buf \in Seq(KeyBytes) /\ held \in Seq(Seq(KeyBytes)) /\ queue \in Seq(KeyBytes)
  BY DEF TypeInv, NetType, Room, PipesType, KeyUnits, KeyQueue, OutputUnits, OutputQueue, ClientType,
         ClientBuffer
<1> PICK steps : steps = {"send", "deflating"}
  OBVIOUS
<1>2. at \in steps /\ at # "write"
  OBVIOUS
<1>3. Pending(at, buf, steps, held, queue) = FlattenSeq(held) \o (buf \o queue)
  BY ONLY <1>1, <1>2, PendingHere
<1> QED BY <1>3 DEF cKeys

LEMMA cKeysHereNext ==
  (TypeInv /\ cl.at \in {"send", "deflating"})'
    => (cKeys = FlattenSeq(net.c_held) \o (cl.buf \o keyboard))'
BY cKeysHere, PTL

LEMMA cKeysWrite ==
  TypeInv /\ cl.at = "write" => cKeys = FlattenSeq(cl.buf) \o (FlattenSeq(net.c_held) \o keyboard)
<1> SUFFICES ASSUME TypeInv, cl.at = "write"
    PROVE  cKeys = FlattenSeq(cl.buf) \o (FlattenSeq(net.c_held) \o keyboard)
  OBVIOUS
<1> PICK at, buf, held, queue : /\ at = cl.at /\ buf = cl.buf /\ held = net.c_held
                                 /\ queue = keyboard
  OBVIOUS
<1>1. held \in Seq(Seq(KeyBytes)) /\ queue \in Seq(KeyBytes)
  BY DEF TypeInv, NetType, Room, PipesType, KeyUnits, KeyQueue, OutputUnits, OutputQueue
<1>2. "write" \notin {"send", "deflating"}
  OBVIOUS
<1>3. Pending("write", buf, {"send", "deflating"}, held, queue) =
        FlattenSeq(buf) \o (FlattenSeq(held) \o queue)
  BY ONLY <1>1, <1>2, PendingWrite
<1> QED BY <1>3 DEF cKeys

LEMMA cKeysWriteNext ==
  (TypeInv /\ cl.at = "write")'
    => (cKeys = FlattenSeq(cl.buf) \o (FlattenSeq(net.c_held) \o keyboard))'
BY cKeysWrite, PTL

LEMMA cOutputElse ==
  TypeInv /\ cl.at \notin {"inflating"} => cOutput = FlattenSeq(net.s2c)
<1> SUFFICES ASSUME TypeInv, cl.at \notin {"inflating"} PROVE cOutput = FlattenSeq(net.s2c)
  OBVIOUS
<1> PICK at, buf, units : at = cl.at /\ buf = cl.buf /\ units = net.s2c
  OBVIOUS
<1>1. units \in Seq(Seq(OutputBytes))
  BY DEF TypeInv, NetType, Room, PipesType, KeyUnits, KeyQueue, OutputUnits, OutputQueue
<1>2. at \notin {"inflating"}
  OBVIOUS
<1>3. Incoming(at, buf, {"inflating"}, units) = FlattenSeq(units)
  BY ONLY <1>1, <1>2, IncomingElse
<1> QED BY <1>3 DEF cOutput

LEMMA cOutputElseNext ==
  (TypeInv /\ cl.at \notin {"inflating"})' => (cOutput = FlattenSeq(net.s2c))'
BY cOutputElse, PTL

LEMMA cOutputHere ==
  cl.at \in {"inflating"} => cOutput = cl.buf \o FlattenSeq(net.s2c)
BY DEF cOutput, Incoming, Buffered

LEMMA cOutputHereNext ==
  (cl.at \in {"inflating"})' => (cOutput = cl.buf \o FlattenSeq(net.s2c))'
BY cOutputHere, PTL

LEMMA sOutputElse ==
  TypeInv /\ sv.at \notin {"write", "toSocket", "deflating"}
    => sOutput = FlattenSeq(net.s_held) \o pipes.shell_out
<1> SUFFICES ASSUME TypeInv, sv.at \notin {"write", "toSocket", "deflating"}
    PROVE  sOutput = FlattenSeq(net.s_held) \o pipes.shell_out
  OBVIOUS
<1> PICK at, buf, held, queue : /\ at = sv.at /\ buf = sv.buf /\ held = net.s_held
                                 /\ queue = pipes.shell_out
  OBVIOUS
<1>1. held \in Seq(Seq(OutputBytes)) /\ queue \in Seq(OutputBytes)
  BY DEF TypeInv, NetType, Room, PipesType, KeyUnits, KeyQueue, OutputUnits, OutputQueue
<1>2. at \notin {"toSocket", "deflating"} /\ at # "write"
  OBVIOUS
<1>3. Pending(at, buf, {"toSocket", "deflating"}, held, queue) = FlattenSeq(held) \o queue
  BY ONLY <1>1, <1>2, PendingElse
<1> QED BY <1>3 DEF sOutput

LEMMA sOutputElseNext ==
  (TypeInv /\ sv.at \notin {"write", "toSocket", "deflating"})'
    => (sOutput = FlattenSeq(net.s_held) \o pipes.shell_out)'
BY sOutputElse, PTL

LEMMA sOutputHere ==
  TypeInv /\ sv.at \in {"toSocket", "deflating"}
    => sOutput = FlattenSeq(net.s_held) \o (sv.buf \o pipes.shell_out)
<1> SUFFICES ASSUME TypeInv, sv.at \in {"toSocket", "deflating"}
    PROVE  sOutput = FlattenSeq(net.s_held) \o (sv.buf \o pipes.shell_out)
  OBVIOUS
<1> PICK at, buf, held, queue : /\ at = sv.at /\ buf = sv.buf /\ held = net.s_held
                                 /\ queue = pipes.shell_out
  OBVIOUS
<1>1. buf \in Seq(OutputBytes) /\ held \in Seq(Seq(OutputBytes)) /\ queue \in Seq(OutputBytes)
  BY DEF TypeInv, NetType, Room, PipesType, KeyUnits, KeyQueue, OutputUnits, OutputQueue, ServerType,
         ServerBuffer
<1> PICK steps : steps = {"toSocket", "deflating"}
  OBVIOUS
<1>2. at \in steps /\ at # "write"
  OBVIOUS
<1>3. Pending(at, buf, steps, held, queue) = FlattenSeq(held) \o (buf \o queue)
  BY ONLY <1>1, <1>2, PendingHere
<1> QED BY <1>3 DEF sOutput

LEMMA sOutputHereNext ==
  (TypeInv /\ sv.at \in {"toSocket", "deflating"})'
    => (sOutput = FlattenSeq(net.s_held) \o (sv.buf \o pipes.shell_out))'
BY sOutputHere, PTL

LEMMA sOutputWrite ==
  TypeInv /\ sv.at = "write"
    => sOutput = FlattenSeq(sv.buf) \o (FlattenSeq(net.s_held) \o pipes.shell_out)
<1> SUFFICES ASSUME TypeInv, sv.at = "write"
    PROVE  sOutput = FlattenSeq(sv.buf) \o (FlattenSeq(net.s_held) \o pipes.shell_out)
  OBVIOUS
<1> PICK at, buf, held, queue : /\ at = sv.at /\ buf = sv.buf /\ held = net.s_held
                                 /\ queue = pipes.shell_out
  OBVIOUS
<1>1. held \in Seq(Seq(OutputBytes)) /\ queue \in Seq(OutputBytes)
  BY DEF TypeInv, NetType, Room, PipesType, KeyUnits, KeyQueue, OutputUnits, OutputQueue
<1>2. "write" \notin {"toSocket", "deflating"}
  OBVIOUS
<1>3. Pending("write", buf, {"toSocket", "deflating"}, held, queue) =
        FlattenSeq(buf) \o (FlattenSeq(held) \o queue)
  BY ONLY <1>1, <1>2, PendingWrite
<1> QED BY <1>3 DEF sOutput

LEMMA sOutputWriteNext ==
  (TypeInv /\ sv.at = "write")'
    => (sOutput = FlattenSeq(sv.buf) \o (FlattenSeq(net.s_held) \o pipes.shell_out))'
BY sOutputWrite, PTL

LEMMA sKeysElse ==
  TypeInv /\ sv.at \notin {"toShell", "inflating"} => sKeys = FlattenSeq(net.c2s)
<1> SUFFICES ASSUME TypeInv, sv.at \notin {"toShell", "inflating"} PROVE sKeys = FlattenSeq(net.c2s)
  OBVIOUS
<1> PICK at, buf, units : at = sv.at /\ buf = sv.buf /\ units = net.c2s
  OBVIOUS
<1>1. units \in Seq(Seq(KeyBytes))
  BY DEF TypeInv, NetType, Room, PipesType, KeyUnits, KeyQueue, OutputUnits, OutputQueue
<1>2. at \notin {"toShell", "inflating"}
  OBVIOUS
<1>3. Incoming(at, buf, {"toShell", "inflating"}, units) = FlattenSeq(units)
  BY ONLY <1>1, <1>2, IncomingElse
<1> QED BY <1>3 DEF sKeys

LEMMA sKeysElseNext ==
  (TypeInv /\ sv.at \notin {"toShell", "inflating"})' => (sKeys = FlattenSeq(net.c2s))'
BY sKeysElse, PTL

LEMMA sKeysHere ==
  sv.at \in {"toShell", "inflating"} => sKeys = sv.buf \o FlattenSeq(net.c2s)
BY DEF sKeys, Incoming, Buffered

LEMMA sKeysHereNext ==
  (sv.at \in {"toShell", "inflating"})' => (sKeys = sv.buf \o FlattenSeq(net.c2s))'
BY sKeysHere, PTL

(* What a program has is its own.                                          *)
LEMMA ServerFrame ==
  ASSUME sv' = sv
  PROVE  /\ net'.c2s = net.c2s => sKeys' = sKeys
         /\ pipes'.shell_out = pipes.shell_out /\ net'.s_held = net.s_held => sOutput' = sOutput
         /\ ServerRuns' <=> ServerRuns
BY DEF sKeys, sOutput, ServerRuns

LEMMA ClientFrame ==
  ASSUME cl' = cl
  PROVE  /\ keyboard' = keyboard /\ net'.c_held = net.c_held => cKeys' = cKeys
         /\ net'.s2c = net.s2c => cOutput' = cOutput
         /\ ClientRuns' <=> ClientRuns
BY DEF cKeys, cOutput, ClientRuns, ClientGone

(* Units that are sent are added to it.                                    *)
LEMMA UnitsToServer ==
  ASSUME TypeInv, sv' = sv, NEW more \in KeyUnits, net'.c2s = net.c2s \o more
  PROVE  sKeys' = sKeys \o FlattenSeq(more)
<1> PICK at, buf, units : at = sv.at /\ buf = sv.buf /\ units = net.c2s
  OBVIOUS
<1>1. /\ units \in Seq(Seq(KeyBytes)) /\ more \in Seq(Seq(KeyBytes))
      /\ Buffered(at, buf, {"toShell", "inflating"}) \in Seq(KeyBytes)
  BY ServerPlaces DEF TypeInv, NetType, Room, KeyUnits, KeyQueue
<1>2. Incoming(at, buf, {"toShell", "inflating"}, units \o more) =
        Incoming(at, buf, {"toShell", "inflating"}, units) \o FlattenSeq(more)
  BY ONLY <1>1, IncomingGrows
<1> QED BY <1>2 DEF sKeys

LEMMA UnitsToClient ==
  ASSUME TypeInv, cl' = cl, NEW more \in OutputUnits, net'.s2c = net.s2c \o more
  PROVE  cOutput' = cOutput \o FlattenSeq(more)
<1> PICK at, buf, units : at = cl.at /\ buf = cl.buf /\ units = net.s2c
  OBVIOUS
<1>1. /\ units \in Seq(Seq(OutputBytes)) /\ more \in Seq(Seq(OutputBytes))
      /\ Buffered(at, buf, {"inflating"}) \in Seq(OutputBytes)
  BY ClientPlaces DEF TypeInv, NetType, Room, OutputUnits, OutputQueue
<1>2. Incoming(at, buf, {"inflating"}, units \o more) =
        Incoming(at, buf, {"inflating"}, units) \o FlattenSeq(more)
  BY ONLY <1>1, IncomingGrows
<1> QED BY <1>2 DEF cOutput

-----------------------------------------------------------------------------
(* The rest of the invariant.                                              *)

ControlInv ==
  /\ ServerGone => shell = "reaped"
  /\ net.c_err # "none" => ServerGone
  /\ net.s_err # "none" => ClientGone
  /\ ServerRuns => pipes.in_open
  /\ cl.at = "exited" => terminal = "default_mode"
  /\ cl.at = "sigpipe" => ServerGone
  /\ cl.at = "readKeyboard" => keyboard # <<>>
  /\ cl.at = "readSocket" => "keyboard" \notin cl.polled

(* What only one setting of --compress does.                               *)
ModeInv ==
  /\ compress_flag => cl.at # "send" /\ sv.at # "toSocket"
  /\ ~compress_flag =>
       /\ cl.at \notin {"write", "deflating", "inflating"}
       /\ sv.at \notin {"write", "deflating", "inflating"}
       /\ net.c_held = <<>> /\ net.s_held = <<>>
       /\ net.c2s \in Seq(Singles(KeyBytes))

(* The first write for a server that is gone has lost a key, and the next  *)
(* one, which raises SIGPIPE, another.                                     *)
Unsent == IF cl.at = "write" THEN 1 ELSE IF cl.at = "send" THEN Len(cl.buf) ELSE 0

CountInv ==
  /\ cl.at = "write" => Len(FlattenSeq(cl.buf)) + Len(FlattenSeq(net.c_held)) >= 1
  /\ net.c_err = "EPIPE" /\ ClientRuns =>
       Len(hist.typed) >= Len(hist.consumed) + Len(keyboard) + Unsent + 1
  /\ cl.at = "sigpipe" => Len(hist.typed) >= Len(hist.consumed) + 2

IInv == TypeInv /\ ControlInv /\ ModeInv /\ InputInv /\ OutputInv /\ CountInv

(* What the client has was typed, and not consumed.                        *)
LEMMA Unread ==
  ASSUME TypeInv, InputInv, ClientRuns
  PROVE  Len(hist.typed) >= Len(hist.consumed) + Len(cKeys)
<1> PICK past \in KeyQueue, mid \in KeyQueue, rest \in KeyQueue : InputSplit(past, mid, rest)
  BY DEF InputInv
<1> PICK consumed, shell_in, plain : consumed = hist.consumed /\ shell_in = pipes.shell_in
                                     /\ plain = Plain(past)
  OBVIOUS
<1>1. rest = cKeys /\ hist.typed = past \o (mid \o rest) /\ consumed \o shell_in = plain
  BY DEF InputSplit, Reached
<1>2. consumed \in KeyQueue /\ shell_in \in KeyQueue
  BY HistFields
<1>3. /\ Len(past) \in Nat /\ Len(mid) \in Nat /\ Len(rest) \in Nat
      /\ Len(consumed) \in Nat /\ Len(shell_in) \in Nat /\ Len(plain) <= Len(past)
  BY <1>2, PlainType, LenProperties DEF KeyQueue
<1>4. \A p, q \in KeyQueue : p \o q \in KeyQueue /\ Len(p \o q) = Len(p) + Len(q)
  BY ConcatProperties DEF KeyQueue
<1>5. Len(hist.typed) = Len(past) + (Len(mid) + Len(rest))
  <2>1. mid \o rest \in KeyQueue /\ Len(mid \o rest) = Len(mid) + Len(rest)
    BY <1>4
  <2>2. Len(past \o (mid \o rest)) = Len(past) + Len(mid \o rest)
    BY <1>4, <2>1
  <2> QED BY <1>1, <2>1, <2>2
<1>6. Len(plain) = Len(consumed) + Len(shell_in)
  BY <1>1, <1>2, <1>4
<1>7. rest = cKeys /\ consumed = hist.consumed
  BY <1>1
<1> QED BY ONLY <1>3, <1>5, <1>6, <1>7

-----------------------------------------------------------------------------
(* The client.                                                             *)

(* An empty buffer has every type.                                         *)
LEMMA EmptyBuffers ==
  ASSUME NEW at
  PROVE  <<>> \in Buffers /\ ClientBuffer(at, <<>>) /\ ServerBuffer(at, <<>>)
<1> PICK none : none = <<>>
  OBVIOUS
<1>1. none \in KeyQueue /\ none \in KeyUnits /\ none \in OutputQueue /\ none \in OutputUnits
  BY EmptySeq DEF KeyQueue, KeyUnits, OutputQueue, OutputUnits
<1>2. Len(none) <= BufSize /\ Len(none) <= OutSize
  BY SessionAssumption, EmptySeq
<1> QED BY <1>1, <1>2 DEF Buffers, ClientBuffer, ServerBuffer

LEMMA ClientGoes ==
  ASSUME NEW polled \in SUBSET ClientEvents, ClientGoesOn(polled)
  PROVE  /\ ClientType'
         /\ cl'.at \in {"poll", "readKeyboard", "readSocket", "exit"}
         /\ cl'.at = "readKeyboard" => "keyboard" \in polled
         /\ cl'.at = "readSocket" => "keyboard" \notin cl'.polled
<1> PICK at, none, p : /\ at = ClientAt(polled) /\ none = <<>>
                       /\ p = IF ClientAt(polled) = "poll" THEN {} ELSE polled
  OBVIOUS
<1>2. /\ at \in {"poll", "readKeyboard", "readSocket", "exit"}
      /\ at = "readKeyboard" => "keyboard" \in polled
      /\ at = "readSocket" => "keyboard" \notin polled
  BY DEF ClientAt
<1>3. cl' = [at |-> at, buf |-> none, polled |-> p] /\ p \in SUBSET ClientEvents
  BY DEF ClientGoesOn
<1>4. cl'.at = at /\ cl'.buf = none /\ cl'.polled = p
  BY <1>3
<1>5. at \in ClientSteps /\ none \in Buffers /\ ClientBuffer(at, none)
  BY <1>2, EmptyBuffers DEF ClientSteps, ClientBuffer
<1>6. ClientType'
  BY <1>3, <1>4, <1>5 DEF ClientType
<1>7. at = "readSocket" => p = polled
  OBVIOUS
<1> QED BY <1>2, <1>4, <1>6, <1>7

(* The client goes to a step at which it has nothing in its buffer.        *)
LEMMA ClientLeaves ==
  ASSUME NEW at \in ClientSteps, cl' = [Looping EXCEPT !.at = at]
  PROVE  ClientType' /\ cl'.at = at /\ cl'.polled = {}
<1>1. cl' = [at |-> at, buf |-> <<>>, polled |-> {}]
  BY DEF Looping
<1>2. <<>> \in Buffers /\ ClientBuffer(at, <<>>)
  BY EmptyBuffers DEF ClientBuffer
<1>3. cl'.at = at /\ cl'.buf = <<>> /\ cl'.polled = {}
  BY <1>1
<1> QED BY <1>1, <1>2, <1>3 DEF ClientType

(* The client goes on with something in its buffer.                        *)
LEMMA ClientTakes ==
  ASSUME ClientType, NEW at \in ClientSteps, NEW buf \in Buffers, ClientBuffer(at, buf),
         cl' = [cl EXCEPT !.at = at, !.buf = buf]
  PROVE  ClientType' /\ cl'.at = at /\ cl'.buf = buf /\ cl'.polled = cl.polled
<1> PICK polled : polled = cl.polled
  OBVIOUS
<1>1. cl' = [at |-> at, buf |-> buf, polled |-> polled] /\ polled \in SUBSET ClientEvents
  BY DEF ClientType
<1>2. cl'.at = at /\ cl'.buf = buf /\ cl'.polled = polled
  BY <1>1
<1>3. cl' \in [at : ClientSteps, buf : Buffers, polled : SUBSET ClientEvents]
  BY <1>1
<1>4. ClientBuffer(cl'.at, cl'.buf)
  BY <1>2
<1> QED BY <1>2, <1>3, <1>4 DEF ClientType

(* The first of a queue that is not empty.                                 *)
LEMMA ReadSome ==
  ASSUME NEW T, NEW q \in Seq(T), q # <<>>
  PROVE  Len(ReadOf(q)) \in Nat /\ Len(ReadOf(q)) >= 1 /\ Len(RestOf(q)) \in Nat
         /\ Len(q) = Len(ReadOf(q)) + Len(RestOf(q))
<1> PICK now, later : now = ReadOf(q) /\ later = RestOf(q)
  OBVIOUS
<1>1. now \in Seq(T) /\ later \in Seq(T) /\ now \o later = q
  BY ReadOfQueue
<1>2. Len(now) \in Nat /\ Len(later) \in Nat
  BY <1>1, LenProperties
<1>3. Len(q) = Len(now) + Len(later)
  <2>1. \A a, b \in Seq(T) : Len(a \o b) = Len(a) + Len(b)
    BY ConcatProperties
  <2> QED BY <1>1, <2>1, Zenon
<1>4. BufSize \in Nat /\ BufSize >= 1 /\ Len(q) \in Nat /\ Len(q) >= 1
  BY SessionAssumption, EmptySeq
<1>5. Len(now) >= 1
  <2>1. Shorter(BufSize, Len(q)) \in Nat /\ Shorter(BufSize, Len(q)) >= 1
        /\ Shorter(BufSize, Len(q)) <= Len(q)
    BY <1>4 DEF Shorter
  <2>2. Len(SubSeq(q, 1, Shorter(BufSize, Len(q)))) = Shorter(BufSize, Len(q))
    BY <2>1, FirstOfQueue
  <2> QED BY <2>1, <2>2 DEF ReadOf
<1> QED BY <1>2, <1>3, <1>5

LEMMA ClientPollIInv ==
  ASSUME IInv, ClientPoll, UNCHANGED compress_flag
  PROVE  IInv'
<1> DEFINE polled == {e \in {"keyboard", "socket", "hup"} :
                        \/ e = "keyboard" /\ keyboard # <<>>
                        \/ e = "socket" /\ (net.s2c # <<>> \/ ServerGone)
                        \/ e = "hup" /\ net.c_err # "none"}
<1>1. /\ cl.at = "poll" /\ ClientGoesOn(polled)
      /\ UNCHANGED <<keyboard, terminal, net, sv, pipes, shell, hist, compress_flag>>
  BY DEF ClientPoll
<1>2. polled \in SUBSET ClientEvents
  BY DEF ClientEvents
<1>3. "keyboard" \in polled => keyboard # <<>>
  OBVIOUS
<1> HIDE DEF polled
<1>4. /\ ClientType'
      /\ cl'.at \in {"poll", "readKeyboard", "readSocket", "exit"}
      /\ cl'.at = "readKeyboard" => "keyboard" \in polled
      /\ cl'.at = "readSocket" => "keyboard" \notin cl'.polled
  BY <1>1, <1>2, ClientGoes
<1>5. TypeInv'
  BY <1>1, <1>4 DEF IInv, TypeInv, NetType, Room, ServerType, PipesType, HistType
<1>6. ControlInv'
  BY <1>1, <1>3, <1>4 DEF IInv, ControlInv, ServerGone, ClientGone, ServerRuns
<1>7. ModeInv'
  BY <1>1, <1>4 DEF IInv, ModeInv
<1>8. cKeys' = cKeys /\ cOutput' = cOutput
  <2>1. cKeys = FlattenSeq(net.c_held) \o keyboard /\ cOutput = FlattenSeq(net.s2c)
    BY <1>1, cKeysElse, cOutputElse DEF IInv
  <2>2. cKeys' = FlattenSeq(net.c_held)' \o keyboard' /\ cOutput' = FlattenSeq(net.s2c)'
    BY <1>4, <1>5, cKeysElseNext, cOutputElseNext
  <2>3. net' = net /\ keyboard' = keyboard
    BY <1>1
  <2> QED BY <2>1, <2>2, <2>3
<1>9. sKeys' = sKeys /\ sOutput' = sOutput /\ (ServerRuns' <=> ServerRuns)
  BY <1>1, ServerFrame
<1>10. ClientRuns
  BY <1>1 DEF ClientRuns, ClientGone
<1>11. InputInv'
  <2>1. hist'.typed = hist.typed /\ Reached' = Reached /\ (EofTyped' => EofTyped)
    BY <1>1 DEF EofTyped, Reached
  <2> QED BY <1>5, <1>8, <1>9, <1>10, <2>1, InputStays DEF IInv
<1>12. OutputInv'
  BY <1>1, <1>5, <1>8, <1>9, <1>10, OutputStays DEF IInv
<1>13. CountInv'
  BY <1>1, <1>4, <1>10 DEF IInv, CountInv, Unsent, ClientRuns
<1> QED BY <1>5, <1>6, <1>7, <1>11, <1>12, <1>13 DEF IInv

LEMMA ClientReadKeyboardIInv ==
  ASSUME IInv, ClientReadKeyboard, UNCHANGED compress_flag
  PROVE  IInv'
<1> PICK now, later, held : now = ReadOf(keyboard) /\ later = RestOf(keyboard) /\ held = net.c_held
  OBVIOUS
<1>1. /\ cl.at = "readKeyboard" /\ keyboard' = later /\ keyboard # <<>>
      /\ UNCHANGED <<terminal, sv, pipes, shell, hist, compress_flag>>
  BY DEF ClientReadKeyboard, IInv, ControlInv
<1>2. /\ now \in KeyQueue /\ later \in KeyQueue /\ now \o later = keyboard
      /\ Len(now) <= BufSize /\ held \in KeyUnits /\ keyboard \in KeyQueue
  BY ReadOfQueue DEF IInv, TypeInv, NetType, Room, KeyQueue
<1>3. Len(now) \in Nat /\ Len(now) >= 1 /\ Len(later) \in Nat /\ Len(keyboard) = Len(now) + Len(later)
  BY <1>1, <1>2, ReadSome DEF KeyQueue
(* Where it puts them.                                                     *)
<1>4. PICK at \in {"send", "write", "deflating"}, buf \in Buffers, kept \in KeyUnits :
        /\ cl' = [cl EXCEPT !.at = at, !.buf = buf] /\ ClientBuffer(at, buf)
        /\ net' = [net EXCEPT !.c_held = kept]
        /\ Pending(at, buf, {"send", "deflating"}, kept, later) = FlattenSeq(held) \o keyboard
        /\ at = "write" => Len(FlattenSeq(buf)) + Len(FlattenSeq(kept)) >= 1
        /\ at = "send" => ~compress_flag /\ kept = held /\ buf = now
        /\ at # "send" => compress_flag
  <2>1. CASE ~compress_flag
    <3>1. cl' = [cl EXCEPT !.at = "send", !.buf = now] /\ net' = net
      BY <2>1 DEF ClientReadKeyboard
    <3>2. net = [net EXCEPT !.c_held = held]
      BY DEF IInv, TypeInv, NetType, Room
    <3>3. Pending("send", now, {"send", "deflating"}, held, later) = FlattenSeq(held) \o keyboard
      <4> PICK at, steps : at = "send" /\ steps = {"send", "deflating"}
        OBVIOUS
      <4>1. /\ at \in steps /\ at # "write" /\ held \in Seq(Seq(KeyBytes))
            /\ now \in Seq(KeyBytes) /\ later \in Seq(KeyBytes)
        BY <1>2 DEF KeyUnits, KeyQueue
      <4>2. Pending(at, now, steps, held, later) = FlattenSeq(held) \o (now \o later)
        BY ONLY <4>1, PendingHere
      <4> QED BY <1>2, <4>2
    <3>4. ClientBuffer("send", now) /\ now \in Buffers
      BY <1>2 DEF ClientBuffer, Buffers
    <3> QED BY <1>2, <2>1, <3>1, <3>2, <3>3, <3>4
  <2>2. CASE compress_flag
    <3>1. PICK d \in Deflated(held, now) :
            /\ cl' = [cl EXCEPT !.at = d.at, !.buf = d.buf]
            /\ net' = [net EXCEPT !.c_held = d.kept]
      BY <2>2 DEF ClientReadKeyboard
    <3>2. /\ DeflatedType(KeyBytes, d)
          /\ Pending(d.at, d.buf, {"send", "deflating"}, d.kept, later)
               = FlattenSeq(held) \o keyboard
          /\ d.at = "write" => FlattenSeq(d.buf) \o FlattenSeq(d.kept) = FlattenSeq(held) \o now
      <4> PICK steps, queue : steps = {"send", "deflating"} /\ queue = keyboard
        OBVIOUS
      <4>1. /\ "write" \notin steps /\ "deflating" \in steps /\ held \in Seq(Seq(KeyBytes))
            /\ queue \in Seq(KeyBytes) /\ d \in Deflated(held, ReadOf(queue))
        BY <1>2 DEF KeyUnits, KeyQueue
      <4>2. /\ DeflatedType(KeyBytes, d)
            /\ Pending(d.at, d.buf, steps, d.kept, RestOf(queue)) = FlattenSeq(held) \o queue
            /\ d.at = "write" =>
                 FlattenSeq(d.buf) \o FlattenSeq(d.kept) = FlattenSeq(held) \o ReadOf(queue)
        BY ONLY <4>1, DeflatedBytes
      <4> QED BY <4>2
    <3>3. d.at \in {"write", "deflating"} /\ d.buf \in Buffers /\ d.kept \in KeyUnits
          /\ ClientBuffer(d.at, d.buf)
      BY <3>2 DEF DeflatedType, ClientBuffer, Buffers, KeyUnits, KeyQueue
    <3>4. ASSUME d.at = "write" PROVE Len(FlattenSeq(d.buf)) + Len(FlattenSeq(d.kept)) >= 1
      <4> PICK fb, fk, fh : fb = FlattenSeq(d.buf) /\ fk = FlattenSeq(d.kept) /\ fh = FlattenSeq(held)
        OBVIOUS
      <4>1. fb \in KeyQueue /\ fk \in KeyQueue /\ fh \in KeyQueue
        BY <1>2, <3>2, <3>4, FlattenType DEF DeflatedType, KeyUnits, KeyQueue
      <4>2. \A a, b \in KeyQueue : Len(a \o b) = Len(a) + Len(b)
        BY ConcatProperties DEF KeyQueue
      <4>3. fb \o fk = fh \o now /\ now \in KeyQueue
        BY <1>2, <3>2, <3>4
      <4>5. Len(fb) + Len(fk) = Len(fh) + Len(now)
        BY ONLY <4>1, <4>2, <4>3, Zenon
      <4>4. Len(fb) \in Nat /\ Len(fk) \in Nat /\ Len(fh) \in Nat
        BY <4>1, LenProperties DEF KeyQueue
      <4> QED BY <1>3, <4>4, <4>5
    <3> QED BY <2>2, <3>1, <3>2, <3>3, <3>4
  <2> QED BY <2>1, <2>2
<1>5. /\ ClientType' /\ cl'.at = at /\ cl'.buf = buf
      /\ at \in ClientSteps
  <2>1. at \in ClientSteps
    BY DEF ClientSteps
  <2> QED BY <1>4, <2>1, ClientTakes DEF IInv, TypeInv
<1>6. /\ net'.c2s = net.c2s /\ net'.s2c = net.s2c /\ net'.s_held = net.s_held
      /\ net'.c_err = net.c_err /\ net'.s_err = net.s_err /\ net'.c_held = kept
      /\ net' \in [c2s : KeyUnits, s2c : OutputUnits, c_held : KeyUnits, s_held : OutputUnits,
                   c_err : Errors, s_err : Errors]
  BY <1>4 DEF IInv, TypeInv, NetType, Room
<1>7. TypeInv'
  BY <1>1, <1>2, <1>5, <1>6 DEF IInv, TypeInv, NetType, Room, ServerType, PipesType, HistType
<1>8. ControlInv'
  BY <1>1, <1>4, <1>5, <1>6 DEF IInv, ControlInv, ServerGone, ClientGone, ServerRuns
<1>9. ModeInv'
  BY <1>1, <1>4, <1>5, <1>6 DEF IInv, ModeInv
<1>10. cKeys' = cKeys /\ cOutput' = cOutput
  <2>1. cKeys = FlattenSeq(net.c_held) \o keyboard /\ cOutput = FlattenSeq(net.s2c)
    BY <1>1, cKeysElse, cOutputElse DEF IInv
  <2>2. cKeys' = Pending(at, buf, {"send", "deflating"}, kept, later)
    BY <1>1, <1>5, <1>6 DEF cKeys
  <2>3. cOutput' = FlattenSeq(net.s2c)'
    BY <1>4, <1>5, <1>7, cOutputElseNext
  <2> QED BY <1>4, <1>6, <2>1, <2>2, <2>3
<1>11. sKeys' = sKeys /\ sOutput' = sOutput /\ (ServerRuns' <=> ServerRuns)
  BY <1>1, <1>6, ServerFrame
<1>12. ClientRuns
  BY <1>1 DEF ClientRuns, ClientGone
<1>13. InputInv'
  <2>1. hist'.typed = hist.typed /\ Reached' = Reached /\ (EofTyped' => EofTyped)
    BY <1>1 DEF EofTyped, Reached
  <2> QED BY <1>7, <1>10, <1>11, <1>12, <2>1, InputStays DEF IInv
<1>14. OutputInv'
  BY <1>1, <1>7, <1>10, <1>11, <1>12, OutputStays DEF IInv
<1>15. CountInv'
  <2>1. net.c_err = "EPIPE" => Len(hist.typed) >= Len(hist.consumed) + Len(keyboard) + 1
    BY <1>1, <1>12 DEF IInv, CountInv, Unsent
  <2>2. /\ Unsent' = IF at = "write" THEN 1 ELSE IF at = "send" THEN Len(buf) ELSE 0
        /\ hist' = hist /\ keyboard' = later
    BY <1>1, <1>5 DEF Unsent
  <2>3. Unsent' \in Nat /\ Unsent' <= Len(now)
    BY <1>3, <1>4, <2>2
  <2>4. Len(hist.typed) \in Nat /\ Len(hist.consumed) \in Nat
    BY HistFields, LenProperties DEF IInv, KeyQueue
  <2>5. net.c_err = "EPIPE" => Len(hist.typed) >= Len(hist.consumed) + Len(later) + Unsent' + 1
    <3> PICK t, c, k, n, l, u :
          /\ t = Len(hist.typed) /\ c = Len(hist.consumed) /\ k = Len(keyboard)
          /\ n = Len(now) /\ l = Len(later) /\ u = Unsent'
      OBVIOUS
    <3>1. t \in Nat /\ c \in Nat /\ n \in Nat /\ l \in Nat /\ u \in Nat /\ k = n + l /\ u <= n
      BY <1>3, <2>3, <2>4
    <3>2. t >= c + k + 1 => t >= c + l + u + 1
      BY ONLY <3>1
    <3> QED BY <2>1, <3>2
  <2> QED BY <1>4, <1>5, <1>6, <2>2, <2>5 DEF CountInv
<1> QED BY <1>7, <1>8, <1>9, <1>13, <1>14, <1>15 DEF IInv

(* What a client that sends has in its buffer comes first.                 *)
LEMMA ClientBuffered ==
  ASSUME TypeInv, ModeInv, cl.at \in {"send", "write"}
  PROVE  \E lost \in KeyQueue :
           /\ cKeys = lost \o (FlattenSeq(net.c_held) \o keyboard)
           /\ cl.at = "write" => lost = FlattenSeq(cl.buf)
           /\ cl.at = "send" => lost = cl.buf /\ FlattenSeq(net.c_held) = <<>>
<1>1. CASE cl.at = "write"
  <2>1. cKeys = FlattenSeq(cl.buf) \o (FlattenSeq(net.c_held) \o keyboard)
    BY <1>1, cKeysWrite
  <2>2. FlattenSeq(cl.buf) \in KeyQueue
    BY <1>1, FlattenType DEF TypeInv, ClientType, ClientBuffer, KeyUnits, KeyQueue
  <2> QED BY <1>1, <2>1, <2>2
<1>2. CASE cl.at = "send"
  <2>1. cKeys = FlattenSeq(net.c_held) \o (cl.buf \o keyboard)
    BY <1>2, cKeysHere
  <2>2. FlattenSeq(net.c_held) = <<>>
    BY <1>2, FlattenNone DEF ModeInv, TypeInv
  <2>3. cl.buf \in KeyQueue /\ keyboard \in KeyQueue
    BY <1>2 DEF TypeInv, ClientType, ClientBuffer
  <2>4. cl.buf \o keyboard \in KeyQueue
    BY <2>3, KeyConcat
  <2>5. <<>> \o keyboard = keyboard /\ <<>> \o (cl.buf \o keyboard) = cl.buf \o keyboard
    BY <2>3, <2>4, KeyEmpty
  <2>6. cKeys = cl.buf \o (FlattenSeq(net.c_held) \o keyboard)
    BY <2>1, <2>2, <2>5
  <2> QED BY <1>2, <2>2, <2>3, <2>6
<1> QED BY <1>1, <1>2

(* The length of it.                                                       *)
LEMMA ClientCounts ==
  ASSUME TypeInv, ModeInv, CountInv, cl.at \in {"send", "write"}
  PROVE  /\ Len(cKeys) >= Unsent + Len(keyboard)
         /\ Unsent \in Nat /\ Len(keyboard) \in Nat /\ Len(cKeys) \in Nat
         /\ Len(hist.typed) \in Nat /\ Len(hist.consumed) \in Nat
<1> PICK lost \in KeyQueue :
      /\ cKeys = lost \o (FlattenSeq(net.c_held) \o keyboard)
      /\ cl.at = "write" => lost = FlattenSeq(cl.buf)
      /\ cl.at = "send" => lost = cl.buf /\ FlattenSeq(net.c_held) = <<>>
  BY ClientBuffered
<1> PICK held, kb, keys : held = FlattenSeq(net.c_held) /\ kb = keyboard /\ keys = cKeys
  OBVIOUS
<1>1. held \in KeyQueue /\ kb \in KeyQueue
  BY FlattenType DEF TypeInv, NetType, Room, KeyUnits, KeyQueue
<1>2. \A a, b \in KeyQueue : a \o b \in KeyQueue /\ Len(a \o b) = Len(a) + Len(b)
  BY ConcatProperties DEF KeyQueue
<1>3. keys = lost \o (held \o kb) /\ lost \in KeyQueue
  OBVIOUS
<1>4. Len(keys) = Len(lost) + (Len(held) + Len(kb))
  <2>1. held \o kb \in KeyQueue /\ Len(held \o kb) = Len(held) + Len(kb)
    BY ONLY <1>1, <1>2
  <2>2. Len(lost \o (held \o kb)) = Len(lost) + Len(held \o kb)
    BY ONLY <1>2, <1>3, <2>1, Zenon
  <2> QED BY ONLY <1>3, <2>1, <2>2, Zenon
<1>5. Len(lost) \in Nat /\ Len(held) \in Nat /\ Len(kb) \in Nat
  BY <1>1, LenProperties DEF KeyQueue
<1>6. Len(lost) + Len(held) >= Unsent /\ Unsent \in Nat
  <2>1. CASE cl.at = "write"
    <3>1. Unsent = 1 /\ Len(lost) + Len(held) >= 1
      BY <2>1 DEF CountInv, Unsent
    <3> QED BY <3>1
  <2>2. CASE cl.at = "send"
    <3>1. Unsent = Len(lost)
      BY <2>2 DEF Unsent
    <3> QED BY <1>5, <3>1
  <2> QED BY <2>1, <2>2
<1>7. Len(hist.typed) \in Nat /\ Len(hist.consumed) \in Nat
  BY HistFields, LenProperties DEF KeyQueue
<1>8. Len(keys) >= Unsent + Len(kb) /\ Len(keys) \in Nat
  BY ONLY <1>4, <1>5, <1>6
<1> QED BY <1>5, <1>6, <1>7, <1>8

(* A client whose server is gone loses it.                                 *)
LEMMA ClientLoses ==
  ASSUME IInv, TypeInv', cl.at \in {"send", "write"}, ServerGone,
         cl'.at \notin {"send", "write", "deflating", "inflating", "exited", "killed"},
         UNCHANGED <<keyboard, sv, pipes, hist, compress_flag>>,
         net'.c_held = net.c_held, net'.s2c = net.s2c, net'.s_held = net.s_held
  PROVE  InputInv' /\ OutputInv'
<1>1. ~ServerRuns /\ ~ServerRuns' /\ ClientRuns
  BY DEF ServerGone, ServerRuns, ClientRuns, ClientGone
<1>2. cOutput = FlattenSeq(net.s2c) /\ cOutput' = FlattenSeq(net.s2c)'
  BY cOutputElse, cOutputElseNext DEF IInv
<1>3. cOutput' = cOutput
  BY <1>2
<1>4. OutputInv'
  BY <1>1, <1>3, OutputStays DEF IInv
<1>5. PICK lost \in KeyQueue : cKeys = lost \o (FlattenSeq(net.c_held) \o keyboard)
  BY ClientBuffered DEF IInv
<1>6. cKeys' = FlattenSeq(net.c_held) \o keyboard
  <2>1. cKeys' = FlattenSeq(net.c_held)' \o keyboard'
    BY cKeysElseNext
  <2> QED BY <2>1
<1>7. hist'.typed = hist.typed /\ Reached' = Reached /\ (EofTyped' => EofTyped)
  BY DEF Reached, EofTyped
<1>8. InputInv'
  <2>1. CASE ClientRuns'
    <3>1. ClientRuns' => ClientRuns /\ cKeys = lost \o cKeys'
      BY <1>1, <1>5, <1>6
    <3> QED BY <1>1, <1>7, <2>1, <3>1, InputSent DEF IInv
  <2>2. CASE ~ClientRuns'
    BY <1>1, <1>7, <2>2, InputStays DEF IInv
  <2> QED BY <2>1, <2>2
<1> QED BY <1>4, <1>8

LEMMA ClientFailsIInv ==
  ASSUME IInv, cl.at \in {"send", "write"}, cl.at = "send" => cl.buf # <<>>,
         net.c_err # "none", ClientFails,
         UNCHANGED <<keyboard, terminal, net, sv, pipes, shell, hist, compress_flag>>
  PROVE  IInv'
<1> PICK at : at = IF net.c_err = "EPIPE" THEN "sigpipe" ELSE "exit"
  OBVIOUS
<1>1. ServerGone /\ ServerGone' /\ at \in ClientSteps /\ at \in {"sigpipe", "exit"}
  BY DEF IInv, ControlInv, ServerGone, ClientSteps
<1>2. cl' = [Looping EXCEPT !.at = at]
  BY DEF ClientFails
<1>3. ClientType' /\ cl'.at = at
  BY <1>1, <1>2, ClientLeaves
<1>4. TypeInv'
  BY <1>3 DEF IInv, TypeInv, NetType, Room, ServerType, PipesType, HistType
<1>5. ControlInv'
  BY <1>1, <1>3 DEF IInv, ControlInv, ServerGone, ClientGone, ServerRuns
<1>6. ModeInv'
  BY <1>1, <1>3 DEF IInv, ModeInv
<1>7. InputInv' /\ OutputInv'
  BY <1>1, <1>3, <1>4, ClientLoses
<1>8. CountInv'
  <2>1. CASE at = "exit"
    BY <1>3, <2>1 DEF IInv, CountInv
  <2>2. CASE at = "sigpipe"
    <3>1. net.c_err = "EPIPE" /\ ClientRuns
      BY <2>2 DEF ClientRuns, ClientGone
    <3>2. Len(hist.typed) >= Len(hist.consumed) + Len(keyboard) + Unsent + 1
      BY <3>1 DEF IInv, CountInv
    <3>3. /\ Unsent \in Nat /\ Len(keyboard) \in Nat
          /\ Len(hist.typed) \in Nat /\ Len(hist.consumed) \in Nat
      BY ClientCounts DEF IInv
    <3>4. Unsent >= 1
      <4>1. cl.at = "send" => cl.buf \in Seq(KeyBytes)
        BY DEF IInv, TypeInv, ClientType, ClientBuffer, KeyQueue
      <4>2. cl.at = "send" => Len(cl.buf) \in Nat /\ Len(cl.buf) # 0
        BY <4>1, EmptySeq, LenProperties
      <4> QED BY <4>2 DEF Unsent
    <3>5. Len(hist.typed) >= Len(hist.consumed) + 2
      BY ONLY <3>2, <3>3, <3>4
    <3>6. ~ClientRuns' /\ cl'.at # "write" /\ hist' = hist
      BY <1>3, <2>2 DEF ClientRuns, ClientGone
    <3> QED BY <3>5, <3>6 DEF CountInv
  <2> QED BY <1>1, <2>1, <2>2
<1> QED BY <1>4, <1>5, <1>6, <1>7, <1>8 DEF IInv

(* The client takes the first key of its buffer.                           *)
LEMMA ClientByte ==
  ASSUME IInv, cl.at = "send", cl.buf # <<>>, cl' = [cl EXCEPT !.buf = Tail(@)],
         keyboard' = keyboard, net'.c_held = net.c_held, net'.s2c = net.s2c
  PROVE  /\ ClientType' /\ cl'.at = cl.at /\ cl'.polled = cl.polled
         /\ Head(cl.buf) \in KeyBytes /\ <<Head(cl.buf)>> \in KeyQueue
         /\ Len(cl'.buf) \in Nat /\ Len(cl.buf) = Len(cl'.buf) + 1
         /\ TypeInv' => cKeys = <<Head(cl.buf)>> \o cKeys' /\ cOutput' = cOutput
<1> PICK buf, rest, one, kb : buf = cl.buf /\ rest = Tail(cl.buf) /\ one = <<Head(cl.buf)>>
                              /\ kb = keyboard
  OBVIOUS
<1>1. ClientType /\ buf \in KeyQueue /\ Len(buf) <= BufSize /\ kb \in KeyQueue
  BY DEF IInv, TypeInv, ClientType, ClientBuffer
<1>2. /\ Head(buf) \in KeyBytes /\ rest \in KeyQueue /\ one \in KeyQueue /\ buf = one \o rest
      /\ Len(rest) \in Nat /\ Len(buf) = Len(rest) + 1
  BY <1>1, HeadTailProperties DEF KeyQueue
<1>3. rest \in Buffers /\ "send" \in ClientSteps /\ ClientBuffer("send", rest)
  BY <1>1, <1>2, SessionAssumption DEF Buffers, ClientSteps, ClientBuffer
<1>4. cl' = [cl EXCEPT !.at = "send", !.buf = rest]
  BY <1>1 DEF ClientType
<1>5. ClientType' /\ cl'.at = "send" /\ cl'.buf = rest /\ cl'.polled = cl.polled
  BY <1>1, <1>3, <1>4, ClientTakes
<1>6. ASSUME TypeInv' PROVE cKeys = one \o cKeys' /\ cOutput' = cOutput
  <2>1. cOutput = FlattenSeq(net.s2c) /\ cOutput' = FlattenSeq(net.s2c)'
    BY <1>5, <1>6, cOutputElse, cOutputElseNext DEF IInv
  <2>2. FlattenSeq(net.c_held) = <<>>
    BY FlattenNone DEF IInv, ModeInv, TypeInv
  <2>3. cKeys = FlattenSeq(net.c_held) \o (buf \o kb)
    BY cKeysHere DEF IInv
  <2>4. cKeys' = FlattenSeq(net.c_held)' \o (cl'.buf \o keyboard')
    BY <1>5, <1>6, cKeysHereNext
  <2>5. cKeys' = <<>> \o (rest \o kb)
    BY <1>5, <2>2, <2>4
  <2>6. buf \o kb \in KeyQueue /\ rest \o kb \in KeyQueue
    BY <1>1, <1>2, KeyConcat
  <2>7. cKeys = buf \o kb /\ cKeys' = rest \o kb
    BY <2>2, <2>3, <2>5, <2>6, KeyEmpty
  <2>8. one \in KeyQueue /\ rest \in KeyQueue /\ kb \in KeyQueue
    BY <1>1, <1>2
  <2>9. (one \o rest) \o kb = one \o (rest \o kb)
    BY ONLY <2>8, SMTT(30) DEF KeyQueue
  <2> QED BY <1>2, <2>1, <2>7, <2>9, Zenon
<1> QED BY <1>2, <1>5, <1>6

LEMMA ClientSendIInv ==
  ASSUME IInv, ClientSend, UNCHANGED compress_flag
  PROVE  IInv'
<1> PICK one : one = <<Head(cl.buf)>>
  OBVIOUS
<1>1. /\ cl.at = "send" /\ cl.buf # <<>>
      /\ UNCHANGED <<keyboard, terminal, sv, pipes, shell, hist, compress_flag>>
  BY DEF ClientSend
<1>2. CASE net.c_err # "none" /\ ClientFails /\ UNCHANGED net
  BY <1>1, <1>2, ClientFailsIInv
<1>3. CASE /\ \/ /\ ~ServerGone /\ Len(net.c2s) < Room
                 /\ net' = [net EXCEPT !.c2s = Append(@, <<Head(cl.buf)>>)]
              \/ /\ ServerGone /\ net.c_err = "none"
                 /\ net' = [net EXCEPT !.c_err = "EPIPE"]
           /\ cl' = [cl EXCEPT !.buf = Tail(@)]
  <2> PICK c2s : c2s = net.c2s
    OBVIOUS
  <2>1. /\ net'.c_held = net.c_held /\ net'.s2c = net.s2c /\ net'.s_held = net.s_held
        /\ net'.s_err = net.s_err
    BY <1>3 DEF IInv, TypeInv, NetType, Room
  <2>2. /\ ClientType' /\ cl'.at = cl.at /\ cl'.polled = cl.polled
        /\ Head(cl.buf) \in KeyBytes /\ one \in KeyQueue
        /\ Len(cl'.buf) \in Nat /\ Len(cl.buf) = Len(cl'.buf) + 1
        /\ TypeInv' => cKeys = one \o cKeys' /\ cOutput' = cOutput
    BY <1>1, <1>3, <2>1, ClientByte
  <2>3. c2s \in KeyUnits /\ Len(c2s) \in Nat /\ Append(c2s, one) \in KeyUnits
        /\ Len(Append(c2s, one)) = Len(c2s) + 1 /\ Append(c2s, one) = c2s \o <<one>>
        /\ <<one>> \in KeyUnits
    <3>1. c2s \in KeyUnits
      BY DEF IInv, TypeInv, NetType, Room
    <3> QED BY <2>2, <3>1, AppendProperties, AppendIsConcat, LenProperties DEF KeyUnits
  <2>4. /\ net' \in [c2s : KeyUnits, s2c : OutputUnits, c_held : KeyUnits, s_held : OutputUnits,
                     c_err : Errors, s_err : Errors]
        /\ \/ ServerGone /\ net'.c2s = c2s /\ net.c_err = "none" /\ net'.c_err = "EPIPE"
           \/ /\ ~ServerGone /\ net'.c2s = Append(c2s, one) /\ net'.c_err = net.c_err
              /\ Len(c2s) < Room
    <3>1. CASE ServerGone /\ net.c_err = "none" /\ net' = [net EXCEPT !.c_err = "EPIPE"]
      BY <3>1 DEF IInv, TypeInv, NetType, Room, Errors
    <3>2. CASE /\ ~ServerGone /\ Len(net.c2s) < Room
               /\ net' = [net EXCEPT !.c2s = Append(@, <<Head(cl.buf)>>)]
      BY <2>3, <3>2 DEF IInv, TypeInv, NetType, Room
    <3> QED BY <1>3, <3>1, <3>2
  <2>5. Len(net'.c2s) <= Room /\ Len(net'.s2c) <= Room
    <3>1. Len(c2s) <= Room /\ Room \in Nat /\ Len(net.s2c) <= Room
      BY SessionAssumption DEF Room, IInv, TypeInv, NetType, Room
    <3> QED BY <2>1, <2>3, <2>4, <3>1
  <2>6. TypeInv'
    BY <1>1, <2>2, <2>4, <2>5 DEF IInv, TypeInv, NetType, Room, ServerType, PipesType, HistType
  <2>7. ControlInv'
    BY <1>1, <2>1, <2>2, <2>4 DEF IInv, ControlInv, ServerGone, ClientGone, ServerRuns
  <2>8. ModeInv'
    <3>1. ~compress_flag => net'.c2s \in Seq(Singles(KeyBytes))
      <4>1. one \in Singles(KeyBytes)
        BY <2>2 DEF Singles
      <4>2. ~compress_flag => c2s \in Seq(Singles(KeyBytes))
        BY DEF IInv, ModeInv
      <4>3. ~compress_flag => Append(c2s, one) \in Seq(Singles(KeyBytes))
        BY <4>1, <4>2, AppendProperties
      <4> QED BY <2>4, <4>2, <4>3
    <3> QED BY <1>1, <2>1, <2>2, <3>1 DEF IInv, ModeInv
  <2>9. ClientRuns /\ ClientRuns'
    BY <1>1, <2>2 DEF ClientRuns, ClientGone
  <2>10. sOutput' = sOutput /\ (ServerRuns' <=> ServerRuns)
    BY <1>1, <2>1, ServerFrame
  <2>11. ServerRuns' => sKeys' = sKeys \o one
    <3>1. ASSUME net'.c2s = Append(c2s, one) PROVE sKeys' = sKeys \o one
      <4>1. net'.c2s = net.c2s \o <<one>>
        BY <2>3, <3>1
      <4>2. sKeys' = sKeys \o FlattenSeq(<<one>>)
        BY <1>1, <2>3, <4>1, UnitsToServer DEF IInv
      <4> QED BY <2>2, <4>2, FlattenOne DEF KeyQueue
    <3>2. ServerGone => ~ServerRuns
      BY DEF ServerGone, ServerRuns
    <3> QED BY <2>4, <2>10, <3>1, <3>2
  <2>12. InputInv'
    <3>1. hist'.typed = hist.typed /\ Reached' = Reached /\ (EofTyped' => EofTyped)
      BY <1>1 DEF Reached, EofTyped
    <3> QED BY <2>2, <2>6, <2>9, <2>10, <2>11, <3>1, InputSent DEF IInv
  <2>13. OutputInv'
    BY <1>1, <2>2, <2>6, <2>9, <2>10, OutputStays DEF IInv
  <2>14. CountInv'
    <3>1. ASSUME net'.c_err = "EPIPE" PROVE net.c_err = "none" /\ ServerGone
      BY <2>4, <3>1 DEF IInv, ControlInv
    <3>2. Len(hist.typed) >= Len(hist.consumed) + Len(cKeys)
      BY <2>9, Unread DEF IInv
    <3>3. /\ Len(cKeys) >= Unsent + Len(keyboard)
          /\ Unsent \in Nat /\ Len(keyboard) \in Nat /\ Len(cKeys) \in Nat
          /\ Len(hist.typed) \in Nat /\ Len(hist.consumed) \in Nat
      BY <1>1, ClientCounts DEF IInv
    <3>4. Unsent = Unsent' + 1 /\ Unsent' \in Nat
      BY <1>1, <2>2 DEF Unsent
    <3>5. Len(hist.typed) >= Len(hist.consumed) + Len(keyboard) + Unsent' + 1
      BY ONLY <3>2, <3>3, <3>4, SMTT(30)
    <3>6. cl'.at = "send" /\ hist' = hist /\ keyboard' = keyboard
      BY <1>1, <2>2
    <3> QED BY <3>5, <3>6 DEF CountInv
  <2> QED BY <2>6, <2>7, <2>8, <2>12, <2>13, <2>14 DEF IInv
<1> QED BY <1>2, <1>3 DEF ClientSend

LEMMA ClientWriteIInv ==
  ASSUME IInv, ClientWrite, UNCHANGED compress_flag
  PROVE  IInv'
<1>1. /\ cl.at = "write"
      /\ UNCHANGED <<keyboard, terminal, sv, pipes, shell, hist, compress_flag>>
  BY DEF ClientWrite
<1>2. CASE net.c_err # "none" /\ ClientFails /\ UNCHANGED net
  BY <1>1, <1>2, ClientFailsIInv
<1>3. CASE /\ \/ /\ ~ServerGone /\ Len(net.c2s \o cl.buf) <= Room
                 /\ net' = [net EXCEPT !.c2s = @ \o cl.buf]
              \/ /\ ServerGone /\ net.c_err = "none"
                 /\ net' = [net EXCEPT !.c_err = "EPIPE"]
           /\ ClientGoesOn(cl.polled \ {"keyboard"})
  <2> PICK c2s, buf : c2s = net.c2s /\ buf = cl.buf
    OBVIOUS
  <2>1. /\ net'.c_held = net.c_held /\ net'.s2c = net.s2c /\ net'.s_held = net.s_held
        /\ net'.s_err = net.s_err
    BY <1>3 DEF IInv, TypeInv, NetType, Room
  <2>2. /\ ClientType'
        /\ cl'.at \in {"poll", "readSocket", "exit"}
        /\ cl'.at = "readSocket" => "keyboard" \notin cl'.polled
    <3>1. cl.polled \ {"keyboard"} \in SUBSET ClientEvents
      BY DEF IInv, TypeInv, ClientType
    <3>2. "keyboard" \notin cl.polled \ {"keyboard"}
      OBVIOUS
    <3> QED BY <1>3, <3>1, <3>2, ClientGoes
  <2>3. /\ c2s \in KeyUnits /\ buf \in KeyUnits /\ c2s \o buf \in KeyUnits
        /\ FlattenSeq(buf) \in KeyQueue
    BY <1>1, ConcatProperties, FlattenType
       DEF IInv, TypeInv, NetType, Room, ClientType, ClientBuffer, KeyUnits, KeyQueue
  <2>4. /\ net' \in [c2s : KeyUnits, s2c : OutputUnits, c_held : KeyUnits, s_held : OutputUnits,
                     c_err : Errors, s_err : Errors]
        /\ \/ ServerGone /\ net'.c2s = c2s /\ net.c_err = "none" /\ net'.c_err = "EPIPE"
           \/ /\ ~ServerGone /\ net'.c2s = c2s \o buf /\ net'.c_err = net.c_err
              /\ Len(c2s \o buf) <= Room
    <3>1. CASE ServerGone /\ net.c_err = "none" /\ net' = [net EXCEPT !.c_err = "EPIPE"]
      BY <3>1 DEF IInv, TypeInv, NetType, Room, Errors
    <3>2. CASE /\ ~ServerGone /\ Len(net.c2s \o cl.buf) <= Room
               /\ net' = [net EXCEPT !.c2s = @ \o cl.buf]
      BY <2>3, <3>2 DEF IInv, TypeInv, NetType, Room
    <3> QED BY <1>3, <3>1, <3>2
  <2>5. Len(net'.c2s) <= Room /\ Len(net'.s2c) <= Room
    BY <2>1, <2>4 DEF IInv, TypeInv, NetType, Room
  <2>6. TypeInv'
    BY <1>1, <2>2, <2>4, <2>5 DEF IInv, TypeInv, NetType, Room, ServerType, PipesType, HistType
  <2>7. ControlInv'
    BY <1>1, <2>1, <2>2, <2>4 DEF IInv, ControlInv, ServerGone, ClientGone, ServerRuns
  <2>8. ModeInv'
    BY <1>1, <2>1, <2>2 DEF IInv, ModeInv
  <2>9. ClientRuns /\ ClientRuns'
    BY <1>1, <2>2 DEF ClientRuns, ClientGone
  <2>10. InputInv' /\ OutputInv'
    <3>1. CASE ServerGone
      BY <1>1, <2>1, <2>2, <2>6, <3>1, ClientLoses
    <3>2. CASE ~ServerGone
      <4>1. sOutput' = sOutput /\ (ServerRuns' <=> ServerRuns)
        BY <1>1, <2>1, ServerFrame
      <4>2. sKeys' = sKeys \o FlattenSeq(buf)
        <5>1. net'.c2s = net.c2s \o buf
          BY <2>4, <3>2
        <5> QED BY <1>1, <2>3, <5>1, UnitsToServer DEF IInv
      <4>3. cKeys = FlattenSeq(buf) \o cKeys'
        <5>1. cKeys = FlattenSeq(buf) \o (FlattenSeq(net.c_held) \o keyboard)
          BY <1>1, cKeysWrite DEF IInv
        <5>2. cKeys' = FlattenSeq(net.c_held)' \o keyboard'
          BY <2>2, <2>6, cKeysElseNext
        <5> QED BY <1>1, <2>1, <5>1, <5>2
      <4>4. cOutput' = cOutput
        <5>1. cOutput = FlattenSeq(net.s2c) /\ cOutput' = FlattenSeq(net.s2c)'
          BY <1>1, <2>2, <2>6, cOutputElse, cOutputElseNext DEF IInv
        <5> QED BY <2>1, <5>1
      <4>5. hist'.typed = hist.typed /\ Reached' = Reached /\ (EofTyped' => EofTyped)
        BY <1>1 DEF Reached, EofTyped
      <4>6. InputInv'
        <5> PICK sent : sent = FlattenSeq(buf)
          OBVIOUS
        <5> QED BY <2>3, <2>6, <2>9, <4>1, <4>2, <4>3, <4>5, InputSent DEF IInv
      <4>7. OutputInv'
        BY <1>1, <2>6, <2>9, <4>1, <4>4, OutputStays DEF IInv
      <4> QED BY <4>6, <4>7
    <3> QED BY <3>1, <3>2
  <2>11. CountInv'
    <3>1. Len(hist.typed) >= Len(hist.consumed) + Len(cKeys)
      BY <2>9, Unread DEF IInv
    <3>2. /\ Len(cKeys) >= Unsent + Len(keyboard)
          /\ Unsent \in Nat /\ Len(keyboard) \in Nat /\ Len(cKeys) \in Nat
          /\ Len(hist.typed) \in Nat /\ Len(hist.consumed) \in Nat
      BY <1>1, ClientCounts DEF IInv
    <3>3. Unsent = 1 /\ Unsent' = 0
      BY <1>1, <2>2 DEF Unsent
    <3>4. Len(hist.typed) >= Len(hist.consumed) + Len(keyboard) + Unsent' + 1
      BY ONLY <3>1, <3>2, <3>3
    <3>5. cl'.at \notin {"write", "sigpipe"} /\ hist' = hist /\ keyboard' = keyboard
      BY <1>1, <2>2
    <3> QED BY <3>4, <3>5 DEF CountInv
  <2> QED BY <2>6, <2>7, <2>8, <2>10, <2>11 DEF IInv
<1> QED BY <1>2, <1>3 DEF ClientWrite

LEMMA ClientSentIInv ==
  ASSUME IInv, ClientSent, UNCHANGED compress_flag
  PROVE  IInv'
<1>1. /\ cl.at = "send" /\ cl.buf = <<>> /\ ClientGoesOn(cl.polled \ {"keyboard"})
      /\ UNCHANGED <<keyboard, terminal, net, sv, pipes, shell, hist, compress_flag>>
  BY DEF ClientSent
<1>2. /\ ClientType'
      /\ cl'.at \in {"poll", "readSocket", "exit"}
      /\ cl'.at = "readSocket" => "keyboard" \notin cl'.polled
  <2>1. cl.polled \ {"keyboard"} \in SUBSET ClientEvents
    BY DEF IInv, TypeInv, ClientType
  <2>2. "keyboard" \notin cl.polled \ {"keyboard"}
    OBVIOUS
  <2> QED BY <1>1, <2>1, <2>2, ClientGoes
<1>3. TypeInv'
  BY <1>1, <1>2 DEF IInv, TypeInv, NetType, Room, ServerType, PipesType, HistType
<1>4. ControlInv'
  BY <1>1, <1>2 DEF IInv, ControlInv, ServerGone, ClientGone, ServerRuns
<1>5. ModeInv'
  BY <1>1, <1>2 DEF IInv, ModeInv
<1>6. cKeys' = cKeys
  <2>1. cKeys = FlattenSeq(net.c_held) \o (cl.buf \o keyboard)
    BY <1>1, cKeysHere DEF IInv
  <2>2. cKeys' = FlattenSeq(net.c_held)' \o keyboard'
    BY <1>2, <1>3, cKeysElseNext
  <2>3. <<>> \o keyboard = keyboard
    BY KeyEmpty DEF IInv, TypeInv
  <2> QED BY <1>1, <2>1, <2>2, <2>3
<1>7. cOutput' = cOutput
  <2>1. cOutput = FlattenSeq(net.s2c) /\ cOutput' = FlattenSeq(net.s2c)'
    BY <1>1, <1>2, <1>3, cOutputElse, cOutputElseNext DEF IInv
  <2> QED BY <1>1, <2>1
<1>8. sKeys' = sKeys /\ sOutput' = sOutput /\ (ServerRuns' <=> ServerRuns)
  BY <1>1, ServerFrame
<1>9. ClientRuns
  BY <1>1 DEF ClientRuns, ClientGone
<1>10. InputInv'
  <2>1. hist'.typed = hist.typed /\ Reached' = Reached /\ (EofTyped' => EofTyped)
    BY <1>1 DEF EofTyped, Reached
  <2> QED BY <1>3, <1>6, <1>8, <1>9, <2>1, InputStays DEF IInv
<1>11. OutputInv'
  BY <1>1, <1>3, <1>7, <1>8, <1>9, OutputStays DEF IInv
<1>12. CountInv'
  <2>1. Unsent = 0 /\ Unsent' = 0
    BY <1>1, <1>2 DEF Unsent
  <2> QED BY <1>1, <1>2, <1>9, <2>1 DEF IInv, CountInv, ClientRuns
<1> QED BY <1>3, <1>4, <1>5, <1>10, <1>11, <1>12 DEF IInv

(* The client displays what it received, or ends.                          *)
LEMMA ClientReadSocketIInv ==
  ASSUME IInv, ClientReadSocket, UNCHANGED compress_flag
  PROVE  IInv'
<1> PICK now, later, s2c : now = ReadOf(net.s2c) /\ later = RestOf(net.s2c) /\ s2c = net.s2c
  OBVIOUS
<1>1. /\ cl.at = "readSocket" /\ "keyboard" \notin cl.polled
      /\ UNCHANGED <<keyboard, terminal, sv, pipes, shell, compress_flag>>
  BY DEF ClientReadSocket, IInv, ControlInv
<1>2. /\ s2c \in OutputUnits /\ now \in OutputUnits /\ later \in OutputUnits
      /\ Len(later) <= Room
      /\ FlattenSeq(now) \in OutputQueue /\ FlattenSeq(later) \in OutputQueue
      /\ FlattenSeq(now) \o FlattenSeq(later) = FlattenSeq(s2c)
  <2>1. s2c \in OutputUnits /\ Len(s2c) <= Room
    BY DEF IInv, TypeInv, NetType, Room
  <2>2. now \in OutputUnits /\ later \in OutputUnits /\ Len(later) <= Len(s2c)
        /\ Len(later) \in Nat /\ Len(s2c) \in Nat
    BY <2>1, ReadOfQueue, LenProperties DEF OutputUnits
  <2>3. FlattenSeq(now) \in OutputQueue /\ FlattenSeq(later) \in OutputQueue
    BY <2>2, FlattenType DEF OutputUnits, OutputQueue
  <2>4. FlattenSeq(ReadOf(s2c)) \o FlattenSeq(RestOf(s2c)) = FlattenSeq(s2c)
    BY <2>1, IncomingRead DEF OutputUnits, OutputQueue
  <2>5. Len(later) <= Room
    <3>1. Room \in Nat
      BY SessionAssumption DEF Room
    <3> QED BY <2>1, <2>2, <3>1
  <2> QED BY <2>1, <2>2, <2>3, <2>4, <2>5
<1>3. ClientRuns /\ cOutput = FlattenSeq(s2c)
      /\ cKeys = FlattenSeq(net.c_held) \o keyboard
  BY <1>1, cOutputElse, cKeysElse DEF IInv, ClientRuns, ClientGone
(* What the cases have in common.                                          *)
<1>4. ASSUME ClientType', cl'.at \in {"poll", "readSocket", "exit", "inflating"},
             "keyboard" \notin cl'.polled,
             cl'.at = "inflating" => compress_flag,
             \/ net' = net
             \/ net' = [net EXCEPT !.s2c = later],
             hist' \in [typed : KeyQueue, consumed : KeyQueue,
                        written : OutputQueue, displayed : OutputQueue],
             hist'.typed = hist.typed, hist'.consumed = hist.consumed,
             hist'.written = hist.written, TypeInv' => OutputInv'
      PROVE  IInv'
  <2>1. /\ net'.c2s = net.c2s /\ net'.s_held = net.s_held /\ net'.c_held = net.c_held
        /\ net'.c_err = net.c_err /\ net'.s_err = net.s_err
        /\ NetType'
    <3>1. CASE net' = net
      BY <3>1 DEF IInv, TypeInv, NetType, Room
    <3>2. CASE net' = [net EXCEPT !.s2c = later]
      BY <1>2, <3>2 DEF IInv, TypeInv, NetType, Room
    <3> QED BY <1>4, <3>1, <3>2
  <2>2. TypeInv'
    BY <1>1, <1>4, <2>1 DEF IInv, TypeInv, ServerType, PipesType, HistType
  <2>3. ControlInv'
    BY <1>1, <1>4, <2>1 DEF IInv, ControlInv, ServerGone, ClientGone, ServerRuns
  <2>4. ModeInv'
    BY <1>1, <1>4, <2>1 DEF IInv, ModeInv
  <2>5. cKeys' = cKeys
    <3>1. cKeys' = FlattenSeq(net.c_held)' \o keyboard'
      BY <1>4, <2>2, cKeysElseNext
    <3> QED BY <1>1, <1>3, <2>1, <3>1
  <2>6. sKeys' = sKeys /\ (ServerRuns' <=> ServerRuns)
    BY <1>1, <2>1, ServerFrame
  <2>7. InputInv'
    <3>1. hist'.typed = hist.typed /\ Reached' = Reached /\ (EofTyped' => EofTyped)
      BY <1>1, <1>4 DEF Reached, EofTyped
    <3> QED BY <1>3, <2>2, <2>5, <2>6, <3>1, InputStays DEF IInv
  <2>8. CountInv'
    <3>1. Unsent = 0 /\ Unsent' = 0
      BY <1>1, <1>4 DEF Unsent
    <3> QED BY <1>1, <1>3, <1>4, <2>1, <3>1 DEF IInv, CountInv, ClientRuns
  <2> QED BY <1>4, <2>2, <2>3, <2>4, <2>7, <2>8 DEF IInv
<1>5. TypeInv' /\ net'.s_held = net.s_held =>
        sOutput' = sOutput /\ (ServerRuns' <=> ServerRuns)
  BY <1>1, ServerFrame
<1>6. CASE /\ now # <<>> /\ ~InflateSticks(now)
           /\ hist' = [hist EXCEPT !.displayed = @ \o FlattenSeq(now)]
           /\ net' = [net EXCEPT !.s2c = later]
           /\ ClientGoesOn(cl.polled \ {"socket"})
  <2> PICK shown, displayed : shown = FlattenSeq(now) /\ displayed = hist.displayed
    OBVIOUS
  <2>1. /\ ClientType' /\ cl'.at \in {"poll", "readSocket", "exit"} /\ "keyboard" \notin cl'.polled
    <3>1. cl.polled \ {"socket"} \in SUBSET ClientEvents /\ "keyboard" \notin cl.polled \ {"socket"}
      BY <1>1 DEF IInv, TypeInv, ClientType
    <3>2. /\ ClientType'
          /\ cl'.at \in {"poll", "readKeyboard", "readSocket", "exit"}
          /\ cl'.at = "readKeyboard" => "keyboard" \in cl.polled \ {"socket"}
      BY <1>6, <3>1, ClientGoes
    <3>3. cl'.polled = {} \/ cl'.polled = cl.polled \ {"socket"}
      BY <1>6 DEF ClientGoesOn
    <3> QED BY <3>1, <3>2, <3>3
  <2>2. /\ hist'.typed = hist.typed /\ hist'.consumed = hist.consumed
        /\ hist'.written = hist.written /\ hist'.displayed = displayed \o shown
        /\ hist' \in [typed : KeyQueue, consumed : KeyQueue,
                      written : OutputQueue, displayed : OutputQueue]
    <3>1. displayed \in OutputQueue /\ displayed \o shown \in OutputQueue
      BY <1>2, HistFields, OutputConcat DEF IInv
    <3>2. hist' = [hist EXCEPT !.displayed = displayed \o shown]
      BY <1>6
    <3> QED BY <3>1, <3>2 DEF IInv, TypeInv, HistType
  <2>3. ASSUME TypeInv' PROVE OutputInv'
    <3>1. cOutput' = FlattenSeq(later)
      <4>1. cOutput' = FlattenSeq(net.s2c)'
        BY <2>1, <2>3, cOutputElseNext
      <4>2. net'.s2c = later
        BY <1>6 DEF IInv, TypeInv, NetType, Room
      <4> QED BY <4>1, <4>2
    <3>2. net'.s_held = net.s_held /\ pipes' = pipes
      BY <1>1, <1>6 DEF IInv, TypeInv, NetType, Room
    <3>3. sOutput' = sOutput /\ (ServerRuns' <=> ServerRuns)
      BY <1>5, <2>3, <3>2
    <3>4. ClientRuns' /\ cOutput = shown \o cOutput' /\ shown \in OutputQueue
      BY <1>2, <1>3, <2>1, <3>1 DEF ClientRuns, ClientGone
    <3> QED BY <1>1, <1>3, <2>2, <2>3, <3>3, <3>4, OutputShown DEF IInv
  <2> QED BY <1>4, <1>6, <2>1, <2>2, <2>3
<1>7. CASE /\ InflateSticks(now)
           /\ net' = [net EXCEPT !.s2c = later]
           /\ cl' = [cl EXCEPT !.at = "inflating", !.buf = FlattenSeq(now)]
           /\ UNCHANGED hist
  <2> PICK buf : buf = FlattenSeq(now)
    OBVIOUS
  <2>1. ClientType' /\ cl'.at = "inflating" /\ cl'.buf = buf /\ cl'.polled = cl.polled
    <3>1. "inflating" \in ClientSteps /\ buf \in Buffers /\ ClientBuffer("inflating", buf)
      BY <1>2 DEF ClientSteps, Buffers, ClientBuffer
    <3>2. ClientType /\ cl' = [cl EXCEPT !.at = "inflating", !.buf = buf]
      BY <1>7 DEF IInv, TypeInv
    <3> QED BY <3>1, <3>2, ClientTakes
  <2>2. compress_flag
    BY <1>7 DEF InflateSticks
  <2>3. HistType
    BY DEF IInv, TypeInv
  <2>4. ASSUME TypeInv' PROVE OutputInv'
    <3>1. cOutput' = buf \o FlattenSeq(later)
      <4>1. cOutput' = cl'.buf \o FlattenSeq(net.s2c)'
        BY <2>1, cOutputHereNext
      <4>2. net'.s2c = later
        BY <1>7 DEF IInv, TypeInv, NetType, Room
      <4> QED BY <2>1, <4>1, <4>2
    <3>2. net'.s_held = net.s_held /\ pipes' = pipes
      BY <1>1, <1>7 DEF IInv, TypeInv, NetType, Room
    <3>3. sOutput' = sOutput /\ (ServerRuns' <=> ServerRuns)
      BY <1>5, <2>4, <3>2
    <3>4. cOutput' = cOutput
      BY <1>2, <1>3, <3>1
    <3> QED BY <1>1, <1>3, <1>7, <2>4, <3>3, <3>4, OutputStays DEF IInv
  <2> QED BY <1>1, <1>4, <1>7, <2>1, <2>2, <2>3, <2>4 DEF HistType
<1>8. CASE now = <<>> /\ cl' = [Looping EXCEPT !.at = "exit"] /\ UNCHANGED <<net, hist>>
  <2>1. ClientType' /\ cl'.at = "exit" /\ cl'.polled = {}
    <3>1. "exit" \in ClientSteps
      BY DEF ClientSteps
    <3> QED BY <1>8, <3>1, ClientLeaves
  <2>2. HistType
    BY DEF IInv, TypeInv
  <2>3. ASSUME TypeInv' PROVE OutputInv'
    <3>1. cOutput' = FlattenSeq(net.s2c)'
      BY <2>1, <2>3, cOutputElseNext
    <3>2. cOutput' = cOutput
      BY <1>3, <1>8, <3>1
    <3>3. sOutput' = sOutput /\ (ServerRuns' <=> ServerRuns)
      BY <1>1, <1>5, <1>8, <2>3
    <3> QED BY <1>1, <1>3, <1>8, <2>3, <3>2, <3>3, OutputStays DEF IInv
  <2> QED BY <1>4, <1>8, <2>1, <2>2, <2>3 DEF HistType
<1> QED BY <1>6, <1>7, <1>8 DEF ClientReadSocket

(* The end of the client.                                                  *)
LEMMA ClientClosesIInv ==
  ASSUME IInv, NEW how \in {"exited", "killed"}, ClientRuns, ClientCloses(how),
         terminal' \in {"project_mode", "default_mode"},
         how = "exited" => terminal' = "default_mode",
         UNCHANGED <<keyboard, sv, pipes, shell, hist, compress_flag>>
  PROVE  IInv'
<1>1. /\ cl' = [Looping EXCEPT !.at = how]
      /\ net' = [net EXCEPT !.s_err = ErrorAfterClose(net.s_err, net.s2c)]
      /\ how \in ClientSteps
  BY DEF ClientCloses, ClientSteps
<1>2. ClientType' /\ cl'.at = how
  BY <1>1, ClientLeaves
<1>3. ErrorAfterClose(net.s_err, net.s2c) \in Errors
  BY DEF ErrorAfterClose, Errors, IInv, TypeInv, NetType, Room
<1>4. /\ net'.c2s = net.c2s /\ net'.s2c = net.s2c /\ net'.s_held = net.s_held
      /\ net'.c_held = net.c_held /\ net'.c_err = net.c_err /\ NetType'
  BY <1>1, <1>3 DEF IInv, TypeInv, NetType, Room
<1>5. TypeInv'
  BY <1>2, <1>4 DEF IInv, TypeInv, ServerType, PipesType, HistType
<1>6. ~ClientRuns' /\ ClientGone' /\ cl'.at \notin {"write", "sigpipe"}
  BY <1>2 DEF ClientRuns, ClientGone
<1>7. ControlInv'
  BY <1>2, <1>4, <1>6 DEF IInv, ControlInv, ServerGone, ServerRuns
<1>8. ModeInv'
  BY <1>2, <1>4 DEF IInv, ModeInv
<1>9. sKeys' = sKeys /\ sOutput' = sOutput /\ (ServerRuns' <=> ServerRuns)
  BY <1>4, ServerFrame
<1>10. InputInv'
  <2>1. hist'.typed = hist.typed /\ Reached' = Reached /\ (EofTyped' => EofTyped)
    BY DEF Reached, EofTyped
  <2> QED BY <1>5, <1>6, <1>9, <2>1, InputStays DEF IInv
<1>11. OutputInv'
  BY <1>5, <1>6, <1>9, OutputStays DEF IInv
<1>12. CountInv'
  BY <1>6 DEF CountInv
<1> QED BY <1>5, <1>7, <1>8, <1>10, <1>11, <1>12 DEF IInv

LEMMA ClientIInv ==
  ASSUME IInv, Client
  PROVE  IInv'
<1>1. CASE ClientExit
  <2>1. ClientRuns /\ ClientCloses("exited") /\ terminal' = "default_mode"
        /\ UNCHANGED <<keyboard, sv, pipes, shell, hist, compress_flag>>
    BY <1>1 DEF ClientExit, ClientRuns, ClientGone, Client
  <2> QED BY <2>1, ClientClosesIInv
<1> QED BY <1>1, ClientPollIInv, ClientReadKeyboardIInv, ClientSendIInv, ClientSentIInv,
           ClientWriteIInv, ClientReadSocketIInv DEF Client

LEMMA KillClientIInv ==
  ASSUME IInv, KillClient, UNCHANGED compress_flag
  PROVE  IInv'
<1>1. ClientRuns /\ ClientCloses("killed")
      /\ UNCHANGED <<keyboard, terminal, sv, pipes, shell, hist, compress_flag>>
  BY DEF KillClient, ClientRuns
<1>2. terminal' \in {"project_mode", "default_mode"}
  BY <1>1 DEF IInv, TypeInv
<1> QED BY <1>1, <1>2, ClientClosesIInv

-----------------------------------------------------------------------------
(* The server.                                                             *)

LEMMA ServerGoes ==
  ASSUME NEW polled \in SUBSET ServerEvents, ServerGoesOn(polled)
  PROVE  ServerType' /\ sv'.at \in {"poll", "readSocket", "readShell", "restore"}
<1> PICK at, none, p : /\ at = ServerAt(polled) /\ none = <<>>
                       /\ p = IF ServerAt(polled) = "poll" THEN {} ELSE polled
  OBVIOUS
<1>1. at \in {"poll", "readSocket", "readShell", "restore"}
  BY DEF ServerAt
<1>2. sv' = [at |-> at, buf |-> none, polled |-> p] /\ p \in SUBSET ServerEvents
  BY DEF ServerGoesOn
<1>3. sv'.at = at /\ sv'.buf = none /\ sv'.polled = p
  BY <1>2
<1>4. at \in ServerSteps /\ none \in Buffers /\ ServerBuffer(at, none)
  BY <1>1, EmptyBuffers DEF ServerSteps
<1> QED BY <1>1, <1>2, <1>3, <1>4 DEF ServerType

(* The server goes to a step at which it has nothing in its buffer.        *)
LEMMA ServerLeaves ==
  ASSUME NEW at \in ServerSteps, sv' = [Looping EXCEPT !.at = at]
  PROVE  ServerType' /\ sv'.at = at
<1> PICK none, p : none = <<>> /\ p = {}
  OBVIOUS
<1>1. sv' = [at |-> at, buf |-> none, polled |-> p] /\ p \in SUBSET ServerEvents
  BY DEF Looping
<1>2. none \in Buffers /\ ServerBuffer(at, none)
  BY EmptyBuffers
<1>3. sv'.at = at /\ sv'.buf = none
  BY <1>1
<1>4. at \in ServerSteps
  OBVIOUS
<1>5. sv' \in [at : ServerSteps, buf : Buffers, polled : SUBSET ServerEvents]
  BY ONLY <1>1, <1>2, <1>4
<1> QED BY <1>2, <1>3, <1>5 DEF ServerType

(* The server goes on with something in its buffer.                        *)
LEMMA ServerTakes ==
  ASSUME ServerType, NEW at \in ServerSteps, NEW buf \in Buffers, ServerBuffer(at, buf),
         sv' = [sv EXCEPT !.at = at, !.buf = buf]
  PROVE  ServerType' /\ sv'.at = at /\ sv'.buf = buf
<1> PICK polled : polled = sv.polled
  OBVIOUS
<1>1. sv' = [at |-> at, buf |-> buf, polled |-> polled] /\ polled \in SUBSET ServerEvents
  BY DEF ServerType
<1>2. sv'.at = at /\ sv'.buf = buf
  BY <1>1
<1>3. sv' \in [at : ServerSteps, buf : Buffers, polled : SUBSET ServerEvents]
  BY <1>1
<1>4. ServerBuffer(sv'.at, sv'.buf)
  BY <1>2
<1> QED BY <1>2, <1>3, <1>4 DEF ServerType

(* What a step of a server that runs leaves of the invariant to be shown.  *)
LEMMA ServerKeeps ==
  ASSUME IInv, ServerRuns, ServerType', NetType', PipesType',
         shell' \in {"idle", "writing", "exited", "reaped"}, shell' = "writing"
           => shell = "writing",
         UNCHANGED <<keyboard, cl, terminal, hist, compress_flag>>,
         net'.c_held = net.c_held, net'.c_err = net.c_err,
         sv'.at # "exited",
         ServerRuns' => pipes'.in_open,
         net'.s_err # "none" => ClientGone,
         compress_flag => sv'.at # "toSocket",
         ~compress_flag => /\ sv'.at \notin {"write", "deflating", "inflating"}
                           /\ net'.s_held = <<>>
                           /\ net'.c2s \in Seq(Singles(KeyBytes))
  PROVE  /\ TypeInv' /\ cKeys' = cKeys /\ (ClientRuns' <=> ClientRuns)
         /\ InputInv' /\ OutputInv' => IInv'
<1>1. TypeInv'
  BY DEF IInv, TypeInv, ClientType, HistType
<1>2. ControlInv'
  <2>1. ~ServerGone /\ ~ServerGone' /\ (ClientGone' <=> ClientGone)
    BY DEF ServerRuns, ServerGone, ClientGone
  <2> QED BY <2>1 DEF IInv, ControlInv
<1>3. ModeInv'
  BY DEF IInv, ModeInv
<1>4. CountInv'
  BY DEF IInv, CountInv, Unsent, ClientRuns, ClientGone
<1>5. cKeys' = cKeys /\ (ClientRuns' <=> ClientRuns)
  BY ClientFrame
<1> QED BY <1>1, <1>2, <1>3, <1>4, <1>5 DEF IInv

(* The server ends: what it has is lost.                                   *)
LEMMA ServerStopsIInv ==
  ASSUME IInv, ServerRuns, ServerExits,
         UNCHANGED <<keyboard, cl, terminal, net, pipes, shell, hist, compress_flag>>
  PROVE  IInv'
<1>1. ServerType' /\ sv'.at = "restore"
  <2>1. "restore" \in ServerSteps
    BY DEF ServerSteps
  <2> QED BY <2>1, ServerLeaves DEF ServerExits
<1>2. ~ServerRuns' /\ pipes.in_open
  BY <1>1 DEF ServerRuns, IInv, ControlInv
<1>3. NetType' /\ PipesType' /\ shell' \in {"idle", "writing", "exited", "reaped"}
  BY DEF IInv, TypeInv, NetType, Room, PipesType
<1>4. TypeInv' /\ cKeys' = cKeys /\ (ClientRuns' <=> ClientRuns)
      /\ (InputInv' /\ OutputInv' => IInv')
  <2>1. net.s_err # "none" => ClientGone
    BY DEF IInv, ControlInv
  <2>2. ~compress_flag => net.s_held = <<>> /\ net.c2s \in Seq(Singles(KeyBytes))
    BY DEF IInv, ModeInv
  <2> QED BY <1>1, <1>2, <1>3, <2>1, <2>2, ServerKeeps
<1>5. cOutput' = cOutput
  BY ClientFrame
<1>6. InputInv'
  <2>1. Reached' = Reached /\ ~EofTyped'
    BY <1>2 DEF Reached, EofTyped
  <2> QED BY <1>2, <1>4, <2>1, InputStays DEF IInv
<1>7. OutputInv'
  BY <1>2, <1>4, <1>5, OutputStays DEF IInv
<1> QED BY <1>4, <1>6, <1>7

(* The server goes on, with what it has.                                   *)
LEMMA ServerGoesIInv ==
  ASSUME IInv, ServerRuns, NEW polled \in SUBSET ServerEvents, ServerGoesOn(polled),
         sv.at \notin {"write", "deflating", "inflating"},
         sv.at \in {"toShell", "toSocket"} => sv.buf = <<>>,
         UNCHANGED <<keyboard, cl, terminal, net, pipes, shell, hist, compress_flag>>
  PROVE  IInv'
<1>1. ServerType' /\ sv'.at \in {"poll", "readSocket", "readShell", "restore"}
  BY ServerGoes
<1>2. pipes.in_open
  BY DEF ServerRuns, IInv, ControlInv
<1>3. NetType' /\ PipesType' /\ shell' \in {"idle", "writing", "exited", "reaped"}
  BY DEF IInv, TypeInv, NetType, Room, PipesType
<1>4. TypeInv' /\ cKeys' = cKeys /\ (ClientRuns' <=> ClientRuns)
      /\ (InputInv' /\ OutputInv' => IInv')
  <2>1. net.s_err # "none" => ClientGone
    BY DEF IInv, ControlInv
  <2>2. ~compress_flag => net.s_held = <<>> /\ net.c2s \in Seq(Singles(KeyBytes))
    BY DEF IInv, ModeInv
  <2> QED BY <1>1, <1>2, <1>3, <2>1, <2>2, ServerKeeps
<1>5. cOutput' = cOutput
  BY ClientFrame
<1>6. sKeys' = sKeys
  <2>1. sKeys' = FlattenSeq(net.c2s)'
    BY <1>1, <1>4, sKeysElseNext
  <2>2. CASE sv.at = "toShell"
    <3>1. sKeys = sv.buf \o FlattenSeq(net.c2s)
      BY <2>2, sKeysHere
    <3>2. sv.buf = <<>> /\ FlattenSeq(net.c2s) \in KeyQueue
      BY <2>2, FlattenType DEF IInv, TypeInv, NetType, Room, KeyUnits, KeyQueue
    <3>3. sKeys = FlattenSeq(net.c2s)
      BY <3>1, <3>2, KeyEmpty
    <3> QED BY <2>1, <3>3
  <2>3. CASE sv.at # "toShell"
    <3>1. sKeys = FlattenSeq(net.c2s)
      BY <2>3, sKeysElse DEF IInv
    <3> QED BY <2>1, <3>1
  <2> QED BY <2>2, <2>3
<1>7. sOutput' = sOutput
  <2>1. sOutput' = FlattenSeq(net.s_held)' \o (pipes.shell_out)'
    BY <1>1, <1>4, sOutputElseNext
  <2>2. CASE sv.at = "toSocket"
    <3>1. sOutput = FlattenSeq(net.s_held) \o (sv.buf \o pipes.shell_out)
      BY <2>2, sOutputHere DEF IInv
    <3>2. sv.buf = <<>> /\ pipes.shell_out \in OutputQueue
      BY <2>2 DEF IInv, TypeInv, PipesType
    <3>3. sOutput = FlattenSeq(net.s_held) \o pipes.shell_out
      BY <3>1, <3>2, OutputEmpty
    <3> QED BY <2>1, <3>3
  <2>3. CASE sv.at # "toSocket"
    <3>1. sOutput = FlattenSeq(net.s_held) \o pipes.shell_out
      BY <2>3, sOutputElse DEF IInv
    <3> QED BY <2>1, <3>1
  <2> QED BY <2>2, <2>3
<1>8. InputInv'
  <2>1. Reached' = Reached /\ ~EofTyped'
    BY <1>2 DEF Reached, EofTyped
  <2> QED BY <1>4, <1>6, <2>1, InputStays DEF IInv
<1>9. OutputInv'
  BY <1>4, <1>5, <1>7, OutputStays DEF IInv
<1> QED BY <1>4, <1>8, <1>9

LEMMA ServerPollIInv ==
  ASSUME IInv, ServerPoll, UNCHANGED compress_flag
  PROVE  IInv'
<1> DEFINE polled == {e \in {"socket", "shell", "hup"} :
                        \/ e = "socket" /\ (net.c2s # <<>> \/ ClientGone)
                        \/ e = "shell" /\ pipes.shell_out # <<>>
                        \/ e = "hup" /\ ShellGone}
<1>1. /\ sv.at = "poll" /\ ServerGoesOn(polled)
      /\ UNCHANGED <<keyboard, cl, terminal, net, pipes, shell, hist, compress_flag>>
  BY DEF ServerPoll
<1>2. polled \in SUBSET ServerEvents
  BY DEF ServerEvents
<1> HIDE DEF polled
<1>3. ServerRuns
  BY <1>1 DEF ServerRuns
<1> QED BY <1>1, <1>2, <1>3, ServerGoesIInv

LEMMA ServerDoneIInv ==
  ASSUME IInv, ServerDone, UNCHANGED compress_flag
  PROVE  IInv'
<1> PICK polled :
      polled = sv.polled \ (IF sv.at = "toShell" THEN {"socket"} ELSE {"socket", "shell"})
  OBVIOUS
<1>1. /\ sv.at \in {"toShell", "toSocket"} /\ sv.buf = <<>> /\ ServerGoesOn(polled)
      /\ UNCHANGED <<keyboard, cl, terminal, net, pipes, shell, hist, compress_flag>>
  BY DEF ServerDone
<1>2. polled \in SUBSET ServerEvents
  BY DEF IInv, TypeInv, ServerType
<1>3. ServerRuns
  BY <1>1 DEF ServerRuns
<1> QED BY <1>1, <1>2, <1>3, ServerGoesIInv

LEMMA ServerReadSocketIInv ==
  ASSUME IInv, ServerReadSocket, UNCHANGED compress_flag
  PROVE  IInv'
<1> PICK now, later, c2s : now = ReadOf(net.c2s) /\ later = RestOf(net.c2s) /\ c2s = net.c2s
  OBVIOUS
<1>1. /\ sv.at = "readSocket" /\ ServerRuns
      /\ UNCHANGED <<keyboard, cl, terminal, pipes, shell, hist, compress_flag>>
  BY DEF ServerReadSocket, ServerRuns
<1>2. CASE ServerExits /\ UNCHANGED net
  BY <1>1, <1>2, ServerStopsIInv
<1>3. CASE ServerGoesOn(sv.polled \ {"socket"}) /\ UNCHANGED net
  <2>1. sv.polled \ {"socket"} \in SUBSET ServerEvents
    BY DEF IInv, TypeInv, ServerType
  <2> QED BY <1>1, <1>3, <2>1, ServerGoesIInv
<1>4. CASE /\ sv' = [sv EXCEPT !.at = IF InflateSticks(now) THEN "inflating" ELSE "toShell",
                               !.buf = FlattenSeq(now)]
           /\ net' = [net EXCEPT !.c2s = later]
  <2> PICK at, buf : at = (IF InflateSticks(now) THEN "inflating" ELSE "toShell")
                     /\ buf = FlattenSeq(now)
    OBVIOUS
  <2>1. /\ c2s \in KeyUnits /\ now \in KeyUnits /\ later \in KeyUnits /\ Len(later) <= Room
        /\ buf \in KeyQueue /\ FlattenSeq(later) \in KeyQueue
        /\ buf \o FlattenSeq(later) = FlattenSeq(c2s)
    <3>1. c2s \in KeyUnits /\ Len(c2s) <= Room
      BY DEF IInv, TypeInv, NetType, Room
    <3>2. now \in KeyUnits /\ later \in KeyUnits /\ Len(later) <= Len(c2s)
          /\ Len(later) \in Nat /\ Len(c2s) \in Nat
      BY <3>1, ReadOfQueue, LenProperties DEF KeyUnits
    <3>3. FlattenSeq(now) \in KeyQueue /\ FlattenSeq(later) \in KeyQueue
      BY <3>2, FlattenType DEF KeyUnits, KeyQueue
    <3>4. FlattenSeq(ReadOf(c2s)) \o FlattenSeq(RestOf(c2s)) = FlattenSeq(c2s)
      BY <3>1, IncomingRead DEF KeyUnits, KeyQueue
    <3>5. Len(later) <= Room
      <4>1. Room \in Nat
        BY SessionAssumption DEF Room
      <4> QED BY <3>1, <3>2, <4>1
    <3> QED BY <3>1, <3>2, <3>3, <3>4, <3>5
  <2>2. ~compress_flag => /\ later \in Seq(Singles(KeyBytes))
                          /\ Len(buf) <= BufSize
    <3> SUFFICES ASSUME ~compress_flag
                 PROVE  later \in Seq(Singles(KeyBytes)) /\ Len(buf) <= BufSize
      OBVIOUS
    <3>1. c2s \in Seq(Singles(KeyBytes))
      BY DEF IInv, ModeInv
    <3>2. later \in Seq(Singles(KeyBytes)) /\ now \in Seq(Singles(KeyBytes)) /\ Len(now) <= BufSize
      BY <3>1, ReadOfQueue
    <3>3. Len(buf) = Len(now)
      BY <3>2, FlattenSingles
    <3> QED BY <3>2, <3>3
  <2>3. at = "toShell" => Len(buf) <= OutSize
    <3>1. Len(buf) \in Nat /\ BufSize \in Nat /\ OutSize \in Nat /\ BufSize <= OutSize
      BY <2>1, LenProperties, SessionAssumption DEF KeyQueue
    <3>2. CASE compress_flag
      BY <3>1, <3>2 DEF InflateSticks
    <3>3. CASE ~compress_flag
      BY <2>2, <3>1, <3>3
    <3> QED BY <3>2, <3>3
  <2>4. at \in {"toShell", "inflating"} /\ (at = "inflating" => compress_flag)
    BY DEF InflateSticks
  <2>5. ServerType' /\ sv'.at = at /\ sv'.buf = buf
    <3>1. at \in ServerSteps /\ buf \in Buffers /\ ServerBuffer(at, buf)
      BY <2>1, <2>3, <2>4 DEF ServerSteps, Buffers, ServerBuffer
    <3>2. ServerType /\ sv' = [sv EXCEPT !.at = at, !.buf = buf]
      BY <1>4 DEF IInv, TypeInv
    <3> QED BY <3>1, <3>2, ServerTakes
  <2>6. /\ net'.c2s = later /\ net'.s2c = net.s2c /\ net'.s_held = net.s_held
        /\ net'.c_held = net.c_held /\ net'.c_err = net.c_err /\ net'.s_err = net.s_err
        /\ NetType'
    BY <1>4, <2>1 DEF IInv, TypeInv, NetType, Room
  <2>7. PipesType' /\ shell' \in {"idle", "writing", "exited", "reaped"} /\ pipes.in_open
        /\ (net.s_err # "none" => ClientGone)
    BY <1>1 DEF IInv, TypeInv, PipesType, ControlInv
  <2>8. TypeInv' /\ cKeys' = cKeys /\ (ClientRuns' <=> ClientRuns)
        /\ (InputInv' /\ OutputInv' => IInv')
    <3>1. ~compress_flag => net.s_held = <<>>
      BY DEF IInv, ModeInv
    <3> QED BY <1>1, <2>2, <2>4, <2>5, <2>6, <2>7, <3>1, ServerKeeps
  <2>9. cOutput' = cOutput
    BY <1>1, <2>6, ClientFrame
  <2>10. sKeys' = sKeys
    <3>1. sKeys = FlattenSeq(c2s)
      BY <1>1, sKeysElse DEF IInv
    <3>2. sKeys' = sv'.buf \o FlattenSeq(net.c2s)'
      BY <2>4, <2>5, sKeysHereNext
    <3> QED BY <2>1, <2>5, <2>6, <3>1, <3>2
  <2>11. sOutput' = sOutput
    <3>1. sOutput = FlattenSeq(net.s_held) \o pipes.shell_out
      BY <1>1, sOutputElse DEF IInv
    <3>2. sOutput' = FlattenSeq(net.s_held)' \o (pipes.shell_out)'
      BY <2>4, <2>5, <2>8, sOutputElseNext
    <3> QED BY <1>1, <2>6, <3>1, <3>2
  <2>12. InputInv'
    <3>1. hist'.typed = hist.typed /\ Reached' = Reached /\ ~EofTyped'
      BY <1>1, <2>4, <2>5 DEF Reached, EofTyped
    <3> QED BY <1>1, <2>8, <2>10, <3>1, InputStays DEF IInv
  <2>13. OutputInv'
    BY <1>1, <2>8, <2>9, <2>11, OutputStays DEF IInv
  <2> QED BY <2>8, <2>12, <2>13
<1> QED BY <1>2, <1>3, <1>4 DEF ServerReadSocket

LEMMA ServerReadShellIInv ==
  ASSUME IInv, ServerReadShell, UNCHANGED compress_flag
  PROVE  IInv'
<1> PICK now, later, held, out : /\ now = ReadOf(pipes.shell_out) /\ later = RestOf(pipes.shell_out)
                                 /\ held = net.s_held /\ out = pipes.shell_out
  OBVIOUS
<1>1. /\ sv.at = "readShell" /\ ServerRuns /\ pipes' = [pipes EXCEPT !.shell_out = later]
      /\ UNCHANGED <<keyboard, cl, terminal, shell, hist, compress_flag>>
  BY DEF ServerReadShell, ServerRuns
<1>2. /\ now \in OutputQueue /\ later \in OutputQueue /\ now \o later = out
      /\ Len(now) <= BufSize /\ held \in OutputUnits /\ out \in OutputQueue
      /\ Len(later) <= PipeSize
  <2>1. out \in OutputQueue /\ Len(out) <= PipeSize /\ held \in OutputUnits
    BY DEF IInv, TypeInv, NetType, Room, PipesType
  <2>2. /\ now \in OutputQueue /\ later \in OutputQueue /\ now \o later = out
        /\ Len(now) <= BufSize /\ Len(later) <= Len(out)
        /\ Len(later) \in Nat /\ Len(out) \in Nat
    BY <2>1, ReadOfQueue, LenProperties DEF OutputQueue
  <2> QED BY <2>1, <2>2, SessionAssumption
(* Where it puts them.                                                     *)
<1>4. PICK at \in {"toSocket", "write", "deflating"}, buf \in Buffers, kept \in OutputUnits :
        /\ sv' = [sv EXCEPT !.at = at, !.buf = buf] /\ ServerBuffer(at, buf)
        /\ net' = [net EXCEPT !.s_held = kept]
        /\ Pending(at, buf, {"toSocket", "deflating"}, kept, later) = FlattenSeq(held) \o out
        /\ at = "toSocket" => ~compress_flag /\ kept = held
        /\ at # "toSocket" => compress_flag
  <2>1. CASE ~compress_flag
    <3>1. sv' = [sv EXCEPT !.at = "toSocket", !.buf = now] /\ net' = net
      BY <2>1 DEF ServerReadShell
    <3>2. net = [net EXCEPT !.s_held = held]
      BY DEF IInv, TypeInv, NetType, Room
    <3>3. Pending("toSocket", now, {"toSocket", "deflating"}, held, later) = FlattenSeq(held) \o out
      <4> PICK at, steps : at = "toSocket" /\ steps = {"toSocket", "deflating"}
        OBVIOUS
      <4>1. /\ at \in steps /\ at # "write" /\ held \in Seq(Seq(OutputBytes))
            /\ now \in Seq(OutputBytes) /\ later \in Seq(OutputBytes)
        BY <1>2 DEF OutputUnits, OutputQueue
      <4>2. Pending(at, now, steps, held, later) = FlattenSeq(held) \o (now \o later)
        BY ONLY <4>1, PendingHere
      <4> QED BY <1>2, <4>2
    <3>4. ServerBuffer("toSocket", now) /\ now \in Buffers
      BY <1>2 DEF ServerBuffer, Buffers
    <3> QED BY <1>2, <2>1, <3>1, <3>2, <3>3, <3>4
  <2>2. CASE compress_flag
    <3>1. PICK d \in Deflated(held, now) :
            /\ sv' = [sv EXCEPT !.at = d.at, !.buf = d.buf]
            /\ net' = [net EXCEPT !.s_held = d.kept]
      BY <2>2 DEF ServerReadShell
    <3>2. /\ DeflatedType(OutputBytes, d)
          /\ Pending(d.at, d.buf, {"toSocket", "deflating"}, d.kept, later)
               = FlattenSeq(held) \o out
      <4> PICK steps : steps = {"toSocket", "deflating"}
        OBVIOUS
      <4>1. /\ "write" \notin steps /\ "deflating" \in steps /\ held \in Seq(Seq(OutputBytes))
            /\ out \in Seq(OutputBytes) /\ d \in Deflated(held, ReadOf(out))
        BY <1>2 DEF OutputUnits, OutputQueue
      <4>2. /\ DeflatedType(OutputBytes, d)
            /\ Pending(d.at, d.buf, steps, d.kept, RestOf(out)) = FlattenSeq(held) \o out
        BY ONLY <4>1, DeflatedBytes
      <4> QED BY <4>2
    <3>3. d.at \in {"write", "deflating"} /\ d.buf \in Buffers /\ d.kept \in OutputUnits
          /\ ServerBuffer(d.at, d.buf)
      BY <3>2 DEF DeflatedType, ServerBuffer, Buffers, OutputUnits, OutputQueue
    <3> QED BY <2>2, <3>1, <3>2, <3>3
  <2> QED BY <2>1, <2>2
<1>5. ServerType' /\ sv'.at = at /\ sv'.buf = buf
  <2>1. at \in ServerSteps
    BY DEF ServerSteps
  <2> QED BY <1>4, <2>1, ServerTakes DEF IInv, TypeInv
<1>6. /\ net'.c2s = net.c2s /\ net'.s2c = net.s2c /\ net'.c_held = net.c_held
      /\ net'.c_err = net.c_err /\ net'.s_err = net.s_err /\ net'.s_held = kept
      /\ NetType'
  BY <1>4 DEF IInv, TypeInv, NetType, Room
<1>7. /\ pipes'.shell_out = later /\ pipes'.shell_in = pipes.shell_in
      /\ pipes'.in_open = pipes.in_open /\ PipesType'
  BY <1>1, <1>2 DEF IInv, TypeInv, PipesType
<1>8. TypeInv' /\ cKeys' = cKeys /\ (ClientRuns' <=> ClientRuns)
      /\ (InputInv' /\ OutputInv' => IInv')
  <2>1. pipes.in_open /\ (net.s_err # "none" => ClientGone)
        /\ shell' \in {"idle", "writing", "exited", "reaped"}
    BY <1>1 DEF IInv, TypeInv, ControlInv
  <2>2. ~compress_flag => net.s_held = <<>> /\ net.c2s \in Seq(Singles(KeyBytes))
    BY DEF IInv, ModeInv
  <2>3. ~compress_flag => at = "toSocket" /\ kept = <<>>
    BY <1>4, <2>2
  <2>4. sv'.at # "exited" /\ (compress_flag => sv'.at # "toSocket")
    BY <1>4, <1>5
  <2> QED BY <1>1, <1>5, <1>6, <1>7, <2>1, <2>2, <2>3, <2>4, ServerKeeps
<1>9. cOutput' = cOutput
  BY <1>1, <1>6, ClientFrame
<1>10. sKeys' = sKeys
  <2>1. sKeys = FlattenSeq(net.c2s)
    BY <1>1, sKeysElse DEF IInv
  <2>2. sKeys' = FlattenSeq(net.c2s)'
    BY <1>5, <1>8, sKeysElseNext
  <2> QED BY <1>6, <2>1, <2>2
<1>11. sOutput' = sOutput
  <2>1. sOutput = FlattenSeq(held) \o out
    BY <1>1, sOutputElse DEF IInv
  <2>2. sOutput' = Pending(at, buf, {"toSocket", "deflating"}, kept, later)
    BY <1>5, <1>6, <1>7 DEF sOutput
  <2> QED BY <1>4, <2>1, <2>2
<1>12. InputInv'
  <2>1. hist'.typed = hist.typed /\ Reached' = Reached /\ ~EofTyped'
    BY <1>1, <1>4, <1>5, <1>7 DEF Reached, EofTyped
  <2> QED BY <1>1, <1>8, <1>10, <2>1, InputStays DEF IInv
<1>13. OutputInv'
  BY <1>1, <1>8, <1>9, <1>11, OutputStays DEF IInv
<1> QED BY <1>8, <1>12, <1>13

LEMMA ServerWriteIInv ==
  ASSUME IInv, ServerWrite, UNCHANGED compress_flag
  PROVE  IInv'
<1>1. /\ sv.at = "write" /\ ServerRuns
      /\ UNCHANGED <<keyboard, cl, terminal, pipes, shell, hist, compress_flag>>
  BY DEF ServerWrite, ServerRuns
<1>2. CASE ServerExits /\ UNCHANGED net
  BY <1>1, <1>2, ServerStopsIInv
<1>3. CASE /\ \/ /\ ~ClientGone /\ Len(net.s2c \o sv.buf) <= Room
                 /\ net' = [net EXCEPT !.s2c = @ \o sv.buf]
              \/ /\ ClientGone /\ net.s_err = "none"
                 /\ net' = [net EXCEPT !.s_err = "EPIPE"]
           /\ ServerGoesOn(sv.polled \ {"socket", "shell"})
  <2> PICK s2c, buf, sent : s2c = net.s2c /\ buf = sv.buf /\ sent = FlattenSeq(sv.buf)
    OBVIOUS
  <2>1. ServerType' /\ sv'.at \in {"poll", "readSocket", "readShell", "restore"}
    <3>1. sv.polled \ {"socket", "shell"} \in SUBSET ServerEvents
      BY DEF IInv, TypeInv, ServerType
    <3> QED BY <1>3, <3>1, ServerGoes
  <2>2. /\ s2c \in OutputUnits /\ buf \in OutputUnits /\ s2c \o buf \in OutputUnits
        /\ sent \in OutputQueue
    BY <1>1, ConcatProperties, FlattenType
       DEF IInv, TypeInv, NetType, Room, ServerType, ServerBuffer, OutputUnits, OutputQueue
  <2>3. /\ net'.c2s = net.c2s /\ net'.s_held = net.s_held /\ net'.c_held = net.c_held
        /\ net'.c_err = net.c_err
    BY <1>3 DEF IInv, TypeInv, NetType, Room
  <2>4. /\ net' \in [c2s : KeyUnits, s2c : OutputUnits, c_held : KeyUnits, s_held : OutputUnits,
                     c_err : Errors, s_err : Errors]
        /\ \/ ClientGone /\ net'.s2c = s2c
           \/ /\ ~ClientGone /\ net'.s2c = s2c \o buf /\ net'.s_err = net.s_err
              /\ Len(s2c \o buf) <= Room
    <3>1. CASE ClientGone /\ net.s_err = "none" /\ net' = [net EXCEPT !.s_err = "EPIPE"]
      BY <3>1 DEF IInv, TypeInv, NetType, Room, Errors
    <3>2. CASE /\ ~ClientGone /\ Len(net.s2c \o sv.buf) <= Room
               /\ net' = [net EXCEPT !.s2c = @ \o sv.buf]
      BY <2>2, <3>2 DEF IInv, TypeInv, NetType, Room
    <3> QED BY <1>3, <3>1, <3>2
  <2>5. NetType' /\ PipesType' /\ shell' \in {"idle", "writing", "exited", "reaped"}
    <3>1. Len(net'.s2c) <= Room /\ Len(net'.c2s) <= Room
      <4>1. Len(s2c) <= Room /\ Len(net.c2s) <= Room
        BY DEF IInv, TypeInv, NetType
      <4> QED BY <2>3, <2>4, <4>1
    <3>2. NetType'
      BY <1>1, <2>3, <2>4, <3>1 DEF NetType, Room
    <3> QED BY <1>1, <3>2 DEF IInv, TypeInv, PipesType
  <2>6. pipes.in_open /\ (net'.s_err # "none" => ClientGone)
    BY <1>1, <2>4 DEF IInv, ControlInv
  <2>7. TypeInv' /\ cKeys' = cKeys /\ (ClientRuns' <=> ClientRuns)
        /\ (InputInv' /\ OutputInv' => IInv')
    <3>1. ~compress_flag => net.s_held = <<>> /\ net.c2s \in Seq(Singles(KeyBytes))
      BY DEF IInv, ModeInv
    <3> QED BY <1>1, <2>1, <2>3, <2>5, <2>6, <3>1, ServerKeeps
  <2>8. sKeys' = sKeys
    <3>1. sKeys = FlattenSeq(net.c2s) /\ sKeys' = FlattenSeq(net.c2s)'
      BY <1>1, <2>1, <2>7, sKeysElse, sKeysElseNext DEF IInv
    <3> QED BY <2>3, <3>1
  <2>9. sOutput = sent \o sOutput'
    <3>1. sOutput = sent \o (FlattenSeq(net.s_held) \o pipes.shell_out)
      BY <1>1, sOutputWrite DEF IInv
    <3>2. sOutput' = FlattenSeq(net.s_held)' \o (pipes.shell_out)'
      BY <2>1, <2>7, sOutputElseNext
    <3> QED BY <1>1, <2>3, <3>1, <3>2
  <2>10. ClientRuns' => ClientRuns /\ cOutput' = cOutput \o Shown(sent)
    <3>1. Shown(sent) = sent
      BY <1>1 DEF Shown, IInv, ModeInv, TypeInv
    <3>2. ClientRuns' => net'.s2c = net.s2c \o buf
      BY <2>4, <2>7 DEF ClientRuns
    <3>3. ClientRuns' => cOutput' = cOutput \o FlattenSeq(buf)
      BY <1>1, <2>2, <3>2, UnitsToClient DEF IInv
    <3> QED BY <2>7, <3>1, <3>3
  <2>11. InputInv'
    <3>1. hist'.typed = hist.typed /\ Reached' = Reached /\ ~EofTyped'
      BY <1>1, <2>6 DEF Reached, EofTyped
    <3> QED BY <1>1, <2>7, <2>8, <3>1, InputStays DEF IInv
  <2>12. OutputInv'
    BY <1>1, <2>2, <2>7, <2>9, <2>10, OutputSent DEF IInv
  <2> QED BY <2>7, <2>11, <2>12
<1> QED BY <1>2, <1>3 DEF ServerWrite

(* The server takes the first byte of its buffer.                          *)
LEMMA ServerByte ==
  ASSUME IInv, sv.at \in {"toShell", "toSocket"}, sv.buf # <<>>, ByteDone,
         net'.c2s = net.c2s, net'.s_held = net.s_held, pipes'.shell_out = pipes.shell_out
  PROVE  /\ ServerType' /\ sv'.at = sv.at
         /\ sv.at = "toShell" =>
              /\ Head(sv.buf) \in KeyBytes /\ <<Head(sv.buf)>> \in KeyQueue
              /\ TypeInv' => sKeys = <<Head(sv.buf)>> \o sKeys' /\ sOutput' = sOutput
         /\ sv.at = "toSocket" =>
              /\ Head(sv.buf) \in OutputBytes /\ <<Head(sv.buf)>> \in OutputQueue
              /\ TypeInv' => sOutput = <<Head(sv.buf)>> \o sOutput' /\ sKeys' = sKeys
<1> PICK at, buf, rest, one : at = sv.at /\ buf = sv.buf /\ rest = Tail(sv.buf) /\ one = <<Head(sv.buf)>>
  OBVIOUS
<1>1. /\ ServerType
      /\ at = "toShell" => buf \in KeyQueue /\ Len(buf) <= OutSize
      /\ at = "toSocket" => buf \in OutputQueue /\ Len(buf) <= BufSize
  BY DEF IInv, TypeInv, ServerType, ServerBuffer
<1>2. CASE at = "toShell"
  <2>1. /\ Head(buf) \in KeyBytes /\ rest \in KeyQueue /\ one \in KeyQueue /\ buf = one \o rest
        /\ Len(rest) \in Nat /\ Len(buf) = Len(rest) + 1
    BY <1>1, <1>2, HeadTailProperties DEF KeyQueue
  <2>2. rest \in Buffers /\ "toShell" \in ServerSteps /\ ServerBuffer("toShell", rest)
    BY <1>1, <1>2, <2>1, SessionAssumption DEF Buffers, ServerSteps, ServerBuffer
  <2>3. sv' = [sv EXCEPT !.at = "toShell", !.buf = rest]
    BY <1>1, <1>2 DEF ServerType, ByteDone
  <2>4. ServerType' /\ sv'.at = "toShell" /\ sv'.buf = rest
    BY <1>1, <2>2, <2>3, ServerTakes
  <2>5. ASSUME TypeInv' PROVE sKeys = one \o sKeys' /\ sOutput' = sOutput
    <3> PICK units : units = FlattenSeq(net.c2s)
      OBVIOUS
    <3>1. units \in KeyQueue
      BY FlattenType DEF IInv, TypeInv, NetType, Room, KeyUnits, KeyQueue
    <3>2. sKeys = buf \o units
      BY <1>2, sKeysHere
    <3>3. sKeys' = rest \o units
      <4>1. sKeys' = sv'.buf \o FlattenSeq(net.c2s)'
        BY <2>4, sKeysHereNext
      <4> QED BY <2>4, <4>1
    <3>4. one \in KeyQueue /\ rest \in KeyQueue /\ units \in KeyQueue
      BY <2>1, <3>1
    <3>5. (one \o rest) \o units = one \o (rest \o units)
      BY ONLY <3>4, SMTT(30) DEF KeyQueue
    <3>6. sOutput' = sOutput
      <4>1. sOutput = FlattenSeq(net.s_held) \o pipes.shell_out
        BY <1>2, sOutputElse DEF IInv
      <4>2. sOutput' = FlattenSeq(net.s_held)' \o (pipes.shell_out)'
        BY <2>4, <2>5, sOutputElseNext
      <4> QED BY <4>1, <4>2
    <3> QED BY <2>1, <3>2, <3>3, <3>5, <3>6, Zenon
  <2> QED BY <1>2, <2>1, <2>4, <2>5
<1>3. CASE at = "toSocket"
  <2> PICK out : out = pipes.shell_out
    OBVIOUS
  <2>1. /\ Head(buf) \in OutputBytes /\ rest \in OutputQueue /\ one \in OutputQueue /\ buf = one \o rest
        /\ Len(rest) \in Nat /\ Len(buf) = Len(rest) + 1
    BY <1>1, <1>3, HeadTailProperties DEF OutputQueue
  <2>2. rest \in Buffers /\ "toSocket" \in ServerSteps /\ ServerBuffer("toSocket", rest)
    BY <1>1, <1>3, <2>1, SessionAssumption DEF Buffers, ServerSteps, ServerBuffer
  <2>3. sv' = [sv EXCEPT !.at = "toSocket", !.buf = rest]
    BY <1>1, <1>3 DEF ServerType, ByteDone
  <2>4. ServerType' /\ sv'.at = "toSocket" /\ sv'.buf = rest
    BY <1>1, <2>2, <2>3, ServerTakes
  <2>5. ASSUME TypeInv' PROVE sOutput = one \o sOutput' /\ sKeys' = sKeys
    <3>1. sKeys = FlattenSeq(net.c2s) /\ sKeys' = FlattenSeq(net.c2s)'
      BY <1>3, <2>4, <2>5, sKeysElse, sKeysElseNext DEF IInv
    <3>2. FlattenSeq(net.s_held) = <<>>
      BY <1>3, FlattenNone DEF IInv, ModeInv, TypeInv
    <3>3. sOutput = FlattenSeq(net.s_held) \o (buf \o out)
      BY <1>3, sOutputHere DEF IInv
    <3>4. sOutput' = FlattenSeq(net.s_held)' \o (sv'.buf \o pipes'.shell_out)
      BY <2>4, <2>5, sOutputHereNext
    <3>5. sOutput' = <<>> \o (rest \o out)
      BY <2>4, <3>2, <3>4
    <3>6. out \in OutputQueue
      BY DEF IInv, TypeInv, PipesType
    <3>7. buf \o out \in OutputQueue /\ rest \o out \in OutputQueue
      BY <1>1, <1>3, <2>1, <3>6, OutputConcat
    <3>8. sOutput = buf \o out /\ sOutput' = rest \o out
      BY <3>2, <3>3, <3>5, <3>7, OutputEmpty
    <3>9. one \in OutputQueue /\ rest \in OutputQueue /\ out \in OutputQueue
      BY <2>1, <3>6
    <3>10. (one \o rest) \o out = one \o (rest \o out)
      BY ONLY <3>9, SMTT(30) DEF OutputQueue
    <3>11. sKeys' = sKeys
      BY <3>1
    <3> QED BY <2>1, <3>8, <3>10, <3>11, Zenon
  <2> QED BY <1>3, <2>1, <2>4, <2>5
<1> QED BY <1>2, <1>3

LEMMA ServerControlIInv ==
  ASSUME IInv, ServerControl, UNCHANGED compress_flag
  PROVE  IInv'
<1> PICK b, one : b = Head(sv.buf) /\ one = <<Head(sv.buf)>>
  OBVIOUS
<1>1. /\ sv.at \in {"toShell", "toSocket"} /\ sv.buf # <<>> /\ ServerRuns
      /\ UNCHANGED <<keyboard, cl, terminal, net, hist, compress_flag>>
      /\ sv.at = "toSocket" => ~compress_flag
  BY DEF ServerControl, ServerRuns, IInv, ModeInv
<1>2. /\ pipes.in_open /\ (net.s_err # "none" => ClientGone) /\ NetType' /\ PipesType
      /\ compress_flag \in BOOLEAN
      /\ ~compress_flag => net.s_held = <<>> /\ net.c2s \in Seq(Singles(KeyBytes))
  BY <1>1 DEF IInv, TypeInv, NetType, Room, ControlInv, ModeInv
<1>3. CASE /\ b[1] = "^C" /\ ByteDone /\ UNCHANGED pipes
           /\ shell' = shell \/ (~ShellGone /\ shell' = "exited")
  <2>1. /\ ServerType' /\ sv'.at = sv.at
        /\ sv.at = "toShell" =>
             /\ b \in KeyBytes /\ one \in KeyQueue
             /\ TypeInv' => sKeys = one \o sKeys' /\ sOutput' = sOutput
        /\ sv.at = "toSocket" =>
             /\ b \in OutputBytes /\ one \in OutputQueue
             /\ TypeInv' => sOutput = one \o sOutput' /\ sKeys' = sKeys
    BY <1>1, <1>3, ServerByte
  <2>2. PipesType' /\ shell' \in {"idle", "writing", "exited", "reaped"} /\ ServerRuns'
    BY <1>1, <1>2, <1>3, <2>1 DEF IInv, TypeInv, PipesType, ServerRuns
  <2>3. TypeInv' /\ cKeys' = cKeys /\ (ClientRuns' <=> ClientRuns)
        /\ (InputInv' /\ OutputInv' => IInv')
    BY <1>1, <1>2, <1>3, <2>1, <2>2, ServerKeeps
  <2>4. cOutput' = cOutput
    BY <1>1, ClientFrame
  <2>5. hist'.typed = hist.typed /\ Reached' = Reached /\ ~EofTyped'
    BY <1>1, <1>3, <2>1 DEF Reached, EofTyped
  <2>6. Plain(one) = <<>> /\ ~HasEof(one)
    <3>1. b \in KeyBytes \/ b \in OutputBytes
      BY <1>1, <2>1
    <3>2. ~IsPlain(b)
      BY <1>3 DEF IsPlain
    <3> QED BY <1>3, <3>1, <3>2, PlainOne, EofOne
  <2>7. CASE sv.at = "toShell"
    <3>1. Reached' = Reached \o Plain(one)
      <4>1. Reached \o <<>> = Reached
        BY HistFields, KeyEmpty DEF IInv
      <4> QED BY <2>5, <2>6, <4>1
    <3>2. one \in KeyQueue /\ sKeys = one \o sKeys' /\ sOutput' = sOutput
      BY <2>1, <2>3, <2>7
    <3>3. InputInv'
      BY <1>1, <2>2, <2>3, <2>5, <2>6, <3>1, <3>2, InputDone DEF IInv
    <3>4. OutputInv'
      BY <1>1, <2>3, <2>4, <3>2, OutputStays DEF IInv
    <3> QED BY <2>3, <3>3, <3>4
  <2>8. CASE sv.at = "toSocket"
    <3>1. one \in OutputQueue /\ sOutput = one \o sOutput' /\ sKeys' = sKeys
      BY <2>1, <2>3, <2>8
    <3>2. cOutput' = cOutput \o Shown(one)
      <4>1. Shown(one) = <<>>
        BY <1>1, <2>6, <2>8 DEF Shown
      <4>2. cOutput \o <<>> = cOutput
        BY Places, OutputEmpty DEF IInv
      <4> QED BY <2>4, <4>1, <4>2
    <3>3. InputInv'
      BY <1>1, <2>3, <2>5, <3>1, InputStays DEF IInv
    <3>4. OutputInv'
      BY <1>1, <2>2, <2>3, <3>1, <3>2, OutputSent DEF IInv
    <3> QED BY <2>3, <3>3, <3>4
  <2> QED BY <1>1, <2>7, <2>8
<1>4. CASE /\ b[1] = "^D" /\ ServerExits /\ UNCHANGED shell
           /\ pipes' = [pipes EXCEPT !.in_open = FALSE]
  <2>1. ServerType' /\ sv'.at = "restore"
    <3>1. "restore" \in ServerSteps
      BY DEF ServerSteps
    <3> QED BY <1>4, <3>1, ServerLeaves DEF ServerExits
  <2>2. /\ PipesType' /\ pipes'.shell_in = pipes.shell_in /\ ~ServerRuns'
        /\ shell' \in {"idle", "writing", "exited", "reaped"}
    BY <1>2, <1>4, <2>1 DEF PipesType, ServerRuns, IInv, TypeInv
  <2>3. TypeInv' /\ cKeys' = cKeys /\ (ClientRuns' <=> ClientRuns)
        /\ (InputInv' /\ OutputInv' => IInv')
    BY <1>1, <1>2, <1>4, <2>1, <2>2, ServerKeeps
  <2>4. cOutput' = cOutput
    BY <1>1, ClientFrame
  <2>5. hist'.typed = hist.typed /\ Reached' = Reached
    BY <1>1, <2>2 DEF Reached
  <2>6. EofTyped' => ServerRuns /\ sKeys # <<>> /\ Head(sKeys)[1] = "^D"
    <3> PICK buf : buf = sv.buf
      OBVIOUS
    <3>1. CASE sv.at = "toShell"
      <4> PICK units : units = FlattenSeq(net.c2s)
        OBVIOUS
      <4>1. buf \in KeyQueue /\ units \in KeyQueue /\ buf # <<>>
        BY <1>1, <3>1, FlattenType
           DEF IInv, TypeInv, ServerType, ServerBuffer, NetType, Room, KeyUnits, KeyQueue
      <4>2. sKeys = buf \o units
        BY <3>1, sKeysHere
      <4>3. buf \o units # <<>> /\ Head(buf \o units) = Head(buf)
        BY <4>1, HeadOfConcat DEF KeyQueue
      <4>4. Head(sKeys) = b
        BY <4>2, <4>3, Zenon
      <4> QED BY <1>1, <1>4, <4>2, <4>3, <4>4
    <3>2. CASE sv.at = "toSocket"
      <4> PICK out, rest : out = pipes.shell_out /\ rest = Tail(sv.buf)
        OBVIOUS
      <4>1. buf \in OutputQueue /\ out \in OutputQueue /\ buf # <<>>
        BY <1>1, <3>2 DEF IInv, TypeInv, ServerType, ServerBuffer, PipesType
      <4>2. HasEof(buf)
        <5>1. 1 \in DOMAIN buf /\ buf[1] = b
          BY <4>1, EmptySeq, LenProperties DEF OutputQueue
        <5> QED BY <1>4, <5>1 DEF HasEof
      <4>3. sOutput = buf \o out
        <5>1. FlattenSeq(net.s_held) = <<>>
          BY <1>1, <1>2, <3>2, FlattenNone
        <5>2. sOutput = FlattenSeq(net.s_held) \o (buf \o out)
          BY <3>2, sOutputHere DEF IInv
        <5>3. buf \o out \in OutputQueue
          BY <4>1, OutputConcat
        <5> QED BY <5>1, <5>2, <5>3, OutputEmpty
      <4>4. HasEof(sOutput)
        BY <4>1, <4>2, <4>3, EofConcat DEF OutputQueue
      <4>5. PICK past \in OutputQueue, left \in OutputQueue, wire \in OutputQueue :
              OutputSplit(past, left, wire)
        BY DEF IInv, OutputInv
      <4>6. hist.written = past \o left /\ left = sOutput
        BY <1>1, <4>5 DEF OutputSplit
      <4>7. HasEof(past \o left)
        BY <4>4, <4>6, EofConcat DEF OutputQueue
      <4>8. HasEof(hist.written) /\ hist' = hist
        BY <1>1, <4>6, <4>7
      <4> QED BY <4>8 DEF EofTyped
    <3> QED BY <1>1, <3>1, <3>2
  <2>7. InputInv'
    BY <2>2, <2>3, <2>5, <2>6, InputStays DEF IInv
  <2>8. OutputInv'
    BY <1>1, <2>2, <2>3, <2>4, OutputStays DEF IInv
  <2> QED BY <2>3, <2>7, <2>8
<1> QED BY <1>3, <1>4 DEF ServerControl, NextKind

LEMMA ServerToShellIInv ==
  ASSUME IInv, ServerToShell, UNCHANGED compress_flag
  PROVE  IInv'
<1> PICK b, one, shell_in : b = Head(sv.buf) /\ one = <<Head(sv.buf)>> /\ shell_in = pipes.shell_in
  OBVIOUS
<1>1. /\ sv.at = "toShell" /\ sv.buf # <<>> /\ ServerRuns /\ b[1] \notin {"^C", "^D"}
      /\ UNCHANGED <<keyboard, cl, terminal, net, shell, hist, compress_flag>>
  BY DEF ServerToShell, ServerRuns, NextKind
<1>2. CASE ServerExits /\ UNCHANGED pipes
  BY <1>1, <1>2, ServerStopsIInv
<1>3. CASE /\ Len(pipes.shell_in) < PipeSize /\ ByteDone
           /\ pipes' = [pipes EXCEPT !.shell_in = Append(@, Head(sv.buf))]
  <2>0. pipes'.shell_out = pipes.shell_out /\ pipes'.in_open = pipes.in_open
        /\ pipes'.shell_in = Append(shell_in, b)
    BY <1>3 DEF IInv, TypeInv, PipesType
  <2>1. /\ ServerType' /\ sv'.at = sv.at /\ b \in KeyBytes /\ one \in KeyQueue
        /\ TypeInv' => sKeys = one \o sKeys' /\ sOutput' = sOutput
    BY <1>1, <1>3, <2>0, ServerByte
  <2>2. PipesType'
    <3>1. shell_in \in KeyQueue /\ Len(shell_in) \in Nat /\ Len(shell_in) < PipeSize
      BY <1>3, LenProperties DEF IInv, TypeInv, PipesType, KeyQueue
    <3>2. Append(shell_in, b) \in KeyQueue /\ Len(Append(shell_in, b)) = Len(shell_in) + 1
      BY <2>1, <3>1, AppendProperties DEF KeyQueue
    <3>3. pipes' = [pipes EXCEPT !.shell_in = Append(shell_in, b)]
      BY <1>3
    <3>4. Len(Append(shell_in, b)) <= PipeSize
      BY <3>1, <3>2, SessionAssumption
    <3> QED BY <2>0, <3>2, <3>3, <3>4 DEF IInv, TypeInv, PipesType
  <2>3. TypeInv' /\ cKeys' = cKeys /\ (ClientRuns' <=> ClientRuns)
        /\ (InputInv' /\ OutputInv' => IInv')
    <3>1. pipes.in_open /\ (net.s_err # "none" => ClientGone) /\ NetType'
      BY <1>1 DEF IInv, TypeInv, NetType, Room, ControlInv
    <3>2. ~compress_flag => net.s_held = <<>> /\ net.c2s \in Seq(Singles(KeyBytes))
      BY DEF IInv, ModeInv
    <3>3. shell' \in {"idle", "writing", "exited", "reaped"}
      BY <1>1 DEF IInv, TypeInv
    <3> QED BY <1>1, <2>0, <2>1, <2>2, <3>1, <3>2, <3>3, ServerKeeps
  <2>4. cOutput' = cOutput
    BY <1>1, ClientFrame
  <2>5. Plain(one) = one /\ ~HasEof(one)
    <3>1. IsPlain(b)
      BY <1>1 DEF IsPlain
    <3> QED BY <1>1, <2>1, <3>1, PlainOne, EofOne
  <2>6. Reached' = Reached \o Plain(one)
    <3> PICK consumed : consumed = hist.consumed
      OBVIOUS
    <3>1. consumed \in KeyQueue /\ shell_in \in KeyQueue /\ one \in KeyQueue
      BY <2>1, HistFields DEF IInv
    <3>2. Append(shell_in, b) = shell_in \o one
      BY <2>1, <3>1, AppendIsConcat DEF KeyQueue
    <3>3. (consumed \o shell_in) \o one = consumed \o (shell_in \o one)
      BY ONLY <3>1, SMTT(30) DEF KeyQueue
    <3>4. Reached' = consumed \o Append(shell_in, b)
      BY <1>1, <2>0 DEF Reached
    <3>5. Reached = consumed \o shell_in
      BY DEF Reached
    <3> QED BY <2>5, <3>2, <3>3, <3>4, <3>5, Zenon
  <2>7. InputInv'
    <3>1. hist'.typed = hist.typed /\ ~EofTyped' /\ ServerRuns'
      BY <1>1, <2>1 DEF EofTyped, ServerRuns
    <3>2. sKeys = one \o sKeys' /\ one \in KeyQueue
      BY <2>1, <2>3
    <3> QED BY <1>1, <2>3, <2>5, <2>6, <3>1, <3>2, InputDone DEF IInv
  <2>8. OutputInv'
    BY <1>1, <2>1, <2>3, <2>4, OutputStays DEF IInv
  <2> QED BY <2>3, <2>7, <2>8
<1> QED BY <1>2, <1>3 DEF ServerToShell

LEMMA ServerToSocketIInv ==
  ASSUME IInv, ServerToSocket, UNCHANGED compress_flag
  PROVE  IInv'
<1> PICK b, one, s2c : b = Head(sv.buf) /\ one = <<Head(sv.buf)>> /\ s2c = net.s2c
  OBVIOUS
<1>1. /\ sv.at = "toSocket" /\ sv.buf # <<>> /\ ServerRuns /\ b[1] \notin {"^C", "^D"}
      /\ UNCHANGED <<keyboard, cl, terminal, pipes, shell, hist, compress_flag>>
      /\ ~compress_flag
  BY DEF ServerToSocket, ServerRuns, NextKind, IInv, ModeInv
<1>2. CASE ServerExits /\ UNCHANGED net
  BY <1>1, <1>2, ServerStopsIInv
<1>3. CASE /\ \/ /\ ~ClientGone /\ Len(net.s2c) < Room
                 /\ net' = [net EXCEPT !.s2c = Append(@, <<Head(sv.buf)>>)]
              \/ /\ ClientGone /\ net.s_err = "none"
                 /\ net' = [net EXCEPT !.s_err = "EPIPE"]
           /\ ByteDone
  <2>1. /\ net'.c2s = net.c2s /\ net'.s_held = net.s_held /\ net'.c_held = net.c_held
        /\ net'.c_err = net.c_err
    BY <1>3 DEF IInv, TypeInv, NetType, Room
  <2>2. /\ ServerType' /\ sv'.at = sv.at /\ b \in OutputBytes /\ one \in OutputQueue
        /\ TypeInv' => sOutput = one \o sOutput' /\ sKeys' = sKeys
    BY <1>1, <1>3, <2>1, ServerByte
  <2>3. /\ s2c \in OutputUnits /\ Len(s2c) \in Nat /\ Append(s2c, one) \in OutputUnits
        /\ Len(Append(s2c, one)) = Len(s2c) + 1 /\ Append(s2c, one) = s2c \o <<one>>
        /\ <<one>> \in OutputUnits
    <3>1. s2c \in OutputUnits
      BY DEF IInv, TypeInv, NetType, Room
    <3> QED BY <2>2, <3>1, AppendProperties, AppendIsConcat, LenProperties DEF OutputUnits
  <2>4. /\ net' \in [c2s : KeyUnits, s2c : OutputUnits, c_held : KeyUnits, s_held : OutputUnits,
                     c_err : Errors, s_err : Errors]
        /\ \/ ClientGone /\ net'.s2c = s2c
           \/ /\ ~ClientGone /\ net'.s2c = Append(s2c, one) /\ net'.s_err = net.s_err
              /\ Len(s2c) < Room
    <3>1. CASE ClientGone /\ net.s_err = "none" /\ net' = [net EXCEPT !.s_err = "EPIPE"]
      BY <3>1 DEF IInv, TypeInv, NetType, Room, Errors
    <3>2. CASE /\ ~ClientGone /\ Len(net.s2c) < Room
               /\ net' = [net EXCEPT !.s2c = Append(@, <<Head(sv.buf)>>)]
      BY <2>3, <3>2 DEF IInv, TypeInv, NetType, Room
    <3> QED BY <1>3, <3>1, <3>2
  <2>5. NetType' /\ PipesType' /\ shell' \in {"idle", "writing", "exited", "reaped"}
    <3>1. Len(net'.s2c) <= Room /\ Len(net'.c2s) <= Room
      <4>1. Len(s2c) <= Room /\ Room \in Nat /\ Len(net.c2s) <= Room
        BY SessionAssumption DEF IInv, TypeInv, NetType, Room
      <4> QED BY <2>1, <2>3, <2>4, <4>1
    <3> QED BY <1>1, <2>4, <3>1 DEF IInv, TypeInv, NetType, Room, PipesType
  <2>6. pipes.in_open /\ (net'.s_err # "none" => ClientGone)
    BY <1>1, <2>4 DEF IInv, ControlInv
  <2>7. TypeInv' /\ cKeys' = cKeys /\ (ClientRuns' <=> ClientRuns)
        /\ (InputInv' /\ OutputInv' => IInv')
    <3>1. ~compress_flag => net.s_held = <<>> /\ net.c2s \in Seq(Singles(KeyBytes))
      BY DEF IInv, ModeInv
    <3>2. sv'.at = "toSocket"
      BY <1>1, <2>2
    <3> QED BY <1>1, <2>1, <2>2, <2>5, <2>6, <3>1, <3>2, ServerKeeps
  <2>8. ClientRuns' => ClientRuns /\ cOutput' = cOutput \o Shown(one)
    <3>1. Shown(one) = one
      <4>1. IsPlain(b)
        BY <1>1 DEF IsPlain
      <4> QED BY <1>1, <2>2, <4>1, PlainOne DEF Shown
    <3>2. FlattenSeq(<<one>>) = one
      BY <2>2, FlattenOne DEF OutputQueue
    <3>3. ClientRuns' => net'.s2c = net.s2c \o <<one>>
      BY <2>3, <2>4, <2>7 DEF ClientRuns
    <3>4. ClientRuns' => cOutput' = cOutput \o FlattenSeq(<<one>>)
      BY <1>1, <2>3, <3>3, UnitsToClient DEF IInv
    <3> QED BY <2>7, <3>1, <3>2, <3>4
  <2>9. InputInv'
    <3>1. hist'.typed = hist.typed /\ Reached' = Reached /\ ~EofTyped'
      BY <1>1, <2>2 DEF Reached, EofTyped
    <3> QED BY <1>1, <2>2, <2>7, <3>1, InputStays DEF IInv
  <2>10. OutputInv'
    <3>1. sOutput = one \o sOutput' /\ one \in OutputQueue /\ ServerRuns'
      BY <1>1, <2>2, <2>7 DEF ServerRuns
    <3> QED BY <1>1, <2>7, <2>8, <3>1, OutputSent DEF IInv
  <2> QED BY <2>7, <2>9, <2>10
<1> QED BY <1>2, <1>3 DEF ServerToSocket

(* The end of the server.                                                  *)
LEMMA ServerRestoreIInv ==
  ASSUME IInv, ServerRestore, UNCHANGED compress_flag
  PROVE  IInv'
<1>1. /\ sv.at = "restore" /\ shell' = "reaped" /\ sv' = [Looping EXCEPT !.at = "exited"]
      /\ net' = [net EXCEPT !.c_err = ErrorAfterClose(net.c_err, net.c2s)]
      /\ pipes' = [pipes EXCEPT !.in_open = FALSE]
      /\ UNCHANGED <<keyboard, cl, terminal, hist, compress_flag>>
  BY DEF ServerRestore
<1>2. ServerType' /\ sv'.at = "exited"
  <2>1. "exited" \in ServerSteps
    BY DEF ServerSteps
  <2> QED BY <1>1, <2>1, ServerLeaves
<1>3. net.c_err = "none"
  BY <1>1 DEF IInv, ControlInv, ServerGone
<1>4. ErrorAfterClose(net.c_err, net.c2s) \in {"none", "ECONNRESET"}
  BY <1>3 DEF ErrorAfterClose
<1>5. /\ net'.c2s = net.c2s /\ net'.s2c = net.s2c /\ net'.s_held = net.s_held
      /\ net'.c_held = net.c_held /\ net'.s_err = net.s_err /\ net'.c_err # "EPIPE"
      /\ NetType'
  BY <1>1, <1>4 DEF IInv, TypeInv, NetType, Room, Errors
<1>6. pipes'.shell_in = pipes.shell_in /\ pipes'.shell_out = pipes.shell_out /\ PipesType'
  BY <1>1 DEF IInv, TypeInv, PipesType
<1>7. TypeInv'
  BY <1>1, <1>2, <1>5, <1>6 DEF IInv, TypeInv, ClientType, HistType
<1>8. ServerGone' /\ ~ServerRuns'
  BY <1>2 DEF ServerGone, ServerRuns
<1>9. ControlInv'
  BY <1>1, <1>5, <1>8 DEF IInv, ControlInv, ClientGone
<1>10. ModeInv'
  BY <1>1, <1>2, <1>5 DEF IInv, ModeInv
<1>11. CountInv'
  BY <1>1, <1>5 DEF IInv, CountInv
<1>12. cKeys' = cKeys /\ cOutput' = cOutput /\ (ClientRuns' <=> ClientRuns)
  BY <1>1, <1>5, ClientFrame
<1>13. InputInv'
  <2>1. hist'.typed = hist.typed /\ Reached' = Reached /\ ~EofTyped'
    BY <1>1, <1>2, <1>6 DEF Reached, EofTyped
  <2> QED BY <1>7, <1>8, <1>12, <2>1, InputStays DEF IInv
<1>14. OutputInv'
  BY <1>1, <1>7, <1>8, <1>12, OutputStays DEF IInv
<1> QED BY <1>7, <1>9, <1>10, <1>11, <1>13, <1>14 DEF IInv

LEMMA ServerIInv ==
  ASSUME IInv, Server
  PROVE  IInv'
BY ServerPollIInv, ServerReadSocketIInv, ServerReadShellIInv, ServerControlIInv,
   ServerToShellIInv, ServerToSocketIInv, ServerDoneIInv, ServerWriteIInv, ServerRestoreIInv
   DEF Server

-----------------------------------------------------------------------------
(* The shell and the user.                                                 *)

(* What the two programs have is theirs.                                   *)
LEMMA ProgramsFrame ==
  ASSUME cl' = cl, sv' = sv, net' = net
  PROVE  /\ keyboard' = keyboard => cKeys' = cKeys
         /\ pipes'.shell_out = pipes.shell_out => sOutput' = sOutput
         /\ sKeys' = sKeys /\ cOutput' = cOutput
         /\ (ClientRuns' <=> ClientRuns) /\ (ServerRuns' <=> ServerRuns)
BY ClientFrame, ServerFrame

LEMMA ShellReadIInv ==
  ASSUME IInv, ShellRead, UNCHANGED compress_flag
  PROVE  IInv'
<1> PICK b, shell_in, rest, consumed :
      /\ b = Head(pipes.shell_in) /\ shell_in = pipes.shell_in /\ rest = Tail(pipes.shell_in)
      /\ consumed = hist.consumed
  OBVIOUS
<1>1. /\ shell = "idle" /\ shell_in # <<>> /\ shell' \in {"idle", "exited"}
      /\ pipes' = [pipes EXCEPT !.shell_in = rest]
      /\ hist' = [hist EXCEPT !.consumed = Append(consumed, b)]
      /\ UNCHANGED <<keyboard, cl, terminal, net, sv, compress_flag>>
  BY DEF ShellRead
<1>2. /\ shell_in \in KeyQueue /\ b \in KeyBytes /\ rest \in KeyQueue /\ consumed \in KeyQueue
      /\ shell_in = <<b>> \o rest /\ <<b>> \in KeyQueue
      /\ Len(shell_in) = Len(rest) + 1 /\ Len(rest) \in Nat /\ Len(shell_in) <= PipeSize
  BY <1>1, HeadTailProperties DEF IInv, TypeInv, PipesType, HistType, KeyQueue
<1>3. Append(consumed, b) \in KeyQueue /\ Append(consumed, b) = consumed \o <<b>>
  BY <1>2, AppendProperties, AppendIsConcat DEF KeyQueue
<1>4. /\ pipes'.shell_in = rest /\ pipes'.shell_out = pipes.shell_out
      /\ pipes'.in_open = pipes.in_open /\ PipesType'
  <2>1. Len(rest) <= PipeSize
    BY <1>2, SessionAssumption
  <2> QED BY <1>1, <1>2, <2>1 DEF IInv, TypeInv, PipesType
<1>5. /\ hist'.typed = hist.typed /\ hist'.consumed = Append(consumed, b)
      /\ hist'.written = hist.written /\ hist'.displayed = hist.displayed /\ HistType'
  BY <1>1, <1>3 DEF IInv, TypeInv, HistType
<1>6. TypeInv'
  BY <1>1, <1>4, <1>5 DEF IInv, TypeInv, ClientType, ServerType, NetType, Room
<1>7. ~ServerGone /\ ~ServerGone'
  BY <1>1 DEF IInv, ControlInv, ServerGone
<1>8. ControlInv'
  BY <1>1, <1>4, <1>7 DEF IInv, ControlInv, ServerGone, ClientGone, ServerRuns
<1>9. ModeInv'
  BY <1>1 DEF IInv, ModeInv
<1>10. CountInv'
  <2>1. net.c_err # "EPIPE" /\ cl.at # "sigpipe"
    BY <1>7 DEF IInv, ControlInv
  <2> QED BY <1>1, <2>1 DEF IInv, CountInv
<1>11. /\ cKeys' = cKeys /\ sOutput' = sOutput /\ sKeys' = sKeys /\ cOutput' = cOutput
       /\ (ClientRuns' <=> ClientRuns) /\ (ServerRuns' <=> ServerRuns)
  BY <1>1, <1>4, ProgramsFrame
<1>12. Reached' = Reached
  <2> PICK one : one = <<b>>
    OBVIOUS
  <2>1. consumed \in KeyQueue /\ one \in KeyQueue /\ rest \in KeyQueue
    BY <1>2
  <2>2. (consumed \o one) \o rest = consumed \o (one \o rest)
    BY ONLY <2>1, SMTT(30) DEF KeyQueue
  <2>3. Reached' = Append(consumed, b) \o rest /\ Reached = consumed \o shell_in
    BY <1>4, <1>5 DEF Reached
  <2>4. Append(consumed, b) = consumed \o one /\ shell_in = one \o rest
    BY <1>2, <1>3
  <2> QED BY <2>2, <2>3, <2>4, Zenon
<1>13. InputInv'
  <2>1. EofTyped' => EofTyped
    BY <1>1, <1>4, <1>5 DEF EofTyped
  <2> QED BY <1>5, <1>6, <1>11, <1>12, <2>1, InputStays DEF IInv
<1>14. OutputInv'
  BY <1>1, <1>5, <1>6, <1>11, OutputStays DEF IInv
<1> QED BY <1>6, <1>8, <1>9, <1>10, <1>13, <1>14 DEF IInv

(* The shell ends, or starts to write.                                     *)
LEMMA ShellTurnsIInv ==
  ASSUME IInv, shell = "idle", shell' \in {"writing", "exited"},
         shell' = "writing" => Len(hist.written) < MaxWritten,
         UNCHANGED <<compress_flag, keyboard, cl, terminal, net, sv, pipes, hist>>
  PROVE  IInv'
<1>1. TypeInv'
  BY DEF IInv, TypeInv, ClientType, ServerType, NetType, Room, PipesType, HistType
<1>2. ControlInv'
  BY DEF IInv, ControlInv, ServerGone, ClientGone, ServerRuns
<1>3. ModeInv' /\ CountInv'
  BY DEF IInv, ModeInv, CountInv, Unsent, ClientRuns, ClientGone
<1>4. /\ cKeys' = cKeys /\ sOutput' = sOutput /\ sKeys' = sKeys /\ cOutput' = cOutput
      /\ (ClientRuns' <=> ClientRuns) /\ (ServerRuns' <=> ServerRuns)
  BY ProgramsFrame
<1>5. InputInv'
  <2>1. Reached' = Reached /\ (EofTyped' => EofTyped)
    BY DEF Reached, EofTyped
  <2> QED BY <1>1, <1>4, <2>1, InputStays DEF IInv
<1>6. OutputInv'
  BY <1>1, <1>4, OutputStays DEF IInv
<1> QED BY <1>1, <1>2, <1>3, <1>5, <1>6 DEF IInv

LEMMA ShellWriteIInv ==
  ASSUME IInv, ShellWrite, UNCHANGED compress_flag
  PROVE  IInv'
<1> PICK out, written, n : out = pipes.shell_out /\ written = hist.written /\ n = Len(hist.written)
  OBVIOUS
<1>1. PICK b : /\ \E kind \in OutputKinds : b = <<kind, n + 1>>
               /\ pipes' = [pipes EXCEPT !.shell_out = Append(out, b)]
               /\ hist' = [hist EXCEPT !.written = Append(written, b)]
  BY SessionAssumption DEF ShellWrite
<1> PICK one : one = <<b>>
  OBVIOUS
<1>2. /\ shell = "writing" /\ shell' = "idle" /\ Len(out) < PipeSize
      /\ UNCHANGED <<keyboard, cl, terminal, net, sv, compress_flag>>
  BY DEF ShellWrite
<1>3. /\ out \in OutputQueue /\ written \in OutputQueue /\ n \in Nat /\ n < MaxWritten
      /\ Len(out) \in Nat
  <2>1. out \in OutputQueue /\ written \in OutputQueue /\ n < MaxWritten
    BY <1>2 DEF IInv, TypeInv, PipesType, HistType
  <2> QED BY <2>1, LenProperties DEF OutputQueue
<1>4. b \in OutputBytes /\ one \in OutputQueue
  <2>1. MaxWritten \in Nat
    BY SessionAssumption
  <2>2. n + 1 \in 1..MaxWritten
    BY ONLY <1>3, <2>1
  <2>3. b \in OutputBytes
    BY <1>1, <2>2 DEF OutputBytes, Bytes
  <2> QED BY <2>3 DEF OutputQueue
<1>5. /\ Append(out, b) \in OutputQueue /\ Append(written, b) \in OutputQueue
      /\ Len(Append(out, b)) = Len(out) + 1 /\ Append(written, b) = written \o one
  BY <1>3, <1>4, AppendProperties, AppendIsConcat DEF OutputQueue
<1>6. /\ pipes'.shell_in = pipes.shell_in /\ pipes'.shell_out = Append(out, b)
      /\ pipes'.in_open = pipes.in_open /\ PipesType'
  <2>1. Len(Append(out, b)) <= PipeSize
    <3>1. PipeSize \in Nat
      BY SessionAssumption
    <3> QED BY <1>2, <1>3, <1>5, <3>1
  <2> QED BY <1>1, <1>5, <2>1 DEF IInv, TypeInv, PipesType
<1>7. /\ hist'.typed = hist.typed /\ hist'.consumed = hist.consumed
      /\ hist'.written = written \o one /\ hist'.displayed = hist.displayed /\ HistType'
  BY <1>1, <1>5 DEF IInv, TypeInv, HistType
<1>8. TypeInv'
  BY <1>2, <1>6, <1>7 DEF IInv, TypeInv, ClientType, ServerType, NetType, Room
<1>9. ControlInv'
  BY <1>2, <1>6 DEF IInv, ControlInv, ServerGone, ClientGone, ServerRuns
<1>10. ModeInv' /\ CountInv'
  <2>1. ModeInv'
    BY <1>2 DEF IInv, ModeInv
  <2>2. Unsent' = Unsent /\ (ClientRuns' <=> ClientRuns)
    BY <1>2 DEF Unsent, ClientRuns, ClientGone
  <2>3. CountInv'
    BY <1>2, <1>7, <2>2 DEF IInv, CountInv
  <2> QED BY <2>1, <2>3
<1>11. /\ cKeys' = cKeys /\ sKeys' = sKeys /\ cOutput' = cOutput
       /\ (ClientRuns' <=> ClientRuns) /\ (ServerRuns' <=> ServerRuns)
  BY <1>2, ProgramsFrame
<1>12. InputInv'
  <2>1. HasEof(written) => HasEof(written \o one)
    BY <1>3, <1>4, EofConcat DEF OutputQueue
  <2>2. Reached' = Reached /\ (EofTyped' => EofTyped)
    BY <1>2, <1>6, <1>7, <2>1 DEF Reached, EofTyped
  <2> QED BY <1>7, <1>8, <1>11, <2>2, InputStays DEF IInv
<1>13. sOutput' = sOutput \o one
  <2> PICK at, buf, held, steps :
        /\ at = sv.at /\ buf = sv.buf /\ held = net.s_held /\ steps = {"toSocket", "deflating"}
    OBVIOUS
  <2>1. /\ held \in Seq(Seq(OutputBytes)) /\ out \in Seq(OutputBytes) /\ b \in OutputBytes
        /\ Buffered(at, buf, {"write"}) \in Seq(OutputBytes)
        /\ Buffered(at, buf, steps) \in Seq(OutputBytes)
    BY <1>3, <1>4, ServerPlaces DEF IInv, TypeInv, NetType, Room, OutputUnits, OutputQueue
  <2>2. Pending(at, buf, steps, held, Append(out, b)) = Pending(at, buf, steps, held, out) \o <<b>>
    BY ONLY <2>1, PendingGrows
  <2>3. sOutput' = Pending(at, buf, steps, held, Append(out, b))
    BY <1>2, <1>6 DEF sOutput
  <2>4. sOutput = Pending(at, buf, steps, held, out)
    BY DEF sOutput
  <2> QED BY <2>2, <2>3, <2>4
<1>14. OutputInv'
  <2> PICK none : none = <<>>
    OBVIOUS
  <2>1. /\ none \in OutputQueue /\ Shown(none) = none /\ hist.displayed \o none = hist.displayed
        /\ none \o sOutput' = sOutput' /\ cOutput \o none = cOutput /\ none \o cOutput = cOutput
    <3>1. (TypeInv => sOutput \in OutputQueue)'
      BY Places, PTL
    <3>2. sOutput' \in OutputQueue
      BY <1>8, <3>1
    <3> QED BY <3>2, Places, ShownNone, OutputEmpty, HistFields DEF IInv
  <2>2. /\ ServerRuns' => ServerRuns /\ sOutput \o one = none \o sOutput'
        /\ ClientRuns' => ClientRuns /\ cOutput \o Shown(none) = none \o cOutput'
    BY <1>11, <1>13, <2>1
  <2>3. OutputFlow(one, none, none)
    BY <1>2, <1>4, <1>7, <2>1, <2>2 DEF OutputFlow
  <2> QED BY <1>8, <2>3, OutputStep DEF IInv
<1> QED BY <1>8, <1>9, <1>10, <1>12, <1>14 DEF IInv

LEMMA TypeIInv ==
  ASSUME IInv, Type, UNCHANGED compress_flag
  PROVE  IInv'
<1> PICK kb, typed, n : kb = keyboard /\ typed = hist.typed /\ n = Len(hist.typed)
  OBVIOUS
<1>1. PICK b : /\ \E kind \in Keys : b = <<kind, n + 1>>
               /\ keyboard' = Append(kb, b)
               /\ hist' = [hist EXCEPT !.typed = Append(typed, b)]
  BY SessionAssumption DEF Type
<1> PICK one : one = <<b>>
  OBVIOUS
<1>2. /\ ClientRuns /\ n < MaxTyped
      /\ UNCHANGED <<cl, terminal, net, sv, pipes, shell, compress_flag>>
  BY DEF Type, ClientRuns
<1>3. /\ kb \in KeyQueue /\ typed \in KeyQueue /\ n \in Nat /\ Len(kb) \in Nat
      /\ Len(hist.consumed) \in Nat
  <2>1. kb \in KeyQueue /\ typed \in KeyQueue /\ hist.consumed \in KeyQueue
    BY DEF IInv, TypeInv, HistType
  <2> QED BY <2>1, LenProperties DEF KeyQueue
<1>4. b \in KeyBytes /\ one \in KeyQueue
  <2>1. MaxTyped \in Nat
    BY SessionAssumption
  <2>2. n + 1 \in 1..MaxTyped
    BY ONLY <1>2, <1>3, <2>1
  <2>3. b \in KeyBytes
    BY <1>1, <2>2 DEF KeyBytes, Bytes
  <2> QED BY <2>3 DEF KeyQueue
<1>5. /\ Append(kb, b) \in KeyQueue /\ Append(typed, b) \in KeyQueue /\ Append(kb, b) # <<>>
      /\ Len(Append(kb, b)) = Len(kb) + 1 /\ Append(typed, b) = typed \o one
      /\ Len(Append(typed, b)) = n + 1
  BY <1>3, <1>4, AppendProperties, AppendIsConcat DEF KeyQueue
<1>6. /\ hist'.typed = Append(typed, b) /\ hist'.consumed = hist.consumed
      /\ hist'.written = hist.written /\ hist'.displayed = hist.displayed /\ HistType'
  BY <1>1, <1>5 DEF IInv, TypeInv, HistType
<1>7. TypeInv'
  BY <1>1, <1>2, <1>5, <1>6 DEF IInv, TypeInv, ClientType, ServerType, NetType, Room, PipesType
<1>8. ControlInv'
  BY <1>1, <1>2, <1>5 DEF IInv, ControlInv, ServerGone, ClientGone, ServerRuns
<1>9. ModeInv'
  BY <1>2 DEF IInv, ModeInv
<1>10. CountInv'
  <2>1. Unsent' = Unsent /\ cl.at # "sigpipe"
    BY <1>2 DEF Unsent, ClientRuns, ClientGone
  <2>2. Unsent \in Nat
    <3>1. cl.at = "send" => cl.buf \in Seq(KeyBytes)
      BY DEF IInv, TypeInv, ClientType, ClientBuffer, KeyQueue
    <3> QED BY <3>1, LenProperties DEF Unsent
  <2>3. net.c_err = "EPIPE" => n >= Len(hist.consumed) + Len(kb) + Unsent + 1
    BY <1>2 DEF IInv, CountInv
  <2>4. net.c_err = "EPIPE" => n + 1 >= Len(hist.consumed) + (Len(kb) + 1) + Unsent + 1
    <3> PICK c, k, u : c = Len(hist.consumed) /\ k = Len(kb) /\ u = Unsent
      OBVIOUS
    <3>1. n \in Nat /\ c \in Nat /\ k \in Nat /\ u \in Nat
      BY <1>3, <2>2
    <3>2. n >= c + k + u + 1 => n + 1 >= c + (k + 1) + u + 1
      BY ONLY <3>1
    <3> QED BY <2>3, <3>2
  <2>5. cl' = cl /\ net' = net /\ Len(hist'.typed) = n + 1 /\ Len(keyboard') = Len(kb) + 1
        /\ hist'.consumed = hist.consumed
    BY <1>1, <1>2, <1>5, <1>6
  <2> QED BY <2>1, <2>4, <2>5 DEF IInv, CountInv
<1>11. /\ sKeys' = sKeys /\ sOutput' = sOutput /\ cOutput' = cOutput
       /\ (ClientRuns' <=> ClientRuns) /\ (ServerRuns' <=> ServerRuns)
  BY <1>2, ProgramsFrame
<1>12. OutputInv'
  BY <1>2, <1>6, <1>7, <1>11, OutputStays DEF IInv
<1>13. cKeys' = cKeys \o one
  <2> PICK at, buf, held, steps :
        /\ at = cl.at /\ buf = cl.buf /\ held = net.c_held /\ steps = {"send", "deflating"}
    OBVIOUS
  <2>1. /\ held \in Seq(Seq(KeyBytes)) /\ kb \in Seq(KeyBytes) /\ b \in KeyBytes
        /\ Buffered(at, buf, {"write"}) \in Seq(KeyBytes)
        /\ Buffered(at, buf, steps) \in Seq(KeyBytes)
    BY <1>3, <1>4, ClientPlaces DEF IInv, TypeInv, NetType, Room, KeyUnits, KeyQueue
  <2>2. Pending(at, buf, steps, held, Append(kb, b)) = Pending(at, buf, steps, held, kb) \o <<b>>
    BY ONLY <2>1, PendingGrows
  <2>3. cKeys' = Pending(at, buf, steps, held, Append(kb, b))
    BY <1>1, <1>2 DEF cKeys
  <2>4. cKeys = Pending(at, buf, steps, held, kb)
    BY DEF cKeys
  <2> QED BY <2>2, <2>3, <2>4
<1>14. InputInv'
  <2> PICK none, reached : none = <<>> /\ reached = Reached
    OBVIOUS
  <2>1. /\ none \in KeyQueue /\ Plain(none) = none /\ ~HasEof(none) /\ reached \o none = reached
        /\ none \o cKeys' = cKeys' /\ sKeys \o none = sKeys /\ none \o sKeys = sKeys
    <3>1. (TypeInv => cKeys \in KeyQueue)'
      BY Places, PTL
    <3>2. cKeys' \in KeyQueue
      BY <1>7, <3>1
    <3> QED BY <3>2, Places, PlainNone, NoEof, KeyEmpty, HistFields DEF IInv
  <2>2. /\ ServerRuns' => ServerRuns /\ sKeys \o none = none \o sKeys'
        /\ ClientRuns' => ClientRuns /\ cKeys \o one = none \o cKeys'
    BY <1>2, <1>11, <1>13, <2>1
  <2>3. Reached' = Reached \o Plain(none) /\ (EofTyped' => EofTyped)
        /\ hist'.typed = hist.typed \o one
    BY <1>2, <1>5, <1>6, <2>1 DEF Reached, EofTyped
  <2>4. InputFlow(one, none, none)
    BY <1>4, <2>1, <2>2, <2>3 DEF InputFlow
  <2> QED BY <1>7, <2>4, InputStep DEF IInv
<1> QED BY <1>7, <1>8, <1>9, <1>10, <1>12, <1>14 DEF IInv

-----------------------------------------------------------------------------
(* The invariant.                                                          *)

LEMMA InitIInv == Init => IInv
<1> SUFFICES ASSUME Init PROVE IInv
  OBVIOUS
<1> PICK none : none = <<>>
  OBVIOUS
<1>1. /\ compress_flag \in BOOLEAN /\ keyboard = none /\ terminal = "project_mode"
      /\ cl = [at |-> "poll", buf |-> none, polled |-> {}]
      /\ sv = [at |-> "poll", buf |-> none, polled |-> {}]
      /\ net = [c2s |-> none, s2c |-> none, c_held |-> none, s_held |-> none,
                c_err |-> "none", s_err |-> "none"]
      /\ pipes = [shell_in |-> none, shell_out |-> none, in_open |-> TRUE]
      /\ shell = "idle"
      /\ hist = [typed |-> none, consumed |-> none, written |-> none, displayed |-> none]
  BY SessionAssumption DEF Init, Looping
<1>2. /\ none \in KeyQueue /\ none \in KeyUnits /\ none \in OutputQueue /\ none \in OutputUnits
      /\ none \in Seq(Singles(KeyBytes))
      /\ none \o none = none /\ Len(none) = 0 /\ ~HasEof(none) /\ Plain(none) = none
      /\ Shown(none) = none /\ FlattenSeq(none) = none
  BY EmptySeq, KeyEmpty, NoEof, PlainNone, ShownNone, FlattenNone
     DEF KeyQueue, KeyUnits, OutputQueue, OutputUnits
<1>3. ClientType /\ ServerType
  <2>1. none \in Buffers /\ ClientBuffer("poll", none) /\ ServerBuffer("poll", none)
    BY EmptyBuffers
  <2> QED BY <1>1, <2>1 DEF ClientType, ServerType, ClientSteps, ServerSteps
<1>4. NetType /\ PipesType /\ HistType
  <2>1. Room \in Nat /\ PipeSize \in Nat
    BY SessionAssumption DEF Room
  <2> QED BY <1>1, <1>2, <2>1 DEF NetType, Room, PipesType, HistType, Errors
<1>5. TypeInv
  BY <1>1, <1>2, <1>3, <1>4 DEF TypeInv
<1>6. ControlInv
  BY <1>1 DEF ControlInv, ServerGone, ClientGone
<1>7. ModeInv
  BY <1>1, <1>2 DEF ModeInv
<1>8. CountInv
  BY <1>1 DEF CountInv
<1>9. cKeys = none /\ sKeys = none /\ cOutput = none /\ sOutput = none
  <2>1. /\ cKeys = FlattenSeq(net.c_held) \o keyboard /\ cOutput = FlattenSeq(net.s2c)
        /\ sOutput = FlattenSeq(net.s_held) \o pipes.shell_out /\ sKeys = FlattenSeq(net.c2s)
    BY <1>1, <1>5, cKeysElse, cOutputElse, sOutputElse, sKeysElse
  <2> QED BY <1>1, <1>2, <2>1
<1>10. InputSplit(none, none, none)
  BY <1>1, <1>2, <1>9 DEF InputSplit, Reached, EofTyped
<1>11. OutputSplit(none, none, none)
  BY <1>1, <1>2, <1>9 DEF OutputSplit
<1> QED BY <1>2, <1>5, <1>6, <1>7, <1>8, <1>10, <1>11 DEF IInv, InputInv, OutputInv

LEMMA StutterIInv ==
  ASSUME IInv, UNCHANGED vars
  PROVE  IInv'
<1>1. TypeInv'
  BY DEF IInv, vars, TypeInv, ClientType, ServerType, NetType, Room, PipesType, HistType
<1>2. ControlInv'
  BY DEF IInv, vars, ControlInv, ServerGone, ClientGone, ServerRuns
<1>3. ModeInv' /\ CountInv'
  <2>1. ModeInv'
    BY DEF IInv, vars, ModeInv
  <2>2. Unsent' = Unsent /\ (ClientRuns' <=> ClientRuns)
    BY DEF vars, Unsent, ClientRuns, ClientGone
  <2>3. CountInv'
    BY <2>2 DEF IInv, vars, CountInv
  <2> QED BY <2>1, <2>3
<1>4. /\ cKeys' = cKeys /\ sOutput' = sOutput /\ sKeys' = sKeys /\ cOutput' = cOutput
      /\ (ClientRuns' <=> ClientRuns) /\ (ServerRuns' <=> ServerRuns)
  BY ProgramsFrame DEF vars
<1>5. InputInv'
  <2>1. hist' = hist /\ Reached' = Reached /\ (EofTyped' => EofTyped)
    BY DEF vars, Reached, EofTyped
  <2> QED BY <1>1, <1>4, <2>1, InputStays DEF IInv
<1>6. OutputInv'
  <2>1. hist' = hist /\ compress_flag' = compress_flag
    BY DEF vars
  <2> QED BY <1>1, <1>4, <2>1, OutputStays DEF IInv
<1> QED BY <1>1, <1>2, <1>3, <1>5, <1>6 DEF IInv

LEMMA NextIInv == IInv /\ [Next]_vars => IInv'
<1> SUFFICES ASSUME IInv, [Next]_vars PROVE IInv'
  OBVIOUS
<1>1. CASE ShellReadsEnd /\ UNCHANGED compress_flag
  <2>1. /\ shell = "idle" /\ shell' \in {"writing", "exited"} /\ shell' # "writing"
        /\ UNCHANGED <<compress_flag, keyboard, cl, terminal, net, sv, pipes, hist>>
    BY <1>1 DEF ShellReadsEnd
  <2> QED BY <2>1, ShellTurnsIInv
<1>2. CASE ShellStartsToWrite
  <2>1. /\ shell = "idle" /\ shell' \in {"writing", "exited"} /\ Len(hist.written) < MaxWritten
        /\ UNCHANGED <<compress_flag, keyboard, cl, terminal, net, sv, pipes, hist>>
    BY <1>2 DEF ShellStartsToWrite
  <2> QED BY <2>1, ShellTurnsIInv
<1>3. CASE ShellGoesOn
  BY <1>1, <1>3, ShellReadIInv, ShellWriteIInv DEF ShellGoesOn
<1>4. CASE UserGoesOn
  BY <1>4, TypeIInv, KillClientIInv DEF UserGoesOn
<1> QED BY <1>2, <1>3, <1>4, ClientIInv, ServerIInv, StutterIInv DEF Next

(* The inductive invariant: the types, what the steps of the two programs  *)
(* imply of each other, what --compress rules out, and where every byte is.*)
THEOREM Invariant == Spec => []IInv
BY InitIInv, NextIInv, PTL DEF Spec

-----------------------------------------------------------------------------
(* What follows from it.                                                   *)

(* Every queue, buffer and counter of both programs stays within what it   *)
(* has room for, and holds bytes of its own direction.                     *)
THEOREM TypeCorrect == Spec => []TypeOK
<1>1. ASSUME IInv PROVE TypeOK
  <2> PICK at, buf, sat, sbuf : at = cl.at /\ buf = cl.buf /\ sat = sv.at /\ sbuf = sv.buf
    OBVIOUS
  <2>1. /\ ClientBuffer(at, buf) /\ at \in ClientSteps /\ cl.polled \in SUBSET ClientEvents
        /\ ServerBuffer(sat, sbuf) /\ sat \in ServerSteps /\ sv.polled \in SUBSET ServerEvents
    BY <1>1 DEF IInv, TypeInv, ClientType, ServerType
  <2>2. buf \in CASE at = "write" -> Seq(Seq(KeyBytes))
                  [] at = "inflating" -> Seq(OutputBytes)
                  [] OTHER -> Seq(KeyBytes)
    <3>1. CASE at = "write"
      BY <2>1, <3>1 DEF ClientBuffer, KeyUnits, KeyQueue
    <3>2. CASE at = "inflating"
      BY <2>1, <3>2 DEF ClientBuffer, OutputQueue
    <3>3. CASE at \notin {"write", "inflating"}
      BY <2>1, <3>3 DEF ClientBuffer, KeyQueue
    <3> QED BY <3>1, <3>2, <3>3
  <2>3. sbuf \in CASE sat = "write" -> Seq(Seq(OutputBytes))
                   [] sat \in {"toShell", "inflating"} -> Seq(KeyBytes)
                   [] OTHER -> Seq(OutputBytes)
    <3>1. CASE sat = "write"
      BY <2>1, <3>1 DEF ServerBuffer, OutputUnits, OutputQueue
    <3>2. CASE sat \in {"toShell", "inflating"}
      BY <2>1, <3>2 DEF ServerBuffer, KeyQueue
    <3>3. CASE sat \notin {"write", "toShell", "inflating"}
      BY <2>1, <3>3 DEF ServerBuffer, OutputQueue
    <3> QED BY <3>1, <3>2, <3>3
  <2>4. /\ at # "inflating" => Len(buf) <= BufSize
        /\ sat # "inflating" => Len(sbuf) <= (IF sat = "toShell" THEN OutSize ELSE BufSize)
    BY <2>1 DEF ClientBuffer, ServerBuffer
  <2>5. /\ keyboard \in Seq(KeyBytes) /\ terminal \in {"project_mode", "default_mode"}
        /\ shell \in {"idle", "writing", "exited", "reaped"}
    BY <1>1 DEF IInv, TypeInv, KeyQueue
  <2>6. /\ {net.c2s, net.c_held} \subseteq Seq(Seq(KeyBytes)) /\ Len(net.c2s) <= Room
        /\ {net.s2c, net.s_held} \subseteq Seq(Seq(OutputBytes)) /\ Len(net.s2c) <= Room
        /\ {net.c_err, net.s_err} \subseteq {"none", "EPIPE", "ECONNRESET"}
    BY <1>1 DEF IInv, TypeInv, NetType, Room, Errors, KeyUnits, KeyQueue, OutputUnits, OutputQueue
  <2>7. /\ pipes.in_open \in BOOLEAN
        /\ pipes.shell_in \in Seq(KeyBytes) /\ Len(pipes.shell_in) <= PipeSize
        /\ pipes.shell_out \in Seq(OutputBytes) /\ Len(pipes.shell_out) <= PipeSize
    BY <1>1 DEF IInv, TypeInv, PipesType, KeyQueue, OutputQueue
  <2>8. /\ hist.typed \in Seq(KeyBytes) /\ hist.consumed \in Seq(KeyBytes)
        /\ hist.written \in Seq(OutputBytes) /\ hist.displayed \in Seq(OutputBytes)
    BY <1>1, HistFields DEF IInv, KeyQueue, OutputQueue
  <2> QED BY <2>1, <2>2, <2>3, <2>4, <2>5, <2>6, <2>7, <2>8, Zenon
          DEF TypeOK, ClientSteps, ServerSteps, ClientEvents, ServerEvents
<1> QED BY <1>1, Invariant, PTL

\* Seven sequences one after the other, and the same ones in two groups.
InALine(s) == s[1] \o s[2] \o s[3] \o s[4] \o s[5] \o s[6] \o s[7]
Grouped(s) == (s[1] \o (s[2] \o s[3])) \o (s[4] \o (s[5] \o (s[6] \o s[7])))

LEMMA SevenAssoc ==
  ASSUME NEW T, NEW s,
         s[1] \in Seq(T) /\ s[2] \in Seq(T) /\ s[3] \in Seq(T) /\ s[4] \in Seq(T)
         /\ s[5] \in Seq(T) /\ s[6] \in Seq(T) /\ s[7] \in Seq(T)
  PROVE  InALine(s) = Grouped(s)
<1> PICK a, b, c, d, e, f, g :
      /\ s[1] = a /\ s[2] = b /\ s[3] = c /\ s[4] = d
      /\ s[5] = e /\ s[6] = f /\ s[7] = g
  OBVIOUS
<1>0. /\ a \in Seq(T) /\ b \in Seq(T) /\ c \in Seq(T) /\ d \in Seq(T)
      /\ e \in Seq(T) /\ f \in Seq(T) /\ g \in Seq(T)
  OBVIOUS
<1> PICK bc, fg : bc = b \o c /\ fg = f \o g
  OBVIOUS
<1>1. bc \in Seq(T) /\ fg \in Seq(T)
  BY <1>0, ConcatProperties
<1> PICK abc, efg : abc = a \o bc /\ efg = e \o fg
  OBVIOUS
<1>2. abc \in Seq(T) /\ efg \in Seq(T)
  BY <1>0, <1>1, ConcatProperties
<1> PICK abcd : abcd = abc \o d
  OBVIOUS
<1>3. abcd \in Seq(T) /\ d \o efg \in Seq(T)
  BY <1>0, <1>2, ConcatProperties
<1> PICK abcde : abcde = abcd \o e
  OBVIOUS
<1>4. abcde \in Seq(T)
  BY <1>0, <1>3, ConcatProperties
<1>5. (a \o b) \o c = a \o bc
  <2>1. (a \o b) \o c = a \o (b \o c)
    BY ONLY <1>0, SMTT(30)
  <2> QED BY <2>1
<1>6. (abcde \o f) \o g = abcde \o fg
  <2>1. (abcde \o f) \o g = abcde \o (f \o g)
    BY ONLY <1>0, <1>4, SMTT(30)
  <2> QED BY <2>1
<1>7. (abcd \o e) \o fg = abcd \o (e \o fg)
  BY ONLY <1>0, <1>1, <1>3, SMTT(30)
<1>8. (abc \o d) \o efg = abc \o (d \o efg)
  BY ONLY <1>0, <1>2, SMTT(30)
<1>9. a \o b \o c \o d \o e \o f \o g = abcde \o fg
  BY <1>5, <1>6, Zenon
<1>10. abcde \o fg = abc \o (d \o efg)
  BY <1>7, <1>8, Zenon
<1>11. abc \o (d \o efg) = (a \o (b \o c)) \o (d \o (e \o (f \o g)))
  BY Zenon
<1> QED BY <1>9, <1>10, <1>11, Zenon DEF InALine, Grouped

(* What is typed reaches the shell in order, each key once, and nothing    *)
(* after a ^D; what has not reached it yet is where the code has put it,   *)
(* and a ^D comes after all that was typed before it.                      *)
THEOREM InputKept == Spec => []InputIntact
<1>1. ASSUME IInv PROVE InputIntact
  <2> PICK past \in KeyQueue, mid \in KeyQueue, rest \in KeyQueue : InputSplit(past, mid, rest)
    BY <1>1 DEF IInv, InputInv
  <2> PICK consumed, shell_in, reached, typed, last :
        /\ consumed = hist.consumed /\ shell_in = pipes.shell_in
        /\ reached = hist.consumed \o pipes.shell_in /\ typed = hist.typed
        /\ last = mid \o rest
    OBVIOUS
  <2>1. /\ reached \in KeyQueue /\ last \in KeyQueue /\ typed = past \o last
        /\ reached = Plain(past) /\ ~HasEof(past)
    BY <1>1, HistFields, KeyConcat DEF IInv, InputSplit, Reached
  <2>2. IsPrefix(reached, Plain(UpToEof(typed)))
    <3>1. PICK more \in Seq(KeyBytes) : UpToEof(past \o last) = past \o more
      BY <2>1, EofAfter DEF KeyQueue
    <3>2. Plain(past \o more) = Plain(past) \o Plain(more) /\ Plain(more) \in Seq(KeyBytes)
      BY PlainConcat, PlainType DEF KeyQueue
    <3> PICK after : after = Plain(more)
      OBVIOUS
    <3>3. IsPrefix(reached, reached \o after)
      BY <2>1, <3>2, PrefixOfConcat DEF KeyQueue
    <3> QED BY <2>1, <3>1, <3>2, <3>3
  <2>3. ASSUME ClientRuns, ServerRuns
        PROVE  Plain(typed) = Plain(reached \o InBuffer(sv, {"toShell", "inflating"})
                                   \o FlattenSeq(net.c2s) \o InBuffer(cl, {"write"})
                                   \o FlattenSeq(net.c_held)
                                   \o InBuffer(cl, {"send", "deflating"}) \o keyboard)
    <3> PICK b, c, d, e, f, g :
          /\ b = InBuffer(sv, {"toShell", "inflating"}) /\ c = FlattenSeq(net.c2s)
          /\ d = InBuffer(cl, {"write"}) /\ e = FlattenSeq(net.c_held)
          /\ f = InBuffer(cl, {"send", "deflating"}) /\ g = keyboard
      OBVIOUS
    <3>1. mid = b \o c /\ rest = d \o (e \o (f \o g))
      <4>1. mid = sKeys /\ rest = cKeys
        BY <2>3 DEF InputSplit
      <4> QED BY <4>1 DEF sKeys, cKeys, Incoming, Pending, Buffered, InBuffer
    <3>2. /\ b \in KeyQueue /\ c \in KeyQueue /\ d \in KeyQueue /\ e \in KeyQueue
          /\ f \in KeyQueue /\ g \in KeyQueue
      <4>1. b \in KeyQueue /\ d \in KeyQueue /\ f \in KeyQueue
        BY <1>1, ClientPlaces, ServerPlaces DEF IInv, Buffered, InBuffer
      <4>2. c \in KeyQueue /\ e \in KeyQueue /\ g \in KeyQueue
        BY <1>1, FlattenType DEF IInv, TypeInv, NetType, Room, KeyUnits, KeyQueue
      <4> QED BY <4>1, <4>2
    <3>3. reached \o b \o c \o d \o e \o f \o g = (reached \o mid) \o rest
      <4>1. reached \o b \o c \o d \o e \o f \o g = (reached \o (b \o c)) \o (d \o (e \o (f \o g)))
        <5> PICK s : /\ s[1] = reached /\ s[2] = b /\ s[3] = c /\ s[4] = d
                     /\ s[5] = e /\ s[6] = f /\ s[7] = g
          <6> DEFINE all == <<reached, b, c, d, e, f, g>>
          <6>1. /\ all[1] = reached /\ all[2] = b /\ all[3] = c /\ all[4] = d
                /\ all[5] = e /\ all[6] = f /\ all[7] = g
            OBVIOUS
          <6> HIDE DEF all
          <6> QED BY <6>1
        <5>1. /\ s[1] \in Seq(KeyBytes) /\ s[2] \in Seq(KeyBytes) /\ s[3] \in Seq(KeyBytes)
              /\ s[4] \in Seq(KeyBytes) /\ s[5] \in Seq(KeyBytes) /\ s[6] \in Seq(KeyBytes)
              /\ s[7] \in Seq(KeyBytes)
          BY <2>1, <3>2 DEF KeyQueue
        <5>2. InALine(s) = Grouped(s)
          BY ONLY <5>1, SevenAssoc
        <5> QED BY <5>2, Zenon DEF InALine, Grouped
      <4> QED BY <3>1, <4>1, Zenon
    <3>4. (reached \o mid) \o rest = reached \o last
      <4>1. reached \in KeyQueue
        BY <2>1
      <4>2. (reached \o mid) \o rest = reached \o (mid \o rest)
        BY ONLY <4>1, mid \in KeyQueue, rest \in KeyQueue, SMTT(30) DEF KeyQueue
      <4> QED BY <4>2, Zenon
    <3>5. Plain(reached \o last) = Plain(reached) \o Plain(last)
          /\ Plain(past \o last) = Plain(past) \o Plain(last) /\ Plain(Plain(past)) = Plain(past)
      BY <2>1, PlainConcat, PlainTwice DEF KeyQueue
    <3>6. Plain(typed) = Plain(reached \o last)
      BY <2>1, <3>5, Zenon
    <3> QED BY <3>3, <3>4, <3>6, Zenon
  <2>4. ASSUME sv.at = "restore" /\ ~pipes.in_open /\ ~HasEof(hist.written)
        PROVE  reached = Plain(UpToEof(typed))
    <3>1. mid # <<>> /\ Head(mid)[1] = "^D"
      BY <2>4 DEF InputSplit, EofTyped
    <3>2. last # <<>> /\ Head(last) = Head(mid)
      BY <3>1, HeadOfConcat DEF KeyQueue
    <3>3. last[1] = Head(last)
      BY <2>1, <3>2 DEF KeyQueue
    <3>4. BeforeEof(past, last)
      BY <2>1, <3>1, <3>2, <3>3 DEF BeforeEof
    <3>5. UpToEof(typed) = past
      BY <2>1, <3>4, UpToEofIs DEF KeyQueue
    <3> QED BY <2>1, <3>5
  <2> QED BY <2>2, <2>3, <2>4, Zenon DEF InputIntact
<1> QED BY <1>1, Invariant, PTL

(* What the shell writes is displayed in order, each piece once, but for   *)
(* what the server takes for control characters, and what is not displayed *)
(* yet is where the code has put it.                                       *)
THEOREM OutputKept == Spec => []OutputIntact
<1>1. ASSUME IInv PROVE OutputIntact
  <2> PICK past \in OutputQueue, rest \in OutputQueue, wire \in OutputQueue :
        OutputSplit(past, rest, wire)
    BY <1>1 DEF IInv, OutputInv
  <2> PICK displayed, written, old, more :
        /\ displayed = hist.displayed /\ written = hist.written
        /\ old = Shown(past) /\ more = Shown(rest)
    OBVIOUS
  <2>1. /\ displayed \in OutputQueue /\ written = past \o rest /\ old = displayed \o wire
        /\ old \in OutputQueue /\ more \in OutputQueue
    BY <1>1, HistFields, ShownType DEF IInv, OutputSplit
  <2>2. Shown(written) = old \o more
    BY <2>1, ShownConcat
  <2>3. IsPrefix(displayed, Shown(written))
    <3>1. (displayed \o wire) \o more = displayed \o (wire \o more)
      <4>1. displayed \in OutputQueue /\ wire \in OutputQueue /\ more \in OutputQueue
        BY <2>1
      <4> QED BY ONLY <4>1, SMTT(30) DEF OutputQueue
    <3>2. wire \o more \in OutputQueue
      BY <2>1, OutputConcat
    <3> PICK after : after = wire \o more
      OBVIOUS
    <3>3. IsPrefix(displayed, displayed \o after)
      BY <2>1, <3>2, PrefixOfConcat DEF OutputQueue
    <3>4. Shown(written) = displayed \o after
      BY <2>1, <2>2, <3>1, Zenon
    <3> QED BY <3>3, <3>4, Zenon
  <2>4. ASSUME ClientRuns, ServerRuns
        PROVE  Shown(written) = Shown(displayed \o InBuffer(cl, {"inflating"})
                                     \o FlattenSeq(net.s2c) \o InBuffer(sv, {"write"})
                                     \o FlattenSeq(net.s_held)
                                     \o InBuffer(sv, {"toSocket", "deflating"})
                                     \o pipes.shell_out)
    <3> PICK b, c, d, e, f, g :
          /\ b = InBuffer(cl, {"inflating"}) /\ c = FlattenSeq(net.s2c)
          /\ d = InBuffer(sv, {"write"}) /\ e = FlattenSeq(net.s_held)
          /\ f = InBuffer(sv, {"toSocket", "deflating"}) /\ g = pipes.shell_out
      OBVIOUS
    <3>1. wire = b \o c /\ rest = d \o (e \o (f \o g))
      <4>1. wire = cOutput /\ rest = sOutput
        BY <2>4 DEF OutputSplit
      <4> QED BY <4>1 DEF sOutput, cOutput, Incoming, Pending, Buffered, InBuffer
    <3>2. /\ b \in OutputQueue /\ c \in OutputQueue /\ d \in OutputQueue /\ e \in OutputQueue
          /\ f \in OutputQueue /\ g \in OutputQueue
      <4>1. b \in OutputQueue /\ d \in OutputQueue /\ f \in OutputQueue
        BY <1>1, ClientPlaces, ServerPlaces DEF IInv, Buffered, InBuffer
      <4>2. c \in OutputQueue /\ e \in OutputQueue
        BY <1>1, FlattenType DEF IInv, TypeInv, NetType, Room, OutputUnits, OutputQueue
      <4>3. g \in OutputQueue
        BY <1>1, HistFields DEF IInv
      <4> QED BY <4>1, <4>2, <4>3
    <3>3. displayed \o b \o c \o d \o e \o f \o g = (displayed \o wire) \o rest
      <4>1. displayed \o b \o c \o d \o e \o f \o g
              = (displayed \o (b \o c)) \o (d \o (e \o (f \o g)))
        <5> PICK s : /\ s[1] = displayed /\ s[2] = b /\ s[3] = c /\ s[4] = d
                     /\ s[5] = e /\ s[6] = f /\ s[7] = g
          <6> DEFINE all == <<displayed, b, c, d, e, f, g>>
          <6>1. /\ all[1] = displayed /\ all[2] = b /\ all[3] = c /\ all[4] = d
                /\ all[5] = e /\ all[6] = f /\ all[7] = g
            OBVIOUS
          <6> HIDE DEF all
          <6> QED BY <6>1
        <5>1. /\ s[1] \in Seq(OutputBytes) /\ s[2] \in Seq(OutputBytes) /\ s[3] \in Seq(OutputBytes)
              /\ s[4] \in Seq(OutputBytes) /\ s[5] \in Seq(OutputBytes) /\ s[6] \in Seq(OutputBytes)
              /\ s[7] \in Seq(OutputBytes)
          BY <2>1, <3>2 DEF OutputQueue
        <5>2. InALine(s) = Grouped(s)
          BY ONLY <5>1, SevenAssoc
        <5> QED BY <5>2, Zenon DEF InALine, Grouped
      <4> QED BY <3>1, <4>1, Zenon
    <3>4. Shown(old \o rest) = Shown(old) \o more /\ Shown(old) = old
      BY <2>1, ShownConcat, ShownTwice
    <3>5. Shown(written) = Shown((displayed \o wire) \o rest)
      BY <2>1, <2>2, <3>4, Zenon
    <3> QED BY <3>3, <3>5, Zenon
  <2> QED BY <2>3, <2>4, Zenon DEF OutputIntact
<1> QED BY <1>1, Invariant, PTL

(* The terminal is as the client found it when it has ended, unless it was *)
(* killed, or two keys were lost and SIGPIPE ended it.                     *)
THEOREM TerminalKept == Spec => []TerminalRestored
<1>1. ASSUME IInv PROVE TerminalRestored
  <2>1. Len(hist.typed) \in Nat /\ Len(hist.consumed) \in Nat
    BY <1>1, HistFields, LenProperties DEF IInv, KeyQueue
  <2>2. cl.at = "sigpipe" => ~(Len(hist.typed) < Len(hist.consumed) + 2)
    <3>1. cl.at = "sigpipe" => Len(hist.typed) >= Len(hist.consumed) + 2
      BY <1>1 DEF IInv, CountInv
    <3> QED BY <2>1, <3>1
  <2>3. cl.at = "exited" => terminal = "default_mode"
    BY <1>1 DEF IInv, ControlInv
  <2> QED BY <2>2, <2>3 DEF TerminalRestored, ClientGone
<1> QED BY <1>1, Invariant, PTL

=============================================================================
