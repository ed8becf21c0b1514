-------------------------- MODULE SelectingProofs --------------------------
(***************************************************************************)
(* What Select returns for a sequence that grows at its end or is used up  *)
(* from its front, by induction over its length.                           *)
(***************************************************************************)
EXTENDS Selecting, SequenceTheorems, WellFoundedInduction, TLAPS

\* Induction over a set: the library's rules take an operator, but a set has
\* an element that is smaller than all others of it.
LEMMA SetInduction ==
    ASSUME NEW T \in SUBSET Nat, 0 \in T, \A n \in T : n + 1 \in T
    PROVE  T = Nat
<1> SUFFICES ASSUME Nat \ T # {} PROVE FALSE OBVIOUS
<1> DEFINE R == OpToRel(<, Nat)
<1>1. IsWellFoundedOn(R, Nat) BY NatLessThanWellFounded
<1>2. PICK x \in Nat \ T : \A y \in Nat \ T : ~(<<y, x>> \in R)
  <2> HIDE DEF R
  <2> QED BY <1>1, WFMin
<1>3. x # 0 /\ x - 1 \in Nat /\ x - 1 < x /\ (x - 1) + 1 = x OBVIOUS
<1>4. x - 1 \in T BY <1>2, <1>3 DEF OpToRel
<1> QED BY <1>2, <1>3, <1>4

-----------------------------------------------------------------------------

\* f is what the recursion says, up to place n.
Follows(f, s, P, n) ==
    /\ f[0] = <<>>
    /\ \A k \in 1..n : f[k] = IF s[k] \in P THEN Append(f[k - 1], s[k]) ELSE f[k - 1]

LEMMA SomeFollows ==
    ASSUME NEW S, NEW s \in Seq(S), NEW P
    PROVE  \E f \in [0..Len(s) -> Seq(S)] : Follows(f, s, P, Len(s))
<1> DEFINE T == {n \in Nat : n <= Len(s) => \E f \in [0..n -> Seq(S)] : Follows(f, s, P, n)}
<1>1. 0 \in T
  <2>1. [k \in 0..0 |-> <<>>] \in [0..0 -> Seq(S)] OBVIOUS
  <2>2. Follows([k \in 0..0 |-> <<>>], s, P, 0) BY DEF Follows
  <2> QED BY <2>1, <2>2
<1>2. ASSUME NEW n \in T PROVE n + 1 \in T
  <2> SUFFICES ASSUME n + 1 <= Len(s)
               PROVE  \E f \in [0..(n + 1) -> Seq(S)] : Follows(f, s, P, n + 1)
    OBVIOUS
  <2>1. n \in Nat /\ n <= Len(s) /\ n + 1 \in 1..Len(s) OBVIOUS
  <2>2. PICK f \in [0..n -> Seq(S)] : Follows(f, s, P, n) BY <2>1
  <2>3. PICK g : g = [k \in 0..(n + 1) |->
                        IF k <= n THEN f[k]
                        ELSE IF s[k] \in P THEN Append(f[k - 1], s[k]) ELSE f[k - 1]]
    OBVIOUS
  <2>4. s[n + 1] \in S BY <2>1
  <2>5. g \in [0..(n + 1) -> Seq(S)]
    <3> SUFFICES ASSUME NEW k \in 0..(n + 1) PROVE g[k] \in Seq(S) BY <2>3
    <3>1. CASE k <= n BY <2>1, <2>3, <3>1
    <3>2. CASE k = n + 1
      <4>1. (n + 1) - 1 = n /\ ~(n + 1 <= n) /\ f[n] \in Seq(S) BY <2>1
      <4> QED BY <2>3, <2>4, <3>2, <4>1
    <3> QED BY <2>1, <3>1, <3>2
  <2>6. Follows(g, s, P, n + 1)
    <3>1. g[0] = <<>> BY <2>1, <2>2, <2>3 DEF Follows
    <3>2. ASSUME NEW k \in 1..(n + 1)
          PROVE  g[k] = IF s[k] \in P THEN Append(g[k - 1], s[k]) ELSE g[k - 1]
      <4>1. g[k - 1] = f[k - 1] BY <2>1, <2>3
      <4>2. CASE k <= n
        <5>1. g[k] = f[k] /\ k \in 1..n BY <2>1, <2>3, <4>2
        <5> QED BY <2>2, <4>1, <5>1 DEF Follows
      <4>3. CASE k = n + 1 BY <2>1, <2>3, <4>1, <4>3
      <4> QED BY <2>1, <4>2, <4>3
    <3> QED BY <3>1, <3>2 DEF Follows
  <2> QED BY <2>5, <2>6
<1>3. T = Nat
  <2>1. T \in SUBSET Nat OBVIOUS
  <2> HIDE DEF T
  <2> QED BY <1>1, <1>2, <2>1, SetInduction
<1>4. Len(s) \in T BY <1>3
<1> QED BY <1>4

\* Selected is defined, and does what its definition says.
LEMMA SelectedFollows ==
    ASSUME NEW S, NEW s \in Seq(S), NEW P
    PROVE  Follows(Selected(s, P), s, P, Len(s))
<1> DEFINE Is(f) == f = [k \in 0..Len(s) |->
                            IF k = 0 THEN <<>>
                            ELSE IF s[k] \in P THEN Append(f[k - 1], s[k]) ELSE f[k - 1]]
<1>1. PICK f \in [0..Len(s) -> Seq(S)] : Follows(f, s, P, Len(s)) BY SomeFollows
<1>2. Is(f)
  <2>1. ASSUME NEW k \in 0..Len(s)
        PROVE  f[k] = IF k = 0 THEN <<>>
                      ELSE IF s[k] \in P THEN Append(f[k - 1], s[k]) ELSE f[k - 1]
    <3>1. CASE k = 0 BY <1>1, <3>1 DEF Follows
    <3>2. CASE k # 0
      <4>1. k \in 1..Len(s) BY <3>2
      <4> QED BY <1>1, <3>2, <4>1 DEF Follows
    <3> QED BY <3>1, <3>2
  <2> QED BY <2>1
<1>3. Selected(s, P) = CHOOSE g : Is(g) BY DEF Selected
<1>4. Is(Selected(s, P))
  <2> HIDE DEF Is
  <2> QED BY <1>2, <1>3
<1>5. PICK g : g = Selected(s, P) OBVIOUS
<1>6. Is(g) BY <1>4, <1>5
<1>7. Len(s) \in Nat OBVIOUS
<1>8. g[0] = <<>> BY <1>6, <1>7
<1>9. ASSUME NEW k \in 1..Len(s)
      PROVE  g[k] = IF s[k] \in P THEN Append(g[k - 1], s[k]) ELSE g[k - 1]
  <2>1. k \in 0..Len(s) /\ k # 0 BY <1>7
  <2> QED BY <1>6, <2>1
<1> QED BY <1>5, <1>8, <1>9 DEF Follows

\* Two functions that follow the recursion agree where their sequences do.
LEMMA Agreement ==
    ASSUME NEW s, NEW t, NEW P, NEW n \in Nat, \A k \in 1..n : s[k] = t[k],
           NEW f, Follows(f, s, P, n), NEW g, Follows(g, t, P, n)
    PROVE  \A k \in 0..n : f[k] = g[k]
<1> DEFINE T == {k \in Nat : k <= n => f[k] = g[k]}
<1>1. 0 \in T BY DEF Follows
<1>2. ASSUME NEW k \in T PROVE k + 1 \in T
  <2> SUFFICES ASSUME k + 1 <= n PROVE f[k + 1] = g[k + 1] OBVIOUS
  <2>1. k + 1 \in 1..n /\ (k + 1) - 1 = k /\ f[k] = g[k] OBVIOUS
  <2> HIDE DEF T
  <2> QED BY <2>1 DEF Follows
<1>3. T = Nat
  <2>1. T \in SUBSET Nat OBVIOUS
  <2> HIDE DEF T
  <2> QED BY <1>1, <1>2, <2>1, SetInduction
<1> QED BY <1>3

-----------------------------------------------------------------------------

LEMMA SelectNothing == ASSUME NEW P PROVE Select(<<>>, P) = <<>>
<1>1. <<>> \in Seq({}) /\ Len(<<>>) = 0 OBVIOUS
<1> QED BY <1>1, SelectedFollows DEF Follows, Select

LEMMA SelectedTyped ==
    ASSUME NEW S, NEW s \in Seq(S), NEW P, NEW n \in 0..Len(s)
    PROVE  Selected(s, P)[n] \in Seq(S)
<1>1. PICK f \in [0..Len(s) -> Seq(S)] : Follows(f, s, P, Len(s)) BY SomeFollows
<1>2. \A k \in 0..Len(s) : f[k] = Selected(s, P)[k]
  BY <1>1, SelectedFollows, Agreement
<1> QED BY <1>1, <1>2

LEMMA SelectTyped ==
    ASSUME NEW S, NEW s \in Seq(S), NEW P
    PROVE  Select(s, P) \in Seq(S)
BY SelectedTyped DEF Select

\* One more at the end.
LEMMA SelectAppend ==
    ASSUME NEW S, NEW s \in Seq(S), NEW e \in S, NEW P
    PROVE  Select(Append(s, e), P) = IF e \in P THEN Append(Select(s, P), e) ELSE Select(s, P)
<1> DEFINE t == Append(s, e)
           f == Selected(s, P)
           g == Selected(t, P)
<1>1. t \in Seq(S) /\ Len(s) \in Nat /\ Len(t) = Len(s) + 1 /\ t[Len(s) + 1] = e
      /\ \A k \in 1..Len(s) : t[k] = s[k]
  BY AppendProperties
<1> HIDE DEF t
<1>2. Follows(f, s, P, Len(s)) /\ Follows(g, t, P, Len(t)) BY <1>1, SelectedFollows
<1> HIDE DEF f, g
<1>3. Follows(g, t, P, Len(s)) BY <1>1, <1>2 DEF Follows
<1>4. f[Len(s)] = g[Len(s)]
  <2>1. \A k \in 0..Len(s) : f[k] = g[k] BY <1>1, <1>2, <1>3, Agreement
  <2> QED BY <1>1, <2>1
<1>5. g[Len(s) + 1] = IF e \in P THEN Append(g[Len(s)], e) ELSE g[Len(s)]
  <2>1. Len(s) + 1 \in 1..Len(t) /\ (Len(s) + 1) - 1 = Len(s) BY <1>1
  <2> QED BY <1>1, <1>2, <2>1 DEF Follows
<1> QED BY <1>1, <1>4, <1>5 DEF Select, t, f, g

\* One less at the front.
LEMMA SelectTail ==
    ASSUME NEW S, NEW s \in Seq(S), s # <<>>, NEW P
    PROVE  Select(s, P) = IF Head(s) \in P THEN <<Head(s)>> \o Select(Tail(s), P)
                                           ELSE Select(Tail(s), P)
<1> DEFINE t == Tail(s)
           f == Selected(s, P)
           g == Selected(t, P)
<1>1. t \in Seq(S) /\ Len(t) \in Nat /\ Len(s) = Len(t) + 1 /\ s[1] = Head(s) /\ Head(s) \in S
      /\ \A k \in 1..Len(t) : t[k] = s[k + 1]
  BY HeadTailProperties
<1> HIDE DEF t
<1>2. Follows(f, s, P, Len(s)) /\ Follows(g, t, P, Len(t)) BY <1>1, SelectedFollows
<1>3. \A n \in 0..Len(t) : g[n] \in Seq(S) BY <1>1, SelectedTyped
<1> HIDE DEF f, g
<1>4. PICK first \in Seq(S) : first = IF Head(s) \in P THEN <<Head(s)>> ELSE <<>>
  <2>1. PICK h \in S : h = Head(s) BY <1>1
  <2>2. <<h>> \in Seq(S) /\ <<>> \in Seq(S) OBVIOUS
  <2> QED BY <2>1, <2>2
<1> DEFINE T == {n \in Nat : n <= Len(t) => f[n + 1] = first \o g[n]}
<1>5. 0 \in T
  <2>1. 1 \in 1..Len(s) /\ 1 - 1 = 0 /\ 0 + 1 = 1 BY <1>1
  <2>2. f[1] = IF s[1] \in P THEN Append(f[0], s[1]) ELSE f[0] BY <1>2, <2>1 DEF Follows
  <2>3. f[0] = <<>> /\ g[0] = <<>> BY <1>2 DEF Follows
  <2>4. f[1] = first BY <1>1, <1>4, <2>2, <2>3
  <2>5. first \o <<>> = first BY <1>4
  <2> QED BY <2>1, <2>3, <2>4, <2>5
<1>6. ASSUME NEW n \in T PROVE n + 1 \in T
  <2> SUFFICES ASSUME n + 1 <= Len(t) PROVE f[(n + 1) + 1] = first \o g[n + 1] OBVIOUS
  <2>1. n \in Nat /\ n <= Len(t) /\ f[n + 1] = first \o g[n] BY <1>1
  <2> HIDE DEF T
  <2>2. (n + 1) + 1 \in 1..Len(s) /\ ((n + 1) + 1) - 1 = n + 1
        /\ n + 1 \in 1..Len(t) /\ (n + 1) - 1 = n
    BY <1>1, <2>1
  <2>3. /\ f[(n + 1) + 1] = IF s[(n + 1) + 1] \in P THEN Append(f[n + 1], s[(n + 1) + 1])
                                                   ELSE f[n + 1]
        /\ g[n + 1] = IF t[n + 1] \in P THEN Append(g[n], t[n + 1]) ELSE g[n]
    BY <1>2, <2>2 DEF Follows
  <2>4. t[n + 1] = s[(n + 1) + 1] /\ t[n + 1] \in S BY <1>1, <2>2
  <2>5. g[n] \in Seq(S) BY <1>3, <2>1
  <2>6. Append(first \o g[n], t[n + 1]) = first \o Append(g[n], t[n + 1])
    <3>1. PICK part \in Seq(S) : part = g[n] BY <2>5
    <3>2. PICK e \in S : e = t[n + 1] BY <2>4
    <3>3. Append(first \o part, e) = first \o Append(part, e) OBVIOUS
    <3> QED BY <3>1, <3>2, <3>3
  <2> QED BY <2>1, <2>3, <2>4, <2>6
<1>7. T = Nat
  <2>1. T \in SUBSET Nat OBVIOUS
  <2> HIDE DEF T
  <2> QED BY <1>5, <1>6, <2>1, SetInduction
<1>8. f[Len(t) + 1] = first \o g[Len(t)] BY <1>1, <1>7
<1>9. g[Len(t)] \in Seq(S) BY <1>1, <1>3
<1>10. <<>> \o g[Len(t)] = g[Len(t)] BY <1>9
<1> QED BY <1>1, <1>4, <1>8, <1>10 DEF Select, t, f, g

\* Nothing is selected of a sequence that has no element in P.
LEMMA SelectNone ==
    ASSUME NEW S, NEW s \in Seq(S), NEW P, S \cap P = {}
    PROVE  Select(s, P) = <<>>
<1>1. PICK n \in Nat : n = Len(s) OBVIOUS
<1>2. PICK f : f = Selected(s, P) OBVIOUS
<1>3. PICK g : g = [k \in 0..n |-> <<>>] OBVIOUS
<1>4. \A k \in 1..n : s[k] \notin P BY <1>1
<1>5. Follows(f, s, P, n) BY <1>1, <1>2, SelectedFollows
<1>6. Follows(g, s, P, n) BY <1>3, <1>4 DEF Follows
<1>7. f[n] = g[n] BY <1>5, <1>6, Agreement
<1> QED BY <1>1, <1>2, <1>3, <1>7 DEF Select

-----------------------------------------------------------------------------

\* What is selected of two sequences, one after the other.
LEMMA SelectConcat ==
    ASSUME NEW S, NEW s \in Seq(S), NEW t \in Seq(S), NEW P
    PROVE  Select(s \o t, P) = Select(s, P) \o Select(t, P)
<1> DEFINE T == {n \in Nat : \A u \in Seq(S) : Len(u) = n =>
                                Select(u \o t, P) = Select(u, P) \o Select(t, P)}
<1>1. PICK own \in Seq(S) : own = Select(t, P) BY SelectTyped
<1>2. 0 \in T
  <2> SUFFICES ASSUME NEW u \in Seq(S), Len(u) = 0
               PROVE  Select(u \o t, P) = Select(u, P) \o Select(t, P)
    OBVIOUS
  <2>1. u = <<>> BY EmptySeq
  <2>2. u \o t = t BY <2>1
  <2>3. <<>> \o own = own OBVIOUS
  <2> QED BY <1>1, <2>1, <2>2, <2>3, SelectNothing
<1>3. ASSUME NEW n \in T PROVE n + 1 \in T
  <2> SUFFICES ASSUME NEW u \in Seq(S), Len(u) = n + 1
               PROVE  Select(u \o t, P) = Select(u, P) \o Select(t, P)
    OBVIOUS
  <2>1. n \in Nat /\ \A v \in Seq(S) : Len(v) = n => Select(v \o t, P) = Select(v, P) \o Select(t, P)
    OBVIOUS
  <2> HIDE DEF T
  <2>2. u # <<>> BY <2>1
  <2>3. PICK h \in S : h = Head(u) BY <2>2
  <2>4. PICK rest \in Seq(S) : rest = Tail(u) BY <2>2, HeadTailProperties
  <2>5. Len(rest) = n BY <2>1, <2>2, <2>4
  <2>6. u \o t \in Seq(S) /\ u \o t # <<>> /\ Head(u \o t) = h BY <2>2, <2>3, ConcatProperties
  <2>7. Tail(u \o t) = rest \o t BY <2>2, <2>4
  <2>8. PICK part \in Seq(S) : part = Select(rest, P) BY SelectTyped
  <2>9. Select(rest \o t, P) = part \o own BY <1>1, <2>1, <2>5, <2>8
  <2>10. Select(u \o t, P) = IF h \in P THEN <<h>> \o (part \o own) ELSE part \o own
    BY <2>6, <2>7, <2>9, SelectTail
  <2>11. Select(u, P) = IF h \in P THEN <<h>> \o part ELSE part
    BY <2>2, <2>3, <2>4, <2>8, SelectTail
  <2>12. <<h>> \o (part \o own) = (<<h>> \o part) \o own OBVIOUS
  <2> QED BY <1>1, <2>10, <2>11, <2>12
<1>4. T = Nat
  <2>1. T \in SUBSET Nat OBVIOUS
  <2> HIDE DEF T
  <2> QED BY <1>2, <1>3, <2>1, SetInduction
<1> QED BY <1>4

\* What is selected is selected.
LEMMA SelectChosen ==
    ASSUME NEW S, NEW s \in Seq(S), NEW P
    PROVE  Select(s, P) \in Seq(S \cap P)
<1> DEFINE T == {n \in Nat : \A u \in Seq(S) : Len(u) = n => Select(u, P) \in Seq(S \cap P)}
<1>1. 0 \in T
  <2> SUFFICES ASSUME NEW u \in Seq(S), Len(u) = 0 PROVE Select(u, P) \in Seq(S \cap P)
    OBVIOUS
  <2>1. u = <<>> BY EmptySeq
  <2>2. <<>> \in Seq(S \cap P) OBVIOUS
  <2>3. Select(u, P) = <<>> BY <2>1, SelectNothing
  <2> QED BY <2>2, <2>3
<1>2. ASSUME NEW n \in T PROVE n + 1 \in T
  <2> SUFFICES ASSUME NEW u \in Seq(S), Len(u) = n + 1 PROVE Select(u, P) \in Seq(S \cap P)
    OBVIOUS
  <2>1. n \in Nat /\ \A v \in Seq(S) : Len(v) = n => Select(v, P) \in Seq(S \cap P)
    OBVIOUS
  <2> HIDE DEF T
  <2>2. u # <<>> BY <2>1
  <2>3. PICK h \in S : h = Head(u) BY <2>2
  <2>4. PICK rest \in Seq(S) : rest = Tail(u) BY <2>2, HeadTailProperties
  <2>5. Len(rest) = n BY <2>1, <2>2, <2>4
  <2>6. PICK part \in Seq(S \cap P) : part = Select(rest, P) BY <2>1, <2>5
  <2>7. Select(u, P) = IF h \in P THEN <<h>> \o part ELSE part
    BY <2>2, <2>3, <2>4, <2>6, SelectTail
  <2>8. h \in P => <<h>> \o part \in Seq(S \cap P)
    <3> SUFFICES ASSUME h \in P PROVE <<h>> \o part \in Seq(S \cap P) OBVIOUS
    <3>1. PICK e \in S \cap P : e = h OBVIOUS
    <3>2. <<e>> \o part \in Seq(S \cap P) OBVIOUS
    <3> QED BY <3>1, <3>2
  <2> QED BY <2>6, <2>7, <2>8
<1>3. T = Nat
  <2>1. T \in SUBSET Nat OBVIOUS
  <2> HIDE DEF T
  <2> QED BY <1>1, <1>2, <2>1, SetInduction
<1> QED BY <1>3

-----------------------------------------------------------------------------
(* How many are selected.                                                  *)

Count(s, P) == Len(Select(s, P))

One(e, P) == IF e \in P THEN 1 ELSE 0

LEMMA CountNothing == ASSUME NEW P PROVE Count(<<>>, P) = 0
BY SelectNothing DEF Count

LEMMA CountTyped == ASSUME NEW S, NEW s \in Seq(S), NEW P PROVE Count(s, P) \in Nat
<1>1. PICK own \in Seq(S) : own = Select(s, P) BY SelectTyped
<1> QED BY <1>1 DEF Count

LEMMA CountAppend ==
    ASSUME NEW S, NEW s \in Seq(S), NEW e \in S, NEW P
    PROVE  Count(Append(s, e), P) = Count(s, P) + One(e, P)
<1>1. PICK own \in Seq(S) : own = Select(s, P) BY SelectTyped
<1>2. Len(Append(own, e)) = Len(own) + 1 /\ Len(own) \in Nat OBVIOUS
<1> QED BY <1>1, <1>2, SelectAppend DEF Count, One

LEMMA CountConcat ==
    ASSUME NEW S, NEW s \in Seq(S), NEW t \in Seq(S), NEW P
    PROVE  Count(s \o t, P) = Count(s, P) + Count(t, P)
<1>1. PICK own \in Seq(S) : own = Select(s, P) BY SelectTyped
<1>2. PICK other \in Seq(S) : other = Select(t, P) BY SelectTyped
<1>3. Len(own \o other) = Len(own) + Len(other) OBVIOUS
<1> QED BY <1>1, <1>2, <1>3, SelectConcat DEF Count

LEMMA CountTail ==
    ASSUME NEW S, NEW s \in Seq(S), s # <<>>, NEW P
    PROVE  Count(s, P) = Count(Tail(s), P) + One(Head(s), P)
<1>1. PICK rest \in Seq(S) : rest = Tail(s) BY HeadTailProperties
<1>2. PICK h \in S : h = Head(s) BY HeadTailProperties
<1>3. PICK own \in Seq(S) : own = Select(rest, P) BY SelectTyped
<1>4. Len(<<h>> \o own) = Len(own) + 1 /\ Len(own) \in Nat OBVIOUS
<1>5. Select(s, P) = IF h \in P THEN <<h>> \o own ELSE own BY <1>1, <1>2, <1>3, SelectTail
<1> QED BY <1>1, <1>2, <1>3, <1>4, <1>5 DEF Count, One

LEMMA CountOne == ASSUME NEW e, NEW P PROVE Count(<<e>>, P) = One(e, P)
<1>1. <<>> \in Seq({e}) /\ e \in {e} /\ Append(<<>>, e) = <<e>> OBVIOUS
<1>2. Count(Append(<<>>, e), P) = Count(<<>>, P) + One(e, P) BY <1>1, CountAppend
<1>3. One(e, P) \in Nat BY DEF One
<1> QED BY <1>1, <1>2, <1>3, CountNothing

LEMMA CountNone ==
    ASSUME NEW S, NEW s \in Seq(S), NEW P, S \cap P = {}
    PROVE  Count(s, P) = 0
BY SelectNone DEF Count
=============================================================================
