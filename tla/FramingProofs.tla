---------------------------- MODULE FramingProofs ----------------------------
(***************************************************************************)
(* Proofs about how messages are found in a stream of bytes, for any size  *)
(* of a byte and of the caller's buffer, and any messages and noise.       *)
(***************************************************************************)
EXTENDS Framing, SequenceTheorems, SelectingProofs, TLAPS

-----------------------------------------------------------------------------
(* Sequences that are used up from the front.                              *)

Initial(s, k) == SubSeq(s, 1, k)
Beyond(s, k)  == SubSeq(s, k + 1, Len(s))

LEMMA BeyondTyped ==
    ASSUME NEW D, NEW s \in Seq(D), NEW k \in 0..Len(s)
    PROVE  Beyond(s, k) \in Seq(D) /\ Len(Beyond(s, k)) = Len(s) - k
           /\ \A i \in 1..(Len(s) - k) : Beyond(s, k)[i] = s[k + i]
<1>1. k + 1 \in Int /\ Len(s) \in Int OBVIOUS
<1>2. \A i \in (k + 1)..Len(s) : s[i] \in D OBVIOUS
<1>3. /\ SubSeq(s, k + 1, Len(s)) \in Seq(D)
      /\ Len(SubSeq(s, k + 1, Len(s))) = IF k + 1 <= Len(s) THEN Len(s) - (k + 1) + 1 ELSE 0
      /\ \A i \in 1..(Len(s) - (k + 1) + 1) : SubSeq(s, k + 1, Len(s))[i] = s[(k + 1) + i - 1]
  BY <1>1, <1>2, SubSeqProperties
<1>4. Len(s) - (k + 1) + 1 = Len(s) - k /\ \A i \in 1..(Len(s) - k) : (k + 1) + i - 1 = k + i
  OBVIOUS
<1>5. (IF k + 1 <= Len(s) THEN Len(s) - (k + 1) + 1 ELSE 0) = Len(s) - k OBVIOUS
<1>6. \A i \in 1..(Len(s) - k) : SubSeq(s, k + 1, Len(s))[i] = s[k + i] BY <1>3, <1>4
<1> QED BY <1>3, <1>5, <1>6 DEF Beyond

LEMMA BeyondEnds ==
    ASSUME NEW D, NEW s \in Seq(D)
    PROVE  Beyond(s, 0) = s /\ Beyond(s, Len(s)) = <<>>
<1>1. Beyond(s, 0) = s
  <2>1. 0 + 1 = 1 OBVIOUS
  <2> QED BY <2>1, SubSeqFull DEF Beyond
<1>2. Beyond(s, Len(s)) = <<>>
  <2>1. Len(s) + 1 \in Int /\ Len(s) \in Int /\ Len(s) < Len(s) + 1 OBVIOUS
  <2> QED BY <2>1, SubSeqEmpty DEF Beyond
<1> QED BY <1>1, <1>2

LEMMA BeyondStep ==
    ASSUME NEW D, NEW s \in Seq(D), NEW k \in Nat, k < Len(s)
    PROVE  /\ Beyond(s, k) # <<>> /\ Head(Beyond(s, k)) = s[k + 1]
           /\ Tail(Beyond(s, k)) = Beyond(s, k + 1)
<1>1. k + 1 \in 1..Len(s) /\ Len(s) \in (k + 1)..Len(s) OBVIOUS
<1>2. Beyond(s, k) \in Seq(D) /\ Len(Beyond(s, k)) = Len(s) - k BY BeyondTyped
<1>3. Beyond(s, k) # <<>> BY <1>2
<1> QED BY <1>1, <1>3, HeadTailOfSubSeq DEF Beyond

LEMMA InitialTyped ==
    ASSUME NEW D, NEW s \in Seq(D), NEW k \in 0..Len(s)
    PROVE  Initial(s, k) \in Seq(D) /\ Len(Initial(s, k)) = k
           /\ \A i \in 1..k : Initial(s, k)[i] = s[i]
<1>1. \A i \in 1..k : s[i] \in D OBVIOUS
<1>2. /\ SubSeq(s, 1, k) \in Seq(D)
      /\ Len(SubSeq(s, 1, k)) = IF 1 <= k THEN k - 1 + 1 ELSE 0
      /\ \A i \in 1..(k - 1 + 1) : SubSeq(s, 1, k)[i] = s[1 + i - 1]
  BY <1>1, SubSeqProperties
<1>3. k - 1 + 1 = k /\ \A i \in 1..k : 1 + i - 1 = i OBVIOUS
<1> QED BY <1>2, <1>3 DEF Initial

LEMMA InitialStep ==
    ASSUME NEW D, NEW s \in Seq(D), NEW k \in Nat, k < Len(s)
    PROVE  Append(Initial(s, k), s[k + 1]) = Initial(s, k + 1)
<1> DEFINE l == Append(Initial(s, k), s[k + 1])
           r == Initial(s, k + 1)
<1>1. /\ Initial(s, k) \in Seq(D) /\ Len(Initial(s, k)) = k
      /\ \A i \in 1..k : Initial(s, k)[i] = s[i]
  BY InitialTyped
<1>2. /\ r \in Seq(D) /\ Len(r) = k + 1
      /\ \A i \in 1..(k + 1) : r[i] = s[i]
  BY InitialTyped, k + 1 \in 0..Len(s)
<1>3. s[k + 1] \in D OBVIOUS
<1>4. /\ l \in Seq(D) /\ Len(l) = k + 1 /\ \A i \in 1..k : l[i] = s[i]
      /\ l[k + 1] = s[k + 1]
  BY <1>1, <1>3, AppendProperties
<1> HIDE DEF l, r
<1>5. \A i \in 1..Len(l) : l[i] = r[i] BY <1>2, <1>4
<1>6. l = r BY <1>2, <1>4, <1>5, SeqEqual
<1> QED BY <1>6 DEF l, r

LEMMA InitialEnds ==
    ASSUME NEW D, NEW s \in Seq(D)
    PROVE  Initial(s, 0) = <<>> /\ Initial(s, Len(s)) = s
<1>1. Initial(s, 0) = <<>> BY SubSeqEmpty DEF Initial
<1> QED BY <1>1, SubSeqFull DEF Initial

\* What is in front of s \o t is what is in front of s.
LEMMA InFront ==
    ASSUME NEW D, NEW s \in Seq(D), NEW t \in Seq(D), s # <<>>
    PROVE  s \o t # <<>> /\ Head(s \o t) = Head(s) /\ Tail(s \o t) = Tail(s) \o t
<1> DEFINE l == Tail(s \o t)
           r == Tail(s) \o t
<1>1. /\ s \o t \in Seq(D) /\ Len(s \o t) = Len(s) + Len(t)
      /\ \A i \in 1..(Len(s) + Len(t)) :
            (s \o t)[i] = IF i <= Len(s) THEN s[i] ELSE t[i - Len(s)]
  BY ConcatProperties
<1>2. Len(s) \in Nat \ {0} /\ Len(t) \in Nat OBVIOUS
<1>3. s \o t # <<>>
  <2>1. Len(s \o t) # 0 BY <1>1, <1>2
  <2> QED BY <2>1
<1>4. Head(s \o t) = Head(s)
  <2>1. Head(s \o t) = (s \o t)[1] /\ Head(s) = s[1] OBVIOUS
  <2>2. (s \o t)[1] = s[1] BY <1>1, <1>2
  <2> QED BY <2>1, <2>2
<1>5. /\ l \in Seq(D) /\ Len(l) = Len(s) + Len(t) - 1
      /\ \A i \in 1..(Len(s) + Len(t) - 1) : l[i] = (s \o t)[i + 1]
  BY <1>1, <1>3, HeadTailProperties
<1>6. /\ Tail(s) \in Seq(D) /\ Len(Tail(s)) = Len(s) - 1
      /\ \A i \in 1..(Len(s) - 1) : Tail(s)[i] = s[i + 1]
  BY HeadTailProperties
<1>7. /\ r \in Seq(D) /\ Len(r) = (Len(s) - 1) + Len(t)
      /\ \A i \in 1..((Len(s) - 1) + Len(t)) :
            r[i] = IF i <= Len(s) - 1 THEN Tail(s)[i] ELSE t[i - (Len(s) - 1)]
  BY <1>6, ConcatProperties
<1>8. \A i \in 1..Len(l) : l[i] = r[i]
  <2> HIDE DEF l, r
  <2> TAKE i \in 1..Len(l)
  <2>1. l[i] = IF i + 1 <= Len(s) THEN s[i + 1] ELSE t[(i + 1) - Len(s)] BY <1>1, <1>2, <1>5
  <2>2. r[i] = IF i <= Len(s) - 1 THEN s[i + 1] ELSE t[i - (Len(s) - 1)]
    BY <1>2, <1>5, <1>6, <1>7
  <2>3. (i + 1) - Len(s) = i - (Len(s) - 1) BY <1>2, <1>5
  <2>4. i + 1 <= Len(s) <=> i <= Len(s) - 1 BY <1>2, <1>5
  <2> QED BY <2>1, <2>2, <2>3, <2>4
<1>9. l = r
  <2> HIDE DEF l, r
  <2>1. Len(l) = Len(r) BY <1>2, <1>5, <1>7
  <2> QED BY <1>5, <1>7, <1>8, <2>1, SeqEqual
<1> QED BY <1>3, <1>4, <1>9 DEF l, r

LEMMA OneInFront ==
    ASSUME NEW D, NEW e \in D, NEW t \in Seq(D)
    PROVE  /\ <<e>> \o t \in Seq(D) /\ <<e>> \o t # <<>> /\ Head(<<e>> \o t) = e
           /\ Tail(<<e>> \o t) = t
<1>1. <<e>> \in Seq(D) /\ <<e>> # <<>> /\ Head(<<e>>) = e /\ Tail(<<e>>) = <<>> OBVIOUS
<1>2. <<>> \o t = t BY ConcatEmptySeq
<1> QED BY <1>1, <1>2, InFront, ConcatProperties

\* \o of sequences of bytes.
Str == Seq(Byte)

LEMMA Assoc == \A s, t, u \in Str : (s \o t) \o u = s \o (t \o u)
BY ConcatAssociative DEF Str

LEMMA Joined ==
    /\ \A s, t \in Str : s \o t \in Str /\ Len(s \o t) = Len(s) + Len(t)
    /\ \A s \in Str : <<>> \o s = s /\ s \o <<>> = s
    /\ \A s, t, u \in Str : s \o t = s \o u => t = u
    /\ <<>> \in Str
<1>1. \A s, t \in Str : s \o t \in Str /\ Len(s \o t) = Len(s) + Len(t)
  BY ConcatProperties DEF Str
<1>3. \A s \in Str : <<>> \o s = s /\ s \o <<>> = s BY ConcatEmptySeq DEF Str
<1>4. \A s, t, u \in Str : s \o t = s \o u => t = u BY ConcatSimplifications DEF Str
<1> QED BY <1>1, <1>3, <1>4, EmptySeq DEF Str

-----------------------------------------------------------------------------
(* FlattenSeq, by induction over the number of pieces.                     *)

\* f is what the recursion says, up to the m-th piece.
FlattensTo(f, s, m) ==
    f[1] = s[1] /\ \A i \in 2..m : f[i] = f[i - 1] \o s[i]
Flattens(f, s) == FlattensTo(f, s, Len(s))

LEMMA SomeFlattens ==
    ASSUME NEW D, NEW s \in Seq(Seq(D)), s # <<>>
    PROVE  \E f \in [1..Len(s) -> Seq(D)] : Flattens(f, s)
<1> DEFINE K == {m \in Nat : m + 1 <= Len(s) =>
                                \E f \in [1..(m + 1) -> Seq(D)] : FlattensTo(f, s, m + 1)}
<1>0. Len(s) \in Nat \ {0} OBVIOUS
<1>1. 0 \in K
  <2>1. s[1] \in Seq(D) BY <1>0
  <2>2. PICK f : f = [i \in 1..1 |-> s[1]] OBVIOUS
  <2>3. f \in [1..1 -> Seq(D)] /\ f[1] = s[1] BY <2>1, <2>2
  <2>4. FlattensTo(f, s, 1) BY <2>3 DEF FlattensTo
  <2>5. 0 + 1 = 1 OBVIOUS
  <2> QED BY <2>3, <2>4, <2>5
<1>2. ASSUME NEW m \in K PROVE m + 1 \in K
  <2> SUFFICES ASSUME (m + 1) + 1 <= Len(s)
               PROVE  \E f \in [1..((m + 1) + 1) -> Seq(D)] : FlattensTo(f, s, (m + 1) + 1)
    OBVIOUS
  <2>1. m \in Nat /\ m + 1 <= Len(s) /\ (m + 1) + 1 \in 1..Len(s) BY <1>0
  <2>2. PICK f \in [1..(m + 1) -> Seq(D)] : FlattensTo(f, s, m + 1) BY <2>1
  <2>3. PICK g : g = [i \in 1..((m + 1) + 1) |-> IF i <= m + 1 THEN f[i] ELSE f[i - 1] \o s[i]]
    OBVIOUS
  <2>4. s[(m + 1) + 1] \in Seq(D) /\ f[m + 1] \in Seq(D) BY <2>1
  <2>5. f[m + 1] \o s[(m + 1) + 1] \in Seq(D) BY <2>4, ConcatProperties
  <2>6. \A i \in 1..(m + 1) : g[i] = f[i] BY <2>1, <2>3
  <2>7. g[(m + 1) + 1] = f[m + 1] \o s[(m + 1) + 1]
    <3>1. (m + 1) + 1 \in 1..((m + 1) + 1) /\ ~((m + 1) + 1 <= m + 1)
          /\ ((m + 1) + 1) - 1 = m + 1
      BY <2>1
    <3> QED BY <2>3, <3>1
  <2>8. g \in [1..((m + 1) + 1) -> Seq(D)]
    <3>1. ASSUME NEW i \in 1..((m + 1) + 1) PROVE g[i] \in Seq(D)
      <4>1. CASE i <= m + 1
        <5>1. i \in 1..(m + 1) BY <2>1, <4>1
        <5> QED BY <2>6, <5>1
      <4>2. CASE i = (m + 1) + 1 BY <2>5, <2>7, <4>2
      <4> QED BY <2>1, <4>1, <4>2
    <3> QED BY <2>3, <3>1
  <2>9. FlattensTo(g, s, (m + 1) + 1)
    <3>1. g[1] = s[1]
      <4>1. 1 \in 1..(m + 1) BY <2>1
      <4> QED BY <2>2, <2>6, <4>1 DEF FlattensTo
    <3>2. ASSUME NEW i \in 2..((m + 1) + 1) PROVE g[i] = g[i - 1] \o s[i]
      <4>1. i - 1 \in 1..(m + 1) BY <2>1
      <4>2. CASE i <= m + 1
        <5>1. i \in 1..(m + 1) /\ i \in 2..(m + 1) BY <2>1, <4>2
        <5> QED BY <2>2, <2>6, <4>1, <5>1 DEF FlattensTo
      <4>3. CASE i = (m + 1) + 1
        <5>1. i - 1 = m + 1 BY <2>1, <4>3
        <5>2. g[i - 1] = f[m + 1] BY <2>6, <4>1, <5>1
        <5>3. g[i] = f[m + 1] \o s[i] BY <2>7, <4>3
        <5> QED BY <5>2, <5>3
      <4>4. i <= m + 1 \/ i = (m + 1) + 1 BY <2>1
      <4> QED BY <4>2, <4>3, <4>4
    <3> QED BY <3>1, <3>2 DEF FlattensTo
  <2> QED BY <2>8, <2>9
<1>3. K = Nat
  <2>1. K \in SUBSET Nat OBVIOUS
  <2> HIDE DEF K
  <2> QED BY <1>1, <1>2, <2>1, SetInduction
<1>4. Len(s) - 1 \in Nat /\ (Len(s) - 1) + 1 = Len(s) BY <1>0
<1>5. Len(s) - 1 \in K BY <1>3, <1>4
<1>6. \E f \in [1..Len(s) -> Seq(D)] : FlattensTo(f, s, Len(s)) BY <1>4, <1>5
<1> QED BY <1>6 DEF Flattens

\* What follows the recursion ends in what FlattenSeq returns.
LEMMA FlattenIs ==
    ASSUME NEW D, NEW s \in Seq(Seq(D)), s # <<>>, NEW f, Flattens(f, s)
    PROVE  FlattenSeq(s) = f[Len(s)]
<1> DEFINE Is(g) == g = [i \in 1..Len(s) |-> IF i = 1 THEN s[i] ELSE g[i - 1] \o s[i]]
<1>1. PICK h \in [1..Len(s) -> Seq(D)] : Flattens(h, s) BY SomeFlattens
<1>2. Len(s) \in Nat \ {0} OBVIOUS
<1>3. Is(h)
  <2>1. ASSUME NEW i \in 1..Len(s)
        PROVE  h[i] = IF i = 1 THEN s[i] ELSE h[i - 1] \o s[i]
    <3>1. CASE i = 1 BY <1>1, <3>1 DEF Flattens, FlattensTo
    <3>2. CASE i # 1
      <4>1. i \in 2..Len(s) BY <1>2, <3>2
      <4> QED BY <1>1, <3>2, <4>1 DEF Flattens, FlattensTo
    <3> QED BY <3>1, <3>2
  <2> QED BY <2>1
<1>4. FlattenSeq(s) = (CHOOSE g : Is(g))[Len(s)] BY <1>2 DEF FlattenSeq
<1>5. PICK g : Is(g) /\ FlattenSeq(s) = g[Len(s)]
  <2> HIDE DEF Is
  <2> QED BY <1>3, <1>4
<1>6. Flattens(g, s)
  <2>1. 1 \in 1..Len(s) BY <1>2
  <2>2. g[1] = s[1] BY <1>5, <2>1
  <2>3. ASSUME NEW i \in 2..Len(s) PROVE g[i] = g[i - 1] \o s[i]
    <3>1. i \in 1..Len(s) /\ i # 1 BY <1>2
    <3> QED BY <1>5, <3>1
  <2> QED BY <2>2, <2>3 DEF Flattens, FlattensTo
<1> DEFINE K == {k \in Nat : k + 1 <= Len(s) => g[k + 1] = f[k + 1]}
<1>7. K = Nat
  <2> HIDE DEF Is
  <2>1. 0 \in K BY <1>6 DEF Flattens, FlattensTo
  <2>2. ASSUME NEW k \in K PROVE k + 1 \in K
    <3> SUFFICES ASSUME (k + 1) + 1 <= Len(s) PROVE g[(k + 1) + 1] = f[(k + 1) + 1] OBVIOUS
    <3>1. (k + 1) + 1 \in 2..Len(s) /\ ((k + 1) + 1) - 1 = k + 1 BY <1>2
    <3>2. g[k + 1] = f[k + 1] BY <1>2
    <3> HIDE DEF K
    <3> QED BY <1>6, <3>1, <3>2 DEF Flattens, FlattensTo
  <2>3. K \in SUBSET Nat OBVIOUS
  <2> HIDE DEF K
  <2> QED BY <2>1, <2>2, <2>3, SetInduction
<1>8. Len(s) - 1 \in Nat /\ (Len(s) - 1) + 1 = Len(s) BY <1>2
<1>9. Len(s) - 1 \in K BY <1>7, <1>8
<1>10. g[Len(s)] = f[Len(s)]
  <2> HIDE DEF Is
  <2> QED BY <1>2, <1>8, <1>9
<1> QED BY <1>5, <1>10

LEMMA FlattenNothing == FlattenSeq(<<>>) = <<>>
<1>1. Len(<<>>) = 0 OBVIOUS
<1> QED BY <1>1 DEF FlattenSeq

LEMMA FlattenTyped ==
    ASSUME NEW D, NEW s \in Seq(Seq(D))
    PROVE  FlattenSeq(s) \in Seq(D)
<1>1. CASE s = <<>> BY <1>1, FlattenNothing, EmptySeq
<1>2. CASE s # <<>>
  <2>1. PICK f \in [1..Len(s) -> Seq(D)] : Flattens(f, s) BY <1>2, SomeFlattens
  <2>2. FlattenSeq(s) = f[Len(s)] BY <1>2, <2>1, FlattenIs
  <2>3. Len(s) \in Nat \ {0} BY <1>2
  <2>4. Len(s) \in 1..Len(s) BY <2>3
  <2> QED BY <2>1, <2>2, <2>4
<1> QED BY <1>1, <1>2

\* The first piece is in front.
LEMMA FlattenHead ==
    ASSUME NEW D, NEW s \in Seq(Seq(D)), s # <<>>
    PROVE  FlattenSeq(s) = Head(s) \o FlattenSeq(Tail(s))
<1> DEFINE t == Tail(s)
<1>1. /\ Head(s) = s[1] /\ s[1] \in Seq(D) /\ t \in Seq(Seq(D))
      /\ Len(s) \in Nat /\ Len(t) \in Nat /\ Len(s) = Len(t) + 1
      /\ \A i \in 1..Len(t) : t[i] = s[i + 1]
  BY HeadTailProperties
<1> HIDE DEF t
<1>2. PICK f \in [1..Len(s) -> Seq(D)] : Flattens(f, s) BY SomeFlattens
<1>3. FlattenSeq(s) = f[Len(s)] BY <1>2, FlattenIs
<1>4. CASE t = <<>>
  <2>1. Len(s) = 1 BY <1>1, <1>4
  <2>2. FlattenSeq(s) = s[1] BY <1>2, <1>3, <2>1 DEF Flattens, FlattensTo
  <2>3. s[1] \o FlattenSeq(t) = s[1] BY <1>1, <1>4, FlattenNothing, ConcatEmptySeq
  <2> QED BY <1>1, <2>2, <2>3 DEF t
<1>5. CASE t # <<>>
  <2>1. PICK g \in [1..Len(t) -> Seq(D)] : Flattens(g, t) BY <1>1, <1>5, SomeFlattens
  <2>2. FlattenSeq(t) = g[Len(t)] BY <1>1, <1>5, <2>1, FlattenIs
  <2>3. Len(t) # 0 BY <1>1, <1>5
  <2> DEFINE with(k) == s[1] \o g[k]
             K == {k \in Nat : k + 1 <= Len(t) => f[(k + 1) + 1] = with(k + 1)}
  <2>10. 0 + 1 = 1 /\ (0 + 1) + 1 = 2 OBVIOUS
  <2>4. 0 \in K
    <3>1. 2 \in 2..Len(s) /\ 2 - 1 = 1 /\ 1 \in 1..Len(t) /\ 1 + 1 = 2 BY <1>1, <2>3
    <3>2. f[2] = f[1] \o s[2] BY <1>2, <3>1 DEF Flattens, FlattensTo
    <3>3. f[1] = s[1] /\ g[1] = t[1] /\ t[1] = s[2] BY <1>1, <1>2, <2>1, <3>1 DEF Flattens, FlattensTo
    <3>4. f[2] = with(1) BY <3>2, <3>3
    <3> HIDE DEF with
    <3> QED BY <2>10, <3>4
  <2>5. ASSUME NEW k \in K PROVE k + 1 \in K
    <3> HIDE DEF with
    <3> SUFFICES ASSUME (k + 1) + 1 <= Len(t)
                 PROVE  f[((k + 1) + 1) + 1] = with((k + 1) + 1)
      OBVIOUS
    <3>1. k \in Nat /\ k + 1 <= Len(t) /\ f[(k + 1) + 1] = with(k + 1) BY <1>1
    <3> HIDE DEF K
    <3>2. /\ ((k + 1) + 1) + 1 \in 2..Len(s) /\ (((k + 1) + 1) + 1) - 1 = (k + 1) + 1
          /\ (k + 1) + 1 \in 2..Len(t) /\ ((k + 1) + 1) - 1 = k + 1
          /\ (k + 1) + 1 \in 1..Len(t) /\ k + 1 \in 1..Len(t)
      BY <1>1, <3>1
    <3>3. f[((k + 1) + 1) + 1] = f[(k + 1) + 1] \o s[((k + 1) + 1) + 1]
      BY <1>2, <3>2 DEF Flattens, FlattensTo
    <3>4. g[(k + 1) + 1] = g[k + 1] \o t[(k + 1) + 1] BY <2>1, <3>2 DEF Flattens, FlattensTo
    <3>7. t[(k + 1) + 1] = s[((k + 1) + 1) + 1] BY <1>1, <3>2
    <3>8. t[(k + 1) + 1] \in Seq(D) BY <1>1, <3>2, ElementOfSeq
    <3>9. g[k + 1] \in Seq(D) BY <2>1, <3>2
    <3>6. (s[1] \o g[k + 1]) \o t[(k + 1) + 1] = s[1] \o (g[k + 1] \o t[(k + 1) + 1])
      <4>1. \A x, y, z \in Seq(D) : (x \o y) \o z = x \o (y \o z) BY ConcatAssociative
      <4> QED BY <1>1, <3>8, <3>9, <4>1
    <3> QED BY <3>1, <3>3, <3>4, <3>6, <3>7 DEF with
  <2>6. K = Nat
    <3> HIDE DEF with
    <3>1. K \in SUBSET Nat OBVIOUS
    <3> HIDE DEF K
    <3> QED BY <2>4, <2>5, <3>1, SetInduction
  <2>7. /\ Len(t) - 1 \in Nat /\ (Len(t) - 1) + 1 = Len(t)
        /\ ((Len(t) - 1) + 1) + 1 = Len(s)
    BY <1>1, <2>3
  <2>8. f[Len(s)] = with(Len(t))
    <3> HIDE DEF with
    <3>1. Len(t) - 1 \in K BY <2>6, <2>7
    <3> QED BY <1>1, <2>7, <3>1
  <2> QED BY <1>1, <1>3, <2>2, <2>8 DEF t
<1> QED BY <1>4, <1>5

\* Pieces of one element each.
LEMMA FlattenSingles ==
    ASSUME NEW D, NEW s \in Seq(D)
    PROVE  /\ [i \in DOMAIN s |-> <<s[i]>>] \in Seq(Seq(D))
           /\ FlattenSeq([i \in DOMAIN s |-> <<s[i]>>]) = s
<1> DEFINE t == [i \in DOMAIN s |-> <<s[i]>>]
<1>1. /\ t \in Seq(Seq(D)) /\ Len(t) = Len(s) /\ Len(s) \in Nat
      /\ \A i \in 1..Len(s) : t[i] = <<s[i]>> /\ s[i] \in D
  <2>1. Len(s) \in Nat /\ DOMAIN s = 1..Len(s) /\ \A i \in 1..Len(s) : s[i] \in D OBVIOUS
  <2>2. \A i \in 1..Len(s) : <<s[i]>> \in Seq(D) BY <2>1
  <2>3. t = [i \in 1..Len(s) |-> <<s[i]>>] BY <2>1
  <2>4. t \in [1..Len(s) -> Seq(D)] BY <2>2, <2>3
  <2>5. t \in Seq(Seq(D)) /\ Len(t) = Len(s) BY <2>1, <2>4
  <2> QED BY <2>1, <2>3, <2>5
<1> HIDE DEF t
<1>2. CASE s = <<>>
  <2>1. t = <<>> BY <1>1, <1>2
  <2> QED BY <1>1, <1>2, <2>1, FlattenNothing DEF t
<1>3. CASE s # <<>>
  <2>1. PICK f : f = [i \in 1..Len(s) |-> Initial(s, i)] OBVIOUS
  <2>2. Len(s) # 0 /\ t # <<>> BY <1>1, <1>3
  <2>3. f[1] = t[1]
    <3>1. Append(Initial(s, 0), s[0 + 1]) = Initial(s, 0 + 1)
      <4>1. 0 \in Nat /\ 0 < Len(s) BY <1>1, <2>2
      <4> QED BY <4>1, InitialStep
    <3>2. Initial(s, 0) = <<>> BY InitialEnds
    <3>3. Append(<<>>, s[1]) = <<s[1]>> BY <1>1, <2>2
    <3>4. 1 \in 1..Len(s) /\ 0 + 1 = 1 BY <1>1, <2>2
    <3>5. f[1] = Initial(s, 1) /\ t[1] = <<s[1]>> BY <1>1, <2>1, <3>4
    <3> QED BY <3>1, <3>2, <3>3, <3>4, <3>5
  <2>4. ASSUME NEW i \in 2..Len(t) PROVE f[i] = f[i - 1] \o t[i]
    <3>1. i - 1 \in Nat /\ i - 1 < Len(s) /\ (i - 1) + 1 = i /\ i \in 1..Len(s)
          /\ i - 1 \in 1..Len(s) /\ i - 1 \in 0..Len(s)
      BY <1>1
    <3>2. Append(Initial(s, i - 1), s[i]) = Initial(s, i)
      <4>1. Append(Initial(s, i - 1), s[(i - 1) + 1]) = Initial(s, (i - 1) + 1)
        BY <3>1, InitialStep
      <4> QED BY <3>1, <4>1
    <3>3. Initial(s, i - 1) \in Seq(D) /\ s[i] \in D BY <1>1, <3>1, InitialTyped
    <3>4. Append(Initial(s, i - 1), s[i]) = Initial(s, i - 1) \o <<s[i]>>
      BY <3>3, AppendIsConcat
    <3> QED BY <1>1, <2>1, <3>1, <3>2, <3>4
  <2>5. Flattens(f, t) BY <2>3, <2>4 DEF Flattens, FlattensTo
  <2>6. FlattenSeq(t) = f[Len(t)] BY <1>1, <2>2, <2>5, FlattenIs
  <2>7. f[Len(t)] = s
    <3>1. Len(s) \in 1..Len(s) BY <1>1, <2>2
    <3> QED BY <1>1, <2>1, <3>1, InitialEnds
  <2> QED BY <1>1, <2>6, <2>7 DEF t
<1> QED BY <1>2, <1>3

-----------------------------------------------------------------------------
(* Bytes and frames.                                                       *)

LEMMA Constants ==
    /\ Base \in Nat \ {0} /\ n \in Nat /\ S \in Byte /\ C \in Byte /\ M \in Byte
    /\ S # C /\ S # M /\ C # M
    /\ \A b \in Byte : b \in Nat
    /\ \A b \in Byte : Base * b \in Nat
BY FramingAssumption DEF Byte

\* A sequence of two is told by its two bytes.
LEMMA Pair ==
    ASSUME NEW u \in Seq(Byte), Len(u) = 2, NEW a \in Byte, NEW b \in Byte
    PROVE  u = <<a, b>> <=> u[1] = a /\ u[2] = b
<1>1. PICK v : v = <<a, b>> OBVIOUS
<1>2. v \in Seq(Byte) /\ Len(v) = 2 /\ v[1] = a /\ v[2] = b BY <1>1
<1>3. ASSUME u[1] = a, u[2] = b PROVE u = v
  <2>1. \A i \in 1..Len(u) : u[i] = v[i]
    <3>1. 1..Len(u) = {1, 2} OBVIOUS
    <3> QED BY <1>2, <1>3, <3>1
  <2> QED BY <1>2, <2>1, SeqEqual
<1> QED BY <1>1, <1>2, <1>3

\* The first and the second byte of a message's magic.
ty1(p) == p.ty[1]
ty2(p) == p.ty[2]

LEMMA MagicTyped ==
    ASSUME NEW p \in Part
    PROVE  /\ ty1(p) \in Byte /\ ty2(p) \in Byte /\ p.ty = <<ty1(p), ty2(p)>>
           /\ p.ty \in Seq(Byte) /\ Len(p.ty) = 2
           /\ p.ty \in {SCEWL_MAGIC, MITM_MAGIC}
           /\ p.ty = SCEWL_MAGIC => ty1(p) = S /\ ty2(p) = C
<1>1. p.ty \in {SCEWL_MAGIC, MITM_MAGIC} BY DEF Part
<1>2. CASE p.ty = SCEWL_MAGIC
  <2>1. p.ty = <<S, C>> BY <1>2 DEF SCEWL_MAGIC
  <2>2. ty1(p) = S /\ ty2(p) = C BY <2>1 DEF ty1, ty2
  <2>3. <<S, C>> \in Seq(Byte) /\ Len(<<S, C>>) = 2 BY Constants
  <2> QED BY <1>1, <2>1, <2>2, <2>3, Constants
<1>3. CASE p.ty = MITM_MAGIC
  <2>1. p.ty = <<M, M>> BY <1>3 DEF MITM_MAGIC
  <2>2. ty1(p) = M /\ ty2(p) = M BY <2>1 DEF ty1, ty2
  <2>3. <<M, M>> \in Seq(Byte) /\ Len(<<M, M>>) = 2 BY Constants
  <2>4. p.ty # SCEWL_MAGIC
    <3>1. <<M, M>>[1] = M /\ <<S, C>>[1] = S OBVIOUS
    <3> QED BY <2>1, <3>1, Constants DEF SCEWL_MAGIC
  <2> QED BY <1>1, <2>1, <2>2, <2>3, <2>4, Constants
<1> QED BY <1>1, <1>2, <1>3

\* Two bytes hold every number below Base * Base.
LEMMA TwoBytes ==
    ASSUME NEW k \in Nat, k < Base * Base
    PROVE  /\ k % Base \in Byte /\ k \div Base \in Byte
           /\ (k % Base) + Base * (k \div Base) = k
<1>1. PICK b \in Nat \ {0} : b = Base BY Constants
<1>2. /\ k % b \in 0..(b - 1) /\ k \div b \in Nat /\ k = b * (k \div b) + (k % b) BY <1>1
<1>3. PICK q \in Nat : q = k \div b BY <1>2
<1>4. q < b
  <2>1. ASSUME q >= b PROVE FALSE
    <3>1. b * q >= b * b BY <1>1, <2>1
    <3> QED BY <1>1, <1>2, <1>3, <3>1
  <2> QED BY <1>1, <1>3, <2>1
<1> QED BY <1>1, <1>2, <1>3, <1>4 DEF Byte

HdrOf(p) == <<p.src, Len(p.body) % Base, Len(p.body) \div Base>>

\* len is the length of the body again.
LEMMA HeaderTyped ==
    ASSUME NEW p \in Part
    PROVE  /\ p.noise \in Seq(Byte) /\ p.src \in Byte /\ p.body \in Seq(Byte)
           /\ HdrOf(p) \in Seq(Byte) /\ Len(HdrOf(p)) = 3
           /\ HdrOf(p)[1] = p.src
           /\ HdrOf(p)[2] + Base * HdrOf(p)[3] = Len(p.body)
           /\ HdrOf(p)[2] \in Byte /\ HdrOf(p)[3] \in Byte
<1>1. /\ p.noise \in Seq(Byte) /\ p.src \in Byte /\ p.body \in Seq(Byte)
      /\ Len(p.body) \in Nat /\ Len(p.body) < Base * Base
  BY DEF Part, Body
<1>2. /\ Len(p.body) % Base \in Byte /\ Len(p.body) \div Base \in Byte
      /\ (Len(p.body) % Base) + Base * (Len(p.body) \div Base) = Len(p.body)
  BY <1>1, TwoBytes
<1>3. /\ HdrOf(p)[1] = p.src /\ HdrOf(p)[2] = Len(p.body) % Base
      /\ HdrOf(p)[3] = Len(p.body) \div Base
  BY DEF HdrOf
<1>4. HdrOf(p) \in Seq(Byte) /\ Len(HdrOf(p)) = 3 BY <1>1, <1>2 DEF HdrOf
<1> QED BY <1>1, <1>2, <1>3, <1>4

\* A message without the noise in front of it.
Framed(p) == <<ty1(p)>> \o (<<ty2(p)>> \o (HdrOf(p) \o p.body))

LEMMA FrameTyped ==
    ASSUME NEW p \in Part
    PROVE  /\ Framed(p) \in Seq(Byte) /\ Frame(p) \in Seq(Byte)
           /\ Frame(p) = p.noise \o Framed(p)
           /\ Header(p) = <<ty1(p)>> \o (<<ty2(p)>> \o HdrOf(p))
<1>1. /\ p.noise \in Seq(Byte) /\ p.body \in Seq(Byte) /\ HdrOf(p) \in Seq(Byte)
      /\ <<ty1(p)>> \in Seq(Byte) /\ <<ty2(p)>> \in Seq(Byte) /\ p.ty \in Seq(Byte)
  BY HeaderTyped, MagicTyped
<1>2. PICK a, b, h, d, z, g \in Str :
         /\ a = <<ty1(p)>> /\ b = <<ty2(p)>> /\ h = HdrOf(p) /\ d = p.body /\ z = p.noise
         /\ g = p.ty
  BY <1>1 DEF Str
<1>3. g = a \o b
  <2>1. PICK x, y \in Byte : x = ty1(p) /\ y = ty2(p) BY MagicTyped
  <2>2. g = <<x, y>> BY <1>2, <2>1, MagicTyped
  <2>3. PICK u : u = a \o b OBVIOUS
  <2>4. /\ a \in Seq(Byte) /\ b \in Seq(Byte) /\ Len(a) = 1 /\ Len(b) = 1
        /\ a[1] = x /\ b[1] = y
    BY <1>2, <2>1 DEF Str
  <2>5. /\ u \in Seq(Byte) /\ Len(u) = 2
        /\ \A i \in 1..2 : u[i] = IF i <= 1 THEN a[i] ELSE b[i - 1]
    <3>1. /\ a \o b \in Seq(Byte) /\ Len(a \o b) = Len(a) + Len(b)
          /\ \A i \in 1..(Len(a) + Len(b)) :
                (a \o b)[i] = IF i <= Len(a) THEN a[i] ELSE b[i - Len(a)]
      BY <2>4, ConcatProperties
    <3>2. Len(a) + Len(b) = 2 BY <2>4
    <3> QED BY <2>3, <2>4, <3>1, <3>2
  <2>6. u[1] = a[1] /\ u[2] = b[2 - 1]
    <3>1. 1 \in 1..2 /\ 2 \in 1..2 /\ 1 <= 1 /\ ~(2 <= 1) OBVIOUS
    <3> QED BY <2>5, <3>1
  <2>7. u[1] = x /\ u[2] = y
    <3>1. 2 - 1 = 1 OBVIOUS
    <3> QED BY <2>4, <2>6, <3>1
  <2>8. u = <<x, y>> BY <2>5, <2>7, Pair
  <2> QED BY <2>2, <2>3, <2>8
<1>4. Header(p) = g \o h /\ Frame(p) = (z \o (g \o h)) \o d /\ Framed(p) = a \o (b \o (h \o d))
  BY <1>2 DEF Header, Frame, Framed, HdrOf
<1>5. /\ (a \o b) \o h = a \o (b \o h)
      /\ (z \o (a \o (b \o h))) \o d = z \o (a \o (b \o (h \o d)))
      /\ a \o (b \o (h \o d)) \in Str /\ z \o (a \o (b \o (h \o d))) \in Str
  <2>1. b \o h \in Str /\ a \o (b \o h) \in Str /\ h \o d \in Str BY Joined
  <2>2. b \o (h \o d) \in Str BY <2>1, Joined
  <2>3. a \o (b \o (h \o d)) \in Str BY <2>2, Joined
  <2>4. (z \o (a \o (b \o h))) \o d = z \o ((a \o (b \o h)) \o d) BY <2>1, Assoc
  <2>5. b \o h \in Str BY <2>1
  <2>6. (a \o (b \o h)) \o d = a \o ((b \o h) \o d) BY <2>5, Assoc
  <2>7. (b \o h) \o d = b \o (h \o d) BY Assoc
  <2>8. z \o (a \o (b \o (h \o d))) \in Str BY <2>3, Joined
  <2>9. (a \o b) \o h = a \o (b \o h) BY Assoc
  <2> QED BY <2>3, <2>4, <2>6, <2>7, <2>8, <2>9
<1> QED BY <1>2, <1>3, <1>4, <1>5 DEF Str

-----------------------------------------------------------------------------
(* Types, and what each place of the readers has done.                     *)

\* Only the emulator is sent a man in the middle's messages.
OneMagic == fn # "deserialize" => \A i \in DOMAIN feed : feed[i].ty = SCEWL_MAGIC

Types ==
    /\ TypeOK /\ OneMagic
    /\ coming \in Seq(Str) /\ got \in Seq(Message)
    /\ eof => fn = "scewl_recv" /\ coming = <<>>
    /\ fn = "deserialize" => pc = "magicS"
    /\ pc \in {"magicS", "magicC"} => hdr = <<>>
    /\ pc \in {"magicS", "magicC", "header"} => data = <<>> /\ skipped = 0 /\ res
    /\ pc = "header" => Len(hdr) < 3
    /\ pc = "body" => skipped = 0
    /\ pc \in {"body", "rest"} => Len(data) <= max /\ skipped <= rest

\* The variables the readers do not share with the port.
locals == <<pc, hdr, data, skipped, res>>

LEMMA FirstByte ==
    ASSUME NEW s \in Str, s # <<>>
    PROVE  /\ Head(s) \in Byte /\ Tail(s) \in Str /\ Len(Tail(s)) = Len(s) - 1
           /\ Len(s) \in Nat \ {0}
BY HeadTailProperties DEF Str

LEMMA FramesTyped ==
    ASSUME feed \in Seq(Part)
    PROVE  /\ frames \in Seq(Str) /\ Len(frames) = Len(feed) /\ Len(feed) \in Nat
           /\ \A i \in 1..Len(feed) : frames[i] = Frame(feed[i]) /\ feed[i] \in Part
<1>1. DOMAIN feed = 1..Len(feed) /\ Len(feed) \in Nat /\ \A i \in 1..Len(feed) : feed[i] \in Part
  OBVIOUS
<1>2. \A i \in 1..Len(feed) : Frame(feed[i]) \in Str BY <1>1, FrameTyped DEF Str
<1>3. frames = [i \in 1..Len(feed) |-> Frame(feed[i])] BY <1>1 DEF frames
<1>4. frames \in [1..Len(feed) -> Str] BY <1>2, <1>3
<1> QED BY <1>1, <1>3, <1>4

LengthsOK ==
    /\ len \in Nat /\ max \in Nat /\ max <= n /\ max <= len /\ rest \in Nat
    /\ rest = len - max /\ src \in Byte

LEMMA Lengths == hdr \in Str => LengthsOK
<1> SUFFICES ASSUME hdr \in Str PROVE LengthsOK OBVIOUS
<1>1. hdr \in Seq(Byte) /\ Len(hdr) \in Nat BY DEF Str
<1>2. /\ Len(hdr) > 0 => hdr[1] \in Byte
      /\ Len(hdr) > 1 => hdr[2] \in Byte
      /\ Len(hdr) > 2 => hdr[3] \in Byte
  BY <1>1
<1>3. PICK lo \in Nat : lo = IF Len(hdr) > 1 THEN hdr[2] ELSE 0 BY <1>2, Constants
<1>4. PICK hi \in Nat : hi = IF Len(hdr) > 2 THEN Base * hdr[3] ELSE 0 BY <1>2, Constants
<1>5. len \in Nat BY <1>3, <1>4 DEF len
<1>6. max \in Nat /\ max <= n /\ max <= len BY <1>5, Constants DEF max
<1>7. src \in Byte
  <2>1. CASE hdr = <<>>
    <3>1. 0 \in Byte BY Constants DEF Byte
    <3> QED BY <2>1, <3>1 DEF src
  <2>2. CASE hdr # <<>>
    <3>1. Len(hdr) > 0 BY <1>1, <2>2
    <3> QED BY <1>2, <2>2, <3>1 DEF src
  <2> QED BY <2>1, <2>2
<1> QED BY <1>5, <1>6, <1>7 DEF rest, LengthsOK

LEMMA LengthsNext == (hdr \in Str => LengthsOK)'
BY Lengths, PTL

LEMMA InitTypes == Init => Types
<1> SUFFICES ASSUME Init PROVE Types OBVIOUS
<1>1. feed \in Feeds /\ feed \in Seq(Part) BY FramingAssumption DEF Init
<1>2. frames \in Seq(Str) BY <1>1, FramesTyped
<1>3. FlattenSeq(frames) \in Str BY <1>2, FlattenTyped DEF Str
<1>4. bytewise(FlattenSeq(frames)) \in Seq(Str)
  BY <1>3, FlattenSingles DEF bytewise, Str
<1>5. coming \in Seq(Str) BY <1>2, <1>4 DEF Init
<1>6. \A i \in DOMAIN coming : coming[i] \in Seq(Byte) BY <1>5 DEF Str
<1>7. /\ <<>> \in Seq(Byte) /\ Len(<<>>) = 0 /\ <<>> \in Seq(Message) /\ DOMAIN <<>> = {}
  OBVIOUS
<1>8. feed \in Feeds /\ whole \in BOOLEAN /\ fn \in Functions /\ blocking \in BOOLEAN
  BY DEF Init, Functions
<1>9. /\ wire \in Seq(Byte) /\ eof \in BOOLEAN /\ pc = "magicS" /\ hdr \in Seq(Byte)
      /\ Len(hdr) <= 3 /\ data \in Seq(Byte) /\ Len(data) <= n /\ skipped \in Nat
      /\ res \in BOOLEAN /\ \A i \in DOMAIN got : got[i] \in Message
  <2>1. /\ wire = <<>> /\ eof = FALSE /\ pc = "magicS" /\ hdr = <<>> /\ data = <<>>
        /\ skipped = 0 /\ res = TRUE /\ got = <<>>
    BY DEF Init
  <2>2. Len(hdr) <= 3 /\ Len(data) <= n BY <1>7, <2>1, Constants
  <2>3. wire \in Seq(Byte) /\ hdr \in Seq(Byte) /\ data \in Seq(Byte) BY <1>7, <2>1
  <2>4. \A i \in DOMAIN got : got[i] \in Message BY <1>7, <2>1
  <2> QED BY <2>1, <2>2, <2>3, <2>4
<1>10. TypeOK BY <1>6, <1>8, <1>9 DEF TypeOK
<1>11. OneMagic BY DEF Init, OneMagic
<1> QED BY <1>5, <1>7, <1>10, <1>11 DEF Init, Types

\* What is left when a byte has been read, or nothing was there.
LEMMA PortTyped ==
    ASSUME Types, Take \/ UNCHANGED port
    PROVE  wire' \in Str /\ coming' = coming /\ eof' = eof
<1>1. wire \in Str BY DEF Types, TypeOK, Str
<1>2. CASE Take BY <1>1, <1>2, FirstByte DEF Take
<1>3. CASE UNCHANGED port BY <1>1, <1>3 DEF port
<1> QED BY <1>2, <1>3

\* What the readers have to keep to.
LocalTypes ==
    /\ pc \in {"magicS", "magicC", "header", "body", "rest"}
    /\ hdr \in Str /\ Len(hdr) <= 3
    /\ data \in Str /\ Len(data) <= n
    /\ skipped \in Nat
    /\ res \in BOOLEAN
    /\ fn = "deserialize" => pc = "magicS"
    /\ pc \in {"magicS", "magicC"} => hdr = <<>>
    /\ pc \in {"magicS", "magicC", "header"} => data = <<>> /\ skipped = 0 /\ res
    /\ pc = "header" => Len(hdr) < 3
    /\ pc = "body" => skipped = 0
    /\ pc \in {"body", "rest"} => Len(data) <= max /\ skipped <= rest

LEMMA LocalsOfTypes == Types => LocalTypes BY DEF Types, TypeOK, LocalTypes, Str

LEMMA ReaderTyped ==
    ASSUME Types, UNCHANGED setup, wire' \in Str, coming' = coming, eof' = eof,
           got' \in Seq(Message), LocalTypes'
    PROVE  Types'
<1>1. /\ feed' = feed /\ whole' = whole /\ fn' = fn /\ blocking' = blocking BY DEF setup
<1>2. \A i \in DOMAIN got' : got'[i] \in Message OBVIOUS
<1>3. TypeOK' BY <1>1, <1>2 DEF Types, TypeOK, LocalTypes, Str
<1>4. OneMagic' BY <1>1 DEF Types, OneMagic
<1> QED BY <1>1, <1>3, <1>4 DEF Types, LocalTypes

LEMMA SameLengths ==
    UNCHANGED hdr => len' = len /\ max' = max /\ rest' = rest /\ src' = src
BY DEF len, max, rest, src

LEMMA ReturnTyped == Return => LocalTypes'
<1>1. <<>> \in Str /\ Len(<<>>) = 0 /\ n \in Nat BY Joined, Constants
<1>2. CASE Return BY <1>1, <1>2 DEF Return, LocalTypes
<1> QED BY <1>2

LEMMA SearchTyped ==
    ASSUME Types, FindS \/ FindC \/ FindNothing, fn # "deserialize"
    PROVE  Types'
<1>1. CASE FindNothing
  <2>1. UNCHANGED <<setup, got, port>> /\ LocalTypes' BY <1>1, ReturnTyped DEF FindNothing, NoByte
  <2> QED BY <2>1, PortTyped, ReaderTyped DEF Types, port
<1>2. CASE FindS \/ FindC
  <2>1. Take /\ UNCHANGED <<setup, hdr, data, skipped, res, got>> BY <1>2 DEF FindS, FindC
  <2>2. hdr = <<>> /\ data = <<>> /\ skipped = 0 /\ res BY <1>2 DEF FindS, FindC, Types
  <2>3. pc' \in {"magicS", "magicC", "header"} BY <1>2 DEF FindS, FindC
  <2>4. LocalTypes'
    <3>1. <<>> \in Str /\ Len(<<>>) = 0 /\ n \in Nat BY Joined, Constants
    <3>2. fn' # "deserialize" BY <2>1 DEF setup
    <3>3. hdr' = <<>> /\ data' = <<>> /\ skipped' = 0 /\ res' = res /\ res \in BOOLEAN
      BY <2>1, <2>2 DEF Types, TypeOK
    <3> QED BY <2>2, <2>3, <3>1, <3>2, <3>3 DEF LocalTypes
  <2> QED BY <2>1, <2>4, PortTyped, ReaderTyped DEF Types
<1> QED BY <1>1, <1>2

LEMMA HeaderStepTyped ==
    ASSUME Types, ReadHeader \/ HeaderMissing, fn # "deserialize"
    PROVE  Types'
<1>1. hdr \in Str /\ Len(hdr) < 3 /\ data = <<>> /\ skipped = 0 /\ res = TRUE /\ wire \in Str
  BY DEF ReadHeader, HeaderMissing, Types, TypeOK, Str
<1>2. <<>> \in Str /\ Len(<<>>) = 0 /\ n \in Nat BY Joined, Constants
<1>3. fn' # "deserialize" /\ UNCHANGED <<setup, got>> BY DEF ReadHeader, HeaderMissing, setup
<1>4. CASE ReadHeader
  <2>1. Take /\ hdr' = Append(hdr, byte) /\ UNCHANGED <<data, skipped, res>> BY <1>4 DEF ReadHeader
  <2>2. byte \in Byte BY <1>1, <2>1, FirstByte DEF Take, byte
  <2>3. hdr' \in Str /\ Len(hdr') = Len(hdr) + 1 BY <1>1, <2>1, <2>2, AppendProperties DEF Str
  <2>4. Len(hdr') <= 3 /\ Len(hdr) \in Nat /\ (Len(hdr') = 3 \/ Len(hdr') < 3)
    BY <1>1, <2>3 DEF Str
  <2>5. max' \in Nat /\ rest' \in Nat BY <2>3, LengthsNext DEF LengthsOK
  <2>6. pc' = IF Len(hdr') = 3 THEN "body" ELSE "header" BY <1>4 DEF ReadHeader
  <2>7. LocalTypes' BY <1>1, <1>2, <1>3, <2>1, <2>3, <2>4, <2>5, <2>6 DEF LocalTypes
  <2> QED BY <1>3, <2>1, <2>7, PortTyped, ReaderTyped DEF Types
<1>5. CASE HeaderMissing
  <2>1. UNCHANGED port BY <1>5 DEF HeaderMissing, NoByte
  <2>2. LocalTypes'
    <3>1. CASE Return BY <3>1, ReturnTyped
    <3>2. CASE ~Return
      <4>1. /\ res' = (hdr = <<>> /\ ~eof) /\ pc' = "body" /\ UNCHANGED <<hdr, data, skipped>>
        BY <1>5, <3>2 DEF HeaderMissing
      <4>2. max' \in Nat /\ rest' \in Nat BY <1>1, <4>1, LengthsNext DEF LengthsOK
      <4>3. res' \in BOOLEAN BY <4>1
      <4> QED BY <1>1, <1>2, <1>3, <4>1, <4>2, <4>3 DEF LocalTypes
    <3> QED BY <3>1, <3>2
  <2> QED BY <1>3, <2>1, <2>2, PortTyped, ReaderTyped DEF Types
<1> QED BY <1>4, <1>5

LEMMA BodyStepTyped ==
    ASSUME Types, ReadBody \/ BodyMissing \/ SkipByte, fn # "deserialize"
    PROVE  Types'
<1>1. /\ LocalTypes /\ wire \in Str /\ LengthsOK /\ pc \in {"body", "rest"}
      /\ Len(data) \in Nat /\ n \in Nat
  BY LocalsOfTypes, Lengths, Constants
     DEF ReadBody, BodyMissing, SkipByte, AtRest, Types, TypeOK, Str, LocalTypes
<1>2. UNCHANGED <<setup, hdr, got>> /\ (Take \/ UNCHANGED port)
  BY DEF ReadBody, BodyMissing, SkipByte, NoByte
<1>3. max' = max /\ rest' = rest /\ fn' # "deserialize" BY <1>2, SameLengths DEF setup
<1>4. CASE ReadBody
  <2>1. byte \in Byte BY <1>1, <1>4, FirstByte DEF ReadBody, Take, byte
  <2>2. data' \in Str /\ Len(data') = Len(data) + 1
    BY <1>1, <1>4, <2>1, AppendProperties DEF ReadBody, LocalTypes, Str
  <2>3. Len(data') <= max /\ max <= n BY <1>1, <1>4, <2>2 DEF ReadBody, LengthsOK
  <2>4. LocalTypes'
    BY <1>1, <1>2, <1>3, <1>4, <2>2, <2>3 DEF ReadBody, LocalTypes, LengthsOK
  <2> QED BY <1>2, <2>4, PortTyped, ReaderTyped DEF Types
<1>5. CASE BodyMissing
  <2>1. LocalTypes' BY <1>1, <1>2, <1>3, <1>5 DEF BodyMissing, LocalTypes, LengthsOK
  <2> QED BY <1>2, <2>1, PortTyped, ReaderTyped DEF Types
<1>6. CASE SkipByte
  <2>1. skipped' = skipped + 1 /\ pc' = "rest" /\ skipped < rest /\ UNCHANGED <<data, res>>
    BY <1>6 DEF SkipByte
  <2>2. skipped' \in Nat /\ skipped' <= rest BY <1>1, <2>1 DEF LocalTypes, LengthsOK
  <2>3. LocalTypes' BY <1>1, <1>2, <1>3, <2>1, <2>2 DEF LocalTypes
  <2> QED BY <1>2, <2>3, PortTyped, ReaderTyped DEF Types
<1> QED BY <1>4, <1>5, <1>6

LEMMA FinishTyped == ASSUME Types, Finish PROVE Types'
<1>1. UNCHANGED <<setup, port>> /\ LocalTypes' BY ReturnTyped DEF Finish
<1>2. [raw_hdr |-> <<>>, src |-> src, body |-> data] \in Message
  <2>1. <<>> \in Seq(Byte) OBVIOUS
  <2> QED BY <2>1, Lengths DEF Types, TypeOK, Message, LengthsOK, Str
<1>3. got' \in Seq(Message)
  <2>1. got \in Seq(Message) BY DEF Types
  <2> QED BY <1>2, <2>1, AppendProperties DEF Finish
<1> QED BY <1>1, <1>3, PortTyped, ReaderTyped DEF port

LEMMA Least ==
    ASSUME NEW A \in SUBSET Nat, A # {}
    PROVE  Min(A) \in A /\ \A x \in A : Min(A) <= x
<1>1. \E m \in A : \A x \in A : m <= x
  <2> SUFFICES ASSUME ~ \E m \in A : \A x \in A : m <= x PROVE FALSE OBVIOUS
  <2> DEFINE B == {k \in Nat : \A x \in A : k <= x}
  <2>1. 0 \in B OBVIOUS
  <2>2. ASSUME NEW k \in B PROVE k + 1 \in B
    <3>1. k \notin A OBVIOUS
    <3>2. ASSUME NEW x \in A PROVE k + 1 <= x
      <4>1. k <= x /\ k # x /\ k \in Nat /\ x \in Nat BY <3>1
      <4> QED BY <4>1
    <3> QED BY <3>2
  <2>3. B = Nat
    <3>1. B \in SUBSET Nat OBVIOUS
    <3> HIDE DEF B
    <3> QED BY <2>1, <2>2, <3>1, SetInduction
  <2>4. PICK x \in A : TRUE OBVIOUS
  <2>5. x \in Nat /\ x + 1 \in Nat OBVIOUS
  <2>6. x + 1 \in B BY <2>3, <2>5
  <2>7. x + 1 <= x BY <2>6
  <2> QED BY <2>5, <2>7
<1> QED BY <1>1 DEF Min

\* deserialize stops at the first place that may be a message's, or the last but
\* one.
Stops(s, i) == Len(s) - i < 2 \/ SubSeq(s, i, i + 1) \in {SCEWL_MAGIC, MITM_MAGIC}

LEMMA ScannedIs ==
    ASSUME NEW s \in Str, s # <<>>
    PROVE  \E i \in 1..Len(s) : /\ Scanned(s) = Beyond(s, i - 1) /\ Stops(s, i)
                                /\ \A k \in 1..(i - 1) : ~Stops(s, k)
<1> DEFINE A == {i \in DOMAIN s : Stops(s, i)}
<1>1. DOMAIN s = 1..Len(s) /\ Len(s) \in Nat \ {0} BY DEF Str
<1>2. A \in SUBSET Nat BY <1>1
<1>3. Len(s) \in A BY <1>1 DEF Stops
<1>4. Min(A) \in A /\ \A x \in A : Min(A) <= x BY <1>2, <1>3, Least
<1>5. PICK i : i = Min(A) OBVIOUS
<1>6. i \in 1..Len(s) /\ Stops(s, i) BY <1>1, <1>4, <1>5
<1>7. ASSUME NEW k \in 1..(i - 1) PROVE ~Stops(s, k)
  <2>1. k \in 1..Len(s) /\ ~(i <= k) BY <1>1, <1>6
  <2> QED BY <1>1, <1>4, <1>5, <2>1
<1>8. Scanned(s) = SubSeq(s, i, Len(s)) BY <1>5 DEF Scanned, Stops
<1>9. (i - 1) + 1 = i BY <1>1, <1>6
<1>10. Scanned(s) = Beyond(s, i - 1) BY <1>8, <1>9 DEF Beyond
<1> QED BY <1>6, <1>7, <1>10

LEMMA ScannedTyped == \A s \in Str : Scanned(s) \in Str
<1> SUFFICES ASSUME NEW s \in Str PROVE Scanned(s) \in Str OBVIOUS
<1>1. CASE s = <<>> BY <1>1 DEF Scanned
<1>2. CASE s # <<>>
  <2>1. PICK i \in 1..Len(s) : Scanned(s) = Beyond(s, i - 1) BY <1>2, ScannedIs
  <2>2. i - 1 \in 0..Len(s) BY DEF Str
  <2> QED BY <2>1, <2>2, BeyondTyped DEF Str
<1> QED BY <1>1, <1>2

\* The bytes of a message in front of s: what deserialize makes of them.
Size(s) == 5 + s[4] + Base * s[5]

LEMMA SizeTyped ==
    ASSUME NEW s \in Str, Len(s) >= 5
    PROVE  Size(s) \in Nat /\ Size(s) >= 5 /\ s[3] \in Byte
<1>1. s[3] \in Byte /\ s[4] \in Byte /\ s[5] \in Byte BY DEF Str
<1>2. s[4] \in Nat /\ Base * s[5] \in Nat BY <1>1, Constants
<1> QED BY <1>1, <1>2 DEF Size

\* What deserialize makes of the first bytes of s.
RawHdr(s) == IF SubSeq(s, 1, 2) = MITM_MAGIC THEN <<>> ELSE SubSeq(s, 1, 5)
Unpacked(s) == [raw_hdr |-> RawHdr(s), src |-> s[3], body |-> SubSeq(s, 6, Size(s))]

LEMMA UnpackedTyped ==
    ASSUME NEW s \in Str, Len(s) >= 5, Len(s) >= Size(s)
    PROVE  Unpacked(s) \in Message /\ Size(s) \in 0..Len(s)
<1>1. PICK size \in Nat : size = Size(s) BY SizeTyped
<1>2. size >= 5 /\ size \in 0..Len(s) /\ Len(s) \in Nat BY <1>1, SizeTyped DEF Str
<1>3. SubSeq(s, 6, size) \in Seq(Byte)
  <2>1. \A i \in 6..size : s[i] \in Byte BY <1>2 DEF Str
  <2> QED BY <2>1, SubSeqProperties
<1>4. RawHdr(s) \in Seq(Byte)
  <2>1. \A i \in 1..5 : s[i] \in Byte BY <1>2 DEF Str
  <2>2. SubSeq(s, 1, 5) \in Seq(Byte) BY <2>1, SubSeqProperties
  <2>3. <<>> \in Seq(Byte) OBVIOUS
  <2> QED BY <2>2, <2>3 DEF RawHdr
<1> QED BY <1>1, <1>2, <1>3, <1>4, SizeTyped DEF Message, Unpacked

LEMMA DeserializeIs ==
    ASSUME Deserialize, NEW buf, buf = Scanned(wire)
    PROVE  \/ /\ Len(buf) >= 5 /\ Len(buf) >= Size(buf)
              /\ got' = Append(got, Unpacked(buf)) /\ wire' = Beyond(buf, Size(buf))
           \/ /\ ~(Len(buf) >= 5 /\ Len(buf) >= Size(buf))
              /\ wire' = buf /\ buf # wire /\ got' = got
BY DEF Deserialize, Size, Beyond, Unpacked, RawHdr

LEMMA DeserializeTyped == ASSUME Types, Deserialize PROVE Types'
<1>1. PICK buf \in Str : buf = Scanned(wire) BY ScannedTyped DEF Types, TypeOK, Str
<1>2. UNCHANGED <<setup, coming, eof, pc, hdr, data, skipped, res>> BY DEF Deserialize
<1>3. wire' \in Str /\ got' \in Seq(Message)
  <2>1. got \in Seq(Message) BY DEF Types
  <2>2. CASE /\ Len(buf) >= 5 /\ Len(buf) >= Size(buf)
             /\ got' = Append(got, Unpacked(buf)) /\ wire' = Beyond(buf, Size(buf))
    <3>1. PICK e \in Message : e = Unpacked(buf) BY <2>2, UnpackedTyped
    <3>2. Size(buf) \in 0..Len(buf) BY <2>2, UnpackedTyped
    <3>3. got' \in Seq(Message) BY <2>1, <2>2, <3>1, AppendProperties
    <3>4. wire' \in Str BY <2>2, <3>2, BeyondTyped DEF Str
    <3> QED BY <3>3, <3>4
  <2>3. CASE wire' = buf /\ got' = got BY <1>1, <2>1, <2>3
  <2> QED BY <1>1, <2>2, <2>3, DeserializeIs
<1>4. LocalTypes'
  <2>1. max' = max /\ rest' = rest BY <1>2, SameLengths
  <2> QED BY <1>2, <2>1, LocalsOfTypes DEF LocalTypes, setup
<1> QED BY <1>2, <1>3, <1>4, ReaderTyped

LEMMA ReaderTypes == Types /\ Reader => Types'
<1> SUFFICES ASSUME Types, Reader PROVE Types' OBVIOUS
<1>1. CASE fn = "deserialize" /\ Deserialize BY <1>1, DeserializeTyped
<1>2. CASE fn \in {"read_msg", "scewl_recv"} /\ (FindS \/ FindC \/ FindNothing)
  BY <1>2, SearchTyped
<1>3. CASE fn \in {"read_msg", "scewl_recv"} /\ (ReadHeader \/ HeaderMissing)
  BY <1>3, HeaderStepTyped
<1>4. CASE fn \in {"read_msg", "scewl_recv"} /\ (ReadBody \/ BodyMissing \/ SkipByte)
  BY <1>4, BodyStepTyped
<1>5. CASE Finish BY <1>5, FinishTyped
<1> QED BY <1>1, <1>2, <1>3, <1>4, <1>5 DEF Reader

LEMMA WriterTypes == Types /\ (Arrive \/ HangUp) => Types'
<1> SUFFICES ASSUME Types, Arrive \/ HangUp PROVE Types' OBVIOUS
<1>1. /\ UNCHANGED <<feed, whole, fn, blocking, pc, hdr, data, skipped, res, got>>
      /\ len' = len /\ max' = max /\ rest' = rest
  BY SameLengths DEF Arrive, HangUp, setup
<1>2. /\ wire' \in Str /\ coming' \in Seq(Str) /\ eof' \in BOOLEAN
      /\ eof' => fn = "scewl_recv" /\ coming' = <<>>
  <2>1. wire \in Str /\ coming \in Seq(Str) /\ eof \in BOOLEAN
        /\ (eof => fn = "scewl_recv" /\ coming = <<>>)
    BY DEF Types, TypeOK, Str
  <2>2. CASE Arrive
    <3>1. Head(coming) \in Str /\ Tail(coming) \in Seq(Str)
      BY <2>1, <2>2, HeadTailProperties DEF Arrive
    <3>2. wire \o Head(coming) \in Str BY <2>1, <3>1, Joined
    <3> QED BY <2>1, <2>2, <3>1, <3>2 DEF Arrive
  <2>3. CASE HangUp
    <3>1. <<>> \in Seq(Str) OBVIOUS
    <3> QED BY <2>1, <2>3, <3>1 DEF HangUp
  <2> QED BY <2>2, <2>3
<1>3. \A i \in DOMAIN coming' : coming'[i] \in Seq(Byte) BY <1>2 DEF Str
<1>4. TypeOK' BY <1>1, <1>2, <1>3 DEF Types, TypeOK, Str
<1>5. OneMagic' BY <1>1 DEF Types, OneMagic
<1> QED BY <1>1, <1>2, <1>4, <1>5 DEF Types

LEMMA NextTypes == Types /\ [Next]_vars => Types'
<1>1. Types /\ UNCHANGED vars => Types'
  BY DEF vars, Types, TypeOK, OneMagic, max, rest, len
<1> QED BY <1>1, ReaderTypes, WriterTypes DEF Next

LEMMA SpecTypes == Spec => []Types
BY InitTypes, NextTypes, PTL DEF Spec

\* Every variable of the three readers keeps its type: what is put in the
\* caller's buffer fits, and the rest that is thrown away is counted right.
THEOREM TypeCorrect == Spec => []TypeOK
<1>1. Types => TypeOK BY DEF Types
<1> QED BY <1>1, SpecTypes, PTL

-----------------------------------------------------------------------------
(* What follows a place in the stream.                                     *)

\* Three strings, to say which three are meant.
Strings(x, y, z) == x \in Str /\ y \in Str /\ z \in Str

LEMMA Regroup == \A x, y, z : Strings(x, y, z) => (x \o y) \o z = x \o (y \o z)
BY Assoc DEF Strings

Regrouped(z, one, two, h, b, r) ==
    (z \o (one \o (two \o (h \o b)))) \o r = z \o (one \o (two \o (h \o (b \o r))))

LEMMA FiveParts ==
    \A z, one, two, h, b, r :
        Strings(z, one, two) /\ Strings(h, b, r) => Regrouped(z, one, two, h, b, r)
<1> SUFFICES ASSUME NEW z, NEW one, NEW two, NEW h, NEW b, NEW r,
                    Strings(z, one, two), Strings(h, b, r)
             PROVE  Regrouped(z, one, two, h, b, r)
  OBVIOUS
<1>0. z \in Str /\ one \in Str /\ two \in Str /\ h \in Str /\ b \in Str /\ r \in Str
  BY DEF Strings
<1>1. PICK x \in Str : x = h \o b BY <1>0, Joined
<1>2. PICK y \in Str : y = two \o x BY <1>0, Joined
<1>3. PICK w \in Str : w = one \o y BY <1>0, Joined
<1>4. Strings(h, b, r) /\ Strings(two, x, r) /\ Strings(one, y, r) /\ Strings(z, w, r)
  BY <1>0 DEF Strings
<1>5. (h \o b) \o r = h \o (b \o r) BY <1>4, Regroup
<1>6. (two \o x) \o r = two \o (x \o r) BY <1>4, Regroup
<1>7. (one \o y) \o r = one \o (y \o r) BY <1>4, Regroup
<1>8. (z \o w) \o r = z \o (w \o r) BY <1>4, Regroup
<1> QED BY <1>1, <1>2, <1>3, <1>5, <1>6, <1>7, <1>8 DEF Regrouped

\* The messages after the m-th, and the m-th from one of its places on.
Rest(m)    == FlattenSeq(Beyond(frames, m))
BodyOn(m)  == feed[m].body \o Rest(m)
COn(m)     == <<ty2(feed[m])>> \o (HdrOf(feed[m]) \o BodyOn(m))
MagicOn(m) == <<ty1(feed[m])>> \o COn(m)

LEMMA RestTyped ==
    ASSUME feed \in Seq(Part), NEW m \in 0..Len(feed)
    PROVE  Rest(m) \in Str
<1>1. frames \in Seq(Str) /\ Len(frames) = Len(feed) BY FramesTyped
<1>2. Beyond(frames, m) \in Seq(Str) BY <1>1, BeyondTyped
<1> QED BY <1>2, FlattenTyped DEF Rest, Str

LEMMA PartTyped ==
    ASSUME feed \in Seq(Part), NEW m \in 1..Len(feed)
    PROVE  /\ feed[m] \in Part /\ feed[m].noise \in Str /\ feed[m].body \in Str
           /\ HdrOf(feed[m]) \in Str /\ Len(HdrOf(feed[m])) = 3
           /\ BodyOn(m) \in Str /\ HdrOf(feed[m]) \o BodyOn(m) \in Str
           /\ COn(m) \in Str /\ MagicOn(m) \in Str
           /\ <<ty1(feed[m])>> \in Str /\ <<ty2(feed[m])>> \in Str
           /\ Rest(m) \in Str
<1>1. feed[m] \in Part /\ m \in 0..Len(feed) OBVIOUS
<1>2. /\ feed[m].noise \in Str /\ feed[m].body \in Str
      /\ HdrOf(feed[m]) \in Str /\ Len(HdrOf(feed[m])) = 3
  BY <1>1, HeaderTyped DEF Str
<1>3. <<ty1(feed[m])>> \in Str /\ <<ty2(feed[m])>> \in Str BY <1>1, MagicTyped DEF Str
<1>4. Rest(m) \in Str BY <1>1, RestTyped
<1>5. BodyOn(m) \in Str BY <1>2, <1>4, Joined DEF BodyOn
<1>6. HdrOf(feed[m]) \o BodyOn(m) \in Str BY <1>2, <1>5, Joined
<1>7. COn(m) \in Str BY <1>3, <1>6, Joined DEF COn
<1>8. MagicOn(m) \in Str BY <1>3, <1>7, Joined DEF MagicOn
<1> QED BY <1>1, <1>2, <1>3, <1>4, <1>5, <1>6, <1>7, <1>8

LEMMA RestEnds == feed \in Seq(Part) => Rest(Len(feed)) = <<>>
<1> SUFFICES ASSUME feed \in Seq(Part) PROVE Rest(Len(feed)) = <<>> OBVIOUS
<1>1. frames \in Seq(Str) /\ Len(frames) = Len(feed) BY FramesTyped
<1>2. Beyond(frames, Len(feed)) = <<>> BY <1>1, BeyondEnds
<1> QED BY <1>2, FlattenNothing DEF Rest

\* The next message, behind its noise.
LEMMA RestStep ==
    ASSUME feed \in Seq(Part), NEW m \in 0..Len(feed), m < Len(feed)
    PROVE  /\ m + 1 \in 1..Len(feed)
           /\ Rest(m) = feed[m + 1].noise \o MagicOn(m + 1)
<1>1. /\ frames \in Seq(Str) /\ Len(frames) = Len(feed) /\ Len(feed) \in Nat
      /\ \A i \in 1..Len(feed) : frames[i] = Frame(feed[i]) /\ feed[i] \in Part
  BY FramesTyped
<1>2. m \in Nat /\ m + 1 \in 1..Len(feed) /\ m + 1 \in 0..Len(feed) BY <1>1
<1>3. /\ Beyond(frames, m) # <<>> /\ Head(Beyond(frames, m)) = frames[m + 1]
      /\ Tail(Beyond(frames, m)) = Beyond(frames, m + 1)
  BY <1>1, <1>2, BeyondStep
<1>4. Beyond(frames, m) \in Seq(Seq(Byte)) BY <1>1, BeyondTyped DEF Str
<1>5. Rest(m) = Frame(feed[m + 1]) \o Rest(m + 1)
  BY <1>1, <1>2, <1>3, <1>4, FlattenHead DEF Rest
<1>6. PICK z, h, b, r, one, two \in Str :
         /\ z = feed[m + 1].noise /\ h = HdrOf(feed[m + 1]) /\ b = feed[m + 1].body
         /\ r = Rest(m + 1) /\ one = <<ty1(feed[m + 1])>> /\ two = <<ty2(feed[m + 1])>>
  BY <1>2, PartTyped
<1>7. Frame(feed[m + 1]) = z \o (one \o (two \o (h \o b)))
  BY <1>1, <1>2, <1>6, FrameTyped DEF Framed
<1>8. MagicOn(m + 1) = one \o (two \o (h \o (b \o r))) BY <1>6 DEF MagicOn, COn, BodyOn
<1>9. (z \o (one \o (two \o (h \o b)))) \o r = z \o (one \o (two \o (h \o (b \o r))))
  <2>1. Strings(z, one, two) /\ Strings(h, b, r) BY DEF Strings
  <2>2. Regrouped(z, one, two, h, b, r) BY <2>1, FiveParts
  <2> QED BY <2>2 DEF Regrouped
<1> QED BY <1>2, <1>5, <1>6, <1>7, <1>8, <1>9

\* What follows gets shorter.
LEMMA RestShrinks ==
    ASSUME feed \in Seq(Part), NEW m \in 0..Len(feed), NEW j \in m..Len(feed)
    PROVE  Len(Rest(j)) <= Len(Rest(m)) /\ Len(Rest(j)) \in Nat /\ Len(Rest(m)) \in Nat
<1> DEFINE K == {k \in Nat : m + k <= Len(feed) => Len(Rest(m + k)) <= Len(Rest(m))}
<1>0. Len(feed) \in Nat /\ m \in Nat OBVIOUS
<1>1. \A k \in 0..Len(feed) : Len(Rest(k)) \in Nat BY RestTyped DEF Str
<1>2. 0 \in K
  <2>1. m + 0 = m BY <1>0
  <2> QED BY <1>1, <2>1
<1>3. ASSUME NEW k \in K PROVE k + 1 \in K
  <2> SUFFICES ASSUME m + (k + 1) <= Len(feed)
               PROVE  Len(Rest(m + (k + 1))) <= Len(Rest(m))
    OBVIOUS
  <2>1. m + k \in 0..Len(feed) /\ m + k < Len(feed) /\ m + (k + 1) = (m + k) + 1 BY <1>0
  <2>2. Len(Rest(m + k)) <= Len(Rest(m)) BY <1>0, <2>1
  <2> HIDE DEF K
  <2>3. PICK i \in 0..Len(feed) : i = m + k /\ i < Len(feed) BY <2>1
  <2>4. i + 1 \in 1..Len(feed) /\ Rest(i) = feed[i + 1].noise \o MagicOn(i + 1)
    BY <2>3, RestStep
  <2>5. PICK z, h, b, r, one, two \in Str :
           /\ z = feed[i + 1].noise /\ h = HdrOf(feed[i + 1]) /\ b = feed[i + 1].body
           /\ r = Rest(i + 1) /\ one = <<ty1(feed[i + 1])>> /\ two = <<ty2(feed[i + 1])>>
    BY <2>4, PartTyped
  <2>6. Rest(i) = z \o (one \o (two \o (h \o (b \o r))))
    BY <2>4, <2>5 DEF MagicOn, COn, BodyOn
  <2>7. Len(r) <= Len(Rest(i))
    <3>1. b \o r \in Str /\ Len(b \o r) = Len(b) + Len(r) BY Joined
    <3>2. h \o (b \o r) \in Str /\ Len(h \o (b \o r)) = Len(h) + Len(b \o r) BY <3>1, Joined
    <3>3. /\ two \o (h \o (b \o r)) \in Str
          /\ Len(two \o (h \o (b \o r))) = Len(two) + Len(h \o (b \o r))
      BY <3>2, Joined
    <3>4. /\ one \o (two \o (h \o (b \o r))) \in Str
          /\ Len(one \o (two \o (h \o (b \o r)))) = Len(one) + Len(two \o (h \o (b \o r)))
      BY <3>3, Joined
    <3>5. Len(Rest(i)) = Len(z) + Len(one \o (two \o (h \o (b \o r)))) BY <2>6, <3>4, Joined
    <3>6. /\ Len(z) \in Nat /\ Len(h) \in Nat /\ Len(b) \in Nat /\ Len(r) \in Nat
          /\ Len(one) \in Nat /\ Len(two) \in Nat
      BY DEF Str
    <3> QED BY <3>1, <3>2, <3>3, <3>4, <3>5, <3>6
  <2>8. i + 1 \in 0..Len(feed) BY <2>4
  <2>9. Len(Rest(i)) \in Nat /\ Len(Rest(i + 1)) \in Nat /\ Len(Rest(m)) \in Nat
    BY <1>1, <2>8
  <2>10. Len(Rest(i + 1)) <= Len(Rest(m)) BY <2>2, <2>3, <2>5, <2>7, <2>9
  <2> QED BY <2>1, <2>3, <2>10
<1>4. K = Nat
  <2>1. K \in SUBSET Nat OBVIOUS
  <2> HIDE DEF K
  <2> QED BY <1>2, <1>3, <2>1, SetInduction
<1>5. j - m \in Nat /\ m + (j - m) = j /\ j <= Len(feed) /\ j \in 0..Len(feed) BY <1>0
<1>6. j - m \in K BY <1>4, <1>5
<1> QED BY <1>1, <1>5, <1>6

-----------------------------------------------------------------------------
(* Where a reader is in the stream: the inductive invariant.               *)

\* S is nowhere but in the magic: said of the readers that must not meet it.
Apart == fn # "deserialize" /\ SOnlyInMagic

NoS(x)   == x \in Seq(Byte \ {S})
Quiet(x) == \A i \in DOMAIN x : x[i] = S => \A j \in i..Len(x) : x[j] = S
Between(x) == x \in Str /\ Quiet(x) /\ (Apart => NoS(x))

\* x, in front of the message p, starts none.
Clear(x, p) ==
    x \in Str /\ \A i \in DOMAIN x : SubSeq(x \o p.ty, i, i + 1) \notin {SCEWL_MAGIC, MITM_MAGIC}

\* What may be left of the noise in front of the message p.
Before(x, p) == x \in Str /\ IF fn = "deserialize" THEN Clear(x, p) ELSE Between(x)

\* A blocking reader has seen the end of the stream: from here on every read
\* returns at once, and nothing more is returned.
Stopped == blocking /\ eof /\ wire = <<>>

\* What has been read of the m-th message is what was written.
Good(m) ==
    /\ hdr = HdrOf(feed[m])
    /\ data = Initial(feed[m].body, Len(data))
    /\ pc = "rest" => Len(data) = max

\* Nothing was there after the magic, and scewl_recv took it for a header.
MadeUp ==
    /\ hdr = <<>> /\ data = <<>> /\ pc = "body"
    /\ fn = "scewl_recv" /\ ~blocking /\ ~NoGaps

ToRead == IF pc = "body" THEN len - Len(data) ELSE rest - skipped

\* The reader is after the m-th message, or in it, and s is yet to be read.
InMagicS(m, s) ==
    \/ m = Len(feed) /\ NoS(s) /\ (fn = "deserialize" => s = <<>>)
    \/ m < Len(feed) /\ \E x \in Str : Before(x, feed[m + 1]) /\ s = x \o MagicOn(m + 1)
InMagicC(m, s) ==
    \E x \in Seq({S}) : (Apart => x = <<>>) /\ s = x \o COn(m)
InHeader(m, s) ==
    /\ hdr = Initial(HdrOf(feed[m]), Len(hdr))
    /\ s = Beyond(HdrOf(feed[m]), Len(hdr)) \o BodyOn(m)
Left(m, s, x) ==
    /\ s = x \o Rest(m)
    /\ Apart => NoS(x) /\ Len(x) >= ToRead
    /\ NoGaps /\ ~Stopped => res /\ x = Beyond(feed[m].body, Len(data) + skipped)
    /\ res /\ Good(m) /\ pc = "body" => x = Beyond(feed[m].body, Len(data))
InBody(m, s) ==
    /\ res => Good(m) \/ MadeUp
    /\ \E x \in Str : Left(m, s, x)

Place(m, s) ==
    /\ pc # "magicS" => m > 0
    /\ pc = "magicS" => InMagicS(m, s)
    /\ pc = "magicC" => InMagicC(m, s)
    /\ pc = "header" => InHeader(m, s)
    /\ pc \in {"body", "rest"} => InBody(m, s)

\* The messages that have been read, to the end or not.
Done(m) == IF pc = "magicS" THEN m ELSE m - 1

Embeds(f, seq) ==
    \A i \in DOMAIN seq :
        /\ seq[i] = Expected[f[i]]
        /\ \A j \in DOMAIN seq : i < j => f[i] < f[j]

ReturnedAll(m) ==
    /\ \A i \in DOMAIN got : i \in DOMAIN feed /\ got[i] = Expected[i]
    /\ Len(got) = Done(m) \/ (Stopped /\ (pc = "magicS" \/ ~res))
\* (deserialize returns all, and this of some need not be said of it.)
ReturnedSome(m) == \E f \in [DOMAIN Genuine -> 1..Done(m)] : Embeds(f, Genuine)
Returned(m) == (NoGaps => ReturnedAll(m)) /\ (Apart => ReturnedSome(m))

\* What can be read ends with a message: the next are yet to come, or were lost.
Complete(m, lost) ==
    \E j \in m..Len(feed) :
        /\ FlattenSeq(coming) \o lost = Rest(j)
        /\ ~eof => coming = Beyond(frames, j)
        /\ pc = "magicS" /\ j = m => wire = <<>>

\* What can be read and what arrives or would have.
Ahead(lost) == wire \o (FlattenSeq(coming) \o lost)

Reads(m, lost) ==
    /\ ~eof => lost = <<>>
    /\ Place(m, Ahead(lost))
    /\ Returned(m)
    /\ whole => Complete(m, lost)

Follow ==
    QuietNoise /\ (NoGaps \/ Apart) =>
        \E m \in 0..Len(feed), lost \in Str : Reads(m, lost)

-----------------------------------------------------------------------------
(* Strings without S, and what lies between two messages.                  *)

LEMMA NoSTyped ==
    /\ \A x : NoS(x) => x \in Str
    /\ \A x, y : NoS(x) /\ NoS(y) => NoS(x \o y)
    /\ NoS(<<>>)
<1>1. ASSUME NEW x, NoS(x) PROVE x \in Str
  <2>1. x \in Seq(Byte \ {S}) BY <1>1 DEF NoS
  <2>2. \A i \in 1..Len(x) : x[i] \in Byte BY <2>1
  <2>3. Len(x) \in Nat /\ x = [i \in 1..Len(x) |-> x[i]] BY <2>1
  <2> QED BY <2>2, <2>3 DEF Str
<1>2. ASSUME NEW x, NEW y, NoS(x), NoS(y) PROVE NoS(x \o y)
  BY <1>2, ConcatProperties DEF NoS
<1>3. NoS(<<>>) BY EmptySeq DEF NoS
<1> QED BY <1>1, <1>2, <1>3

LEMMA NoSStep ==
    ASSUME NEW x, NoS(x), x # <<>>
    PROVE  Head(x) # S /\ NoS(Tail(x))
<1>1. Head(x) \in Byte \ {S} /\ Tail(x) \in Seq(Byte \ {S}) BY HeadTailProperties DEF NoS
<1> QED BY <1>1 DEF NoS

LEMMA NoSBeyond ==
    ASSUME NEW x, NoS(x), NEW k \in 0..Len(x)
    PROVE  NoS(Beyond(x, k))
BY BeyondTyped DEF NoS

LEMMA NoSIsQuiet ==
    ASSUME NEW x, NoS(x)
    PROVE  Between(x)
<1>1. x \in Str BY NoSTyped
<1>2. \A i \in DOMAIN x : x[i] # S BY DEF NoS
<1> QED BY <1>1, <1>2 DEF Between, Quiet

\* A run of S's.
LEMMA RunOfS ==
    /\ \A x \in Seq({S}) : x \in Str
    /\ \A x \in Seq({S}) : x # <<>> => Head(x) = S /\ Tail(x) \in Seq({S})
    /\ \A x \in Seq({S}) : x \o <<S>> \in Seq({S})
    /\ <<>> \in Seq({S})
<1>1. ASSUME NEW x \in Seq({S}) PROVE x \in Str
  <2>1. \A i \in 1..Len(x) : x[i] \in Byte BY Constants
  <2>2. Len(x) \in Nat /\ x = [i \in 1..Len(x) |-> x[i]] OBVIOUS
  <2> QED BY <2>1, <2>2 DEF Str
<1>2. \A x \in Seq({S}) : x # <<>> => Head(x) \in {S} /\ Tail(x) \in Seq({S})
  BY HeadTailProperties
<1>3. <<S>> \in Seq({S}) OBVIOUS
<1>4. \A x \in Seq({S}) : x \o <<S>> \in Seq({S}) BY <1>3, ConcatProperties
<1> QED BY <1>1, <1>2, <1>4, EmptySeq

\* Quiet noise stays so while it is read, until its first S: then there is
\* nothing but S in it.
LEMMA BetweenStep ==
    ASSUME NEW x, Between(x), x # <<>>
    PROVE  /\ x \in Str /\ Between(Tail(x)) /\ Tail(x) \in Str
           /\ Head(x) = S => ~Apart /\ Tail(x) \in Seq({S})
<1>1. x \in Str /\ Quiet(x) /\ (Apart => NoS(x)) BY DEF Between
<1>2. PICK t : t = Tail(x) OBVIOUS
<1>3. /\ t \in Str /\ Len(x) \in Nat /\ Len(t) \in Nat /\ Len(x) = Len(t) + 1
      /\ Head(x) = x[1] /\ \A i \in 1..Len(t) : t[i] = x[i + 1]
  BY <1>1, <1>2, HeadTailProperties DEF Str
<1>4. DOMAIN x = 1..Len(x) /\ DOMAIN t = 1..Len(t) BY <1>1, <1>3 DEF Str
<1>5. Quiet(t)
  <2> SUFFICES ASSUME NEW i \in 1..Len(t), t[i] = S, NEW j \in i..Len(t) PROVE t[j] = S
    BY <1>4 DEF Quiet
  <2>1. /\ i + 1 \in 1..Len(x) /\ j + 1 \in (i + 1)..Len(x) /\ j \in 1..Len(t)
        /\ x[i + 1] = S
    BY <1>3
  <2>2. x[j + 1] = S BY <1>1, <1>4, <2>1 DEF Quiet
  <2> QED BY <1>3, <2>1, <2>2
<1>6. Apart => NoS(t) BY <1>1, <1>2, NoSStep
<1>7. Head(x) = S => ~Apart BY <1>1, NoSStep
<1>8. ASSUME Head(x) = S PROVE t \in Seq({S})
  <2>1. 1 \in 1..Len(x) /\ x[1] = S BY <1>3, <1>8
  <2>2. ASSUME NEW i \in 1..Len(t) PROVE t[i] \in {S}
    <3>1. i + 1 \in 1..Len(x) BY <1>3
    <3>2. x[i + 1] = S BY <1>1, <1>4, <2>1, <3>1 DEF Quiet
    <3> QED BY <1>3, <3>2
  <2>3. t = [i \in 1..Len(t) |-> t[i]] BY <1>3 DEF Str
  <2> QED BY <1>3, <2>2, <2>3
<1> QED BY <1>1, <1>2, <1>3, <1>5, <1>6, <1>7, <1>8 DEF Between

LEMMA TypesFeed == Types => feed \in Seq(Part) /\ Len(feed) \in Nat
<1> SUFFICES ASSUME Types PROVE feed \in Seq(Part) /\ Len(feed) \in Nat OBVIOUS
<1>1. feed \in Seq(Part) BY FramingAssumption DEF Types, TypeOK
<1> QED BY <1>1

LEMMA NoiseBefore ==
    ASSUME Types, QuietNoise, NEW m \in 1..Len(feed)
    PROVE  Before(feed[m].noise, feed[m])
<1>1. feed \in Seq(Part) BY TypesFeed
<1>2. m \in DOMAIN feed /\ feed[m].noise \in Str
  <2>1. m \in DOMAIN feed BY <1>1
  <2>2. feed[m].noise \in Str BY <1>1, PartTyped
  <2> QED BY <2>1, <2>2
<1>3. CASE fn = "deserialize"
  <2>1. \A i \in DOMAIN feed[m].noise :
           SubSeq(feed[m].noise \o feed[m].ty, i, i + 1) \notin {SCEWL_MAGIC, MITM_MAGIC}
    BY <1>2, <1>3 DEF QuietNoise
  <2>2. PICK z, q : z = feed[m].noise /\ q = feed[m] OBVIOUS
  <2>3. Clear(z, q) BY <1>2, <2>1, <2>2 DEF Clear
  <2>4. Before(z, q) BY <1>2, <1>3, <2>2, <2>3 DEF Before
  <2> QED BY <2>2, <2>4
<1>4. CASE fn # "deserialize"
  <2>1. Quiet(feed[m].noise) BY <1>2, <1>4 DEF QuietNoise, Quiet
  <2>2. ASSUME Apart PROVE NoS(feed[m].noise)
    <3>1. PICK z \in Str : z = feed[m].noise BY <1>2
    <3>2. \A i \in DOMAIN z : z[i] # S BY <1>2, <2>2, <3>1 DEF Apart, SOnlyInMagic
    <3>3. /\ Len(z) \in Nat /\ DOMAIN z = 1..Len(z) /\ z = [i \in 1..Len(z) |-> z[i]]
          /\ \A i \in 1..Len(z) : z[i] \in Byte
      BY DEF Str
    <3> QED BY <3>1, <3>2, <3>3 DEF NoS
  <2> QED BY <1>2, <1>4, <2>1, <2>2 DEF Before, Between
<1> QED BY <1>3, <1>4

LEMMA OnlyInMagic ==
    ASSUME Types, Apart, NEW m \in 1..Len(feed)
    PROVE  NoS(HdrOf(feed[m])) /\ NoS(feed[m].body)
<1>1. feed \in Seq(Part) BY TypesFeed
<1>2. m \in DOMAIN feed /\ feed[m] \in Part /\ SOnlyInMagic BY <1>1 DEF Apart
<1>3. NoS(HdrOf(feed[m]))
  <2>1. PICK a, b, c \in Byte : /\ a = feed[m].src /\ b = Len(feed[m].body) % Base
                                /\ c = Len(feed[m].body) \div Base
    BY <1>2, HeaderTyped DEF HdrOf
  <2>2. a # S /\ b # S /\ c # S BY <1>2, <2>1 DEF SOnlyInMagic
  <2>3. <<a, b, c>> \in Seq(Byte \ {S}) BY <2>2
  <2> QED BY <2>1, <2>3 DEF HdrOf, NoS
<1>4. NoS(feed[m].body)
  <2>1. PICK z \in Str : z = feed[m].body BY <1>1, PartTyped
  <2>2. \A i \in DOMAIN z : z[i] # S BY <1>2, <2>1 DEF SOnlyInMagic
  <2>3. /\ Len(z) \in Nat /\ DOMAIN z = 1..Len(z) /\ z = [i \in 1..Len(z) |-> z[i]]
        /\ \A i \in 1..Len(z) : z[i] \in Byte
    BY DEF Str
  <2> QED BY <2>1, <2>2, <2>3 DEF NoS
<1> QED BY <1>3, <1>4

\* What read_msg and scewl_recv look for.
LEMMA OnlyScewl ==
    ASSUME Types, fn # "deserialize", NEW m \in 1..Len(feed)
    PROVE  /\ MagicOn(m) = <<S>> \o COn(m)
           /\ COn(m) = <<C>> \o (HdrOf(feed[m]) \o BodyOn(m))
<1>1. feed \in Seq(Part) BY TypesFeed
<1>2. m \in DOMAIN feed /\ feed[m] \in Part BY <1>1
<1>3. feed[m].ty = SCEWL_MAGIC BY <1>2 DEF Types, OneMagic
<1>4. ty1(feed[m]) = S /\ ty2(feed[m]) = C BY <1>2, <1>3, MagicTyped
<1> QED BY <1>4 DEF MagicOn, COn

\* After the m-th message, with a part of it left over if S cannot be in it.
LEMMA PastRest ==
    ASSUME Types, QuietNoise, NEW m \in 0..Len(feed), NEW x \in Str,
           x = <<>> \/ (NoS(x) /\ Apart)
    PROVE  InMagicS(m, x \o Rest(m))
<1>1. feed \in Seq(Part) /\ Len(feed) \in Nat BY TypesFeed
<1>2. NoS(x) BY NoSTyped
<1>3. CASE m = Len(feed)
  <2>1. x \o Rest(m) = x BY <1>1, <1>3, RestEnds, Joined
  <2>2. fn = "deserialize" => x = <<>> BY DEF Apart
  <2> QED BY <1>2, <1>3, <2>1, <2>2 DEF InMagicS
<1>4. CASE m # Len(feed)
  <2>1. m < Len(feed) BY <1>1, <1>4
  <2>2. m + 1 \in 1..Len(feed) /\ Rest(m) = feed[m + 1].noise \o MagicOn(m + 1)
    BY <1>1, <2>1, RestStep
  <2>3. PICK z, r \in Str : z = feed[m + 1].noise /\ r = MagicOn(m + 1)
    BY <1>1, <2>2, PartTyped
  <2>4. Before(z, feed[m + 1]) BY <2>2, <2>3, NoiseBefore
  <2>5. Strings(x, z, r) BY DEF Strings
  <2>6. (x \o z) \o r = x \o (z \o r) BY <2>5, Regroup
  <2>8. x \o z \in Str BY Joined
  <2>7. Before(x \o z, feed[m + 1])
    <3>1. CASE x = <<>> BY <2>4, <3>1, Joined
    <3>2. CASE NoS(x) /\ Apart
      <4>1. fn # "deserialize" BY <3>2 DEF Apart
      <4>2. NoS(z) BY <2>4, <3>2, <4>1 DEF Before, Between
      <4>3. Between(x \o z) BY <3>2, <4>2, NoSTyped, NoSIsQuiet
      <4> QED BY <2>8, <4>1, <4>3 DEF Before
    <3> QED BY <3>1, <3>2
  <2> QED BY <2>1, <2>2, <2>3, <2>6, <2>7, <2>8 DEF InMagicS
<1> QED BY <1>3, <1>4

-----------------------------------------------------------------------------
(* What a step leaves as it is.                                            *)

LEMMA SameFeed ==
    ASSUME UNCHANGED setup
    PROVE  /\ feed' = feed /\ whole' = whole /\ fn' = fn /\ blocking' = blocking
           /\ frames' = frames /\ Expected' = Expected
           /\ NoGaps' <=> NoGaps
           /\ Apart' <=> Apart
           /\ QuietNoise' <=> QuietNoise
           /\ \A m : Rest(m)' = Rest(m)
           /\ \A m : BodyOn(m)' = BodyOn(m)
           /\ \A m : COn(m)' = COn(m)
           /\ \A m : MagicOn(m)' = MagicOn(m)
<1>1. feed' = feed /\ whole' = whole /\ fn' = fn /\ blocking' = blocking BY DEF setup
<1>2. frames' = frames BY <1>1 DEF frames
<1>3. Expected' = Expected BY <1>1 DEF Expected, fits
<1>4. NoGaps' <=> NoGaps BY <1>1 DEF NoGaps, fits
<1>5. Apart' <=> Apart BY <1>1 DEF Apart, SOnlyInMagic
<1>6. QuietNoise' <=> QuietNoise BY <1>1 DEF QuietNoise
<1>7. \A m : Rest(m)' = Rest(m) BY <1>2 DEF Rest
<1>8. \A m : BodyOn(m)' = BodyOn(m) BY <1>1, <1>7 DEF BodyOn
<1>9. \A m : COn(m)' = COn(m) BY <1>1, <1>8 DEF COn, ty2
<1>10. \A m : MagicOn(m)' = MagicOn(m) BY <1>1, <1>9 DEF MagicOn, ty1
<1> QED BY <1>1, <1>2, <1>3, <1>4, <1>5, <1>6, <1>7, <1>8, <1>9, <1>10

LEMMA SameSearch ==
    ASSUME UNCHANGED setup
    PROVE  /\ \A m, s : InMagicS(m, s)' <=> InMagicS(m, s)
           /\ \A m, s : InMagicC(m, s)' <=> InMagicC(m, s)
<1>1. /\ feed' = feed /\ fn' = fn /\ (Apart' <=> Apart)
      /\ \A m : MagicOn(m)' = MagicOn(m)
      /\ \A m : COn(m)' = COn(m)
  BY SameFeed
<1>2. \A x : Between(x)' <=> Between(x) BY <1>1 DEF Between
<1>3. \A x, p : Before(x, p)' <=> Before(x, p) BY <1>1, <1>2 DEF Before, Clear
<1>4. \A m, s : InMagicS(m, s)' <=> InMagicS(m, s) BY <1>1, <1>3 DEF InMagicS
<1>5. \A m, s : InMagicC(m, s)' <=> InMagicC(m, s) BY <1>1 DEF InMagicC
<1> QED BY <1>4, <1>5

\* A reader's step keeps Returned when it returns nothing.
LEMMA ReturnsNothing ==
    ASSUME UNCHANGED <<setup, got>>, NEW m \in Nat, NEW k \in Nat, Returned(m),
           Done(m) <= Done(k)',
           NoGaps => \/ Done(k)' = Done(m)
                     \/ Stopped' /\ (pc' = "magicS" \/ ~res'),
           Stopped /\ (pc = "magicS" \/ ~res) => Stopped' /\ (pc' = "magicS" \/ ~res')
    PROVE  Returned(k)'
<1>1. /\ got' = got /\ Expected' = Expected /\ feed' = feed
      /\ NoGaps' <=> NoGaps
      /\ Apart' <=> Apart
      /\ Genuine' = Genuine
  BY SameFeed DEF Genuine
<1>2. Done(m) \in Int /\ Done(k)' \in Int BY DEF Done
<1>3. ASSUME NoGaps PROVE ReturnedAll(k)' BY <1>1, <1>3 DEF Returned, ReturnedAll
<1>4. ASSUME Apart PROVE ReturnedSome(k)'
  <2>1. PICK f \in [DOMAIN Genuine -> 1..Done(m)] : Embeds(f, Genuine)
    BY <1>4 DEF Returned, ReturnedSome
  <2>2. f \in [DOMAIN Genuine -> 1..(Done(k)')] BY <1>2, <2>1
  <2>3. Embeds(f, Genuine)' BY <1>1, <2>1 DEF Embeds
  <2> QED BY <1>1, <2>2, <2>3 DEF ReturnedSome
<1> QED BY <1>1, <1>3, <1>4 DEF Returned

LEMMA AheadTyped ==
    ASSUME Types, NEW lost \in Str
    PROVE  /\ wire \in Str /\ FlattenSeq(coming) \in Str /\ FlattenSeq(coming) \o lost \in Str
           /\ Ahead(lost) \in Str
           /\ Len(Ahead(lost)) = Len(wire) + Len(FlattenSeq(coming) \o lost)
<1>1. wire \in Str BY DEF Types, TypeOK, Str
<1>2. FlattenSeq(coming) \in Str BY FlattenTyped DEF Types, Str
<1>3. FlattenSeq(coming) \o lost \in Str BY <1>2, Joined
<1> QED BY <1>1, <1>2, <1>3, Joined DEF Ahead

\* A byte that is read is the first of what lies ahead.
LEMMA AheadTake ==
    ASSUME Types, Take, NEW lost \in Str
    PROVE  /\ Ahead(lost) \in Str /\ Ahead(lost) # <<>> /\ Head(Ahead(lost)) = byte
           /\ Ahead(lost)' = Tail(Ahead(lost))
<1>1. PICK w, t \in Str : w = wire /\ t = FlattenSeq(coming) \o lost BY AheadTyped
<1>2. w # <<>> /\ wire' = Tail(w) /\ coming' = coming /\ Ahead(lost) = w \o t /\ byte = Head(w)
  BY <1>1 DEF Take, Ahead, byte
<1>3. Ahead(lost)' = Tail(w) \o t BY <1>1, <1>2 DEF Ahead
<1>4. w \o t # <<>> /\ Head(w \o t) = Head(w) /\ Tail(w \o t) = Tail(w) \o t
  BY <1>2, InFront DEF Str
<1> QED BY <1>2, <1>3, <1>4, AheadTyped

LEMMA AheadSame == ASSUME UNCHANGED port, NEW lost PROVE Ahead(lost)' = Ahead(lost)
BY DEF port, Ahead

\* Messages that arrive at once are there to their end.
LEMMA AllThere ==
    ASSUME Types, NEW m \in 0..Len(feed), NEW lost \in Str, Complete(m, lost),
           NEW x \in Str, Ahead(lost) = x \o Rest(m), x # <<>>
    PROVE  wire # <<>>
<1>0. feed \in Seq(Part) BY TypesFeed
<1>1. PICK j \in m..Len(feed) : FlattenSeq(coming) \o lost = Rest(j) BY DEF Complete
<1>2. Len(Rest(j)) <= Len(Rest(m)) /\ Len(Rest(j)) \in Nat /\ Len(Rest(m)) \in Nat
  BY <1>0, RestShrinks
<1>3. Len(Ahead(lost)) = Len(wire) + Len(Rest(j)) BY <1>1, AheadTyped
<1>4. Len(Ahead(lost)) = Len(x) + Len(Rest(m)) BY <1>0, RestTyped, Joined
<1>5. Len(x) \in Nat \ {0} BY DEF Str
<1>6. Len(wire) \in Nat BY AheadTyped DEF Str
<1>7. Len(wire) # 0 BY <1>2, <1>3, <1>4, <1>5, <1>6
<1> QED BY <1>7

LEMMA CompleteTake ==
    ASSUME UNCHANGED setup, Take, NEW m \in 0..Len(feed), Len(feed) \in Nat, NEW lost \in Str,
           Complete(m, lost), NEW k \in {m, m + 1},
           \/ pc = "magicS" /\ (k = m \/ pc' # "magicS")
           \/ pc' # "magicS" /\ k = m
    PROVE  Complete(k, lost)'
<1>1. PICK j \in m..Len(feed) : /\ FlattenSeq(coming) \o lost = Rest(j)
                                /\ ~eof => coming = Beyond(frames, j)
                                /\ pc = "magicS" /\ j = m => wire = <<>>
  BY DEF Complete
<1>2. wire # <<>> /\ coming' = coming /\ eof' = eof BY DEF Take
<1>3. feed' = feed /\ frames' = frames BY SameFeed
<1>4. pc = "magicS" => j # m BY <1>1, <1>2
<1>5. j \in k..Len(feed) /\ (pc' = "magicS" => j # k)
  <2>1. CASE k = m BY <1>4, <2>1
  <2>2. CASE k = m + 1 /\ k # m BY <1>4, <2>2
  <2> QED BY <2>1, <2>2
<1>6. /\ FlattenSeq(coming') \o lost = FlattenSeq(Beyond(frames', j))
      /\ ~eof' => coming' = Beyond(frames', j)
      /\ pc' = "magicS" /\ j = k => wire' = <<>>
  BY <1>1, <1>2, <1>3, <1>5 DEF Rest
<1> QED BY <1>3, <1>5, <1>6 DEF Complete, Rest

LEMMA CompleteSame ==
    ASSUME UNCHANGED setup, UNCHANGED port, NEW m \in 0..Len(feed), NEW lost \in Str,
           Complete(m, lost), pc' # "magicS"
    PROVE  Complete(m, lost)'
<1>1. PICK j \in m..Len(feed) : /\ FlattenSeq(coming) \o lost = Rest(j)
                                /\ ~eof => coming = Beyond(frames, j)
  BY DEF Complete
<1>2. feed' = feed /\ frames' = frames BY SameFeed
<1>3. /\ FlattenSeq(coming') \o lost = FlattenSeq(Beyond(frames', j))
      /\ ~eof' => coming' = Beyond(frames', j)
  BY <1>1, <1>2 DEF Rest, port
<1> QED BY <1>2, <1>3 DEF Complete, Rest

LEMMA StoppedTake == Take => ~Stopped BY DEF Take, Stopped

-----------------------------------------------------------------------------
(* The search for the magic.                                               *)

\* A step that reads a byte: what has to be shown of it.
LEMMA TakeReads ==
    ASSUME Types, Take, UNCHANGED <<setup, got>>,
           NEW m \in 0..Len(feed), NEW lost \in Str, Reads(m, lost),
           NEW k \in {m, m + 1}, Done(k)' = Done(m),
           \/ pc = "magicS" /\ (k = m \/ pc' # "magicS")
           \/ pc' # "magicS" /\ k = m,
           NEW s, s = Tail(Ahead(lost)), Place(k, s)'
    PROVE  Reads(k, lost)'
<1>0. Len(feed) \in Nat /\ m \in Nat /\ k \in Nat BY TypesFeed
<1>1. eof' = eof BY DEF Take
<1>2. UNCHANGED setup /\ whole' = whole BY SameFeed
<1>3. ~eof' => lost = <<>> BY <1>1 DEF Reads
<1>4. Place(k, Ahead(lost))' BY AheadTake
<1>5. Returned(k)'
  <2>1. ~Stopped BY StoppedTake
  <2>2. Returned(m) BY DEF Reads
  <2>3. Done(m) <= Done(k)'
    <3>1. Done(m) \in Int BY <1>0 DEF Done
    <3> QED BY <3>1
  <2> QED BY <1>0, <2>1, <2>2, <2>3, ReturnsNothing
<1>6. whole' => Complete(k, lost)'
  <2> SUFFICES ASSUME whole PROVE Complete(k, lost)' BY <1>2
  <2>1. Complete(m, lost) BY DEF Reads
  <2> QED BY <1>0, <1>2, <2>1, CompleteTake
<1> QED BY <1>3, <1>4, <1>5, <1>6 DEF Reads

LEMMA FindSReads ==
    ASSUME Types, QuietNoise, fn # "deserialize", FindS,
           NEW m \in 0..Len(feed), NEW lost \in Str, Reads(m, lost)
    PROVE  \E k \in 0..Len(feed), l \in Str : Reads(k, l)'
<1>0. feed \in Seq(Part) /\ Len(feed) \in Nat /\ m \in Nat BY TypesFeed
<1>1. /\ pc = "magicS" /\ Take /\ UNCHANGED <<setup, got>>
      /\ pc' = IF byte = S THEN "magicC" ELSE "magicS"
  BY DEF FindS
<1>2. PICK s \in Str : s = Ahead(lost) BY AheadTyped
<1>3. s # <<>> /\ Head(s) = byte BY <1>1, <1>2, AheadTake
<1>4. InMagicS(m, s) BY <1>1, <1>2 DEF Reads, Place
<1>5. PICK t : t = Tail(s) OBVIOUS
<1>6. CASE byte # S
  <2>1. InMagicS(m, t)
    <3>1. CASE m = Len(feed) /\ NoS(s) BY <1>3, <1>5, <3>1, NoSStep DEF InMagicS
    <3>2. CASE m < Len(feed) /\ \E x \in Str : Before(x, feed[m + 1]) /\ s = x \o MagicOn(m + 1)
      <4>1. PICK x \in Str : Between(x) /\ s = x \o MagicOn(m + 1) BY <3>2 DEF Before
      <4>2. m + 1 \in 1..Len(feed) BY <1>0, <3>2
      <4>3. COn(m + 1) \in Str /\ MagicOn(m + 1) \in Str BY <1>0, <4>2, PartTyped
      <4>4. x # <<>>
        <5>1. ASSUME x = <<>> PROVE FALSE
          <6>1. s = <<S>> \o COn(m + 1) BY <4>1, <4>2, <4>3, <5>1, OnlyScewl, Joined
          <6>2. Head(s) = S BY <4>3, <6>1, OneInFront, Constants DEF Str
          <6> QED BY <1>3, <1>6, <6>2
        <5> QED BY <5>1
      <4>5. t = Tail(x) \o MagicOn(m + 1) BY <1>5, <4>1, <4>3, <4>4, InFront DEF Str
      <4>6. Between(Tail(x)) /\ Tail(x) \in Str BY <4>1, <4>4, BetweenStep
      <4>7. Before(Tail(x), feed[m + 1]) BY <4>6 DEF Before
      <4> QED BY <3>2, <4>5, <4>6, <4>7 DEF InMagicS
    <3> QED BY <1>4, <3>1, <3>2 DEF InMagicS
  <2>2. Place(m, t)' BY <1>1, <1>6, <2>1, SameSearch DEF Place
  <2>3. Done(m)' = Done(m) BY <1>1, <1>6 DEF Done
  <2>4. Reads(m, lost)' BY <1>1, <1>2, <1>5, <2>2, <2>3, TakeReads
  <2> QED BY <2>4
<1>7. CASE byte = S
  <2>1. m < Len(feed)
    <3>1. ASSUME NoS(s) PROVE FALSE BY <1>3, <1>7, <3>1, NoSStep
    <3> QED BY <1>4, <3>1 DEF InMagicS
  <2>2. PICK x \in Str : Between(x) /\ s = x \o MagicOn(m + 1)
    BY <1>4, <2>1 DEF InMagicS, Before
  <2>3. m + 1 \in 1..Len(feed) /\ m + 1 \in 0..Len(feed) /\ m + 1 > 0 BY <1>0, <2>1
  <2>4. PICK c \in Str : c = COn(m + 1) /\ MagicOn(m + 1) = <<S>> \o c /\ <<S>> \o c \in Str
    BY <1>0, <2>3, PartTyped, OnlyScewl DEF MagicOn
  <2>5. InMagicC(m + 1, t)
    <3>1. CASE x = <<>>
      <4>1. s = <<S>> \o c BY <2>2, <2>4, <3>1, Joined
      <4>2. t = c BY <1>5, <4>1, OneInFront, Constants DEF Str
      <4>3. t = <<>> \o c BY <4>2, Joined
      <4> QED BY <2>4, <4>3, RunOfS DEF InMagicC
    <3>2. CASE x # <<>>
      <4>1. Head(s) = Head(x) /\ t = Tail(x) \o (<<S>> \o c)
        <5>1. PICK u \in Str : u = <<S>> \o c BY <2>4
        <5>2. s = x \o u BY <2>2, <2>4, <5>1
        <5> QED BY <1>5, <3>2, <5>1, <5>2, InFront DEF Str
      <4>2. ~Apart /\ Tail(x) \in Seq({S}) BY <1>3, <1>7, <2>2, <3>2, <4>1, BetweenStep
      <4>3. PICK y \in Seq({S}) : y = Tail(x) BY <4>2
      <4>4. Strings(y, <<S>>, c) BY RunOfS, Constants DEF Strings, Str
      <4>5. (y \o <<S>>) \o c = y \o (<<S>> \o c) BY <4>4, Regroup
      <4>6. y \o <<S>> \in Seq({S}) BY RunOfS
      <4> QED BY <2>4, <4>1, <4>2, <4>3, <4>5, <4>6 DEF InMagicC
    <3> QED BY <3>1, <3>2
  <2>6. Place(m + 1, t)' BY <1>1, <1>7, <2>3, <2>5, SameSearch DEF Place
  <2>7. Done(m + 1)' = Done(m) BY <1>0, <1>1, <1>7 DEF Done
  <2>8. Reads(m + 1, lost)' BY <1>1, <1>2, <1>5, <1>7, <2>6, <2>7, TakeReads
  <2> QED BY <2>3, <2>8
<1> QED BY <1>6, <1>7

LEMMA FindCReads ==
    ASSUME Types, fn # "deserialize", FindC,
           NEW m \in 0..Len(feed), NEW lost \in Str, Reads(m, lost)
    PROVE  \E k \in 0..Len(feed), l \in Str : Reads(k, l)'
<1>0. feed \in Seq(Part) /\ Len(feed) \in Nat /\ m \in Nat BY TypesFeed
<1>1. /\ pc = "magicC" /\ Take /\ UNCHANGED <<setup, got, hdr>> /\ hdr = <<>>
      /\ pc' = IF byte = S THEN "magicC" ELSE "header"
  BY DEF FindC, Types
<1>2. PICK s \in Str : s = Ahead(lost) BY AheadTyped
<1>3. s # <<>> /\ Head(s) = byte BY <1>1, <1>2, AheadTake
<1>4. m > 0 /\ InMagicC(m, s) BY <1>1, <1>2 DEF Reads, Place
<1>5. m \in 1..Len(feed) BY <1>0, <1>4
<1>6. PICK x \in Seq({S}) : (Apart => x = <<>>) /\ s = x \o COn(m)
  BY <1>4 DEF InMagicC
<1>7. PICK t : t = Tail(s) OBVIOUS
<1>8. PICK h \in Str : /\ h = HdrOf(feed[m]) \o BodyOn(m) /\ COn(m) = <<C>> \o h
                       /\ <<C>> \o h \in Str
  BY <1>0, <1>5, PartTyped, OnlyScewl
<1>9. Place(m, t)'
  <2>1. CASE x = <<>>
    <3>1. s = <<C>> \o h BY <1>6, <1>8, <2>1, Joined
    <3>2. Head(s) = C /\ t = h BY <1>7, <3>1, OneInFront, Constants DEF Str
    <3>3. pc' = "header" BY <1>1, <1>3, <3>2, Constants
    <3>4. feed' = feed /\ BodyOn(m)' = BodyOn(m) /\ hdr' = <<>> /\ Len(<<>>) = 0
      BY <1>1, SameFeed
    <3>5. Initial(HdrOf(feed[m]), 0) = <<>> /\ Beyond(HdrOf(feed[m]), 0) = HdrOf(feed[m])
      BY <1>0, <1>5, PartTyped, InitialEnds, BeyondEnds DEF Str
    <3>6. InHeader(m, t)' BY <1>8, <3>2, <3>4, <3>5 DEF InHeader
    <3> QED BY <1>4, <3>3, <3>6 DEF Place
  <2>2. CASE x # <<>>
    <3>1. x \in Str /\ Head(x) = S /\ Tail(x) \in Seq({S}) BY <2>2, RunOfS
    <3>2. Head(s) = Head(x) /\ t = Tail(x) \o COn(m)
      <4>1. PICK u \in Str : u = COn(m) BY <1>8
      <4>2. PICK y \in Str : y = x BY <3>1
      <4>3. s = y \o u BY <1>6, <4>1, <4>2
      <4> QED BY <1>7, <2>2, <4>1, <4>2, <4>3, InFront DEF Str
    <3>3. InMagicC(m, t) BY <1>6, <2>2, <3>1, <3>2 DEF InMagicC
    <3>4. pc' = "magicC" BY <1>1, <1>3, <3>1, <3>2
    <3> QED BY <1>1, <1>4, <3>3, <3>4, SameSearch DEF Place
  <2> QED BY <2>1, <2>2
<1>10. Done(m)' = Done(m) BY <1>1 DEF Done
<1>11. Reads(m, lost)' BY <1>1, <1>2, <1>7, <1>9, <1>10, TakeReads
<1> QED BY <1>11
\* A step that finds nothing, in a message: what has to be shown of it.
LEMMA StayReads ==
    ASSUME Types, UNCHANGED <<setup, got, port>>,
           NEW m \in 0..Len(feed), NEW lost \in Str, Reads(m, lost),
           pc # "magicS", pc' # "magicS", res' => res,
           NEW s, s = Ahead(lost), Place(m, s)'
    PROVE  Reads(m, lost)'
<1>0. Len(feed) \in Nat /\ m \in Nat BY TypesFeed
<1>1. UNCHANGED setup /\ whole' = whole /\ blocking' = blocking BY SameFeed
<1>2. eof' = eof /\ wire' = wire BY DEF port
<1>3. ~eof' => lost = <<>> BY <1>2 DEF Reads
<1>4. Place(m, Ahead(lost))' BY AheadSame
<1>5. Returned(m)'
  <2>1. Returned(m) BY DEF Reads
  <2>2. Done(m)' = Done(m) /\ Done(m) \in Int BY <1>0 DEF Done
  <2>3. Done(m) <= Done(m)' BY <2>2
  <2>4. Stopped /\ ~res => Stopped' /\ ~res' BY <1>1, <1>2 DEF Stopped
  <2> QED BY <1>0, <2>1, <2>2, <2>3, <2>4, ReturnsNothing
<1>6. whole' => Complete(m, lost)'
  <2> SUFFICES ASSUME whole PROVE Complete(m, lost)' BY <1>1
  <2>1. Complete(m, lost) BY DEF Reads
  <2> QED BY <1>1, <2>1, CompleteSame
<1> QED BY <1>3, <1>4, <1>5, <1>6 DEF Reads

\* A call that gives up before the body.
LEMMA GiveUpReads ==
    ASSUME Types, UNCHANGED <<setup, got, port>>, ~whole,
           NEW m \in 1..Len(feed), NEW lost \in Str, Reads(m, lost),
           pc # "magicS", pc' = "magicS", NoGaps => Stopped,
           NEW l \in Str, ~eof => l = <<>>, InMagicS(m, Ahead(l))
    PROVE  Reads(m, l)'
<1>0. Len(feed) \in Nat /\ m \in Nat BY TypesFeed
<1>1. UNCHANGED setup /\ whole' = whole /\ blocking' = blocking BY SameFeed
<1>2. eof' = eof /\ wire' = wire BY DEF port
<1>3. PICK s : s = Ahead(l) OBVIOUS
<1>4. InMagicS(m, s)' BY <1>1, <1>3, SameSearch
<1>5. Ahead(l)' = s BY <1>3, AheadSame
<1>6. Place(m, s)' BY <1>4 DEF Place
<1>7. Stopped => Stopped' BY <1>1, <1>2 DEF Stopped
<1>8. Returned(m)'
  <2>1. Returned(m) BY DEF Reads
  <2>2. Done(m)' = m /\ Done(m) = m - 1 BY DEF Done
  <2>3. Done(m) <= Done(m)' BY <1>0, <2>2
  <2> QED BY <1>0, <1>7, <2>1, <2>3, ReturnsNothing
<1> QED BY <1>1, <1>2, <1>5, <1>6, <1>8 DEF Reads

LEMMA NoGapsStops ==
    ASSUME Types, NoGaps, ~whole, fn # "deserialize", NoByte(blocking)
    PROVE  Stopped
BY DEF NoGaps, NoByte, Stopped

\* What a call that has given up leaves to be read.
LEMMA LeftOfHeader ==
    ASSUME Types, NEW m \in 1..Len(feed), NEW k \in 0..3
    PROVE  \E v \in Str : /\ Beyond(HdrOf(feed[m]), k) \o BodyOn(m) = v \o Rest(m)
                          /\ Apart => NoS(v)
                          /\ Len(v) = (3 - k) + Len(feed[m].body)
<1>0. feed \in Seq(Part) BY TypesFeed
<1>1. PICK h, b, r \in Str : h = HdrOf(feed[m]) /\ b = feed[m].body /\ r = Rest(m) /\ Len(h) = 3
  BY <1>0, PartTyped
<1>2. PICK g \in Str : g = Beyond(h, k) /\ Len(g) = 3 - k
  <2>1. k \in 0..Len(h) BY <1>1
  <2>2. Beyond(h, k) \in Str /\ Len(Beyond(h, k)) = Len(h) - k BY <2>1, BeyondTyped DEF Str
  <2> QED BY <1>1, <2>2
<1>3. Strings(g, b, r) BY DEF Strings
<1>4. g \o (b \o r) = (g \o b) \o r BY <1>3, Regroup
<1>5. g \o b \in Str /\ Len(g \o b) = Len(g) + Len(b) BY Joined
<1>6. Apart => NoS(g \o b)
  <2> SUFFICES ASSUME Apart PROVE NoS(g \o b) OBVIOUS
  <2>1. NoS(h) /\ NoS(b) BY <1>1, OnlyInMagic
  <2>2. NoS(g) BY <1>1, <1>2, <2>1, NoSBeyond
  <2> QED BY <2>1, <2>2, NoSTyped
<1> QED BY <1>1, <1>2, <1>4, <1>5, <1>6 DEF BodyOn

LEMMA LeftOfMagic ==
    ASSUME Types, fn # "deserialize", NEW m \in 1..Len(feed)
    PROVE  \E v \in Str : COn(m) = v \o Rest(m) /\ v # <<>> /\ (Apart => NoS(v))
<1>0. feed \in Seq(Part) BY TypesFeed
<1>1. PICK u \in Str : /\ Beyond(HdrOf(feed[m]), 0) \o BodyOn(m) = u \o Rest(m)
                       /\ Apart => NoS(u)
  <2>1. 0 \in 0..3 OBVIOUS
  <2> QED BY <2>1, LeftOfHeader
<1>2. Beyond(HdrOf(feed[m]), 0) = HdrOf(feed[m]) BY <1>0, PartTyped, BeyondEnds DEF Str
<1>3. PICK one, r \in Str : one = <<C>> /\ r = Rest(m)
  <2>1. <<C>> \in Str BY Constants DEF Str
  <2> QED BY <1>0, <2>1, PartTyped
<1>4. Strings(one, u, r) BY DEF Strings
<1>5. one \o (u \o r) = (one \o u) \o r BY <1>4, Regroup
<1>6. one \o u \in Str /\ one \o u # <<>> BY <1>3, OneInFront, Constants DEF Str
<1>7. Apart => NoS(one \o u)
  <2>1. C \in Byte \ {S} BY Constants
  <2>2. NoS(one) BY <1>3, <2>1 DEF NoS
  <2> QED BY <1>1, <2>2, NoSTyped
<1>8. COn(m) = (one \o u) \o r BY <1>1, <1>2, <1>3, <1>5, OnlyScewl
<1> QED BY <1>3, <1>6, <1>7, <1>8
LEMMA StutterReads ==
    ASSUME UNCHANGED vars, NEW m, NEW lost, Reads(m, lost)
    PROVE  Reads(m, lost)'
<1>1. /\ UNCHANGED setup /\ UNCHANGED <<coming, wire, eof, pc, hdr, data, skipped, res, got>>
      /\ len' = len /\ max' = max /\ rest' = rest
  BY SameLengths DEF vars, setup
<1>2. /\ feed' = feed /\ whole' = whole /\ fn' = fn /\ blocking' = blocking /\ frames' = frames
      /\ NoGaps' <=> NoGaps
      /\ Apart' <=> Apart
      /\ Rest(m)' = Rest(m)
      /\ BodyOn(m)' = BodyOn(m)
      /\ Expected' = Expected
  BY <1>1, SameFeed
<1>3. Stopped' <=> Stopped BY <1>1, <1>2 DEF Stopped
<1>4. \A s : Place(m, s)' <=> Place(m, s)
  <2> TAKE s
  <2>1. (InMagicS(m, s)' <=> InMagicS(m, s)) /\ (InMagicC(m, s)' <=> InMagicC(m, s))
    BY <1>1, SameSearch
  <2>2. InHeader(m, s)' <=> InHeader(m, s) BY <1>1, <1>2 DEF InHeader
  <2>3. Good(m)' <=> Good(m) BY <1>1, <1>2 DEF Good
  <2>4. MadeUp' <=> MadeUp BY <1>1, <1>2 DEF MadeUp
  <2>5. ToRead' = ToRead BY <1>1 DEF ToRead
  <2>6. InBody(m, s)' <=> InBody(m, s) BY <1>1, <1>2, <1>3, <2>3, <2>4, <2>5 DEF InBody, Left
  <2> QED BY <1>1, <2>1, <2>2, <2>6 DEF Place
<1>5. Ahead(lost)' = Ahead(lost) BY <1>1 DEF Ahead
<1>6. Returned(m)' <=> Returned(m)
  <2>1. Done(m)' = Done(m) BY <1>1 DEF Done
  <2>2. Genuine' = Genuine BY <1>1, <1>2 DEF Genuine
  <2>3. ReturnedAll(m)' <=> ReturnedAll(m) BY <1>1, <1>2, <1>3, <2>1 DEF ReturnedAll
  <2>4. \A f : Embeds(f, Genuine)' <=> Embeds(f, Genuine) BY <1>2, <2>2 DEF Embeds
  <2>5. ReturnedSome(m)' <=> ReturnedSome(m) BY <2>1, <2>2, <2>4 DEF ReturnedSome
  <2> QED BY <1>2, <2>3, <2>5 DEF Returned
<1>7. Complete(m, lost)' <=> Complete(m, lost) BY <1>1, <1>2 DEF Complete, Rest
<1>8. PICK s : s = Ahead(lost) OBVIOUS
<1>9. Place(m, s)' BY <1>4, <1>8 DEF Reads
<1> QED BY <1>1, <1>2, <1>5, <1>6, <1>7, <1>8, <1>9 DEF Reads

LEMMA FindNothingReads ==
    ASSUME Types, QuietNoise, NoGaps \/ Apart, fn # "deserialize", FindNothing,
           NEW m \in 0..Len(feed), NEW lost \in Str, Reads(m, lost)
    PROVE  \E k \in 0..Len(feed), l \in Str : Reads(k, l)'
<1>0. feed \in Seq(Part) /\ Len(feed) \in Nat /\ m \in Nat BY TypesFeed
<1>1. /\ pc \in {"magicS", "magicC"} /\ NoByte(blocking) /\ Return /\ UNCHANGED <<setup, got, port>>
      /\ wire = <<>> /\ pc' = "magicS"
  BY DEF FindNothing, NoByte, Return
<1>2. CASE pc = "magicS"
  <2>1. hdr = <<>> /\ data = <<>> /\ skipped = 0 /\ res = TRUE BY <1>2 DEF Types, TypeOK
  <2>2. UNCHANGED vars BY <1>1, <1>2, <2>1 DEF vars, setup, port, Return
  <2>3. Reads(m, lost)' BY <2>2, StutterReads
  <2> QED BY <2>3
<1>3. CASE pc = "magicC"
  <2>1. PICK s \in Str : s = Ahead(lost) BY AheadTyped
  <2>2. m > 0 /\ InMagicC(m, s) BY <1>3, <2>1 DEF Reads, Place
  <2>3. m \in 1..Len(feed) BY <1>0, <2>2
  <2>4. PICK x \in Seq({S}) : (Apart => x = <<>>) /\ s = x \o COn(m)
    BY <2>2 DEF InMagicC
  <2>5. PICK v \in Str : COn(m) = v \o Rest(m) /\ v # <<>> /\ (Apart => NoS(v))
    BY <2>3, LeftOfMagic
  <2>6. PICK y, r \in Str : y = x /\ r = Rest(m) BY <1>0, <2>3, PartTyped, RunOfS
  <2>7. Strings(y, v, r) BY DEF Strings
  <2>8. s = (y \o v) \o r BY <2>4, <2>5, <2>6, <2>7, Regroup
  <2>9. PICK u \in Str : u = y \o v /\ u # <<>>
    <3>1. y \o v \in Str /\ Len(y \o v) = Len(y) + Len(v) BY Joined
    <3>2. Len(y) \in Nat /\ Len(v) \in Nat \ {0} BY <2>5 DEF Str
    <3>3. Len(y \o v) # 0 BY <3>1, <3>2
    <3>4. y \o v # <<>> BY <3>3
    <3> QED BY <3>1, <3>4
  <2>10. Ahead(lost) = u \o Rest(m) BY <2>1, <2>6, <2>8, <2>9
  <2>11. ~whole
    <3>1. whole => Complete(m, lost) BY DEF Reads
    <3> QED BY <1>1, <2>9, <2>10, <3>1, AllThere
  <2>12. NoGaps => Stopped BY <1>1, <2>11, NoGapsStops
  <2>13. CASE Apart
    <3>1. u = v BY <2>4, <2>6, <2>9, <2>13, Joined
    <3>2. InMagicS(m, Ahead(lost)) BY <2>5, <2>10, <2>13, <3>1, PastRest
    <3>3. Reads(m, lost)' BY <1>1, <1>3, <2>3, <2>11, <2>12, <3>2, GiveUpReads DEF Reads
    <3> QED BY <3>3
  <2>14. CASE ~Apart
    <3>1. Stopped BY <2>12, <2>14
    <3>2. eof /\ coming = <<>> /\ wire = <<>> BY <3>1 DEF Types, Stopped
    <3>3. Ahead(r) = <<>> \o Rest(m) BY <2>6, <3>2, FlattenNothing, Joined DEF Ahead
    <3>6. PICK none \in Str : none = <<>> BY Joined
    <3>7. InMagicS(m, none \o Rest(m)) BY <3>6, PastRest
    <3>4. InMagicS(m, Ahead(r)) BY <3>3, <3>6, <3>7
    <3>5. Reads(m, r)' BY <1>1, <1>3, <2>3, <2>11, <3>1, <3>2, <3>4, GiveUpReads
    <3> QED BY <3>5
  <2> QED BY <2>13, <2>14
<1> QED BY <1>1, <1>2, <1>3

-----------------------------------------------------------------------------
(* The header.                                                             *)

\* What len is while the header of the m-th message is read, and after it.
LenOf(p, k) ==
    /\ len <= Len(p.body) /\ Len(p.body) \in Nat /\ len \in Nat /\ Len(hdr) = k
    /\ k = 3 => hdr = HdrOf(p) /\ len = Len(p.body) /\ src = p.src
LenIsOf == \A p \in Part, k \in 0..3 : hdr = Initial(HdrOf(p), k) => LenOf(p, k)

LEMMA LenIs == LenIsOf
<1> SUFFICES ASSUME NEW p \in Part, NEW k \in 0..3, hdr = Initial(HdrOf(p), k) PROVE LenOf(p, k)
  BY DEF LenIsOf
<1>1. PICK h : /\ h = HdrOf(p) /\ h \in Seq(Byte) /\ Len(h) = 3 /\ h[1] = p.src
               /\ h[2] + Base * h[3] = Len(p.body) /\ h[2] \in Byte /\ h[3] \in Byte
  BY HeaderTyped
<1>2. PICK lo, hi \in Nat : lo = h[2] /\ hi = Base * h[3] /\ lo + hi = Len(p.body)
  BY <1>1, Constants
<1>3. /\ Len(hdr) = k /\ \A i \in 1..k : hdr[i] = h[i]
      /\ hdr \in Seq(Byte)
  <2>1. k \in 0..Len(h) BY <1>1
  <2> QED BY <1>1, <2>1, InitialTyped
<1>4. len = (IF k > 1 THEN lo ELSE 0) + (IF k > 2 THEN hi ELSE 0)
  <2>1. k > 1 => hdr[2] = lo BY <1>2, <1>3
  <2>2. k > 2 => hdr[3] = h[3] BY <1>3
  <2> QED BY <1>2, <1>3, <2>1, <2>2 DEF len
<1>5. len <= Len(p.body) /\ Len(p.body) \in Nat /\ len \in Nat /\ (k = 3 => len = Len(p.body))
  BY <1>2, <1>4
<1>6. ASSUME k = 3 PROVE hdr = HdrOf(p) /\ src = p.src
  <2>1. hdr = h BY <1>1, <1>6, InitialEnds
  <2>2. hdr[1] = p.src BY <1>1, <1>3, <1>6
  <2>3. hdr # <<>> BY <1>3, <1>6
  <2> QED BY <1>1, <2>1, <2>2, <2>3 DEF src
<1> QED BY <1>3, <1>5, <1>6 DEF LenOf

LEMMA LenIsNext == LenIsOf'
BY LenIs, PTL

LEMMA ReadHeaderReads ==
    ASSUME Types, ReadHeader, NEW m \in 0..Len(feed), NEW lost \in Str, Reads(m, lost)
    PROVE  \E k \in 0..Len(feed), l \in Str : Reads(k, l)'
<1>0. feed \in Seq(Part) /\ Len(feed) \in Nat /\ m \in Nat BY TypesFeed
<1>1. /\ pc = "header" /\ Take /\ UNCHANGED <<setup, data, skipped, res, got>>
      /\ hdr' = Append(hdr, byte)
      /\ pc' = IF Len(hdr') = 3 THEN "body" ELSE "header"
  BY DEF ReadHeader
<1>2. hdr \in Str /\ Len(hdr) < 3 /\ data = <<>> /\ skipped = 0 /\ res = TRUE
  BY <1>1 DEF Types, TypeOK, Str
<1>3. PICK s \in Str : s = Ahead(lost) /\ s # <<>> /\ Head(s) = byte BY <1>1, AheadTake
<1>4. m > 0 /\ InHeader(m, s) BY <1>1, <1>3 DEF Reads, Place
<1>5. m \in 1..Len(feed) /\ feed[m] \in Part BY <1>0, <1>4
<1>6. PICK h, b, o, r \in Str : /\ h = HdrOf(feed[m]) /\ Len(h) = 3 /\ b = feed[m].body
                               /\ o = BodyOn(m) /\ r = Rest(m)
  BY <1>0, <1>5, PartTyped
<1>7. PICK k \in 0..2 : k = Len(hdr)
  <2>1. hdr \in Seq(Byte) BY <1>2 DEF Str
  <2>2. Len(hdr) \in Nat /\ Len(hdr) < 3 BY <1>2, <2>1
  <2>3. PICK l \in Nat : l = Len(hdr) /\ l < 3 BY <2>2
  <2>4. l \in 0..2 BY <2>3
  <2> QED BY <2>3, <2>4
<1>8. hdr = Initial(h, k) /\ s = Beyond(h, k) \o o BY <1>4, <1>6, <1>7 DEF InHeader
<1>9. PICK t : t = Tail(s) OBVIOUS
<1>10. /\ k \in Nat /\ k < Len(h) /\ k \in 0..Len(h) /\ k + 1 \in 0..Len(h) /\ k + 1 \in 0..3
  BY <1>6
<1>11. byte = h[k + 1] /\ t = Beyond(h, k + 1) \o o
  <2>1. /\ Beyond(h, k) # <<>> /\ Head(Beyond(h, k)) = h[k + 1]
        /\ Tail(Beyond(h, k)) = Beyond(h, k + 1)
    BY <1>10, BeyondStep DEF Str
  <2>2. PICK g \in Str : g = Beyond(h, k) BY <1>10, BeyondTyped DEF Str
  <2>3. Head(g \o o) = Head(g) /\ Tail(g \o o) = Tail(g) \o o BY <2>1, <2>2, InFront DEF Str
  <2> QED BY <1>3, <1>8, <1>9, <2>1, <2>2, <2>3
<1>12. hdr' = Initial(h, k + 1) /\ Len(hdr') = k + 1
  <2>1. Append(Initial(h, k), h[k + 1]) = Initial(h, k + 1) BY <1>10, InitialStep DEF Str
  <2>2. Len(Initial(h, k + 1)) = k + 1 BY <1>10, InitialTyped DEF Str
  <2> QED BY <1>1, <1>8, <1>11, <2>1, <2>2
<1>13. /\ feed' = feed /\ BodyOn(m)' = o /\ Rest(m)' = r
       /\ Apart' <=> Apart
  BY <1>1, <1>6, SameFeed
<1>14. Place(m, t)'
  <2>1. CASE k # 2
    <3>1. pc' = "header"
      <4>1. k + 1 # 3 BY <2>1
      <4> QED BY <1>1, <1>12, <4>1
    <3>2. InHeader(m, t)' BY <1>6, <1>11, <1>12, <1>13 DEF InHeader
    <3> QED BY <1>4, <3>1, <3>2 DEF Place
  <2>2. CASE k = 2
    <3>1. pc' = "body" /\ k + 1 = 3 BY <1>1, <1>12, <2>2
    <3>2. t = b \o r
      <4>1. Beyond(h, 3) = <<>> BY <1>6, BeyondEnds DEF Str
      <4> QED BY <1>6, <1>11, <3>1, <4>1, Joined DEF BodyOn
    <3>3. hdr' = h /\ len' = Len(b) BY <1>5, <1>6, <1>12, <3>1, LenIsNext DEF LenIsOf, LenOf
    <3>4. Len(<<>>) = 0 /\ Initial(b, 0) = <<>> /\ Beyond(b, 0) = b
      BY InitialEnds, BeyondEnds DEF Str
    <3>5. Len(b) \in Nat /\ Len(b) - 0 = Len(b) /\ 0 + 0 = 0 BY DEF Str
    <3>6. data' = <<>> /\ skipped' = 0 /\ res' = TRUE BY <1>1, <1>2
    <3>7. Good(m)' BY <1>6, <1>13, <3>1, <3>3, <3>4, <3>6 DEF Good
    <3>8. ToRead' = Len(b) BY <3>1, <3>3, <3>4, <3>5, <3>6 DEF ToRead
    <3>9. Apart => NoS(b) BY <1>5, <1>6, OnlyInMagic
    <3>10. Beyond(feed[m].body, Len(data) + skipped)' = b
           /\ Beyond(feed[m].body, Len(data))' = b
      BY <1>6, <1>13, <3>4, <3>5, <3>6
    <3>11. InBody(m, t)' BY <1>13, <3>2, <3>5, <3>6, <3>7, <3>8, <3>9, <3>10 DEF InBody, Left
    <3> QED BY <1>4, <3>1, <3>11 DEF Place
  <2> QED BY <2>1, <2>2
<1>15. Done(m)' = Done(m) BY <1>1 DEF Done
<1>16. pc' # "magicS" BY <1>1
<1>17. Reads(m, lost)' BY <1>1, <1>3, <1>9, <1>14, <1>15, <1>16, TakeReads
<1> QED BY <1>17

LEMMA HeaderMissingReads ==
    ASSUME Types, QuietNoise, NoGaps \/ Apart, fn # "deserialize", HeaderMissing,
           NEW m \in 0..Len(feed), NEW lost \in Str, Reads(m, lost)
    PROVE  \E k \in 0..Len(feed), l \in Str : Reads(k, l)'
<1>0. feed \in Seq(Part) /\ Len(feed) \in Nat /\ m \in Nat BY TypesFeed
<1>1. /\ pc = "header" /\ NoByte(blocking) /\ UNCHANGED <<setup, got, port>> /\ wire = <<>>
  BY DEF HeaderMissing, NoByte
<1>2. hdr \in Str /\ Len(hdr) < 3 /\ data = <<>> /\ skipped = 0 /\ res = TRUE
  BY <1>1 DEF Types, TypeOK, Str
<1>3. PICK s \in Str : s = Ahead(lost) BY AheadTyped
<1>4. m > 0 /\ InHeader(m, s) BY <1>1, <1>3 DEF Reads, Place
<1>5. m \in 1..Len(feed) /\ feed[m] \in Part BY <1>0, <1>4
<1>6. PICK k \in 0..2 : k = Len(hdr)
  <2>1. hdr \in Seq(Byte) BY <1>2 DEF Str
  <2>2. Len(hdr) \in Nat /\ Len(hdr) < 3 BY <1>2, <2>1
  <2>3. PICK l \in Nat : l = Len(hdr) /\ l < 3 BY <2>2
  <2>4. l \in 0..2 BY <2>3
  <2> QED BY <2>3, <2>4
<1>7. hdr = Initial(HdrOf(feed[m]), k) /\ s = Beyond(HdrOf(feed[m]), k) \o BodyOn(m)
  BY <1>4, <1>6 DEF InHeader
<1>8. k \in 0..3 OBVIOUS
<1>9. PICK v \in Str : /\ s = v \o Rest(m)
                       /\ Apart => NoS(v)
                       /\ Len(v) = (3 - k) + Len(feed[m].body)
  BY <1>5, <1>7, <1>8, LeftOfHeader
<1>10. len <= Len(feed[m].body) /\ Len(feed[m].body) \in Nat /\ len \in Nat
  BY <1>5, <1>7, <1>8, LenIs DEF LenIsOf, LenOf
<1>11. v # <<>> /\ Len(v) >= len
  <2>1. Len(v) > 0 /\ Len(v) >= len BY <1>9, <1>10
  <2> QED BY <2>1
<1>12. ~whole
  <2>1. whole => Complete(m, lost) BY DEF Reads
  <2> QED BY <1>1, <1>3, <1>9, <1>11, <2>1, AllThere
<1>13. NoGaps => Stopped BY <1>1, <1>12, NoGapsStops
<1>14. CASE fn = "read_msg" /\ Return
  <2>1. pc' = "magicS" BY <1>14 DEF Return
  <2>2. ~Stopped BY <1>14 DEF Types, Stopped
  <2>3. Apart BY <1>13, <2>2
  <2>4. InMagicS(m, Ahead(lost)) BY <1>3, <1>9, <2>3, PastRest
  <2>5. Reads(m, lost)' BY <1>1, <1>5, <1>12, <1>13, <2>1, <2>4, GiveUpReads DEF Reads
  <2> QED BY <2>5
<1>15. CASE /\ fn = "scewl_recv" /\ res' = (hdr = <<>> /\ ~eof) /\ pc' = "body"
            /\ UNCHANGED <<hdr, data, skipped>>
  <2>1. /\ feed' = feed /\ fn' = fn /\ blocking' = blocking /\ Rest(m)' = Rest(m)
        /\ Apart' <=> Apart
        /\ NoGaps' <=> NoGaps
    BY <1>1, SameFeed
  <2>2. eof' = eof /\ wire' = wire BY <1>1 DEF port
  <2>3. Stopped' <=> Stopped BY <2>1, <2>2 DEF Stopped
  <2>4. ~Good(m)'
    <3>1. hdr' = hdr /\ Len(hdr) # 3 BY <1>6, <1>15
    <3>2. Len(HdrOf(feed[m])) = 3 BY <1>5, HeaderTyped
    <3> QED BY <2>1, <3>1, <3>2 DEF Good
  <2>5. res' => MadeUp'
    <3> SUFFICES ASSUME hdr = <<>>, ~eof PROVE MadeUp' BY <1>15
    <3>1. ~blocking BY <1>1 DEF NoByte
    <3>2. ~NoGaps BY <1>13, <3>1 DEF Stopped
    <3> QED BY <1>2, <1>15, <2>1, <3>1, <3>2 DEF MadeUp
  <2>6. ToRead' = len
    <3>1. len' = len /\ Len(<<>>) = 0 /\ len - 0 = len BY <1>10, <1>15, SameLengths
    <3> QED BY <1>2, <1>15, <3>1 DEF ToRead
  <2>7. InBody(m, s)'
    <3>1. s = v \o Rest(m)' BY <1>9, <2>1
    <3>2. Apart' => NoS(v) /\ Len(v) >= ToRead' BY <1>9, <1>11, <2>1, <2>6
    <3>3. ~(NoGaps' /\ ~Stopped') BY <1>13, <2>1, <2>3
    <3> QED BY <2>4, <2>5, <3>1, <3>2, <3>3 DEF InBody, Left
  <2>8. Place(m, s)' BY <1>4, <1>15, <2>7 DEF Place
  <2>9. res' => res BY <1>2
  <2>10. pc # "magicS" /\ pc' # "magicS" BY <1>1, <1>15
  <2>11. Reads(m, lost)' BY <1>1, <1>3, <2>8, <2>9, <2>10, StayReads
  <2> QED BY <2>11
<1> QED BY <1>14, <1>15 DEF HeaderMissing

-----------------------------------------------------------------------------
(* The body, and the rest that is thrown away.                             *)

LEMMA GoodLen ==
    ASSUME Types, NEW m \in 1..Len(feed), Good(m)
    PROVE  len = Len(feed[m].body) /\ src = feed[m].src
<1>0. feed \in Seq(Part) BY TypesFeed
<1>1. feed[m] \in Part /\ hdr = HdrOf(feed[m]) BY <1>0 DEF Good
<1>2. HdrOf(feed[m]) \in Seq(Byte) /\ Len(HdrOf(feed[m])) = 3 BY <1>1, HeaderTyped
<1>3. hdr = Initial(HdrOf(feed[m]), 3) BY <1>1, <1>2, InitialEnds
<1>4. 3 \in 0..3 OBVIOUS
<1> QED BY <1>1, <1>3, <1>4, LenIs DEF LenIsOf, LenOf

\* Nothing belongs to what was made up.
LEMMA MadeUpLen ==
    ASSUME MadeUp
    PROVE  len = 0 /\ src = 0 /\ max = 0 /\ rest = 0
<1>1. hdr = <<>> /\ Len(<<>>) = 0 /\ n \in Nat BY Constants DEF MadeUp
<1>2. len = 0 /\ src = 0 BY <1>1 DEF len, src
<1>3. max = 0
  <2>1. CASE 0 < n BY <1>2, <2>1 DEF max
  <2>2. CASE ~(0 < n)
    <3>1. n = 0 BY <1>1, <2>2
    <3> QED BY <1>2, <3>1 DEF max
  <2> QED BY <2>1, <2>2
<1> QED BY <1>2, <1>3 DEF rest

\* The places where a byte of the body, or of its rest, is wanted.
Wanted ==
    \/ pc = "body" /\ Len(data) < max
    \/ AtRest /\ skipped < rest

LEMMA WantedTypes ==
    ASSUME Types, Wanted
    PROVE  /\ pc \in {"body", "rest"} /\ LengthsOK /\ Len(data) \in Nat /\ skipped \in Nat
           /\ Len(data) <= max /\ skipped <= rest /\ ToRead \in Nat /\ ToRead > 0
           /\ (pc = "body" => skipped = 0) /\ data \in Str /\ ~MadeUp
           /\ ~(pc = "body" /\ Len(data) < max) => skipped < rest /\ AtRest
<1>1. pc \in {"body", "rest"} BY DEF Wanted, AtRest
<1>2. LengthsOK BY Lengths DEF Types, TypeOK, Str
<1>3. /\ data \in Str /\ skipped \in Nat /\ (pc = "body" => skipped = 0)
      /\ Len(data) <= max /\ skipped <= rest
  BY <1>1 DEF Types, TypeOK, Str
<1>4. Len(data) \in Nat BY <1>3 DEF Str
<1>5. len \in Nat /\ max \in Nat /\ max <= len /\ rest \in Nat /\ rest = len - max
  BY <1>2 DEF LengthsOK
<1>6. ToRead \in Nat /\ ToRead > 0
  <2>1. CASE pc = "body" /\ Len(data) < max BY <1>3, <1>4, <1>5, <2>1 DEF ToRead
  <2>2. CASE AtRest /\ skipped < rest BY <1>3, <1>4, <1>5, <2>2 DEF ToRead, AtRest
  <2> QED BY <2>1, <2>2 DEF Wanted
<1>7. ~MadeUp
  <2> SUFFICES ASSUME MadeUp PROVE FALSE OBVIOUS
  <2>1. max = 0 /\ rest = 0 BY MadeUpLen
  <2> QED BY <1>3, <1>4, <2>1 DEF Wanted
<1> QED BY <1>1, <1>2, <1>3, <1>4, <1>6, <1>7 DEF Wanted

\* Then the message is not at its end, unless the stream is.
LEMMA MoreToRead ==
    ASSUME Types, Wanted, NoGaps \/ Apart, Apart \/ ~Stopped,
           NEW m \in 1..Len(feed), NEW s, InBody(m, s), NEW x \in Str, Left(m, s, x)
    PROVE  x # <<>>
<1>0. feed \in Seq(Part) BY TypesFeed
<1>1. /\ LengthsOK /\ Len(data) \in Nat /\ skipped \in Nat /\ Len(data) <= max
      /\ ToRead \in Nat /\ ToRead > 0 /\ ~MadeUp
      /\ (pc = "body" => skipped = 0)
  BY WantedTypes
<1>2. CASE Apart
  <2>1. Len(x) >= ToRead /\ Len(x) \in Nat BY <1>2 DEF Left, Str
  <2>2. Len(x) # 0 BY <1>1, <2>1
  <2> QED BY <2>2
<1>3. CASE NoGaps /\ ~Stopped
  <2>1. res /\ x = Beyond(feed[m].body, Len(data) + skipped) BY <1>3 DEF Left
  <2>2. Good(m) BY <1>1, <2>1 DEF InBody
  <2>3. len = Len(feed[m].body) BY <2>2, GoodLen
  <2>4. PICK b \in Str : b = feed[m].body /\ Len(b) = len BY <1>0, <2>3, PartTyped
  <2>5. PICK k \in Nat : k = Len(data) + skipped BY <1>1
  <2>6. k < len
    <3>1. len \in Nat /\ max \in Nat /\ max <= len /\ rest = len - max BY <1>1 DEF LengthsOK
    <3>2. CASE pc = "body" /\ Len(data) < max BY <1>1, <2>5, <3>1, <3>2
    <3>3. CASE AtRest /\ skipped < rest BY <1>1, <2>5, <3>1, <3>3
    <3> QED BY <3>2, <3>3 DEF Wanted
  <2>7. Beyond(b, k) # <<>> BY <2>4, <2>6, BeyondStep DEF Str
  <2> QED BY <2>1, <2>4, <2>5, <2>7
<1> QED BY <1>2, <1>3

\* What the places in the body have in common.
InsideBody(m, s, x) ==
    /\ m \in 1..Len(feed) /\ InBody(m, s) /\ Left(m, s, x) /\ pc \in {"body", "rest"}
    /\ pc # "magicS" /\ m \in Nat /\ m > 0

LEMMA Inside ==
    ASSUME Types, pc \in {"body", "rest"},
           NEW m \in 0..Len(feed), NEW lost, Reads(m, lost), NEW s, s = Ahead(lost)
    PROVE  \E x \in Str : InsideBody(m, s, x)
<1>0. Len(feed) \in Nat /\ m \in Nat BY TypesFeed
<1>1. m > 0 /\ InBody(m, s) BY DEF Reads, Place
<1>2. m \in 1..Len(feed) BY <1>0, <1>1
<1>3. PICK x \in Str : Left(m, s, x) BY <1>1 DEF InBody
<1> QED BY <1>0, <1>1, <1>2, <1>3 DEF InsideBody

\* The first byte of what is left of the m-th message.
LEMMA LeftTake ==
    ASSUME Types, Take, NEW m \in 1..Len(feed), NEW lost \in Str, NEW s, s = Ahead(lost),
           NEW x \in Str, s = x \o Rest(m), x # <<>>
    PROVE  /\ byte = Head(x) /\ Tail(s) = Tail(x) \o Rest(m) /\ Tail(x) \in Str
           /\ Len(Tail(x)) = Len(x) - 1 /\ Len(x) \in Nat
           /\ (NoS(x) => NoS(Tail(x)))
<1>0. feed \in Seq(Part) BY TypesFeed
<1>1. PICK r \in Str : r = Rest(m) BY <1>0, PartTyped
<1>2. Head(x \o r) = Head(x) /\ Tail(x \o r) = Tail(x) \o r BY InFront DEF Str
<1>3. byte = Head(s) BY AheadTake
<1>4. Tail(x) \in Str /\ Len(Tail(x)) = Len(x) - 1 /\ Len(x) \in Nat BY FirstByte
<1>5. NoS(x) => NoS(Tail(x)) BY NoSStep
<1> QED BY <1>1, <1>2, <1>3, <1>4, <1>5

LEMMA ReadBodyReads ==
    ASSUME Types, NoGaps \/ Apart, ReadBody,
           NEW m \in 0..Len(feed), NEW lost \in Str, Reads(m, lost)
    PROVE  \E k \in 0..Len(feed), l \in Str : Reads(k, l)'
<1>0. feed \in Seq(Part) BY TypesFeed
<1>1. /\ pc = "body" /\ Len(data) < max /\ Take /\ UNCHANGED <<setup, pc, hdr, skipped, res, got>>
      /\ data' = Append(data, byte)
  BY DEF ReadBody
<1>2. PICK s : s = Ahead(lost) OBVIOUS
<1>3. PICK x \in Str : InsideBody(m, s, x) BY <1>1, <1>2, Inside
<1>4. m \in 1..Len(feed) /\ InBody(m, s) /\ Left(m, s, x) /\ m > 0 BY <1>3 DEF InsideBody
<1>5. Wanted BY <1>1 DEF Wanted
<1>6. /\ LengthsOK /\ data \in Str /\ skipped = 0 /\ ToRead \in Nat /\ ~MadeUp
  BY <1>1, <1>5, WantedTypes
<1>7. ~Stopped BY <1>1, StoppedTake
<1>8. x # <<>> BY <1>4, <1>5, <1>7, MoreToRead
<1>9. s = x \o Rest(m) BY <1>4 DEF Left
<1>10. PICK y \in Str : /\ y = Tail(x) /\ byte = Head(x) /\ Tail(s) = y \o Rest(m)
                        /\ Len(y) = Len(x) - 1 /\ Len(x) \in Nat
                        /\ (NoS(x) => NoS(y))
  <2>1. /\ byte = Head(x) /\ Tail(s) = Tail(x) \o Rest(m) /\ Tail(x) \in Str
        /\ Len(Tail(x)) = Len(x) - 1 /\ Len(x) \in Nat
        /\ (NoS(x) => NoS(Tail(x)))
    BY <1>1, <1>2, <1>4, <1>8, <1>9, LeftTake
  <2> QED BY <2>1
<1>11. PICK t : t = Tail(s) OBVIOUS
<1>12. PICK b \in Str : b = feed[m].body BY <1>0, <1>4, PartTyped
<1>13. PICK d \in Nat : d = Len(data) BY <1>6 DEF Str
<1>14. data' \in Str /\ Len(data') = d + 1
  <2>1. byte \in Byte BY <1>8, <1>10, FirstByte
  <2> QED BY <1>1, <1>6, <1>13, <2>1, AppendProperties DEF Str
<1>15. /\ feed' = feed /\ Rest(m)' = Rest(m) /\ len' = len /\ max' = max /\ rest' = rest
       /\ Apart' <=> Apart
       /\ NoGaps' <=> NoGaps
  BY <1>1, SameFeed, SameLengths
<1>16. ASSUME res, Good(m)
       PROVE  /\ data' = Initial(b, d + 1) /\ y = Beyond(b, d + 1)
  <2>1. x = Beyond(b, d) BY <1>1, <1>4, <1>12, <1>13, <1>16 DEF Left
  <2>2. d < Len(b)
    <3>1. len = Len(b) BY <1>4, <1>12, <1>16, GoodLen
    <3>2. Len(b) \in Nat /\ max \in Nat /\ max <= len BY <1>6 DEF LengthsOK, Str
    <3> QED BY <1>1, <1>13, <3>1, <3>2
  <2>3. Head(x) = b[d + 1] /\ Tail(x) = Beyond(b, d + 1) BY <2>1, <2>2, BeyondStep DEF Str
  <2>4. data = Initial(b, d) BY <1>12, <1>13, <1>16 DEF Good
  <2>5. Append(Initial(b, d), b[d + 1]) = Initial(b, d + 1) BY <2>2, InitialStep DEF Str
  <2> QED BY <1>1, <1>10, <2>3, <2>4, <2>5
<1>17. res => Good(m) BY <1>4, <1>6 DEF InBody
<1>18. ASSUME res PROVE Good(m)'
  <2>1. hdr = HdrOf(feed[m]) BY <1>17, <1>18 DEF Good
  <2>2. pc' # "rest" BY <1>1
  <2>3. data' = Initial(b, Len(data')) BY <1>14, <1>16, <1>17, <1>18
  <2> QED BY <1>1, <1>12, <1>15, <2>1, <2>2, <2>3 DEF Good
<1>19. Left(m, t, y)'
  <2>1. t = y \o Rest(m)' BY <1>10, <1>11, <1>15
  <2>2. ASSUME Apart PROVE NoS(y) /\ Len(y) >= ToRead'
    <3>1. NoS(x) /\ Len(x) >= len - d BY <1>1, <1>4, <1>13, <2>2 DEF Left, ToRead
    <3>2. ToRead' = len - (d + 1) BY <1>1, <1>14, <1>15 DEF ToRead
    <3>3. len \in Nat BY <1>6 DEF LengthsOK
    <3> QED BY <1>10, <3>1, <3>2, <3>3
  <2>3. ASSUME NoGaps PROVE res' /\ y = Beyond(feed[m].body, Len(data) + skipped)'
    <3>1. res BY <1>4, <1>7, <2>3 DEF Left
    <3>2. (d + 1) + 0 = d + 1 OBVIOUS
    <3> QED BY <1>1, <1>6, <1>12, <1>14, <1>15, <1>16, <1>17, <3>1, <3>2
  <2>4. ASSUME res' PROVE y = Beyond(feed[m].body, Len(data))'
    <3>1. res BY <1>1, <2>4
    <3> QED BY <1>12, <1>14, <1>15, <1>16, <1>17, <3>1
  <2> QED BY <1>15, <2>1, <2>2, <2>3, <2>4 DEF Left
<1>20. InBody(m, t)' BY <1>1, <1>18, <1>19 DEF InBody
<1>21. Place(m, t)' BY <1>1, <1>4, <1>20 DEF Place
<1>22. Done(m)' = Done(m) BY <1>1 DEF Done
<1>23. pc' # "magicS" BY <1>1
<1>24. Reads(m, lost)' BY <1>1, <1>2, <1>11, <1>21, <1>22, <1>23, TakeReads
<1> QED BY <1>24

\* Where nothing comes in a message, a reader that must not have gaps has seen
\* the end of the stream.
LEMMA NothingComes ==
    ASSUME Types, Wanted, NoGaps \/ Apart, NoGaps, ~Stopped, wire = <<>>,
           NEW m \in 0..Len(feed), NEW lost \in Str, Reads(m, lost), NEW s, s = Ahead(lost),
           NEW x \in Str, InsideBody(m, s, x)
    PROVE  ~whole
<1>1. m \in 1..Len(feed) /\ InBody(m, s) /\ Left(m, s, x) BY DEF InsideBody
<1>2. x # <<>> /\ Ahead(lost) = x \o Rest(m) BY <1>1, MoreToRead DEF Left
<1>3. whole => Complete(m, lost) BY DEF Reads
<1> QED BY <1>2, <1>3, AllThere

LEMMA BodyMissingReads ==
    ASSUME Types, NoGaps \/ Apart, fn # "deserialize", BodyMissing,
           NEW m \in 0..Len(feed), NEW lost \in Str, Reads(m, lost)
    PROVE  \E k \in 0..Len(feed), l \in Str : Reads(k, l)'
<1>1. /\ pc = "body" /\ Len(data) < max /\ NoByte(blocking) /\ wire = <<>>
      /\ UNCHANGED <<setup, port, hdr, data, skipped, got>> /\ pc' = "rest" /\ res' = FALSE
  BY DEF BodyMissing, NoByte
<1>2. PICK s : s = Ahead(lost) OBVIOUS
<1>3. PICK x \in Str : InsideBody(m, s, x) BY <1>1, <1>2, Inside
<1>4. m \in 1..Len(feed) /\ InBody(m, s) /\ Left(m, s, x) /\ m > 0 BY <1>3 DEF InsideBody
<1>5. Wanted BY <1>1 DEF Wanted
<1>6. LengthsOK /\ skipped = 0 /\ Len(data) \in Nat BY <1>1, <1>5, WantedTypes
<1>7. /\ feed' = feed /\ blocking' = blocking /\ Rest(m)' = Rest(m)
      /\ rest' = rest
      /\ Apart' <=> Apart
      /\ NoGaps' <=> NoGaps
  BY <1>1, SameFeed, SameLengths
<1>8. Stopped' <=> Stopped BY <1>1, <1>7 DEF Stopped, port
<1>9. NoGaps => Stopped
  <2> SUFFICES ASSUME NoGaps, ~Stopped PROVE FALSE OBVIOUS
  <2>1. ~whole BY <1>1, <1>2, <1>3, <1>5, NothingComes
  <2> QED BY <1>1, <2>1, NoGapsStops
<1>10. Left(m, s, x)'
  <2>1. s = x \o Rest(m)' BY <1>4, <1>7 DEF Left
  <2>2. ASSUME Apart PROVE NoS(x) /\ Len(x) >= ToRead'
    <3>1. NoS(x) /\ Len(x) >= len - Len(data) BY <1>1, <1>4, <2>2 DEF Left, ToRead
    <3>2. ToRead' = rest - 0 BY <1>1, <1>6, <1>7 DEF ToRead
    <3>3. len \in Nat /\ max \in Nat /\ rest = len - max BY <1>6 DEF LengthsOK
    <3>4. Len(x) \in Nat BY DEF Str
    <3> QED BY <1>1, <1>6, <3>1, <3>2, <3>3, <3>4
  <2> QED BY <1>1, <1>7, <1>8, <1>9, <2>1, <2>2 DEF Left
<1>11. Place(m, s)' BY <1>1, <1>4, <1>10 DEF Place, InBody
<1>12. Reads(m, lost)' BY <1>1, <1>2, <1>11, StayReads
<1> QED BY <1>12

LEMMA SkipByteReads ==
    ASSUME Types, NoGaps \/ Apart, fn # "deserialize", SkipByte,
           NEW m \in 0..Len(feed), NEW lost \in Str, Reads(m, lost)
    PROVE  \E k \in 0..Len(feed), l \in Str : Reads(k, l)'
<1>0. feed \in Seq(Part) BY TypesFeed
<1>1. /\ AtRest /\ skipped < rest /\ UNCHANGED <<setup, hdr, data, res, got>>
      /\ pc \in {"body", "rest"} /\ pc' = "rest" /\ skipped' = skipped + 1
      /\ Take \/ NoByte(blocking /\ fn = "scewl_recv")
  BY DEF SkipByte, AtRest
<1>2. PICK s : s = Ahead(lost) OBVIOUS
<1>3. PICK x \in Str : InsideBody(m, s, x) BY <1>1, <1>2, Inside
<1>4. m \in 1..Len(feed) /\ InBody(m, s) /\ Left(m, s, x) /\ m > 0 BY <1>3 DEF InsideBody
<1>5. Wanted BY <1>1 DEF Wanted
<1>6. /\ LengthsOK /\ ~MadeUp /\ skipped \in Nat /\ Len(data) \in Nat /\ ToRead \in Nat
      /\ (pc = "body" => skipped = 0)
  BY <1>5, WantedTypes
<1>7. len \in Nat /\ max \in Nat /\ max <= len /\ rest \in Nat /\ rest = len - max
  BY <1>6 DEF LengthsOK
<1>8. /\ feed' = feed /\ blocking' = blocking /\ Rest(m)' = Rest(m)
      /\ rest' = rest /\ max' = max
      /\ Apart' <=> Apart
      /\ NoGaps' <=> NoGaps
  BY <1>1, SameFeed, SameLengths
<1>9. ASSUME res PROVE Good(m) /\ Good(m)'
  <2>1. Good(m) BY <1>4, <1>6, <1>9 DEF InBody
  <2>2. Len(data) = max BY <1>1, <2>1 DEF AtRest, Good
  <2> QED BY <1>1, <1>8, <2>1, <2>2 DEF Good
<1>10. ToRead = rest - skipped /\ ToRead' = ToRead - 1
  <2>1. ToRead = rest - skipped
    <3>1. CASE pc = "body"
      <4>1. Len(data) = max /\ skipped = 0 BY <1>1, <1>6, <3>1 DEF AtRest
      <4> QED BY <1>7, <3>1, <4>1 DEF ToRead
    <3>2. CASE pc = "rest" BY <3>2 DEF ToRead
    <3> QED BY <1>1, <3>1, <3>2
  <2>2. ToRead' = rest - (skipped + 1) BY <1>1, <1>8 DEF ToRead
  <2> QED BY <1>6, <1>7, <2>1, <2>2
<1>11. CASE Take
  <2>1. ~Stopped BY <1>11, StoppedTake
  <2>2. x # <<>> /\ s = x \o Rest(m) BY <1>4, <1>5, <2>1, MoreToRead DEF Left
  <2>3. PICK y \in Str : /\ y = Tail(x) /\ Tail(s) = y \o Rest(m)
                         /\ Len(y) = Len(x) - 1 /\ Len(x) \in Nat
                         /\ (NoS(x) => NoS(y))
    <3>1. /\ byte = Head(x) /\ Tail(s) = Tail(x) \o Rest(m) /\ Tail(x) \in Str
          /\ Len(Tail(x)) = Len(x) - 1 /\ Len(x) \in Nat
          /\ (NoS(x) => NoS(Tail(x)))
      BY <1>2, <1>4, <1>11, <2>2, LeftTake
    <3> QED BY <3>1
  <2>4. PICK t : t = Tail(s) OBVIOUS
  <2>5. Left(m, t, y)'
    <3>1. t = y \o Rest(m)' BY <1>8, <2>3, <2>4
    <3>2. ASSUME Apart PROVE NoS(y) /\ Len(y) >= ToRead'
      <4>1. NoS(x) /\ Len(x) >= ToRead BY <1>4, <3>2 DEF Left
      <4> QED BY <1>6, <1>10, <2>3, <4>1
    <3>3. ASSUME NoGaps PROVE res' /\ y = Beyond(feed[m].body, Len(data) + skipped)'
      <4>1. res /\ x = Beyond(feed[m].body, Len(data) + skipped) BY <1>4, <2>1, <3>3 DEF Left
      <4>2. len = Len(feed[m].body) /\ Len(data) = max
        BY <1>1, <1>4, <1>9, <4>1, GoodLen DEF AtRest, Good
      <4>3. PICK b \in Str : b = feed[m].body /\ Len(b) = len BY <1>0, <1>4, <4>2, PartTyped
      <4>4. PICK k \in Nat : k = Len(data) + skipped /\ k < len BY <1>1, <1>6, <1>7, <4>2
      <4>5. Tail(x) = Beyond(b, k + 1) BY <4>1, <4>3, <4>4, BeyondStep DEF Str
      <4>6. Len(data') + skipped' = k + 1 BY <1>1, <1>6, <4>4
      <4> QED BY <1>1, <1>8, <2>3, <4>1, <4>3, <4>5, <4>6
    <3> QED BY <1>1, <1>8, <3>1, <3>2, <3>3 DEF Left
  <2>6. Place(m, t)' BY <1>1, <1>4, <1>9, <2>5 DEF Place, InBody
  <2>7. Done(m)' = Done(m) BY <1>1 DEF Done
  <2>8. pc' # "magicS" BY <1>1
  <2>9. Reads(m, lost)' BY <1>1, <1>2, <1>11, <2>4, <2>6, <2>7, <2>8, TakeReads
  <2> QED BY <2>9
<1>12. CASE NoByte(blocking /\ fn = "scewl_recv")
  <2>1. wire = <<>> /\ UNCHANGED port /\ (blocking /\ fn = "scewl_recv" => eof)
    BY <1>12 DEF NoByte
  <2>2. Stopped' <=> Stopped BY <1>8, <2>1 DEF Stopped, port
  <2>3. NoGaps => Stopped
    <3> SUFFICES ASSUME NoGaps, ~Stopped PROVE FALSE OBVIOUS
    <3>1. ~whole BY <1>2, <1>3, <1>5, <2>1, NothingComes
    <3>2. blocking /\ fn # "scewl_recv" /\ fits(feed[m])
      <4>1. m \in DOMAIN feed BY <1>0, <1>4
      <4> QED BY <2>1, <3>1, <4>1 DEF NoGaps, Stopped
    <3>3. Good(m) BY <1>4, <1>9 DEF Left
    <3>4. len = Len(feed[m].body) BY <1>4, <3>3, GoodLen
    <3>5. len <= n BY <3>2, <3>4 DEF fits
    <3>6. n \in Nat BY Constants
    <3>7. max = len
      <4>1. CASE len < n BY <4>1 DEF max
      <4>2. CASE ~(len < n)
        <5>1. len = n BY <1>7, <3>5, <3>6, <4>2
        <5> QED BY <4>2, <5>1 DEF max
      <4> QED BY <4>1, <4>2
    <3> QED BY <1>1, <1>6, <1>7, <3>7
  <2>4. Left(m, s, x)'
    <3>1. s = x \o Rest(m)' BY <1>4, <1>8 DEF Left
    <3>2. ASSUME Apart PROVE NoS(x) /\ Len(x) >= ToRead'
      <4>1. NoS(x) /\ Len(x) >= ToRead BY <1>4, <3>2 DEF Left
      <4>2. Len(x) \in Nat BY DEF Str
      <4> QED BY <1>6, <1>10, <4>1, <4>2
    <3> QED BY <1>1, <1>8, <2>2, <2>3, <3>1, <3>2 DEF Left
  <2>5. Place(m, s)' BY <1>1, <1>4, <1>9, <2>4 DEF Place, InBody
  <2>6. pc # "magicS" /\ pc' # "magicS" /\ (res' => res) BY <1>1
  <2>7. Reads(m, lost)' BY <1>1, <1>2, <2>1, <2>5, <2>6, StayReads
  <2> QED BY <2>7
<1> QED BY <1>1, <1>11, <1>12

-----------------------------------------------------------------------------
(* A call that returns.                                                    *)

LEMMA GenuineTyped == Types => Genuine \in Seq(Message) /\ got \in Seq(Message)
<1> SUFFICES ASSUME Types PROVE Genuine \in Seq(Message) /\ got \in Seq(Message) OBVIOUS
<1>1. got \in Seq(Message) BY DEF Types
<1>2. Select(got, Message \ {Empty}) \in Seq(Message) BY <1>1, SelectTyped
<1> QED BY <1>1, <1>2 DEF Genuine

\* One more message is returned: Genuine may pass it over, and does if nothing
\* was there to be returned.
LEMMA GenuineAppend ==
    ASSUME Types, UNCHANGED setup, NEW e \in Message, got' = Append(got, e)
    PROVE  /\ Genuine' = Append(Genuine, e) \/ Genuine' = Genuine
           /\ fn = "scewl_recv" /\ ~blocking /\ e = Empty => Genuine' = Genuine
           /\ fn # "scewl_recv" => Genuine' = Append(Genuine, e)
<1>1. got \in Seq(Message) BY DEF Types
<1>2. fn' = fn /\ blocking' = blocking BY SameFeed
<1>3. CASE fn = "scewl_recv" /\ ~blocking
  <2>1. PICK sel : sel = Select(got, Message \ {Empty}) OBVIOUS
  <2>2. Select(got', Message \ {Empty})
           = IF e \in Message \ {Empty} THEN Append(sel, e) ELSE sel
    BY <1>1, <2>1, SelectAppend
  <2>3. Genuine = sel /\ Genuine' = Select(got', Message \ {Empty})
    BY <1>2, <1>3, <2>1 DEF Genuine, Empty
  <2> QED BY <1>3, <2>2, <2>3
<1>4. CASE ~(fn = "scewl_recv" /\ ~blocking)
  <2>1. Genuine = got /\ Genuine' = got' BY <1>2, <1>4 DEF Genuine
  <2> QED BY <1>4, <2>1
<1> QED BY <1>3, <1>4

LEMMA OneMore ==
    ASSUME Types, UNCHANGED setup, NEW q \in Nat, NEW k,
           NEW f \in [DOMAIN Genuine -> 1..q], Embeds(f, Genuine),
           Genuine' = Append(Genuine, Expected[q + 1]) \/ Genuine' = Genuine,
           Done(k)' = q + 1
    PROVE  ReturnedSome(k)'
<1>1. PICK g \in Seq(Message) : g = Genuine BY GenuineTyped
<1>2. PICK c \in Nat : c = Len(g) /\ DOMAIN g = 1..c OBVIOUS
<1>3. Expected' = Expected BY SameFeed
<1>4. CASE Genuine' = Genuine
  <2>1. f \in [DOMAIN Genuine' -> 1..(q + 1)] BY <1>4
  <2>2. Embeds(f, Genuine)' BY <1>3, <1>4 DEF Embeds
  <2> QED BY <2>1, <2>2 DEF ReturnedSome
<1>5. CASE Genuine' = Append(Genuine, Expected[q + 1])
  <2>1. PICK t : t = Genuine' /\ t = Append(g, Expected[q + 1]) BY <1>1, <1>5
  <2>2. DOMAIN t = 1..(c + 1) /\ (\A i \in 1..c : t[i] = g[i]) /\ t[c + 1] = Expected[q + 1]
    BY <1>2, <2>1
  <2>3. PICK h : h = [i \in 1..(c + 1) |-> IF i <= c THEN f[i] ELSE q + 1] OBVIOUS
  <2>4. \A i \in 1..c : i \in 1..(c + 1) /\ h[i] = f[i] /\ f[i] \in 1..q BY <1>1, <1>2, <2>3
  <2>5. h[c + 1] = q + 1 BY <2>3
  <2>6. h \in [1..(c + 1) -> 1..(q + 1)]
    <3>1. ASSUME NEW i \in 1..(c + 1) PROVE h[i] \in 1..(q + 1)
      <4>1. CASE i \in 1..c BY <2>4, <4>1
      <4>2. CASE i = c + 1 BY <2>5, <4>2
      <4> QED BY <4>1, <4>2
    <3> QED BY <2>3, <3>1
  <2>7. \A i \in 1..c : /\ g[i] = Expected[f[i]]
                        /\ \A j \in 1..c : i < j => f[i] < f[j]
    BY <1>1, <1>2 DEF Embeds
  <2>8. ASSUME NEW i \in 1..(c + 1)
        PROVE  /\ t[i] = Expected[h[i]]
               /\ \A j \in 1..(c + 1) : i < j => h[i] < h[j]
    <3>1. CASE i = c + 1 BY <2>2, <2>5, <3>1
    <3>2. CASE i \in 1..c
      <4>1. t[i] = Expected[h[i]] BY <2>2, <2>4, <2>7, <3>2
      <4>2. ASSUME NEW j \in 1..(c + 1), i < j PROVE h[i] < h[j]
        <5>1. CASE j = c + 1
          <6>1. h[i] \in 1..q /\ h[j] = q + 1 BY <2>4, <2>5, <3>2, <5>1
          <6> QED BY <6>1
        <5>2. CASE j \in 1..c BY <2>4, <2>7, <3>2, <4>2, <5>2
        <5> QED BY <5>1, <5>2
      <4> QED BY <4>1, <4>2
    <3> QED BY <3>1, <3>2
  <2>9. Embeds(h, Genuine)' BY <1>3, <2>1, <2>2, <2>8 DEF Embeds
  <2>10. h \in [DOMAIN Genuine' -> 1..(q + 1)] BY <2>1, <2>2, <2>6
  <2> QED BY <2>9, <2>10 DEF ReturnedSome
<1> QED BY <1>4, <1>5

\* What read_msg and scewl_recv return of a message.
LEMMA ExpectedIs ==
    ASSUME Types, fn # "deserialize", NEW m \in 1..Len(feed), Good(m), Len(data) = max
    PROVE  [raw_hdr |-> <<>>, src |-> src, body |-> data] = Expected[m]
<1>0. feed \in Seq(Part) BY TypesFeed
<1>1. len = Len(feed[m].body) /\ src = feed[m].src BY GoodLen
<1>2. PICK b \in Str : b = feed[m].body BY <1>0, PartTyped
<1>3. data = Initial(b, max) BY <1>2 DEF Good
<1>4. Len(b) \in Nat /\ n \in Nat /\ len = Len(b) BY <1>1, <1>2, Constants DEF Str
<1>5. data = IF fits(feed[m]) THEN b ELSE SubSeq(b, 1, n)
  <2>1. CASE Len(b) < n
    <3>1. max = Len(b) /\ fits(feed[m]) BY <1>2, <1>4, <2>1 DEF max, fits
    <3> QED BY <1>3, <3>1, InitialEnds DEF Str
  <2>2. CASE Len(b) = n
    <3>1. max = Len(b) /\ fits(feed[m]) BY <1>2, <1>4, <2>2 DEF max, fits
    <3> QED BY <1>3, <3>1, InitialEnds DEF Str
  <2>3. CASE Len(b) > n
    <3>1. max = n /\ ~fits(feed[m]) BY <1>2, <1>4, <2>3 DEF max, fits
    <3> QED BY <1>3, <3>1 DEF Initial
  <2> QED BY <1>4, <2>1, <2>2, <2>3
<1>6. m \in DOMAIN feed BY <1>0
<1>7. Expected[m] = [raw_hdr |-> <<>>, src |-> feed[m].src,
                     body |-> IF fits(feed[m]) THEN b ELSE SubSeq(b, 1, n)]
  BY <1>2, <1>6 DEF Expected
<1> QED BY <1>1, <1>5, <1>7

\* The message in the buffer when a call returns it.
LEMMA ReturnedIs ==
    ASSUME Types, fn # "deserialize", Finish, res, NEW m \in 1..Len(feed), Good(m) \/ MadeUp
    PROVE  /\ [raw_hdr |-> <<>>, src |-> src, body |-> data] \in Message
           /\ got' = Append(got, [raw_hdr |-> <<>>, src |-> src, body |-> data])
           /\ \/ Good(m) /\ [raw_hdr |-> <<>>, src |-> src, body |-> data] = Expected[m]
              \/ MadeUp /\ [raw_hdr |-> <<>>, src |-> src, body |-> data] = Empty
<1>1. [raw_hdr |-> <<>>, src |-> src, body |-> data] \in Message
  <2>1. <<>> \in Seq(Byte) OBVIOUS
  <2> QED BY <2>1, Lengths DEF Types, TypeOK, Message, LengthsOK, Str
<1>2. CASE Good(m)
  <2>1. Len(data) = max BY <1>2 DEF Finish, AtRest, Good
  <2> QED BY <1>1, <1>2, <2>1, ExpectedIs DEF Finish
<1>3. CASE MadeUp
  <2>1. src = 0 /\ data = <<>> BY <1>3, MadeUpLen DEF MadeUp
  <2> QED BY <1>1, <1>3, <2>1 DEF Finish, Empty
<1> QED BY <1>2, <1>3

LEMMA FinishReturns ==
    ASSUME Types, fn # "deserialize", Finish,
           NEW m \in 0..Len(feed), NEW s, NEW x \in Str, InsideBody(m, s, x), Returned(m)
    PROVE  Returned(m)'
<1>0. feed \in Seq(Part) /\ Len(feed) \in Nat BY TypesFeed
<1>1. /\ pc \in {"body", "rest"} /\ pc # "magicS" /\ pc' = "magicS" /\ UNCHANGED setup
      /\ UNCHANGED port
  BY DEF Finish, AtRest, Return
<1>2. m \in 1..Len(feed) /\ InBody(m, s) /\ Left(m, s, x) BY DEF InsideBody
<1>3. PICK q \in Nat : q = m - 1 /\ m = q + 1 /\ m \in DOMAIN feed BY <1>0, <1>2
<1>4. Done(m) = q /\ Done(m)' = q + 1 BY <1>1, <1>3 DEF Done
<1>5. /\ feed' = feed /\ Expected' = Expected /\ blocking' = blocking
      /\ Apart' <=> Apart
      /\ NoGaps' <=> NoGaps
  BY <1>1, SameFeed
<1>6. Stopped' <=> Stopped BY <1>1, <1>5 DEF Stopped, port
<1>7. res => Good(m) \/ MadeUp BY <1>2 DEF InBody
<1>8. ~res => got' = got BY DEF Finish
<1>9. ASSUME NoGaps PROVE ReturnedAll(m)'
  <2>1. /\ \A i \in DOMAIN got : i \in DOMAIN feed /\ got[i] = Expected[i]
        /\ Len(got) = q \/ (Stopped /\ ~res)
    BY <1>1, <1>4, <1>9 DEF Returned, ReturnedAll
  <2>2. CASE ~res
    <3>1. Stopped BY <1>2, <1>9, <2>2 DEF Left
    <3> QED BY <1>1, <1>5, <1>6, <1>8, <2>1, <2>2, <3>1 DEF ReturnedAll
  <2>3. CASE res
    <3>1. Good(m) BY <1>7, <1>9, <2>3 DEF MadeUp
    <3>2. got' = Append(got, Expected[m])
      <4>1. ~MadeUp BY <1>9 DEF MadeUp
      <4> QED BY <1>2, <2>3, <3>1, <4>1, ReturnedIs
    <3>3. PICK g \in Seq(Message) : g = got BY GenuineTyped
    <3>4. Len(g) = q BY <2>1, <2>3, <3>3
    <3>5. PICK t : t = got' OBVIOUS
    <3>6. DOMAIN g = 1..q /\ DOMAIN t = 1..(q + 1) /\ Len(t) = q + 1
          /\ (\A i \in 1..q : t[i] = g[i]) /\ t[q + 1] = Expected[q + 1]
      BY <1>3, <3>2, <3>3, <3>4, <3>5
    <3>7. ASSUME NEW i \in 1..(q + 1) PROVE i \in DOMAIN feed /\ t[i] = Expected[i]
      <4>1. CASE i = q + 1 BY <1>3, <3>6, <4>1
      <4>2. CASE i \in 1..q BY <2>1, <3>3, <3>6, <4>2
      <4> QED BY <4>1, <4>2
    <3> QED BY <1>4, <1>5, <3>5, <3>6, <3>7 DEF ReturnedAll
  <2> QED BY <2>2, <2>3 DEF Types, TypeOK
<1>10. ASSUME Apart PROVE ReturnedSome(m)'
  <2>1. PICK f \in [DOMAIN Genuine -> 1..q] : Embeds(f, Genuine)
    BY <1>4, <1>10 DEF Returned, ReturnedSome
  <2>2. Genuine' = Append(Genuine, Expected[q + 1]) \/ Genuine' = Genuine
    <3>1. CASE ~res BY <1>5, <1>8, <3>1, SameFeed, <1>1 DEF Genuine
    <3>2. CASE res
      <4>1. PICK e \in Message : /\ got' = Append(got, e)
                                 /\ \/ e = Expected[m]
                                    \/ MadeUp /\ e = Empty
        BY <1>2, <1>7, <3>2, ReturnedIs
      <4>2. CASE e = Expected[m] BY <1>1, <1>3, <4>1, <4>2, GenuineAppend
      <4>3. CASE MadeUp /\ e = Empty BY <1>1, <4>1, <4>3, GenuineAppend DEF MadeUp
      <4> QED BY <4>1, <4>2, <4>3
    <3> QED BY <3>1, <3>2
  <2> QED BY <1>1, <1>4, <2>1, <2>2, OneMore
<1> QED BY <1>5, <1>9, <1>10 DEF Returned

LEMMA FinishReads ==
    ASSUME Types, QuietNoise, NoGaps \/ Apart, fn # "deserialize", Finish,
           NEW m \in 0..Len(feed), NEW lost \in Str, Reads(m, lost)
    PROVE  \E k \in 0..Len(feed), l \in Str : Reads(k, l)'
<1>0. feed \in Seq(Part) /\ Len(feed) \in Nat BY TypesFeed
<1>1. /\ pc \in {"body", "rest"} /\ pc' = "magicS" /\ AtRest /\ skipped = rest
      /\ UNCHANGED <<setup, port>>
  BY DEF Finish, AtRest, Return
<1>2. PICK s : s = Ahead(lost) OBVIOUS
<1>3. PICK x \in Str : InsideBody(m, s, x) BY <1>1, <1>2, Inside
<1>4. m \in 1..Len(feed) /\ InBody(m, s) /\ Left(m, s, x) /\ m > 0 BY <1>3 DEF InsideBody
<1>5. Returned(m)' BY <1>3, FinishReturns DEF Reads
<1>6. PICK none, r \in Str : none = <<>> /\ r = Rest(m) BY <1>0, <1>4, PartTyped, Joined
<1>7. /\ feed' = feed /\ whole' = whole /\ frames' = frames BY <1>1, SameFeed
<1>8. eof' = eof /\ wire' = wire /\ coming' = coming BY <1>1 DEF port
<1>9. ASSUME NEW l \in Str, InMagicS(m, Ahead(l)) PROVE Place(m, Ahead(l))'
  <2>1. PICK t : t = Ahead(l) /\ Ahead(l)' = t BY <1>1, AheadSame
  <2>2. InMagicS(m, t)' BY <1>1, <1>9, <2>1, SameSearch
  <2> QED BY <1>1, <2>1, <2>2 DEF Place
<1>10. CASE Stopped
  <2>1. eof /\ coming = <<>> /\ wire = <<>> BY <1>10 DEF Types, Stopped
  <2>2. Ahead(r) = none \o Rest(m) BY <1>6, <2>1, FlattenNothing, Joined DEF Ahead
  <2>3. InMagicS(m, none \o Rest(m)) BY <1>6, PastRest
  <2>4. Place(m, Ahead(r))' BY <1>9, <2>2, <2>3
  <2>5. Complete(m, r)'
    <3>1. FlattenSeq(coming') \o r = FlattenSeq(Beyond(frames', m))
      BY <1>6, <1>7, <1>8, <2>1, FlattenNothing, Joined DEF Rest
    <3>2. m \in m..Len(feed') BY <1>0, <1>4, <1>7
    <3> QED BY <1>8, <2>1, <3>1, <3>2 DEF Complete, Rest
  <2>6. Reads(m, r)' BY <1>5, <1>8, <2>1, <2>4, <2>5 DEF Reads
  <2> QED BY <2>6
<1>11. CASE ~Stopped
  <2>1. ASSUME NoGaps PROVE x = none
    <3>1. res /\ x = Beyond(feed[m].body, Len(data) + skipped) BY <1>4, <1>11, <2>1 DEF Left
    <3>2. Good(m) BY <1>4, <2>1, <3>1 DEF InBody, MadeUp
    <3>3. Len(data) = max /\ len = Len(feed[m].body) BY <1>1, <1>4, <3>2, GoodLen DEF AtRest, Good
    <3>4. LengthsOK BY Lengths DEF Types, TypeOK, Str
    <3>5. Len(data) + skipped = len BY <1>1, <3>3, <3>4 DEF LengthsOK
    <3>6. PICK b \in Str : b = feed[m].body /\ len = Len(b) BY <1>0, <1>4, <3>3, PartTyped
    <3>7. Beyond(b, Len(b)) = <<>> BY BeyondEnds DEF Str
    <3> QED BY <1>6, <3>1, <3>5, <3>6, <3>7
  <2>2. x = none \/ (NoS(x) /\ Apart) BY <1>4, <2>1 DEF Left
  <2>3. Ahead(lost) = x \o Rest(m) BY <1>2, <1>4 DEF Left
  <2>4. InMagicS(m, x \o Rest(m)) BY <1>6, <2>2, PastRest
  <2>5. Place(m, Ahead(lost))' BY <1>9, <2>3, <2>4
  <2>6. ASSUME whole PROVE Complete(m, lost)'
    <3>1. PICK j \in m..Len(feed) : /\ FlattenSeq(coming) \o lost = Rest(j)
                                    /\ ~eof => coming = Beyond(frames, j)
      BY <2>6 DEF Reads, Complete
    <3>2. ASSUME j = m PROVE wire = <<>>
      <4>1. x = <<>> BY <1>6, <2>1, <2>6 DEF NoGaps
      <4>2. Ahead(lost) = r BY <1>6, <2>3, <4>1, Joined
      <4>3. Len(r) = Len(wire) + Len(r) /\ wire \in Str
        BY <1>6, <3>1, <3>2, <4>2, AheadTyped
      <4>4. Len(r) \in Nat /\ Len(wire) \in Nat BY <4>3 DEF Str
      <4>5. Len(wire) = 0 BY <4>3, <4>4
      <4> QED BY <4>3, <4>5 DEF Str
    <3>3. /\ FlattenSeq(coming') \o lost = FlattenSeq(Beyond(frames', j))
          /\ ~eof' => coming' = Beyond(frames', j)
          /\ j = m => wire' = <<>>
      BY <1>7, <1>8, <3>1, <3>2 DEF Rest
    <3> QED BY <1>7, <3>3 DEF Complete, Rest
  <2>7. Reads(m, lost)' BY <1>5, <1>7, <1>8, <2>5, <2>6 DEF Reads
  <2> QED BY <2>7
<1> QED BY <1>10, <1>11

-----------------------------------------------------------------------------
(* The other end.                                                          *)

LEMMA PlaceLocals ==
    ASSUME UNCHANGED <<setup, pc, hdr, data, skipped, res>>, ~Stopped,
           NEW m, NEW s, Place(m, s)
    PROVE  Place(m, s)'
<1>1. /\ UNCHANGED setup /\ UNCHANGED <<pc, hdr, data, skipped, res>>
      /\ len' = len /\ max' = max /\ rest' = rest
  BY SameLengths
<1>2. /\ feed' = feed /\ fn' = fn /\ blocking' = blocking
      /\ NoGaps' <=> NoGaps
      /\ Apart' <=> Apart
      /\ Rest(m)' = Rest(m)
      /\ BodyOn(m)' = BodyOn(m)
  BY <1>1, SameFeed
<1>3. (InMagicS(m, s)' <=> InMagicS(m, s)) /\ (InMagicC(m, s)' <=> InMagicC(m, s))
  BY <1>1, SameSearch
<1>4. InHeader(m, s)' <=> InHeader(m, s) BY <1>1, <1>2 DEF InHeader
<1>5. Good(m)' <=> Good(m) BY <1>1, <1>2 DEF Good
<1>6. MadeUp' <=> MadeUp BY <1>1, <1>2 DEF MadeUp
<1>7. ToRead' = ToRead BY <1>1 DEF ToRead
<1>8. \A x : Left(m, s, x) => Left(m, s, x)' BY <1>1, <1>2, <1>5, <1>7 DEF Left
<1>9. InBody(m, s) => InBody(m, s)' BY <1>1, <1>5, <1>6, <1>8 DEF InBody
<1> QED BY <1>1, <1>3, <1>4, <1>9 DEF Place

LEMMA ReturnedLocals ==
    ASSUME UNCHANGED <<setup, pc, res, got>>, ~Stopped, NEW m \in Nat, Returned(m)
    PROVE  Returned(m)'
<1>1. Done(m)' = Done(m) /\ Done(m) \in Int BY DEF Done
<1>2. Done(m) <= Done(m)' BY <1>1
<1> QED BY <1>1, <1>2, ReturnsNothing

LEMMA ArriveReads ==
    ASSUME Types, Arrive, NEW m \in 0..Len(feed), NEW lost \in Str, Reads(m, lost)
    PROVE  \E k \in 0..Len(feed), l \in Str : Reads(k, l)'
<1>0. feed \in Seq(Part) /\ Len(feed) \in Nat /\ m \in Nat BY TypesFeed
<1>1. /\ coming # <<>> /\ wire' = wire \o Head(coming) /\ coming' = Tail(coming)
      /\ UNCHANGED <<setup, pc, hdr, data, skipped, res, got>> /\ eof' = eof
  BY DEF Arrive
<1>2. ~eof /\ lost = <<>> BY <1>1 DEF Types, Reads
<1>3. ~Stopped BY <1>2 DEF Stopped
<1>4. Ahead(lost)' = Ahead(lost)
  <2>1. coming \in Seq(Seq(Byte)) BY DEF Types, Str
  <2>2. Head(coming) \in Str /\ Tail(coming) \in Seq(Seq(Byte))
    BY <1>1, <2>1, HeadTailProperties DEF Str
  <2>3. FlattenSeq(Tail(coming)) \in Str BY <2>2, FlattenTyped DEF Str
  <2>4. PICK w, h, f \in Str : w = wire /\ h = Head(coming) /\ f = FlattenSeq(Tail(coming))
    BY <2>2, <2>3, AheadTyped
  <2>5. FlattenSeq(coming) = h \o f BY <1>1, <2>1, <2>4, FlattenHead
  <2>6. h \o f \in Str BY Joined
  <2>7. Ahead(lost) = w \o (h \o f) BY <1>2, <2>4, <2>5, <2>6, Joined DEF Ahead
  <2>8. Ahead(lost)' = (w \o h) \o f BY <1>1, <1>2, <2>4, Joined DEF Ahead
  <2>9. Strings(w, h, f) BY DEF Strings
  <2> QED BY <2>7, <2>8, <2>9, Regroup
<1>5. PICK s : s = Ahead(lost) /\ Ahead(lost)' = s BY <1>4
<1>6. Place(m, s)' BY <1>1, <1>3, <1>5, PlaceLocals DEF Reads
<1>7. Returned(m)' BY <1>0, <1>1, <1>3, ReturnedLocals DEF Reads
<1>8. /\ feed' = feed /\ whole' = whole /\ frames' = frames BY <1>1, SameFeed
<1>9. ASSUME whole PROVE Complete(m, lost)'
  <2>1. PICK j \in m..Len(feed) : coming = Beyond(frames, j)
    BY <1>2, <1>9 DEF Reads, Complete
  <2>2. frames \in Seq(Str) /\ Len(frames) = Len(feed) BY <1>0, FramesTyped
  <2>3. j \in Nat /\ j < Len(frames)
    <3>1. j # Len(frames) BY <1>1, <2>1, <2>2, BeyondEnds
    <3> QED BY <1>0, <2>2, <3>1
  <2>4. coming' = Beyond(frames, j + 1) BY <1>1, <2>1, <2>2, <2>3, BeyondStep
  <2>5. j + 1 \in m..Len(feed) /\ j + 1 # m BY <1>0, <2>2, <2>3
  <2>6. FlattenSeq(coming') \o lost = FlattenSeq(Beyond(frames', j + 1))
    <3>1. j + 1 \in 0..Len(feed) BY <1>0, <2>5
    <3>2. FlattenSeq(Beyond(frames, j + 1)) \in Str BY <1>0, <3>1, RestTyped DEF Rest
    <3> QED BY <1>2, <1>8, <2>4, <3>2, Joined
  <2> QED BY <1>8, <2>4, <2>5, <2>6 DEF Complete, Rest
<1>10. Reads(m, lost)' BY <1>1, <1>2, <1>5, <1>6, <1>7, <1>8, <1>9 DEF Reads
<1> QED BY <1>10

LEMMA HangUpReads ==
    ASSUME Types, HangUp, NEW m \in 0..Len(feed), NEW lost \in Str, Reads(m, lost)
    PROVE  \E k \in 0..Len(feed), l \in Str : Reads(k, l)'
<1>0. feed \in Seq(Part) /\ Len(feed) \in Nat /\ m \in Nat BY TypesFeed
<1>1. /\ ~eof /\ eof' = TRUE /\ coming' = <<>> /\ wire' = wire
      /\ UNCHANGED <<setup, pc, hdr, data, skipped, res, got>>
  BY DEF HangUp
<1>2. ~Stopped BY <1>1 DEF Stopped
<1>3. PICK l \in Str : l = FlattenSeq(coming) \o lost BY AheadTyped
<1>4. FlattenSeq(coming') \o l = l BY <1>1, FlattenNothing, Joined
<1>5. PICK s : s = Ahead(lost) /\ Ahead(l)' = s BY <1>1, <1>3, <1>4 DEF Ahead
<1>6. Place(m, s)' BY <1>1, <1>2, <1>5, PlaceLocals DEF Reads
<1>7. Returned(m)' BY <1>0, <1>1, <1>2, ReturnedLocals DEF Reads
<1>8. /\ feed' = feed /\ whole' = whole /\ frames' = frames BY <1>1, SameFeed
<1>9. ASSUME whole PROVE Complete(m, l)'
  <2>1. PICK j \in m..Len(feed) : /\ FlattenSeq(coming) \o lost = Rest(j)
                                  /\ pc = "magicS" /\ j = m => wire = <<>>
    BY <1>9 DEF Reads, Complete
  <2>2. FlattenSeq(coming') \o l = FlattenSeq(Beyond(frames', j))
    BY <1>3, <1>4, <1>8, <2>1 DEF Rest
  <2> QED BY <1>1, <1>8, <2>1, <2>2 DEF Complete, Rest
<1>10. Reads(m, l)' BY <1>1, <1>5, <1>6, <1>7, <1>8, <1>9 DEF Reads
<1> QED BY <1>10

-----------------------------------------------------------------------------
(* deserialize.                                                            *)

LEMMA Concatenated ==
    ASSUME NEW s \in Str, NEW t \in Str
    PROVE  /\ s \o t \in Str /\ Len(s) \in Nat /\ Len(t) \in Nat
           /\ Len(s \o t) = Len(s) + Len(t)
           /\ \A i \in 1..Len(s) : (s \o t)[i] = s[i]
           /\ \A i \in 1..Len(t) : (s \o t)[Len(s) + i] = t[i]
<1>1. /\ s \o t \in Str /\ Len(s \o t) = Len(s) + Len(t)
      /\ \A i \in 1..(Len(s) + Len(t)) :
            (s \o t)[i] = IF i <= Len(s) THEN s[i] ELSE t[i - Len(s)]
  BY ConcatProperties DEF Str
<1>2. Len(s) \in Nat /\ Len(t) \in Nat BY DEF Str
<1>3. \A i \in 1..Len(s) : (s \o t)[i] = s[i] BY <1>1, <1>2
<1>4. ASSUME NEW i \in 1..Len(t) PROVE (s \o t)[Len(s) + i] = t[i]
  <2>1. /\ Len(s) + i \in 1..(Len(s) + Len(t)) /\ ~(Len(s) + i <= Len(s))
        /\ (Len(s) + i) - Len(s) = i
    BY <1>2
  <2>2. (s \o t)[Len(s) + i] = IF Len(s) + i <= Len(s) THEN s[Len(s) + i] ELSE t[(Len(s) + i) - Len(s)]
    BY <1>1, <2>1
  <2> QED BY <2>1, <2>2
<1> QED BY <1>1, <1>2, <1>3, <1>4

LEMMA BeyondConcat ==
    ASSUME NEW s \in Str, NEW t \in Str, NEW k \in 0..Len(s)
    PROVE  Beyond(s \o t, k) = Beyond(s, k) \o t
<1>0. Len(s) \in Nat /\ Len(t) \in Nat /\ k \in Nat BY DEF Str
<1>1. PICK u \in Str : u = s \o t BY Joined
<1>2. /\ Len(u) = Len(s) + Len(t)
      /\ \A i \in 1..Len(s) : u[i] = s[i]
      /\ \A i \in 1..Len(t) : u[Len(s) + i] = t[i]
  BY <1>1, Concatenated
<1>3. PICK l : l = Beyond(u, k) OBVIOUS
<1>4. k \in 0..Len(u) BY <1>0, <1>2
<1>5. /\ l \in Str /\ Len(l) = Len(u) - k
      /\ \A i \in 1..(Len(u) - k) : l[i] = u[k + i]
  BY <1>3, <1>4, BeyondTyped DEF Str
<1>6. PICK d : d = Beyond(s, k) OBVIOUS
<1>7. d \in Str /\ Len(d) = Len(s) - k /\ \A i \in 1..(Len(s) - k) : d[i] = s[k + i]
  BY <1>6, BeyondTyped DEF Str
<1>8. PICK r : r = d \o t OBVIOUS
<1>9. /\ r \in Str /\ Len(r) = Len(d) + Len(t)
      /\ \A i \in 1..Len(d) : r[i] = d[i]
      /\ \A i \in 1..Len(t) : r[Len(d) + i] = t[i]
  BY <1>7, <1>8, Concatenated
<1>10. Len(l) = Len(r) BY <1>0, <1>2, <1>5, <1>7, <1>9
<1>11. ASSUME NEW i \in 1..Len(l) PROVE l[i] = r[i]
  <2>1. CASE i <= Len(d)
    <3>1. i \in 1..Len(d) /\ i \in 1..(Len(s) - k) /\ k + i \in 1..Len(s) /\ i \in 1..(Len(u) - k)
      BY <1>0, <1>2, <1>5, <1>7, <2>1
    <3> QED BY <1>2, <1>5, <1>7, <1>9, <3>1
  <2>2. CASE ~(i <= Len(d))
    <3>1. PICK j \in 1..Len(t) : j = i - Len(d) /\ i = Len(d) + j /\ k + i = Len(s) + j
      <4>1. /\ i - Len(d) \in 1..Len(t) /\ i = Len(d) + (i - Len(d))
            /\ k + i = Len(s) + (i - Len(d))
        BY <1>0, <1>2, <1>5, <1>7, <2>2
      <4> QED BY <4>1
    <3>2. r[i] = t[j] BY <1>9, <3>1
    <3>3. l[i] = u[k + i] BY <1>5
    <3>4. u[k + i] = t[j] BY <1>2, <3>1
    <3> QED BY <3>2, <3>3, <3>4
  <2> QED BY <2>1, <2>2
<1>12. l = r BY <1>5, <1>9, <1>10, <1>11, SeqEqual DEF Str
<1> QED BY <1>1, <1>3, <1>6, <1>8, <1>12

\* Of two strings at the front of one, the shorter is at the front of the other.
LEMMA SameFront ==
    ASSUME NEW a \in Str, NEW s \in Str, NEW b \in Str, NEW t \in Str,
           a \o s = b \o t, Len(b) <= Len(a)
    PROVE  /\ \A i \in 1..Len(b) : a[i] = b[i]
           /\ Beyond(a, Len(b)) \o s = t
<1>1. /\ Len(a) \in Nat /\ Len(b) \in Nat
      /\ \A i \in 1..Len(a) : (a \o s)[i] = a[i]
      /\ \A i \in 1..Len(b) : (b \o t)[i] = b[i]
  BY Concatenated
<1>2. \A i \in 1..Len(b) : a[i] = b[i] BY <1>1
<1>3. Len(b) \in 0..Len(a) /\ Len(b) \in 0..Len(b) BY <1>1
<1>4. Beyond(a \o s, Len(b)) = Beyond(a, Len(b)) \o s BY <1>3, BeyondConcat
<1>5. Beyond(b \o t, Len(b)) = Beyond(b, Len(b)) \o t BY <1>3, BeyondConcat
<1>6. Beyond(b, Len(b)) = <<>> BY BeyondEnds DEF Str
<1> QED BY <1>2, <1>4, <1>5, <1>6, Joined

LEMMA TwoOf ==
    ASSUME NEW s \in Str, NEW k \in 1..Len(s), k + 1 <= Len(s)
    PROVE  SubSeq(s, k, k + 1) = <<s[k], s[k + 1]>> /\ s[k] \in Byte /\ s[k + 1] \in Byte
<1>0. Len(s) \in Nat /\ k \in Nat BY DEF Str
<1>1. \A i \in k..(k + 1) : s[i] \in Byte
  <2>1. \A i \in k..(k + 1) : i \in 1..Len(s) BY <1>0
  <2> QED BY <2>1 DEF Str
<1>2. PICK u : u = SubSeq(s, k, k + 1) OBVIOUS
<1>3. /\ u \in Seq(Byte)
      /\ Len(u) = IF k <= k + 1 THEN (k + 1) - k + 1 ELSE 0
      /\ \A i \in 1..((k + 1) - k + 1) : u[i] = s[k + i - 1]
  BY <1>0, <1>1, <1>2, SubSeqProperties
<1>4. (k + 1) - k + 1 = 2 /\ k + 1 - 1 = k /\ k + 2 - 1 = k + 1 /\ k <= k + 1 BY <1>0
<1>5. Len(u) = 2 /\ 1 \in 1..2 /\ 2 \in 1..2 BY <1>3, <1>4
<1>6. u[1] = s[k] /\ u[2] = s[k + 1] BY <1>3, <1>4, <1>5
<1>7. PICK a, b \in Byte : a = s[k] /\ b = s[k + 1]
  <2>1. k \in k..(k + 1) /\ k + 1 \in k..(k + 1) BY <1>0
  <2> QED BY <1>1, <2>1
<1>8. u = <<a, b>> BY <1>3, <1>5, <1>6, <1>7, Pair
<1> QED BY <1>2, <1>7, <1>8

\* The noise starts no message, and no part of it that is left does.
LEMMA ClearBeyond ==
    ASSUME NEW p \in Part, NEW x, Clear(x, p), NEW k \in 0..Len(x)
    PROVE  Clear(Beyond(x, k), p) /\ Beyond(x, k) \in Str
<1>1. x \in Str /\ Len(x) \in Nat /\ k \in Nat /\ x \in Seq(Byte) BY DEF Clear, Str
<1>2. PICK t : t = Beyond(x, k) OBVIOUS
<1>3. t \in Str /\ Len(t) = Len(x) - k BY <1>1, <1>2, BeyondTyped DEF Str
<1>4. PICK g \in Str : g = p.ty /\ Len(g) = 2 BY MagicTyped DEF Str
<1>5. PICK y \in Str : y = x \o g BY <1>1, Joined
<1>6. PICK z \in Str : z = t \o g BY <1>3, Joined
<1>7. Len(y) = Len(x) + 2 /\ Len(z) = Len(t) + 2
  <2>1. Len(x \o g) = Len(x) + Len(g) BY <1>1, <1>4, Concatenated
  <2>2. Len(t \o g) = Len(t) + Len(g) BY <1>3, <1>4, Concatenated
  <2> QED BY <1>4, <1>5, <1>6, <2>1, <2>2
<1>8. z = Beyond(y, k) BY <1>1, <1>2, <1>5, <1>6, BeyondConcat
<1>9. ASSUME NEW i \in 1..Len(t)
      PROVE  SubSeq(z, i, i + 1) \notin {SCEWL_MAGIC, MITM_MAGIC}
  <2>1. /\ k + i \in 1..Len(x) /\ k + i \in 1..Len(y) /\ (k + i) + 1 <= Len(y)
        /\ i \in 1..Len(z) /\ i + 1 <= Len(z) /\ i + 1 \in 1..Len(z)
        /\ k \in 0..Len(y) /\ Len(z) = Len(y) - k /\ k + (i + 1) = (k + i) + 1
    BY <1>1, <1>3, <1>7
  <2>2. y \in Seq(Byte) BY DEF Str
  <2>3. \A j \in 1..(Len(y) - k) : z[j] = y[k + j] BY <1>8, <2>1, <2>2, BeyondTyped
  <2>4. z[i] = y[k + i] /\ z[i + 1] = y[(k + i) + 1]
    <3>1. i \in 1..(Len(y) - k) /\ i + 1 \in 1..(Len(y) - k) BY <2>1
    <3>2. z[i + 1] = y[k + (i + 1)] BY <2>3, <3>1
    <3> QED BY <2>1, <2>3, <3>1, <3>2
  <2>5. SubSeq(z, i, i + 1) = <<z[i], z[i + 1]>> BY <2>1, TwoOf
  <2>6. SubSeq(y, k + i, (k + i) + 1) = <<y[k + i], y[(k + i) + 1]>> BY <2>1, TwoOf
  <2>7. SubSeq(y, k + i, (k + i) + 1) \notin {SCEWL_MAGIC, MITM_MAGIC}
    <3>1. k + i \in DOMAIN x BY <1>1, <2>1
    <3> QED BY <1>4, <1>5, <3>1 DEF Clear
  <2> QED BY <2>4, <2>5, <2>6, <2>7
<1>10. DOMAIN t = 1..Len(t) BY <1>3 DEF Str
<1> QED BY <1>2, <1>3, <1>4, <1>6, <1>9, <1>10 DEF Clear

StopsFirst(s, i) == Stops(s, i) /\ \A k \in 1..(i - 1) : ~Stops(s, k)

\* w, and t that has not arrived yet, are x and a message.
Meets(w, t, x, p, r) == w \o t = x \o (<<ty1(p)>> \o (<<ty2(p)>> \o r))

\* A scan of w that stops at i has come as far as the message, or to what is not
\* yet there of it.
ScanMet(w, t, x, p, r, i) ==
    /\ i - 1 \in 0..Len(x)
    /\ Len(w) - i >= 2 => i - 1 = Len(x)
    /\ Beyond(w, i - 1) \o t = Beyond(x, i - 1) \o (<<ty1(p)>> \o (<<ty2(p)>> \o r))

\* The scan does not run past the next message, and finds nothing before it.
LEMMA ScanStops ==
    ASSUME NEW w \in Str, NEW t \in Str, NEW p \in Part, NEW x, Clear(x, p), NEW r \in Str,
           Meets(w, t, x, p, r), NEW i \in 1..Len(w), StopsFirst(w, i)
    PROVE  ScanMet(w, t, x, p, r, i)
<1>1. x \in Str /\ Len(x) \in Nat BY DEF Clear, Str
<1>2. PICK a, b \in Byte :
         /\ a = ty1(p) /\ b = ty2(p) /\ p.ty = <<a, b>> /\ <<a, b>> \in {SCEWL_MAGIC, MITM_MAGIC}
  BY MagicTyped
<1>3. PICK one, two \in Str : one = <<a>> /\ two = <<b>>
  <2>1. <<a>> \in Str /\ <<b>> \in Str BY DEF Str
  <2> QED BY <2>1
<1>4. PICK c \in Str : c = two \o r BY Joined
<1>5. PICK g \in Str : g = one \o c BY Joined
<1>6. PICK s : s = w \o t OBVIOUS
<1>7. s = x \o g BY <1>2, <1>3, <1>4, <1>5, <1>6 DEF Meets
<1>8. Stops(w, i) /\ \A k \in 1..(i - 1) : ~Stops(w, k) BY DEF StopsFirst
<1>9. Len(w) \in Nat /\ \A k \in 1..Len(w) : s[k] = w[k]
  <2>1. Len(w) \in Nat /\ \A k \in 1..Len(w) : (w \o t)[k] = w[k] BY Concatenated
  <2> QED BY <1>6, <2>1
<1>10. /\ \A k \in 1..Len(x) : s[k] = x[k]
       /\ \A k \in 1..Len(g) : s[Len(x) + k] = g[k]
  BY <1>1, <1>7, Concatenated
<1>11. Len(g) \in Nat /\ Len(g) >= 2 /\ g[1] = a /\ g[2] = b
  <2>1. Len(one) = 1 /\ one[1] = a /\ Len(two) = 1 /\ two[1] = b BY <1>3
  <2>2. c[1] = b /\ Len(c) = 1 + Len(r) /\ Len(r) \in Nat
    <3>1. 1 \in 1..Len(two) BY <2>1
    <3>2. /\ Len(two \o r) = Len(two) + Len(r) /\ Len(r) \in Nat
          /\ (two \o r)[1] = two[1]
      BY <3>1, Concatenated
    <3> QED BY <1>4, <2>1, <3>2
  <2>3. Len(g) = 1 + Len(c) /\ g[1] = one[1]
    <3>1. 1 \in 1..Len(one) BY <2>1
    <3>2. Len(one \o c) = Len(one) + Len(c) /\ (one \o c)[1] = one[1] BY <3>1, Concatenated
    <3> QED BY <1>5, <2>1, <3>2
  <2>4. g[2] = c[1]
    <3>1. 1 \in 1..Len(c) BY <2>2
    <3>2. g[Len(one) + 1] = c[1] BY <1>5, <3>1, Concatenated
    <3> QED BY <2>1, <3>2
  <2> QED BY <2>1, <2>2, <2>3, <2>4
<1>12. i - 1 \in 0..Len(x)
  <2> SUFFICES ASSUME ~(i - 1 <= Len(x)) PROVE FALSE BY <1>1, <1>9
  <2>1. PICK k \in 1..Len(w) : k = Len(x) + 1 BY <1>1, <1>9
  <2>2. k \in 1..(i - 1) BY <1>1, <1>9, <2>1
  <2>3. ~Stops(w, k) BY <1>8, <2>2
  <2>4. k + 1 <= Len(w) /\ k + 1 \in 1..Len(w) BY <1>9, <2>3 DEF Stops
  <2>5. SubSeq(w, k, k + 1) = <<w[k], w[k + 1]>> BY <2>4, TwoOf
  <2>6. w[k] = g[1] /\ w[k + 1] = g[2]
    <3>1. 1 \in 1..Len(g) /\ 2 \in 1..Len(g) /\ k + 1 = Len(x) + 2 BY <1>1, <1>11, <2>1
    <3> QED BY <1>9, <1>10, <2>1, <2>4, <3>1
  <2> QED BY <1>2, <1>11, <2>3, <2>5, <2>6 DEF Stops
<1>13. ASSUME Len(w) - i >= 2 PROVE i - 1 = Len(x)
  <2>1. i + 1 <= Len(w) /\ i + 1 \in 1..Len(w) BY <1>9, <1>13
  <2>2. SubSeq(w, i, i + 1) \in {SCEWL_MAGIC, MITM_MAGIC}
    <3>1. ~(Len(w) - i < 2) BY <1>9, <1>13
    <3> QED BY <1>8, <3>1 DEF Stops
  <2> SUFFICES ASSUME i - 1 # Len(x) PROVE FALSE OBVIOUS
  <2>3. i \in 1..Len(x) /\ i \in DOMAIN x BY <1>1, <1>12 DEF Str
  <2>4. PICK d \in Str : d = p.ty /\ Len(d) = 2 /\ d[1] = a BY <1>2, MagicTyped DEF Str
  <2>5. PICK y \in Str : y = x \o d BY <1>1, Joined
  <2>6. /\ Len(y) = Len(x) + 2
        /\ \A k \in 1..Len(x) : y[k] = x[k]
        /\ \A k \in 1..Len(d) : y[Len(x) + k] = d[k]
    <3>1. /\ Len(x \o d) = Len(x) + Len(d)
          /\ \A k \in 1..Len(x) : (x \o d)[k] = x[k]
          /\ \A k \in 1..Len(d) : (x \o d)[Len(x) + k] = d[k]
      BY <1>1, <2>4, Concatenated
    <3> QED BY <2>4, <2>5, <3>1
  <2>7. w[i] = y[i] BY <1>9, <1>10, <2>3, <2>6
  <2>8. w[i + 1] = y[i + 1]
    <3>1. CASE i + 1 <= Len(x)
      <4>1. i + 1 \in 1..Len(x) BY <1>1, <2>3, <3>1
      <4> QED BY <1>9, <1>10, <2>1, <2>6, <4>1
    <3>2. CASE ~(i + 1 <= Len(x))
      <4>1. i + 1 = Len(x) + 1 /\ 1 \in 1..Len(g) /\ 1 \in 1..Len(d)
        BY <1>1, <1>11, <2>3, <2>4, <3>2
      <4>2. w[i + 1] = g[1] BY <1>9, <1>10, <2>1, <4>1
      <4>3. y[i + 1] = d[1] BY <2>6, <4>1
      <4> QED BY <1>11, <2>4, <4>2, <4>3
    <3> QED BY <3>1, <3>2
  <2>9. SubSeq(w, i, i + 1) = <<w[i], w[i + 1]>> BY <2>1, TwoOf
  <2>10. SubSeq(y, i, i + 1) = <<y[i], y[i + 1]>>
    <3>1. i \in 1..Len(y) /\ i + 1 <= Len(y) BY <1>1, <2>3, <2>6
    <3> QED BY <3>1, TwoOf
  <2>11. SubSeq(y, i, i + 1) \notin {SCEWL_MAGIC, MITM_MAGIC} BY <2>3, <2>4, <2>5 DEF Clear
  <2> QED BY <2>2, <2>7, <2>8, <2>9, <2>10, <2>11
<1>14. Beyond(w, i - 1) \o t = Beyond(x, i - 1) \o g
  <2>1. i - 1 \in 0..Len(w) BY <1>9
  <2>2. Beyond(s, i - 1) = Beyond(w, i - 1) \o t
    <3>1. Beyond(w \o t, i - 1) = Beyond(w, i - 1) \o t BY <2>1, BeyondConcat
    <3> QED BY <1>6, <3>1
  <2>3. Beyond(s, i - 1) = Beyond(x, i - 1) \o g
    <3>1. Beyond(x \o g, i - 1) = Beyond(x, i - 1) \o g BY <1>1, <1>12, BeyondConcat
    <3> QED BY <1>7, <3>1
  <2> QED BY <2>2, <2>3
<1> QED BY <1>2, <1>3, <1>4, <1>5, <1>12, <1>13, <1>14 DEF ScanMet

\* A message that is there to its end is taken for what it is.
LEMMA WholeMessage ==
    ASSUME feed \in Seq(Part), NEW m \in 1..Len(feed),
           NEW buf \in Str, NEW t \in Str, buf \o t = MagicOn(m),
           Len(buf) >= 5, Len(buf) >= Size(buf)
    PROVE  /\ Size(buf) \in 0..Len(buf)
           /\ Beyond(buf, Size(buf)) \o t = Rest(m)
           /\ Unpacked(buf) = [raw_hdr |-> IF feed[m].ty = SCEWL_MAGIC THEN Header(feed[m]) ELSE <<>>,
                               src |-> feed[m].src, body |-> feed[m].body]
<1>1. PICK h, b, r, one, two \in Str : /\ h = HdrOf(feed[m]) /\ b = feed[m].body /\ r = Rest(m)
                                       /\ one = <<ty1(feed[m])>> /\ two = <<ty2(feed[m])>>
  BY PartTyped
<1>0. feed[m] \in Part OBVIOUS
<1>2. buf \o t = one \o (two \o (h \o (b \o r))) BY <1>1 DEF MagicOn, COn, BodyOn
<1>3. PICK y \in Str : y = two \o h BY Joined
<1>4. PICK p \in Str : p = one \o y BY Joined
<1>5. PICK z \in Str : z = p \o b BY Joined
<1>6. PICK d \in Str : d = b \o r BY Joined
<1>7. buf \o t = p \o d /\ buf \o t = z \o r
  <2>1. PICK v \in Str : v = h \o d BY Joined
  <2>2. Strings(two, h, d) /\ Strings(one, y, d) /\ Strings(p, b, r) BY DEF Strings
  <2>3. (two \o h) \o d = two \o (h \o d) BY <2>2, Regroup
  <2>4. (one \o y) \o d = one \o (y \o d) BY <2>2, Regroup
  <2>5. (p \o b) \o r = p \o (b \o r) BY <2>2, Regroup
  <2> QED BY <1>2, <1>3, <1>4, <1>5, <1>6, <2>3, <2>4, <2>5
<1>8. /\ Len(p) = 5 /\ p[1] = ty1(feed[m]) /\ p[2] = ty2(feed[m])
      /\ p[3] = h[1] /\ p[4] = h[2] /\ p[5] = h[3]
  <2>1. /\ Len(h) = 3 /\ Len(one) = 1 /\ Len(two) = 1
        /\ one[1] = ty1(feed[m]) /\ two[1] = ty2(feed[m])
    BY <1>1, PartTyped
  <2>2. Len(y) = 4 /\ y[1] = two[1] /\ y[2] = h[1] /\ y[3] = h[2] /\ y[4] = h[3]
    <3>1. /\ Len(two \o h) = Len(two) + Len(h)
          /\ \A i \in 1..Len(two) : (two \o h)[i] = two[i]
          /\ \A i \in 1..Len(h) : (two \o h)[Len(two) + i] = h[i]
      BY Concatenated
    <3> QED BY <1>3, <2>1, <3>1
  <2>3. /\ Len(one \o y) = Len(one) + Len(y)
        /\ \A i \in 1..Len(one) : (one \o y)[i] = one[i]
        /\ \A i \in 1..Len(y) : (one \o y)[Len(one) + i] = y[i]
    BY Concatenated
  <2> QED BY <1>4, <2>1, <2>2, <2>3
<1>9. \A i \in 1..Len(p) : buf[i] = p[i]
  <2>1. buf \o t = p \o d /\ Len(p) <= Len(buf) BY <1>7, <1>8
  <2> QED BY <2>1, SameFront
<1>10. h[1] = feed[m].src /\ h[2] + Base * h[3] = Len(b)
  BY <1>1, PartTyped, HeaderTyped
<1>11. buf[3] = h[1] /\ buf[4] = h[2] /\ buf[5] = h[3] BY <1>8, <1>9
<1>12. Len(b) \in Nat /\ h[2] \in Nat /\ Base * h[3] \in Nat
  <2>1. h[2] \in Byte /\ h[3] \in Byte BY <1>1, PartTyped, HeaderTyped
  <2>2. h[2] \in Nat /\ Base * h[3] \in Nat BY <2>1, Constants
  <2> QED BY <2>2 DEF Str
<1>13. Size(buf) = 5 + Len(b) BY <1>10, <1>11, <1>12 DEF Size
<1>14. Len(z) = 5 + Len(b) /\ \A i \in 1..Len(b) : z[5 + i] = b[i]
  <2>1. /\ Len(p \o b) = Len(p) + Len(b)
        /\ \A i \in 1..Len(b) : (p \o b)[Len(p) + i] = b[i]
    BY Concatenated
  <2> QED BY <1>5, <1>8, <2>1
<1>15. (\A i \in 1..Len(z) : buf[i] = z[i]) /\ Beyond(buf, Len(z)) \o t = r
  <2>1. Len(z) <= Len(buf) BY <1>13, <1>14
  <2>2. buf \o t = z \o r BY <1>7
  <2> QED BY <2>1, <2>2, SameFront
<1>16. SubSeq(buf, 6, Size(buf)) = b
  <2>1. PICK size \in Nat : size = 5 + Len(b) /\ size = Size(buf) BY <1>12, <1>13
  <2>2. PICK u : u = SubSeq(buf, 6, size) OBVIOUS
  <2>3. \A i \in 6..size : buf[i] \in Byte
    <3>1. size <= Len(buf) /\ Len(buf) \in Nat BY <2>1 DEF Str
    <3>2. \A i \in 6..size : i \in 1..Len(buf) BY <2>1, <3>1
    <3> QED BY <3>2 DEF Str
  <2>4. /\ u \in Seq(Byte)
        /\ Len(u) = IF 6 <= size THEN size - 6 + 1 ELSE 0
        /\ \A i \in 1..(size - 6 + 1) : u[i] = buf[6 + i - 1]
    BY <2>2, <2>3, SubSeqProperties
  <2>5. Len(u) = Len(b) BY <1>12, <2>1, <2>4
  <2>6. ASSUME NEW i \in 1..Len(u) PROVE u[i] = b[i]
    <3>1. i \in 1..(size - 6 + 1) /\ 6 + i - 1 = 5 + i /\ 5 + i \in 1..Len(z) /\ i \in 1..Len(b)
      BY <1>12, <1>14, <2>1, <2>5
    <3>2. u[i] = buf[5 + i] BY <2>4, <3>1
    <3>3. buf[5 + i] = z[5 + i] BY <1>15, <3>1
    <3> QED BY <1>14, <3>1, <3>2, <3>3
  <2>7. b \in Seq(Byte) BY DEF Str
  <2>8. u = b BY <2>4, <2>5, <2>6, <2>7, SeqEqual
  <2> QED BY <2>1, <2>2, <2>8
<1>17. SubSeq(buf, 1, 2) = feed[m].ty
  <2>1. Len(buf) \in Nat /\ 1 \in 1..Len(buf) /\ 1 + 1 <= Len(buf) /\ 1 + 1 = 2
        /\ 1 \in 1..Len(p) /\ 2 \in 1..Len(p)
    BY <1>8 DEF Str
  <2>2. SubSeq(buf, 1, 2) = <<buf[1], buf[2]>> BY <2>1, TwoOf
  <2>3. buf[1] = ty1(feed[m]) /\ buf[2] = ty2(feed[m]) BY <1>8, <1>9, <2>1
  <2> QED BY <1>0, <2>2, <2>3, MagicTyped
<1>18. SubSeq(buf, 1, 5) = Header(feed[m])
  <2>1. p = Header(feed[m]) BY <1>0, <1>1, <1>3, <1>4, FrameTyped
  <2>2. PICK u : u = Initial(buf, 5) OBVIOUS
  <2>3. u \in Seq(Byte) /\ Len(u) = 5 /\ \A i \in 1..5 : u[i] = buf[i]
    <3>1. buf \in Seq(Byte) /\ 5 \in 0..Len(buf) BY DEF Str
    <3> QED BY <2>2, <3>1, InitialTyped
  <2>4. p \in Seq(Byte) BY DEF Str
  <2>5. \A i \in 1..Len(u) : u[i] = p[i] BY <1>8, <1>9, <2>3
  <2>6. u = p BY <1>8, <2>3, <2>4, <2>5, SeqEqual
  <2> QED BY <2>1, <2>2, <2>6 DEF Initial
<1>19. RawHdr(buf) = IF feed[m].ty = SCEWL_MAGIC THEN Header(feed[m]) ELSE <<>>
  <2>1. feed[m].ty \in {SCEWL_MAGIC, MITM_MAGIC} BY <1>0, MagicTyped
  <2>2. SCEWL_MAGIC # MITM_MAGIC
    <3>1. <<S, C>>[1] = S /\ <<M, M>>[1] = M OBVIOUS
    <3> QED BY <3>1, Constants DEF SCEWL_MAGIC, MITM_MAGIC
  <2>3. CASE feed[m].ty = SCEWL_MAGIC BY <1>17, <1>18, <2>2, <2>3 DEF RawHdr
  <2>4. CASE feed[m].ty = MITM_MAGIC
    <3>1. RawHdr(buf) = <<>> BY <1>17, <2>4 DEF RawHdr
    <3>2. feed[m].ty # SCEWL_MAGIC BY <2>2, <2>4
    <3> QED BY <3>1, <3>2
  <2> QED BY <2>1, <2>3, <2>4
<1> QED
  <2>1. Size(buf) \in 0..Len(buf) /\ Size(buf) = Len(z) BY <1>12, <1>13, <1>14 DEF Str
  <2>2. buf[3] = feed[m].src BY <1>10, <1>11
  <2> QED BY <1>1, <1>15, <1>16, <1>19, <2>1, <2>2 DEF Unpacked

\* A message that deserialize returns is the next one.
LEMMA OneMoreReturned ==
    ASSUME Types, fn = "deserialize", pc = "magicS", UNCHANGED <<setup, pc>>,
           NEW m \in 0..Len(feed), m < Len(feed), Returned(m),
           NEW e \in Message, got' = Append(got, e), e = Expected[m + 1]
    PROVE  Returned(m + 1)'
<1>0. feed \in Seq(Part) /\ Len(feed) \in Nat BY TypesFeed
<1>1. m \in Nat /\ m + 1 \in DOMAIN feed /\ UNCHANGED setup BY <1>0
<1>2. Done(m) = m /\ Done(m + 1)' = m + 1 BY DEF Done
<1>3. /\ feed' = feed /\ Expected' = Expected
      /\ Apart' <=> Apart
      /\ NoGaps' <=> NoGaps
  BY <1>1, SameFeed
<1>4. ~Stopped BY DEF Types, Stopped
<1>5. NoGaps BY DEF NoGaps
<1>6. ReturnedAll(m + 1)'
  <2>1. (\A i \in DOMAIN got : i \in DOMAIN feed /\ got[i] = Expected[i]) /\ Len(got) = m
    BY <1>2, <1>4, <1>5 DEF Returned, ReturnedAll
  <2>2. PICK g \in Seq(Message) : g = got BY GenuineTyped
  <2>3. PICK t : t = got' OBVIOUS
  <2>4. Len(g) = m BY <2>1, <2>2
  <2>5. t = Append(g, e) BY <2>2, <2>3
  <2>6. DOMAIN g = 1..m /\ DOMAIN t = 1..(m + 1) /\ Len(t) = m + 1
        /\ (\A i \in 1..m : t[i] = g[i]) /\ t[m + 1] = e
    BY <1>1, <2>2, <2>4, <2>5
  <2>7. ASSUME NEW i \in 1..(m + 1) PROVE i \in DOMAIN feed /\ t[i] = Expected[i]
    <3>1. CASE i = m + 1 BY <1>1, <2>6, <3>1
    <3>2. CASE i \in 1..m BY <2>1, <2>2, <2>6, <3>2
    <3> QED BY <1>1, <3>1, <3>2
  <2> QED BY <1>2, <1>3, <2>3, <2>6, <2>7 DEF ReturnedAll
<1>7. ~Apart' BY <1>1, SameFeed DEF Apart
<1> QED BY <1>3, <1>6, <1>7 DEF Returned

LEMMA DeserializeReads ==
    ASSUME Types, QuietNoise, fn = "deserialize", Deserialize,
           NEW m \in 0..Len(feed), NEW lost \in Str, Reads(m, lost)
    PROVE  \E k \in 0..Len(feed), l \in Str : Reads(k, l)'
<1>0. feed \in Seq(Part) /\ Len(feed) \in Nat /\ m \in Nat BY TypesFeed
<1>1. /\ UNCHANGED <<setup, coming, eof, pc, hdr, data, skipped, res>>
      /\ UNCHANGED setup /\ coming' = coming /\ eof' = eof /\ pc' = pc
  BY DEF Deserialize
<1>2. pc = "magicS" /\ ~eof /\ lost = <<>> /\ ~Stopped
  <2>1. pc = "magicS" /\ ~eof BY DEF Types
  <2> QED BY <2>1 DEF Reads, Stopped
<1>3. PICK w, t \in Str : w = wire /\ t = FlattenSeq(coming) BY AheadTyped
<1>4. Ahead(lost) = w \o t BY <1>2, <1>3, Joined DEF Ahead
<1>5. w # <<>>
  <2> SUFFICES ASSUME w = <<>> PROVE FALSE OBVIOUS
  <2>1. Scanned(wire) = <<>> /\ wire = <<>> BY <1>3 DEF Scanned
  <2>2. ~(Len(<<>>) >= 5) OBVIOUS
  <2> QED BY <2>1, <2>2 DEF Deserialize
<1>6. PICK i \in 1..Len(w) : /\ Scanned(w) = Beyond(w, i - 1) /\ Stops(w, i)
                             /\ \A k \in 1..(i - 1) : ~Stops(w, k)
  BY <1>5, ScannedIs
<1>7. PICK buf : buf = Scanned(w) OBVIOUS
<1>8. /\ Len(w) \in Nat /\ i - 1 \in 0..Len(w) /\ buf \in Str
      /\ Len(buf) = Len(w) - (i - 1) /\ buf = Beyond(w, i - 1)
  <2>1. Len(w) \in Nat /\ i - 1 \in 0..Len(w) /\ w \in Seq(Byte) BY DEF Str
  <2>2. Beyond(w, i - 1) \in Seq(Byte) /\ Len(Beyond(w, i - 1)) = Len(w) - (i - 1)
    BY <2>1, BeyondTyped
  <2> QED BY <1>6, <1>7, <2>1, <2>2 DEF Str
<1>9. \/ /\ Len(buf) >= 5 /\ Len(buf) >= Size(buf)
         /\ got' = Append(got, Unpacked(buf)) /\ wire' = Beyond(buf, Size(buf))
      \/ /\ ~(Len(buf) >= 5 /\ Len(buf) >= Size(buf))
         /\ wire' = buf /\ got' = got
  BY <1>3, <1>7, DeserializeIs
<1>10. feed' = feed /\ whole' = whole /\ frames' = frames BY <1>1, SameFeed
<1>11. InMagicS(m, w \o t) /\ Returned(m) /\ (whole => Complete(m, lost))
  BY <1>2, <1>4 DEF Reads, Place
<1>12. ASSUME NEW k \in 0..Len(feed), InMagicS(k, wire' \o t), Returned(k)',
              whole => Complete(k, lost)'
       PROVE  \E p \in 0..Len(feed), l \in Str : Reads(p, l)'
  <2>1. PICK s : s = wire' \o t OBVIOUS
  <2>2. Ahead(lost)' = s BY <1>1, <1>2, <1>3, <2>1, Joined DEF Ahead
  <2>3. InMagicS(k, s)' BY <1>1, <1>12, <2>1, SameSearch
  <2>4. Place(k, s)' BY <1>1, <1>2, <2>3 DEF Place
  <2>5. Reads(k, lost)' BY <1>2, <1>10, <1>12, <2>2, <2>4 DEF Reads
  <2> QED BY <2>5
<1>13. ASSUME wire' = buf, got' = got, InMagicS(m, buf \o t)
       PROVE  \E p \in 0..Len(feed), l \in Str : Reads(p, l)'
  <2>1. Returned(m)' BY <1>0, <1>1, <1>2, <1>11, <1>13, ReturnedLocals
  <2>2. ASSUME whole PROVE Complete(m, lost)'
    <3>1. PICK j \in m..Len(feed) : /\ FlattenSeq(coming) \o lost = Rest(j)
                                    /\ ~eof => coming = Beyond(frames, j)
                                    /\ j # m
      BY <1>2, <1>3, <1>5, <1>11, <2>2 DEF Complete
    <3>2. /\ FlattenSeq(coming') \o lost = FlattenSeq(Beyond(frames', j))
          /\ ~eof' => coming' = Beyond(frames', j)
      BY <1>1, <1>10, <3>1 DEF Rest
    <3> QED BY <1>10, <3>1, <3>2 DEF Complete, Rest
  <2> QED BY <1>12, <1>13, <2>1, <2>2
<1>14. ASSUME m = Len(feed), w \o t = <<>> PROVE FALSE
  <2>1. Len(w \o t) = Len(w) + Len(t) /\ Len(t) \in Nat BY Concatenated
  <2>2. Len(<<>>) = 0 OBVIOUS
  <2>3. Len(w) = 0 BY <1>8, <1>14, <2>1, <2>2
  <2> QED BY <1>5, <2>3 DEF Str
<1>15. CASE m < Len(feed) /\ \E x \in Str : Before(x, feed[m + 1]) /\ w \o t = x \o MagicOn(m + 1)
  <2>1. PICK x \in Str : Clear(x, feed[m + 1]) /\ w \o t = x \o MagicOn(m + 1)
    BY <1>15 DEF Before
  <2>2. m + 1 \in 1..Len(feed) /\ m + 1 \in 0..Len(feed) BY <1>0, <1>15
  <2>3. PICK r \in Str : r = HdrOf(feed[m + 1]) \o BodyOn(m + 1) BY <1>0, <2>2, PartTyped
  <2>4. PICK p \in Part : p = feed[m + 1] BY <1>0, <2>2
  <2>9. MagicOn(m + 1) = <<ty1(p)>> \o (<<ty2(p)>> \o r) BY <2>3, <2>4 DEF MagicOn, COn
  <2>5. /\ i - 1 \in 0..Len(x)
        /\ Len(w) - i >= 2 => i - 1 = Len(x)
        /\ buf \o t = Beyond(x, i - 1) \o MagicOn(m + 1)
    <3>1. Meets(w, t, x, p, r) BY <2>1, <2>9 DEF Meets
    <3>2. StopsFirst(w, i) BY <1>6 DEF StopsFirst
    <3>3. Clear(x, p) BY <2>1, <2>4
    <3>4. ScanMet(w, t, x, p, r, i) BY <3>1, <3>2, <3>3, ScanStops
    <3> QED BY <1>8, <2>9, <3>4 DEF ScanMet
  <2>6. CASE /\ ~(Len(buf) >= 5 /\ Len(buf) >= Size(buf))
             /\ wire' = buf /\ got' = got
    <3>1. Clear(Beyond(x, i - 1), p) /\ Beyond(x, i - 1) \in Str
      BY <2>1, <2>4, <2>5, ClearBeyond
    <3>2. Before(Beyond(x, i - 1), feed[m + 1]) BY <2>4, <3>1 DEF Before
    <3>3. InMagicS(m, buf \o t) BY <1>15, <2>5, <3>1, <3>2 DEF InMagicS
    <3> QED BY <1>13, <2>6, <3>3
  <2>7. CASE /\ Len(buf) >= 5 /\ Len(buf) >= Size(buf)
             /\ got' = Append(got, Unpacked(buf)) /\ wire' = Beyond(buf, Size(buf))
    <3>1. i - 1 = Len(x) BY <1>8, <2>5, <2>7
    <3>2. buf \o t = MagicOn(m + 1)
      <4>1. Beyond(x, Len(x)) = <<>> BY BeyondEnds DEF Str
      <4>2. MagicOn(m + 1) \in Str BY <1>0, <2>2, PartTyped
      <4> QED BY <2>5, <3>1, <4>1, <4>2, Joined
    <3>3. /\ Beyond(buf, Size(buf)) \o t = Rest(m + 1)
          /\ Unpacked(buf) = [raw_hdr |-> IF p.ty = SCEWL_MAGIC THEN Header(p) ELSE <<>>,
                              src |-> p.src, body |-> p.body]
      BY <1>0, <1>8, <2>2, <2>4, <2>7, <3>2, WholeMessage
    <3>4. PICK e \in Message : e = Unpacked(buf) BY <1>8, <2>7, UnpackedTyped
    <3>5. e = Expected[m + 1]
      <4>1. m + 1 \in DOMAIN feed /\ fits(p) BY <1>0, <2>2 DEF fits
      <4> QED BY <2>4, <3>3, <3>4, <4>1 DEF Expected
    <3>6. got' = Append(got, e) BY <2>7, <3>4
    <3>7. Returned(m + 1)' BY <1>1, <1>2, <1>11, <1>15, <3>5, <3>6, OneMoreReturned
    <3>8. wire' \o t = Rest(m + 1) BY <2>7, <3>3
    <3>9. InMagicS(m + 1, wire' \o t)
      <4>1. PICK none, s \in Str : none = <<>> /\ s = Rest(m + 1)
        BY <1>0, <2>2, RestTyped, Joined
      <4>2. InMagicS(m + 1, none \o Rest(m + 1)) BY <2>2, <4>1, PastRest
      <4> QED BY <3>8, <4>1, <4>2, Joined
    <3>10. ASSUME whole PROVE Complete(m + 1, lost)'
      <4>1. PICK j \in m..Len(feed) : /\ FlattenSeq(coming) \o lost = Rest(j)
                                      /\ ~eof => coming = Beyond(frames, j)
                                      /\ j # m
        BY <1>2, <1>3, <1>5, <1>11, <3>10 DEF Complete
      <4>2. j \in (m + 1)..Len(feed) BY <1>0, <4>1
      <4>3. ASSUME j = m + 1 PROVE wire' = <<>>
        <5>1. t = Rest(m + 1) BY <1>2, <1>3, <4>1, <4>3, Joined
        <5>2. PICK v \in Str : v = wire'
          <6>1. wire' \in Str BY DeserializeTyped DEF Types, TypeOK, Str
          <6> QED BY <6>1
        <5>3. Len(v \o t) = Len(t) BY <3>8, <5>1, <5>2
        <5>4. Len(v \o t) = Len(v) + Len(t) /\ Len(v) \in Nat /\ Len(t) \in Nat
          BY Concatenated
        <5>5. Len(v) = 0 BY <5>3, <5>4
        <5> QED BY <5>2, <5>5 DEF Str
      <4>4. /\ FlattenSeq(coming') \o lost = FlattenSeq(Beyond(frames', j))
            /\ ~eof' => coming' = Beyond(frames', j)
        BY <1>1, <1>10, <4>1 DEF Rest
      <4> QED BY <1>10, <4>2, <4>3, <4>4 DEF Complete, Rest
    <3> QED BY <1>12, <2>2, <3>7, <3>9, <3>10
  <2> QED BY <1>9, <2>6, <2>7
<1> QED BY <1>11, <1>14, <1>15 DEF InMagicS

-----------------------------------------------------------------------------
(* The invariant, and what follows from it.                                *)

LEMMA InitReads ==
    ASSUME Types, Init, QuietNoise
    PROVE  \E m \in 0..Len(feed), lost \in Str : Reads(m, lost)
<1>0. feed \in Seq(Part) /\ Len(feed) \in Nat /\ 0 \in 0..Len(feed) BY TypesFeed
<1>1. /\ wire = <<>> /\ pc = "magicS" /\ got = <<>> /\ eof = FALSE
      /\ coming = IF whole THEN frames ELSE bytewise(FlattenSeq(frames))
  BY DEF Init
<1>2. frames \in Seq(Str) /\ Len(frames) \in Nat BY <1>0, FramesTyped
<1>3. Beyond(frames, 0) = frames BY <1>2, BeyondEnds
<1>4. PICK r, none \in Str : r = FlattenSeq(frames) /\ r = Rest(0) /\ none = <<>>
  BY <1>0, <1>3, RestTyped, Joined DEF Rest
<1>5. FlattenSeq(coming) = r
  <2>1. CASE whole BY <1>1, <1>4, <2>1
  <2>2. CASE ~whole
    <3>1. r \in Seq(Byte) BY DEF Str
    <3>2. FlattenSeq([i \in DOMAIN r |-> <<r[i]>>]) = r BY <3>1, FlattenSingles
    <3>3. FlattenSeq(bytewise(r)) = r BY <3>2 DEF bytewise
    <3> QED BY <1>1, <1>4, <2>2, <3>3
  <2> QED BY <2>1, <2>2
<1>6. Ahead(none) = none \o Rest(0) BY <1>1, <1>4, <1>5, Joined DEF Ahead
<1>7. InMagicS(0, none \o Rest(0)) BY <1>0, <1>4, PastRest
<1>8. Place(0, Ahead(none)) BY <1>1, <1>6, <1>7 DEF Place
<1>9. Returned(0)
  <2>1. Done(0) = 0 BY <1>1 DEF Done
  <2>2. Genuine = <<>> BY <1>1, SelectNothing DEF Genuine
  <2>3. ReturnedAll(0) BY <1>1, <2>1 DEF ReturnedAll
  <2>4. ReturnedSome(0)
    <3>1. [i \in {} |-> 0] \in [DOMAIN Genuine -> 1..Done(0)] BY <2>2
    <3>2. Embeds([i \in {} |-> 0], Genuine) BY <2>2 DEF Embeds
    <3> QED BY <3>1, <3>2 DEF ReturnedSome
  <2> QED BY <2>3, <2>4 DEF Returned
<1>10. whole => Complete(0, none)
  <2> SUFFICES ASSUME whole PROVE Complete(0, none) OBVIOUS
  <2>1. FlattenSeq(coming) \o none = Rest(0) BY <1>4, <1>5, Joined
  <2>2. coming = Beyond(frames, 0) BY <1>1, <1>3
  <2> QED BY <1>0, <1>1, <2>1, <2>2 DEF Complete
<1>11. Reads(0, none) BY <1>4, <1>8, <1>9, <1>10 DEF Reads
<1> QED BY <1>0, <1>11

LEMMA InitFollow == Init => Follow
BY InitTypes, InitReads DEF Follow

LEMMA NextFollow == Types /\ Follow /\ [Next]_vars => Follow'
<1> SUFFICES ASSUME Types, Follow, [Next]_vars PROVE Follow' OBVIOUS
<1>1. UNCHANGED setup
  BY DEF Next, vars, setup, Arrive, HangUp, Reader, FindS, FindC, FindNothing, ReadHeader,
         HeaderMissing, ReadBody, BodyMissing, SkipByte, Finish, Deserialize
<1>2. /\ feed' = feed
      /\ QuietNoise' <=> QuietNoise
      /\ NoGaps' <=> NoGaps
      /\ Apart' <=> Apart
  BY <1>1, SameFeed
<1> SUFFICES ASSUME QuietNoise, NoGaps \/ Apart
             PROVE  \E k \in 0..Len(feed), l \in Str : Reads(k, l)'
  BY <1>2 DEF Follow, Str
<1>3. PICK m \in 0..Len(feed), lost \in Str : Reads(m, lost) BY DEF Follow
<1>4. CASE UNCHANGED vars
  <2>1. Reads(m, lost)' BY <1>3, <1>4, StutterReads
  <2> QED BY <2>1
<1>5. CASE Arrive BY <1>3, <1>5, ArriveReads
<1>6. CASE HangUp BY <1>3, <1>6, HangUpReads
<1>7. CASE fn = "deserialize" /\ Deserialize BY <1>3, <1>7, DeserializeReads
<1>8. ASSUME fn \in {"read_msg", "scewl_recv"}
      PROVE  fn # "deserialize"
  BY <1>8
<1>9. CASE fn \in {"read_msg", "scewl_recv"} /\ FindS BY <1>3, <1>8, <1>9, FindSReads
<1>10. CASE fn \in {"read_msg", "scewl_recv"} /\ FindC BY <1>3, <1>8, <1>10, FindCReads
<1>11. CASE fn \in {"read_msg", "scewl_recv"} /\ FindNothing
  BY <1>3, <1>8, <1>11, FindNothingReads
<1>12. CASE fn \in {"read_msg", "scewl_recv"} /\ ReadHeader
  BY <1>3, <1>8, <1>12, ReadHeaderReads
<1>13. CASE fn \in {"read_msg", "scewl_recv"} /\ HeaderMissing
  BY <1>3, <1>8, <1>13, HeaderMissingReads
<1>14. CASE fn \in {"read_msg", "scewl_recv"} /\ ReadBody BY <1>3, <1>8, <1>14, ReadBodyReads
<1>15. CASE fn \in {"read_msg", "scewl_recv"} /\ BodyMissing
  BY <1>3, <1>8, <1>15, BodyMissingReads
<1>16. CASE fn \in {"read_msg", "scewl_recv"} /\ SkipByte BY <1>3, <1>8, <1>16, SkipByteReads
<1>17. CASE fn \in {"read_msg", "scewl_recv"} /\ Finish BY <1>3, <1>8, <1>17, FinishReads
<1> QED BY <1>4, <1>5, <1>6, <1>7, <1>9, <1>10, <1>11, <1>12, <1>13, <1>14, <1>15, <1>16, <1>17
        DEF Next, Reader

LEMMA SpecFollow == Spec => []Follow
BY InitFollow, NextFollow, SpecTypes, PTL DEF Spec

\* Without gaps every reader returns the messages that were written, in order,
\* each cut to the size of the caller's buffer: none is skipped, doubled or put
\* together from two, whatever bytes they hold and however many there are.
THEOREM InSyncAlways == Spec => []InSync
<1>1. ASSUME Types, Follow PROVE InSync
  <2> SUFFICES ASSUME QuietNoise, NoGaps PROVE IsPrefix(got, Expected) BY DEF InSync
  <2>1. PICK m \in 0..Len(feed), lost \in Str : Reads(m, lost) BY <1>1 DEF Follow
  <2>2. \A i \in DOMAIN got : i \in DOMAIN feed /\ got[i] = Expected[i]
    BY <2>1 DEF Reads, Returned, ReturnedAll
  <2>3. got \in Seq(Message) /\ feed \in Seq(Part) BY <1>1, GenuineTyped, TypesFeed
  <2>4. DOMAIN Expected = DOMAIN feed BY DEF Expected
  <2> QED BY <2>2, <2>3, <2>4 DEF IsPrefix
<1> QED BY <1>1, SpecTypes, SpecFollow, PTL

\* With gaps, as long as the magic's first byte is nowhere else, what a reader
\* returns are messages that were written, each at most once and in their
\* order; scewl_recv's empty message is all that it ever makes up.  deserialize
\* makes up nothing as long as the noise starts no message, with either magic.
THEOREM NothingIsMadeUp == Spec => []NothingMadeUp
<1>1. ASSUME Types, Follow PROVE NothingMadeUp
  <2> SUFFICES ASSUME IF fn = "deserialize" THEN QuietNoise ELSE SOnlyInMagic
               PROVE  \E f \in [DOMAIN Genuine -> DOMAIN feed] :
                          \A i \in DOMAIN Genuine :
                              /\ Genuine[i] = Expected[f[i]]
                              /\ \A j \in DOMAIN Genuine : i < j => f[i] < f[j]
    BY DEF NothingMadeUp
  <2>1. feed \in Seq(Part) /\ Len(feed) \in Nat BY <1>1, TypesFeed
  <2>2. QuietNoise
    <3>1. ASSUME fn # "deserialize", NEW p \in DOMAIN feed, NEW i \in DOMAIN feed[p].noise
          PROVE  feed[p].noise[i] # S
      BY <3>1 DEF SOnlyInMagic
    <3> QED BY <3>1 DEF QuietNoise
  <2>3. CASE fn # "deserialize"
    <3>1. Apart BY <2>3 DEF Apart
    <3>2. PICK m \in 0..Len(feed), lost \in Str : Reads(m, lost) BY <1>1, <2>2, <3>1 DEF Follow
    <3>3. PICK f \in [DOMAIN Genuine -> 1..Done(m)] : Embeds(f, Genuine)
      BY <3>1, <3>2 DEF Reads, Returned, ReturnedSome
    <3>4. 1..Done(m) \subseteq DOMAIN feed BY <2>1 DEF Done
    <3>5. f \in [DOMAIN Genuine -> DOMAIN feed] BY <3>3, <3>4
    <3> QED BY <3>3, <3>5 DEF Embeds
  <2>4. CASE fn = "deserialize"
    <3>1. NoGaps BY <2>4 DEF NoGaps
    <3>2. PICK m \in 0..Len(feed), lost \in Str : Reads(m, lost) BY <1>1, <2>2, <3>1 DEF Follow
    <3>3. \A i \in DOMAIN got : i \in DOMAIN feed /\ got[i] = Expected[i]
      BY <3>1, <3>2 DEF Reads, Returned, ReturnedAll
    <3>4. Genuine = got BY <2>4 DEF Genuine
    <3>5. PICK f : f = [i \in DOMAIN Genuine |-> i] OBVIOUS
    <3>6. f \in [DOMAIN Genuine -> DOMAIN feed] BY <3>3, <3>4, <3>5
    <3> QED BY <3>3, <3>4, <3>5, <3>6
  <2> QED BY <2>3, <2>4
<1> QED BY <1>1, SpecTypes, SpecFollow, PTL
=============================================================================
