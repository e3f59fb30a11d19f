---------------------------- MODULE StudioProofs ----------------------------
(***************************************************************************)
(* What TLAPS proves of Founder Studio, for any number of tabs and builds, *)
(* any questions and any words the model proposes, reads or asks.          *)
(*                                                                         *)
(* Three arguments.  A build's words: while no other run replaces it, the  *)
(* brief on disk is the one a run wrote, until it plans from it, and the   *)
(* plan on disk the one it saved or found, until it loads it to build; and *)
(* every plan carries one document twice.  A proposal's way into FDR.md: it is an answer of   *)
(* the thread, of a document, or of an open page that was rendered from    *)
(* one, and of each only after a yes.  The follow-ups: counted with the    *)
(* question that is open and with the requests that may still put one.     *)
(***************************************************************************)
EXTENDS Studio, TLAPS, FiniteSetTheorems, SequenceTheorems, NaturalsInduction,
        WellFoundedInduction

-----------------------------------------------------------------------------
(* Numbers and sequences.                                                  *)

LEMMA LeastNat ==
  ASSUME NEW S, S \subseteq Nat, S # {}
  PROVE  \E n \in S : \A m \in S : n <= m
<1>1. PICK n \in S : \A m \in S : <<m, n>> \notin OpToRel(<, Nat)
  BY NatLessThanWellFounded, WFMin
<1>2. ASSUME NEW m \in S PROVE n <= m
  <2>1. <<m, n>> \in Nat \X Nat /\ <<m, n>>[1] = m /\ <<m, n>>[2] = n
    OBVIOUS
  <2>2. ~ (<<m, n>>[1] < <<m, n>>[2])
    BY <1>1, <2>1 DEF OpToRel
  <2> QED
    BY <2>1, <2>2
<1> QED
  BY <1>2

\* Induction up to N, over a set of numbers.
LEMMA UpTo ==
  ASSUME NEW N \in Nat, NEW H, 0 \in H, \A n \in 1..N : n - 1 \in H => n \in H
  PROVE  \A n \in 0..N : n \in H
<1> DEFINE Bad == {n \in Nat : n <= N /\ n \notin H}
<1>1. Bad = {}
  <2> SUFFICES ASSUME Bad # {} PROVE FALSE
    OBVIOUS
  <2>1. PICK m \in Bad : \A l \in Bad : m <= l
    BY LeastNat
  <2>2. m \in Nat /\ m <= N /\ m \notin H /\ m # 0
    OBVIOUS
  <2>3. m \in 1..N /\ m - 1 \in Nat /\ m - 1 <= N /\ ~ (m <= m - 1)
    BY <2>2
  <2>4. m - 1 \in H
    BY <2>1, <2>3
  <2> QED
    BY <2>2, <2>3, <2>4
<1> QED
  BY <1>1

\* f starts at a and goes on by g, N times.
Follows(f, N, S, a, g) ==
  f \in [0..N -> S] /\ f[0] = a /\ \A n \in 1..N : f[n] = g[<<f[n - 1], n>>]

LEMMA StepsExist ==
  ASSUME NEW N \in Nat, NEW S, NEW a \in S, NEW g \in [S \X (1..N) -> S]
  PROVE  \E f : Follows(f, N, S, a, g)
<1> DEFINE Good(f, m) == f[0] = a /\ \A n \in 1..m : f[n] = g[<<f[n - 1], n>>]
           H == {m \in Nat : \E f \in [0..m -> S] : Good(f, m)}
<1>1. 0 \in H
  <2>1. [k \in 0..0 |-> a] \in [0..0 -> S] /\ Good([k \in 0..0 |-> a], 0)
    OBVIOUS
  <2> QED
    BY <2>1
<1>2. ASSUME NEW m \in 1..N, m - 1 \in H PROVE m \in H
  <2>1. PICK f \in [0..(m - 1) -> S] : Good(f, m - 1)
    BY <1>2
  <2> DEFINE h == [k \in 0..m |-> IF k = m THEN g[<<f[m - 1], m>>] ELSE f[k]]
  <2>2. m \in Nat /\ m - 1 \in 0..(m - 1) /\ \A k \in 0..m : k # m => k \in 0..(m - 1)
    OBVIOUS
  <2>3. g[<<f[m - 1], m>>] \in S
    BY <2>2
  <2>4. h \in [0..m -> S]
    BY <2>2, <2>3
  <2>5. h[0] = a
    BY <2>1
  <2>6. ASSUME NEW n \in 1..m PROVE h[n] = g[<<h[n - 1], n>>]
    <3>1. h[n - 1] = f[n - 1]
      OBVIOUS
    <3>2. CASE n = m
      BY <3>1, <3>2
    <3>3. CASE n # m
      <4>1. n \in 1..(m - 1) /\ h[n] = f[n]
        BY <3>3
      <4> QED
        BY <2>1, <3>1, <4>1
    <3> QED
      BY <3>2, <3>3
  <2>7. Good(h, m)
    BY <2>5, <2>6
  <2> HIDE DEF h, Good
  <2> QED
    BY <2>2, <2>4, <2>7
<1>3. N \in H
  <2> HIDE DEF H
  <2> QED
    BY <1>1, <1>2, UpTo
<1> QED
  BY <1>3 DEF Follows

LEMMA GreatestUpTo ==
  ASSUME NEW N \in Nat, NEW S, S \subseteq 1..N, S # {}
  PROVE  \E n \in S : \A m \in S : m <= n
<1> DEFINE T == {k \in Nat : N - k \in S}
<1>1. T # {}
  <2>1. PICK n \in S : TRUE
    OBVIOUS
  <2>2. N - n \in Nat /\ N - (N - n) = n
    BY <2>1
  <2> QED
    BY <2>1, <2>2
<1>2. PICK k \in T : \A l \in T : k <= l
  BY <1>1, LeastNat
<1>3. ASSUME NEW m \in S PROVE m <= N - k
  <2>1. N - m \in Nat /\ N - (N - m) = m
    OBVIOUS
  <2>2. N - m \in T
    BY <2>1
  <2>3. k <= N - m
    BY <1>2, <2>2
  <2> QED
    BY <2>3
<1> QED
  BY <1>2, <1>3

Flattens(ss, f) == f = [i \in 1..Len(ss) |-> IF i = 1 THEN ss[i] ELSE f[i - 1] \o ss[i]]

LEMMA FlattenType ==
  ASSUME NEW S, NEW ss \in Seq(Seq(S))
  PROVE  FlattenSeq(ss) \in Seq(S)
<1> DEFINE N == Len(ss)
           T == Seq(S)
           g == [p \in T \X (1..N) |-> p[1] \o ss[p[2]]]
           F == CHOOSE f : Flattens(ss, f)
<1>1. N \in Nat /\ <<>> \in T /\ (\A n \in 1..N : ss[n] \in T) /\ \A t \in T : <<>> \o t = t
  OBVIOUS
<1>2. g \in [T \X (1..N) -> T]
  <2>1. ASSUME NEW p \in T \X (1..N) PROVE g[p] \in T
    <3>1. p[1] \in Seq(S) /\ ss[p[2]] \in Seq(S)
      BY <1>1
    <3> QED
      BY <3>1, ConcatProperties
  <2> QED
    BY <2>1
<1>3. PICK h : Follows(h, N, T, <<>>, g)
  <2> HIDE DEF g, N, T
  <2> QED
    BY <1>1, <1>2, StepsExist
<1>4. ASSUME NEW n \in 1..N PROVE h[n] = h[n - 1] \o ss[n]
  <2>1. n - 1 \in 0..N
    BY <1>1
  <2>2. <<h[n - 1], n>> \in T \X (1..N)
    BY <1>3, <2>1 DEF Follows
  <2> QED
    BY <1>3, <2>2 DEF Follows
<1>5. Flattens(ss, [i \in 1..N |-> h[i]])
  <2> DEFINE hh == [i \in 1..N |-> h[i]]
  <2>1. ASSUME NEW i \in 1..N PROVE hh[i] = IF i = 1 THEN ss[i] ELSE hh[i - 1] \o ss[i]
    <3>1. CASE i = 1
      <4>1. i - 1 = 0 /\ h[0] = <<>> /\ ss[i] \in T
        BY <1>1, <1>3, <3>1 DEF Follows
      <4>2. h[i] = <<>> \o ss[i]
        BY <1>4, <4>1
      <4>3. h[i] = ss[i]
        BY <1>1, <4>1, <4>2
      <4> QED
        BY <3>1, <4>3
    <3>2. CASE i # 1
      <4>1. i - 1 \in 1..N
        BY <1>1, <3>2
      <4> QED
        BY <1>4, <3>2, <4>1
    <3> QED
      BY <3>1, <3>2
  <2>2. hh = [i \in 1..N |-> hh[i]]
    OBVIOUS
  <2> HIDE DEF hh
  <2>3. Flattens(ss, hh)
    BY <2>1, <2>2 DEF Flattens
  <2> QED
    BY <2>3 DEF hh
<1>6. Flattens(ss, F)
  BY <1>5
<1>7. FlattenSeq(ss) = IF N = 0 THEN ss ELSE F[N]
  BY DEF FlattenSeq, Flattens
<1> HIDE DEF F
<1> DEFINE body(f, i) == IF i = 1 THEN ss[i] ELSE f[i - 1] \o ss[i]
<1>8. F = [i \in 1..N |-> body(F, i)]
  BY <1>6 DEF Flattens
<1>9. \A i \in 1..N : F[i] = body(F, i)
  <2> HIDE DEF body
  <2> QED
    BY <1>8, Zenon
<1> DEFINE H == {n \in Nat : n = 0 \/ F[n] \in T}
<1>10. ASSUME NEW n \in 1..N, n - 1 \in H PROVE n \in H
  <2>1. n \in Nat /\ ss[n] \in Seq(S)
    BY <1>1
  <2>2. CASE n = 1
    BY <1>9, <2>1, <2>2
  <2>3. CASE n # 1
    <3>1. n - 1 # 0
      BY <2>1, <2>3
    <3>2. F[n - 1] \in Seq(S)
      BY <1>10, <3>1
    <3>3. F[n] = F[n - 1] \o ss[n]
      BY <1>9, <2>3
    <3>4. F[n] \in T
      BY <2>1, <3>2, <3>3, ConcatProperties
    <3> QED
      BY <2>1, <3>4
  <2> QED
    BY <2>2, <2>3
<1>11. N \in H
  <2>1. 0 \in H
    OBVIOUS
  <2>2. \A n \in 0..N : n \in H
    <3> HIDE DEF H, N
    <3> QED
      BY <1>1, <1>10, <2>1, UpTo
  <2> QED
    BY <1>1, <2>2
<1>12. CASE N = 0
  <2>1. ss = <<>>
    BY <1>12
  <2> QED
    BY <1>7, <1>12, <2>1
<1> QED
  BY <1>1, <1>7, <1>11, <1>12

-----------------------------------------------------------------------------
(* Turns and what a thread says.                                           *)

LEMMA TurnShapes ==
  /\ \A s \in Slots \cup {"open", "clarify"} : Asked(s) \in Turn
  /\ \A s \in Slots \cup {"open", "clarify"} : \A w \in Words : Answer(s, w) \in Turn
  /\ \A s \in Slots : \A w \in Proposals : Guess(s, w) \in Turn
  /\ \A x \in Turn : /\ x.slot \in Slots \cup {"open", "clarify"}
                     /\ x.role = "user" => x.words \in Words
                     /\ x.kind = "guess" => x.slot \in Slots /\ x.words \in Proposals
BY DEF Turn, Asked, Answer, Guess

LEMMA SaidShape ==
  ASSUME NEW s \in Slots \cup {"open", "clarify"}, NEW w \in Words
  PROVE  /\ Said(s, w) \in Seq(Turn) /\ Len(Said(s, w)) = 2
         /\ Said(s, w)[1].role = "assistant" /\ Said(s, w)[2].role = "user"
         /\ Said(s, w)[1].slot = s /\ Said(s, w)[2].slot = s /\ Said(s, w)[2].words = w
<1>1. /\ [role |-> "assistant", slot |-> s, kind |-> "said", words |-> "asked"] \in Turn
      /\ [role |-> "user", slot |-> s, kind |-> "said", words |-> w] \in Turn
  BY DEF Turn
<1> QED
  BY <1>1 DEF Said

LEMMA SlotNames == "open" \notin Slots /\ "clarify" \notin Slots
BY ChatAssumption

LEMMA WordNames ==
  /\ "typed" \notin Proposals /\ "skipped" \notin Proposals /\ "blank" \notin Proposals
  /\ Proposals \subseteq Words /\ "typed" \in Words /\ "skipped" \in Words
BY ChatAssumption DEF Words

LEMMA PairsInside ==
  ASSUME NEW turns \in Seq(Turn)
  PROVE  /\ Pairs(turns) \subseteq 1 .. Len(turns) /\ Len(turns) \in Nat
         /\ \A i \in Pairs(turns) : /\ i + 1 \in 1 .. Len(turns) /\ turns[i] \in Turn
                                    /\ turns[i + 1] \in Turn /\ turns[i + 1].role = "user"
BY DEF Pairs

LEMMA FollowUpsType ==
  ASSUME NEW turns \in Seq(Turn)
  PROVE  /\ IsFiniteSet({i \in Pairs(turns) : turns[i].slot = "clarify"})
         /\ FollowUps(turns) \in Nat /\ FollowUpsPut(turns) \in Nat
         /\ FollowUps(turns) <= FollowUpsPut(turns)
         /\ FollowUpsPut(turns) <= FollowUps(turns) + 1
<1> DEFINE F == {i \in Pairs(turns) : turns[i].slot = "clarify"}
<1>1. F \in SUBSET (1 .. Len(turns)) /\ Len(turns) \in Nat
  BY PairsInside
<1>2. IsFiniteSet(1 .. Len(turns))
  BY <1>1, FS_Interval
<1>3. IsFiniteSet(F)
  BY <1>1, <1>2, FS_Subset
<1>4. Cardinality(F) \in Nat
  BY <1>3, FS_CardinalityType
<1> QED
  BY <1>3, <1>4 DEF FollowUps, FollowUpsPut

LEMMA NothingPut ==
  /\ <<>> \in Seq(Turn) /\ FollowUpsPut(<<>>) = 0 /\ Accepted(<<>>) = {}
  /\ <<Asked("clarify")>> \in Seq(Turn) /\ FollowUpsPut(<<Asked("clarify")>>) <= 1
  /\ Accepted(<<Asked("clarify")>>) = {}
<1>1. /\ <<>> \in Seq(Turn) /\ <<Asked("clarify")>> \in Seq(Turn)
      /\ Len(<<Asked("clarify")>>) = 1 /\ Len(<<>>) = 0
  BY TurnShapes
<1>2. Pairs(<<>>) = {} /\ Pairs(<<Asked("clarify")>>) = {}
  BY <1>1 DEF Pairs
<1>3. ~ HasOpenQuestion(<<>>)
  BY DEF HasOpenQuestion
<1>4. FollowUps(<<>>) = 0 /\ FollowUps(<<Asked("clarify")>>) = 0
  <2>1. \A p : {i \in {} : p[i].slot = "clarify"} = {}
    OBVIOUS
  <2> QED
    BY <1>2, <2>1, FS_EmptySet DEF FollowUps
<1> QED
  BY <1>1, <1>2, <1>3, <1>4 DEF FollowUpsPut, Asking, Accepted

-----------------------------------------------------------------------------
(* How a thread grows.                                                     *)

\* The pairs of a longer thread: those it had, and some from its last turn on.
LEMMA PairsGrow ==
  ASSUME NEW turns \in Seq(Turn), NEW tail \in Seq(Turn)
  PROVE  /\ turns \o tail \in Seq(Turn) /\ Len(turns \o tail) = Len(turns) + Len(tail)
         /\ \A i \in 1 .. Len(turns) : (turns \o tail)[i] = turns[i]
         /\ \A j \in 1 .. Len(tail) : (turns \o tail)[Len(turns) + j] = tail[j]
         /\ \A i \in Pairs(turns \o tail) :
              \/ i \in Pairs(turns) /\ i + 1 \in 1 .. Len(turns)
              \/ i = Len(turns) /\ i # 0 /\ Len(tail) # 0
              \/ \E j \in 1 .. Len(tail) - 1 : i = Len(turns) + j
<1> DEFINE both == turns \o tail
<1>1. /\ both \in Seq(Turn) /\ Len(both) = Len(turns) + Len(tail)
      /\ \A i \in 1 .. Len(turns) + Len(tail) :
           both[i] = IF i <= Len(turns) THEN turns[i] ELSE tail[i - Len(turns)]
  BY ConcatProperties
<1>2. Len(turns) \in Nat /\ Len(tail) \in Nat
  OBVIOUS
<1>3. \A i \in 1 .. Len(turns) : both[i] = turns[i]
  BY <1>1, <1>2
<1>4. ASSUME NEW j \in 1 .. Len(tail) PROVE both[Len(turns) + j] = tail[j]
  <2>1. /\ Len(turns) + j \in 1 .. Len(turns) + Len(tail)
        /\ ~ (Len(turns) + j <= Len(turns)) /\ (Len(turns) + j) - Len(turns) = j
    BY <1>2
  <2> QED
    BY <1>1, <2>1
<1>5. ASSUME NEW i \in Pairs(both)
      PROVE  \/ i \in Pairs(turns) /\ i + 1 \in 1 .. Len(turns)
             \/ i = Len(turns) /\ i # 0 /\ Len(tail) # 0
             \/ \E j \in 1 .. Len(tail) - 1 : i = Len(turns) + j
  <2>1. /\ i \in 1 .. (Len(turns) + Len(tail)) - 1
        /\ both[i].role = "assistant" /\ both[i + 1].role = "user"
    BY <1>1 DEF Pairs
  <2>2. CASE i < Len(turns)
    <3>1. i \in 1 .. Len(turns) /\ i + 1 \in 1 .. Len(turns) /\ i \in 1 .. Len(turns) - 1
      BY <1>2, <2>1, <2>2
    <3> QED
      BY <1>3, <2>1, <3>1 DEF Pairs
  <2>3. CASE i = Len(turns)
    BY <1>2, <2>1, <2>3
  <2>4. CASE i > Len(turns)
    <3>1. i - Len(turns) \in 1 .. Len(tail) - 1 /\ i = Len(turns) + (i - Len(turns))
      BY <1>2, <2>1, <2>4
    <3> QED
      BY <3>1
  <2> QED
    BY <1>2, <2>1, <2>2, <2>3, <2>4
<1> QED
  BY <1>1, <1>3, <1>4, <1>5

\* An answer, or turns about the form, put no follow-up.
LEMMA NoFollowUpPut ==
  ASSUME NEW turns \in Seq(Turn), NEW tail \in Seq(Turn), tail # <<>>,
         \A j \in 1 .. Len(tail) - 1 : tail[j].slot # "clarify",
         tail[Len(tail)].role = "user" \/ tail[Len(tail)].slot # "clarify"
  PROVE  FollowUpsPut(turns \o tail) <= FollowUpsPut(turns)
<1> DEFINE both == turns \o tail
           F(s) == {i \in Pairs(s) : s[i].slot = "clarify"}
<1>1. /\ both \in Seq(Turn) /\ Len(both) = Len(turns) + Len(tail)
      /\ \A i \in 1 .. Len(turns) : both[i] = turns[i]
      /\ \A j \in 1 .. Len(tail) : both[Len(turns) + j] = tail[j]
  BY PairsGrow
<1>2. \A i \in Pairs(both) : \/ i \in Pairs(turns) /\ i + 1 \in 1 .. Len(turns)
                             \/ i = Len(turns) /\ i # 0 /\ Len(tail) # 0
                             \/ \E j \in 1 .. Len(tail) - 1 : i = Len(turns) + j
  BY PairsGrow
<1>3. Len(turns) \in Nat /\ Len(tail) \in Nat \ {0}
  BY EmptySeq
<1> SUFFICES FollowUpsPut(both) <= FollowUpsPut(turns)
  OBVIOUS
<1> HIDE DEF both
<1>4. ~ Asking(both)
  <2>1. both[Len(both)] = tail[Len(tail)]
    BY <1>1, <1>3
  <2> QED
    BY <2>1 DEF Asking, HasOpenQuestion, Last
<1>5. ASSUME NEW i \in F(both) PROVE i \in F(turns) \/ (i = Len(turns) /\ Asking(turns))
  <2>1. i \in Pairs(both) /\ both[i].slot = "clarify" /\ both[i].role = "assistant"
    BY DEF Pairs
  <2>2. CASE i \in Pairs(turns) /\ i + 1 \in 1 .. Len(turns)
    <3>1. i \in 1 .. Len(turns)
      BY <2>2, PairsInside
    <3>2. turns[i].slot = "clarify"
      BY <1>1, <2>1, <3>1
    <3> QED
      BY <2>2, <3>2
  <2>3. CASE i = Len(turns) /\ i # 0
    <3>1. i \in 1 .. Len(turns)
      BY <1>3, <2>3
    <3>2. turns[i] \in Turn /\ turns[i].slot = "clarify" /\ turns[i].role = "assistant"
      BY <1>1, <2>1, <3>1
    <3>3. turns[i].kind # "guess"
      BY <3>2, TurnShapes, SlotNames
    <3>4. turns # <<>>
      BY <1>3, <3>1
    <3> QED
      BY <2>3, <3>2, <3>3, <3>4 DEF Asking, HasOpenQuestion, Last
  <2>4. ASSUME NEW j \in 1 .. Len(tail) - 1, i = Len(turns) + j PROVE FALSE
    <3>1. j \in 1 .. Len(tail)
      BY <1>3
    <3>2. tail[j].slot = "clarify"
      BY <1>1, <2>1, <2>4, <3>1
    <3> QED
      BY <3>2
  <2> QED
    BY <1>2, <2>1, <2>2, <2>3, <2>4
<1>6. /\ IsFiniteSet(F(both)) /\ IsFiniteSet(F(turns))
      /\ Cardinality(F(both)) = FollowUps(both) /\ Cardinality(F(turns)) = FollowUps(turns)
      /\ FollowUps(both) \in Nat /\ FollowUps(turns) \in Nat
  BY <1>1, FollowUpsType DEF FollowUps
<1> HIDE DEF F
<1>7. CASE Asking(turns)
  <2> DEFINE G == F(turns) \cup {Len(turns)}
  <2>1. F(both) \in SUBSET G
    BY <1>5
  <2>2. /\ IsFiniteSet(G)
        /\ Cardinality(G) = IF Len(turns) \in F(turns) THEN FollowUps(turns)
                            ELSE FollowUps(turns) + 1
    BY <1>6, FS_AddElement
  <2>3. Cardinality(F(both)) <= Cardinality(G)
    BY <2>1, <2>2, FS_Subset
  <2>4. FollowUps(both) <= FollowUps(turns) + 1
    BY <1>6, <2>2, <2>3
  <2>5. FollowUpsPut(both) = FollowUps(both) + 0 /\ FollowUpsPut(turns) = FollowUps(turns) + 1
    BY <1>4, <1>7 DEF FollowUpsPut
  <2> QED
    BY <1>6, <2>4, <2>5
<1>8. CASE ~ Asking(turns)
  <2>1. F(both) \in SUBSET F(turns)
    BY <1>5, <1>8
  <2>2. Cardinality(F(both)) <= Cardinality(F(turns))
    BY <1>6, <2>1, FS_Subset
  <2>3. FollowUpsPut(both) = FollowUps(both) + 0 /\ FollowUpsPut(turns) = FollowUps(turns) + 0
    BY <1>4, <1>8 DEF FollowUpsPut
  <2> QED
    BY <1>6, <2>2, <2>3
<1> QED
  BY <1>7, <1>8

LEMMA OneTurn ==
  ASSUME NEW turns \in Seq(Turn), NEW x \in Turn
  PROVE  /\ Append(turns, x) = turns \o <<x>> /\ <<x>> \in Seq(Turn)
         /\ Len(<<x>>) = 1 /\ <<x>>[1] = x /\ <<x>> # <<>>
<1>1. Append(turns, x) = turns \o <<x>>
  BY AppendIsConcat
<1>2. <<x>> \in Seq(Turn) /\ Len(<<x>>) = 1 /\ <<x>>[1] = x /\ <<x>> # <<>>
  OBVIOUS
<1> QED
  BY <1>1, <1>2

\* One question is one follow-up at most, whatever was open.
LEMMA OneFollowUpPut ==
  ASSUME NEW turns \in Seq(Turn)
  PROVE  /\ Append(turns, Asked("clarify")) \in Seq(Turn)
         /\ FollowUpsPut(Append(turns, Asked("clarify"))) <= FollowUpsPut(turns) + 1
<1> DEFINE x == Asked("clarify")
           both == turns \o <<x>>
           F(s) == {i \in Pairs(s) : s[i].slot = "clarify"}
<1>1. x \in Turn /\ x.role = "assistant"
  BY TurnShapes DEF Asked
<1>2. Append(turns, x) = both /\ <<x>> \in Seq(Turn) /\ Len(<<x>>) = 1 /\ <<x>>[1] = x
  BY <1>1, OneTurn
<1> SUFFICES both \in Seq(Turn) /\ FollowUpsPut(both) <= FollowUpsPut(turns) + 1
  BY <1>2
<1> HIDE DEF x
<1>3. /\ both \in Seq(Turn) /\ Len(both) = Len(turns) + 1 /\ Len(turns) \in Nat
      /\ \A i \in 1 .. Len(turns) : both[i] = turns[i]
      /\ both[Len(turns) + 1] = x
      /\ \A i \in Pairs(both) : i \in Pairs(turns) \/ i = Len(turns)
  <2>1. 1 \in 1 .. 1 /\ 1 .. (1 - 1) = {}
    OBVIOUS
  <2> DEFINE tail == <<x>>
  <2>2. tail \in Seq(Turn) /\ Len(tail) = 1 /\ tail[1] = x
    BY <1>2
  <2> HIDE DEF tail
  <2>3. /\ turns \o tail \in Seq(Turn) /\ Len(turns \o tail) = Len(turns) + Len(tail)
        /\ \A i \in 1 .. Len(turns) : (turns \o tail)[i] = turns[i]
        /\ \A j \in 1 .. Len(tail) : (turns \o tail)[Len(turns) + j] = tail[j]
    BY <2>2, PairsGrow
  <2>4. \A i \in Pairs(turns \o tail) : \/ i \in Pairs(turns) \/ i = Len(turns)
                                       \/ \E j \in 1 .. Len(tail) - 1 : i = Len(turns) + j
    BY <2>2, PairsGrow
  <2>5. 1 .. Len(tail) - 1 = {} /\ Len(turns) \in Nat /\ 1 \in 1 .. Len(tail)
    BY <2>1, <2>2
  <2>6. (turns \o tail)[Len(turns) + 1] = x
    BY <2>2, <2>3, <2>5
  <2> QED
    BY <2>2, <2>3, <2>4, <2>5, <2>6 DEF tail
<1> HIDE DEF both
<1>4. F(both) \in SUBSET F(turns)
  <2>1. ASSUME NEW i \in Pairs(both) PROVE i # Len(turns)
    BY <1>1, <1>3 DEF Pairs
  <2>2. \A i \in Pairs(both) : i \in Pairs(turns) /\ i \in 1 .. Len(turns)
    BY <1>3, <2>1, PairsInside
  <2> QED
    BY <1>3, <2>2
<1>5. Cardinality(F(both)) <= Cardinality(F(turns))
  BY <1>4, FollowUpsType, FS_Subset
<1>6. FollowUps(both) <= FollowUps(turns)
  BY <1>5 DEF FollowUps
<1>7. /\ FollowUps(both) \in Nat /\ FollowUps(turns) \in Nat
      /\ FollowUpsPut(both) \in Nat /\ FollowUpsPut(turns) \in Nat
      /\ FollowUpsPut(both) <= FollowUps(both) + 1 /\ FollowUps(turns) <= FollowUpsPut(turns)
  BY <1>3, FollowUpsType
<1> QED
  BY <1>3, <1>6, <1>7

\* What a longer thread holds as answers: what it held, and what was answered
\* since with the question before it.
LEMMA AcceptedGrows ==
  ASSUME NEW turns \in Seq(Turn), NEW tail \in Seq(Turn), NEW X,
         \A j \in 1 .. Len(tail) : tail[j].role = "user" /\ tail[j].words \in Proposals =>
            j # 1 /\ <<tail[j - 1].slot, tail[j].words>> \in X
  PROVE  Accepted(turns \o tail) \subseteq Accepted(turns) \cup X
<1> DEFINE both == turns \o tail
<1>1. /\ both \in Seq(Turn) /\ Len(both) = Len(turns) + Len(tail)
      /\ \A i \in 1 .. Len(turns) : both[i] = turns[i]
      /\ \A j \in 1 .. Len(tail) : both[Len(turns) + j] = tail[j]
  BY PairsGrow
<1>2. \A i \in Pairs(both) : \/ i \in Pairs(turns) /\ i + 1 \in 1 .. Len(turns)
                             \/ i = Len(turns) /\ i # 0 /\ Len(tail) # 0
                             \/ \E j \in 1 .. Len(tail) - 1 : i = Len(turns) + j
  BY PairsGrow
<1>3. Len(turns) \in Nat /\ Len(tail) \in Nat
  OBVIOUS
<1> SUFFICES Accepted(both) \subseteq Accepted(turns) \cup X
  OBVIOUS
<1> HIDE DEF both
<1>4. SUFFICES ASSUME NEW i \in Pairs(both), both[i + 1].words \in Proposals
               PROVE  \/ i \in Pairs(turns) /\ both[i] = turns[i] /\ both[i + 1] = turns[i + 1]
                      \/ <<both[i].slot, both[i + 1].words>> \in X
  <2>1. ASSUME NEW p \in Accepted(both) PROVE p \in Accepted(turns) \cup X
    <3>1. PICK i \in Pairs(both) : p = <<both[i].slot, both[i + 1].words>>
      BY DEF Accepted
    <3>2. p \in Slots \X Proposals /\ both[i + 1].words \in Proposals
      BY <3>1 DEF Accepted
    <3> QED
      BY <1>4, <3>1, <3>2 DEF Accepted
  <2> QED
    BY <2>1
<1>5. both[i + 1].role = "user"
  BY DEF Pairs
<1>6. CASE i \in Pairs(turns) /\ i + 1 \in 1 .. Len(turns)
  <2>1. i \in 1 .. Len(turns)
    BY <1>6, PairsInside
  <2> QED
    BY <1>1, <1>6, <2>1
<1>7. CASE i = Len(turns) /\ Len(tail) # 0
  <2>1. 1 \in 1 .. Len(tail) /\ i + 1 = Len(turns) + 1
    BY <1>3, <1>7
  <2>2. both[i + 1] = tail[1]
    BY <1>1, <2>1
  <2> QED
    BY <1>4, <1>5, <2>1, <2>2
<1>8. ASSUME NEW j \in 1 .. Len(tail) - 1, i = Len(turns) + j
      PROVE  <<both[i].slot, both[i + 1].words>> \in X
  <2>1. j \in 1 .. Len(tail) /\ j + 1 \in 1 .. Len(tail) /\ i + 1 = Len(turns) + (j + 1)
        /\ (j + 1) - 1 = j
    BY <1>3, <1>8
  <2>2. both[i] = tail[j] /\ both[i + 1] = tail[j + 1]
    BY <1>1, <1>8, <2>1
  <2> QED
    BY <1>4, <1>5, <2>1, <2>2
<1> QED
  BY <1>2, <1>6, <1>7, <1>8

-----------------------------------------------------------------------------
(* The extraction.                                                         *)

\* What the extraction adds to a thread is about the form, and no answer in it
\* has words that are not the founder's.
FormTurn == {x \in Turn : x.slot \in Slots /\ (x.role = "user" => x.words = "typed")}

LEMMA ReadingShape ==
  ASSUME NEW reading \in Reading
  PROVE  /\ DOMAIN reading.said \subseteq Slots
         /\ \A s \in DOMAIN reading.said : reading.said[s] \in {"typed"} \cup Proposals
         /\ reading.guesses \in Seq([slot : Slots, words : Proposals])
         /\ SaidVerbatim(reading) \subseteq DOMAIN reading.said
         /\ \A s \in DOMAIN reading.said : s \notin SaidVerbatim(reading) =>
                                             reading.said[s] \in Proposals
<1>1. PICK S \in SUBSET Slots : reading.said \in [S -> {"typed"} \cup Proposals]
  BY DEF Reading
<1>2. reading.guesses \in Seq([slot : Slots, words : Proposals])
  BY DEF Reading
<1> QED
  BY <1>1, <1>2 DEF SaidVerbatim

LEMMA FormOrder ==
  /\ IntakeSlots \in Seq(Slots) /\ Len(IntakeSlots) \in Nat
  /\ DOMAIN IntakeSlots = 1 .. Len(IntakeSlots)
  /\ \A i \in DOMAIN IntakeSlots : IntakeSlots[i] \in Slots
BY ChatAssumption

LEMMA SaidTurnsType ==
  ASSUME NEW reading \in Reading
  PROVE  SaidTurns(reading) \in Seq(FormTurn)
<1> DEFINE e(i) == IF IntakeSlots[i] \in SaidVerbatim(reading)
                   THEN Said(IntakeSlots[i], reading.said[IntakeSlots[i]]) ELSE <<>>
           ss == [i \in DOMAIN IntakeSlots |-> e(i)]
<1>1. ASSUME NEW i \in DOMAIN IntakeSlots PROVE e(i) \in Seq(FormTurn)
  <2>1. CASE IntakeSlots[i] \in SaidVerbatim(reading)
    <3> DEFINE s == IntakeSlots[i]
               a == [role |-> "assistant", slot |-> s, kind |-> "said", words |-> "asked"]
               u == [role |-> "user", slot |-> s, kind |-> "said", words |-> reading.said[s]]
    <3>1. s \in Slots /\ reading.said[s] = "typed"
      BY <2>1, FormOrder DEF SaidVerbatim
    <3>2. a \in Turn /\ u \in Turn
      BY <3>1, WordNames DEF Turn
    <3>3. a \in FormTurn /\ u \in FormTurn
      BY <3>1, <3>2 DEF FormTurn
    <3>4. e(i) = <<a, u>>
      BY <2>1 DEF Said
    <3> HIDE DEF a, u, e
    <3> QED
      BY <3>3, <3>4
  <2>2. CASE IntakeSlots[i] \notin SaidVerbatim(reading)
    BY <2>2
  <2> QED
    BY <2>1, <2>2
<1>2. SaidTurns(reading) = FlattenSeq(ss)
  BY DEF SaidTurns
<1> HIDE DEF e
<1>3. ss \in Seq(Seq(FormTurn))
  BY <1>1, FormOrder
<1> QED
  BY <1>2, <1>3, FlattenType

LEMMA ProposedType ==
  ASSUME NEW reading \in Reading
  PROVE  Proposed(reading) \in Seq([slot : Slots, words : Proposals])
<1> DEFINE P == [slot : Slots, words : Proposals]
           d(i) == IF IntakeSlots[i] \in DOMAIN reading.said \ SaidVerbatim(reading)
                   THEN <<[slot |-> IntakeSlots[i], words |-> reading.said[IntakeSlots[i]]]>>
                   ELSE <<>>
           ds == [i \in DOMAIN IntakeSlots |-> d(i)]
           all == reading.guesses \o FlattenSeq(ds)
           e(i) == IF /\ all[i].slot \notin SaidVerbatim(reading)
                      /\ \A k \in 1 .. i - 1 : all[k].slot # all[i].slot
                   THEN <<all[i]>> ELSE <<>>
           es == [i \in DOMAIN all |-> e(i)]
           fresh == FlattenSeq(es)
           n == IF Len(fresh) < MaxGuesses THEN Len(fresh) ELSE MaxGuesses
<1>1. Proposed(reading) = SubSeq(fresh, 1, n)
  BY DEF Proposed
<1>2. ASSUME NEW i \in DOMAIN IntakeSlots PROVE d(i) \in Seq(P)
  <2>1. IntakeSlots[i] \in DOMAIN reading.said \ SaidVerbatim(reading) =>
          [slot |-> IntakeSlots[i], words |-> reading.said[IntakeSlots[i]]] \in P
    BY ReadingShape, FormOrder
  <2>2. CASE IntakeSlots[i] \in DOMAIN reading.said \ SaidVerbatim(reading)
    <3> DEFINE x == [slot |-> IntakeSlots[i], words |-> reading.said[IntakeSlots[i]]]
    <3>1. x \in P /\ d(i) = <<x>>
      BY <2>1, <2>2
    <3> HIDE DEF x, d, P
    <3> QED
      BY <3>1
  <2>3. CASE IntakeSlots[i] \notin DOMAIN reading.said \ SaidVerbatim(reading)
    <3>1. d(i) = <<>>
      BY <2>3
    <3> HIDE DEF d, P
    <3> QED
      BY <3>1
  <2> QED
    BY <2>2, <2>3
<1> HIDE DEF d, P
<1>3. ds \in Seq(Seq(P))
  BY <1>2, FormOrder
<1> HIDE DEF ds
<1>4. FlattenSeq(ds) \in Seq(P)
  BY <1>3, FlattenType
<1>5. reading.guesses \in Seq(P)
  BY ReadingShape DEF P
<1>6. all \in Seq(P)
  BY <1>4, <1>5, ConcatProperties
<1> HIDE DEF all
<1>7. DOMAIN all = 1 .. Len(all) /\ Len(all) \in Nat /\ \A i \in DOMAIN all : e(i) \in Seq(P)
  BY <1>6
<1> HIDE DEF e
<1>8. es \in Seq(Seq(P))
  BY <1>7
<1> HIDE DEF es
<1>9. fresh \in Seq(P)
  BY <1>8, FlattenType
<1> HIDE DEF fresh
<1>10. n \in Nat /\ n <= Len(fresh)
  BY <1>9, ChatAssumption
<1> HIDE DEF n
<1>11. \A i \in 1 .. n : fresh[i] \in P
  BY <1>9, <1>10
<1>12. SubSeq(fresh, 1, n) \in Seq(P)
  BY <1>10, <1>11, SubSeqProperties
<1> QED
  BY <1>1, <1>12 DEF P

LEMMA ExtractedGrows ==
  ASSUME NEW turns \in Seq(Turn), NEW reading \in Reading
  PROVE  \E tail \in Seq(FormTurn) : Extracted(turns, reading) = turns \o tail
<1> DEFINE g == Proposed(reading)
           gs == [i \in DOMAIN g |-> Guess(g[i].slot, g[i].words)]
           st == SaidTurns(reading)
<1>1. g \in Seq([slot : Slots, words : Proposals])
  BY ProposedType
<1> HIDE DEF g
<1>2. gs \in Seq(FormTurn)
  <2>1. DOMAIN g = 1 .. Len(g) /\ Len(g) \in Nat
    BY <1>1
  <2>2. ASSUME NEW i \in DOMAIN g PROVE Guess(g[i].slot, g[i].words) \in FormTurn
    <3>1. g[i] \in [slot : Slots, words : Proposals]
      BY <1>1, <2>1, ElementOfSeq
    <3>2. g[i].slot \in Slots /\ g[i].words \in Proposals
      BY <3>1
    <3> QED
      BY <3>2, TurnShapes DEF FormTurn, Guess
  <2> QED
    BY <2>1, <2>2
<1>3. st \in Seq(FormTurn)
  BY SaidTurnsType
<1>4. Extracted(turns, reading) = (turns \o st) \o gs
  BY DEF Extracted, g
<1> HIDE DEF gs, st
<1>5. FormTurn \subseteq Turn
  BY DEF FormTurn
<1>6. st \in Seq(Turn) /\ gs \in Seq(Turn)
  BY <1>2, <1>3, <1>5, SeqMonotonic
<1>7. (turns \o st) \o gs = turns \o (st \o gs)
  BY <1>6, ConcatAssociative
<1>8. st \o gs \in Seq(FormTurn)
  BY <1>2, <1>3, ConcatProperties
<1> QED
  BY <1>4, <1>7, <1>8

\* The extraction puts no follow-up and accepts no proposal.
LEMMA ExtractedIsHarmless ==
  ASSUME NEW turns \in Seq(Turn), NEW reading \in Reading
  PROVE  /\ Extracted(turns, reading) \in Seq(Turn)
         /\ FollowUpsPut(Extracted(turns, reading)) <= FollowUpsPut(turns)
         /\ Accepted(Extracted(turns, reading)) \subseteq Accepted(turns)
<1>1. PICK tail \in Seq(FormTurn) : Extracted(turns, reading) = turns \o tail
  BY ExtractedGrows
<1>2. tail \in Seq(Turn) /\ Len(tail) \in Nat
  BY SeqMonotonic DEF FormTurn
<1>3. \A j \in 1 .. Len(tail) : /\ tail[j].slot \in Slots
                                /\ tail[j].role = "user" => tail[j].words = "typed"
  BY ElementOfSeq DEF FormTurn
<1>4. turns \o tail \in Seq(Turn)
  BY <1>2, ConcatProperties
<1>5. FollowUpsPut(turns \o tail) <= FollowUpsPut(turns)
  <2>1. CASE tail = <<>>
    <3>1. turns \o tail = turns
      BY <2>1, ConcatEmptySeq
    <3>2. FollowUpsPut(turns) \in Nat
      BY FollowUpsType
    <3> QED
      BY <3>1, <3>2
  <2>2. CASE tail # <<>>
    <3>1. Len(tail) \in 1 .. Len(tail)
      BY <1>2, <2>2, EmptySeq
    <3>2. \A j \in 1 .. Len(tail) : tail[j].slot # "clarify"
      BY <1>3, SlotNames
    <3>3. /\ \A j \in 1 .. Len(tail) - 1 : tail[j].slot # "clarify"
          /\ tail[Len(tail)].slot # "clarify"
      BY <1>2, <3>1, <3>2
    <3> QED
      BY <1>2, <2>2, <3>3, NoFollowUpPut
  <2> QED
    BY <2>1, <2>2
<1>6. Accepted(turns \o tail) \subseteq Accepted(turns) \cup {}
  <2>1. \A j \in 1 .. Len(tail) : ~ (tail[j].role = "user" /\ tail[j].words \in Proposals)
    BY <1>3, WordNames
  <2> QED
    BY <1>2, <2>1, AcceptedGrows
<1> QED
  BY <1>1, <1>4, <1>5, <1>6

-----------------------------------------------------------------------------
(* Documents.                                                              *)

LEMMA SaysIsAnswered ==
  ASSUME NEW turns \in Seq(Turn), NEW s \in Slots \cup {"open"}
  PROVE  /\ Says(turns, s) \in Words \cup {"blank"}
         /\ s \in Slots /\ Says(turns, s) \in Proposals =>
              <<s, Says(turns, s)>> \in Accepted(turns)
<1> DEFINE given == {i \in Pairs(turns) : turns[i].slot = s}
           Right(i) == \A k \in given : IF s = "open" THEN i <= k ELSE k <= i
           one == CHOOSE i \in given : Right(i)
<1>1. CASE given = {}
  BY <1>1, WordNames DEF Says
<1>2. CASE given # {}
  <2>1. given \subseteq 1 .. Len(turns) /\ Len(turns) \in Nat
    BY PairsInside
  <2>2. \E i \in given : Right(i)
    <3>1. given \subseteq Nat
      BY <2>1
    <3>2. /\ \E i \in given : \A k \in given : i <= k
          /\ \E i \in given : \A k \in given : k <= i
      <4> HIDE DEF given
      <4> QED
        BY <1>2, <2>1, <3>1, LeastNat, GreatestUpTo
    <3> QED
      BY <3>2
  <2>3. one \in given
    BY <2>2
  <2>4. Says(turns, s) = turns[one + 1].words
    BY <1>2 DEF Says
  <2> HIDE DEF one
  <2>5. one \in Pairs(turns) /\ turns[one].slot = s
    BY <2>3
  <2>6. turns[one + 1] \in Turn /\ turns[one + 1].role = "user"
    BY <2>5, PairsInside
  <2>7. turns[one + 1].words \in Words
    BY <2>6, TurnShapes
  <2>8. s \in Slots /\ turns[one + 1].words \in Proposals =>
          <<s, turns[one + 1].words>> \in Accepted(turns)
    BY <2>5 DEF Accepted
  <2> QED
    BY <2>4, <2>7, <2>8
<1> QED
  BY <1>1, <1>2

\* A document holds a proposal that the one before it held, or the thread.
LEMMA ComposedFrom ==
  ASSUME NEW turns \in Seq(Turn), NEW base \in Doc \cup {NoDoc}
  PROVE  /\ Composed(turns, base) \in Doc
         /\ \A s \in Slots : Composed(turns, base).says[s] \in Proposals =>
              \/ base # NoDoc /\ Composed(turns, base).says[s] = base.says[s]
              \/ <<s, Composed(turns, base).says[s]>> \in Accepted(turns)
<1>1. FollowUps(turns) \in Nat
  BY FollowUpsType
<1>2. CASE base # NoDoc /\ ~ HasIntake(turns)
  <2> DEFINE d == [base EXCEPT !.follow = @ + FollowUps(turns)]
  <2>1. Composed(turns, base) = d
    BY <1>2 DEF Composed
  <2>2. base \in Doc
    BY <1>2
  <2>3. d \in Doc /\ d.says = base.says
    BY <1>1, <2>2 DEF Doc
  <2> QED
    BY <1>2, <2>1, <2>2, <2>3
<1>3. CASE ~ (base # NoDoc /\ ~ HasIntake(turns))
  <2> DEFINE says == [s \in Slots \cup {"open"} |-> Says(turns, s)]
             d == [text |-> "chat", follow |-> FollowUps(turns), says |-> says]
  <2>1. Composed(turns, base) = d
    BY <1>3 DEF Composed
  <2>2. says \in [Slots \cup {"open"} -> Words \cup {"blank"}]
    BY SaysIsAnswered
  <2> HIDE DEF says
  <2>3. d \in Doc /\ d.says = says
    BY <1>1, <2>2 DEF Doc
  <2>4. \A s \in Slots : says[s] = Says(turns, s)
    BY DEF says
  <2> QED
    BY <2>1, <2>3, <2>4, SaysIsAnswered
<1> QED
  BY <1>2, <1>3

LEMMA HandwrittenShape ==
  ASSUME NEW x \in Texts
  PROVE  Handwritten(x) \in Doc /\ \A s \in Slots : Handwritten(x).says[s] \notin Proposals
BY WordNames DEF Handwritten, Doc

-----------------------------------------------------------------------------
(* Types.                                                                  *)

Tab == [page : Page, at : Doing, text : Doc \cup {NoDoc}]

\* What a request may count on, by what it is about to do.
Ready(r, f) ==
  /\ r.at = "save" => r.page.kind \in {"form", "handoff", "conflict"}
  /\ r.at = "read" => f \in Doc
  /\ r.at \in {"discover", "summary"} => r.text \in Doc

\* And what a build may.
RunReady(r, br, p) ==
  /\ r.at \in {"discover", "confirm", "plan", "approve", "load", "build"} => r.text \in Doc
  /\ r.at \in {"plan", "build"} => r.plan \in Plan
  /\ r.at = "confirm" => br \in Brief
  /\ r.at \in {"approve", "load"} => p \in Plan

ThreadType == thread \in Seq(Turn)
DocTypes ==
  /\ fdr \in Doc \cup {NoDoc} /\ backup \in Doc \cup {NoDoc}
  /\ confirmation \in Doc \cup {NoDoc} /\ questions \in BOOLEAN
PlanTypes == brief \in Brief \cup {None} /\ plan \in Plan \cup {None}
FlagTypes ==
  /\ report \in BOOLEAN /\ thinking \in BOOLEAN /\ pid \in Builds \cup {NoBuild}
BoundTypes == clicks \in 0 .. MaxClicks /\ faults \in 0 .. MaxFaults
MarkTypes ==
  /\ agreed \subseteq Slots \X Proposals /\ overlaps \in Nat
  /\ unseen \in BOOLEAN /\ mixed \subseteq {"brief", "plan"}
TabTypes == tab \in [Tabs -> Tab] /\ \A t \in Tabs : Ready(tab[t], fdr)
RunTypes == /\ build \in [Builds -> Run \cup {Off}]
            /\ \A b \in Builds : RunReady(build[b], brief, plan)

Typed == /\ ThreadType /\ DocTypes /\ PlanTypes /\ FlagTypes /\ BoundTypes
         /\ MarkTypes /\ TabTypes /\ RunTypes

LEMMA TypedIsTypeOK == Typed => TypeOK
BY DEF Typed, TypeOK, ThreadType, DocTypes, PlanTypes, FlagTypes, BoundTypes, MarkTypes,
       TabTypes, RunTypes, Tab

LEMMA PageShapes ==
  /\ Blank \in Page /\ [kind |-> "question"] \in Page
  /\ [kind |-> "interrupted"] \in Page /\ [kind |-> "product"] \in Page
  /\ \A d \in Doc \cup {NoDoc} : [kind |-> "form", doc |-> d] \in Page
  /\ \A d \in Doc : /\ [kind |-> "handoff", doc |-> d] \in Page
                    /\ [kind |-> "confirm", doc |-> d] \in Page
  /\ \A d, m \in Doc : [kind |-> "conflict", doc |-> d, mine |-> m] \in Page
  /\ \A g \in Turn : [kind |-> "guess", guess |-> g] \in Page
BY DEF Page, Blank

LEMMA PageFields ==
  ASSUME NEW p \in Page
  PROVE  /\ p.kind = "form" => p.doc \in Doc \cup {NoDoc}
         /\ p.kind \in {"handoff", "confirm"} => p.doc \in Doc
         /\ p.kind = "conflict" => p.doc \in Doc /\ p.mine \in Doc
BY DEF Page

\* One tab changes.
Turns(t, r) == /\ r \in Tab /\ tab'[t] = r /\ tab' \in [Tabs -> Tab]
               /\ \A u \in Tabs \ {t} : tab'[u] = tab[u]

LEMMA ShowTurns ==
  ASSUME TabTypes, NEW t \in Tabs, NEW page \in Page, Show(t, page)
  PROVE  Turns(t, [page |-> page, at |-> "idle", text |-> NoDoc])
<1> DEFINE r == [page |-> page, at |-> "idle", text |-> NoDoc]
<1>1. r \in Tab
  BY DEF Tab, Doing
<1>2. tab' = [tab EXCEPT ![t] = r] /\ tab \in [Tabs -> Tab]
  BY DEF Show, TabTypes
<1> HIDE DEF r
<1>3. Turns(t, r)
  BY <1>1, <1>2 DEF Turns
<1> QED
  BY <1>3 DEF r

LEMMA GoesTurns ==
  ASSUME TabTypes, NEW t \in Tabs, NEW at \in Doing, Goes(t, at)
  PROVE  Turns(t, [tab[t] EXCEPT !.at = at])
<1> DEFINE r == [tab[t] EXCEPT !.at = at]
<1>1. tab \in [Tabs -> Tab] /\ tab[t] \in Tab
  BY DEF TabTypes
<1>2. r \in Tab
  BY <1>1 DEF Tab
<1>3. tab' = [tab EXCEPT ![t] = r]
  BY DEF Goes
<1> HIDE DEF r
<1>4. Turns(t, r)
  BY <1>1, <1>2, <1>3 DEF Turns
<1> QED
  BY <1>4 DEF r

LEMMA GoesFields ==
  ASSUME TabTypes, NEW t \in Tabs, NEW at
  PROVE  LET r == [tab[t] EXCEPT !.at = at]
         IN  r.at = at /\ r.page = tab[t].page /\ r.text = tab[t].text
<1>1. tab[t] \in Tab
  BY DEF TabTypes
<1> QED
  BY <1>1 DEF Tab

\* FDR.md is never removed.
FdrStays == fdr' = fdr \/ fdr' \in Doc

LEMMA TabTypesStep ==
  ASSUME TabTypes, NEW t \in Tabs, NEW r, Turns(t, r), Ready(r, fdr'), FdrStays
  PROVE  TabTypes'
<1>1. ASSUME NEW u \in Tabs PROVE Ready(tab'[u], fdr')
  <2>1. CASE u = t
    BY <2>1 DEF Turns
  <2>2. CASE u # t
    <3>1. tab'[u] = tab[u] /\ Ready(tab[u], fdr)
      BY <2>2 DEF Turns, TabTypes
    <3> QED
      BY <3>1 DEF Ready, FdrStays
  <2> QED
    BY <2>1, <2>2
<1>2. tab' \in [Tabs -> Tab]
  BY DEF Turns
<1> QED
  BY <1>1, <1>2 DEF TabTypes

-----------------------------------------------------------------------------
(* What the chat page and the handoff do.                                  *)

\* What the open pages may submit.
ChatPages == [kind : {"question"}] \cup [kind : {"guess"}, guess : Turn]

\* The thread the page is about.
Kept(turns, kept) ==
  /\ kept \in Seq(Turn)
  /\ \/ kept = turns
     \/ kept = <<>>
     \/ kept = <<Asked("clarify")>>

\* And the thread it leaves.
AndAsked(kept) == {kept} \cup {Append(kept, Asked(s)) : s \in Slots \cup {"open"}}

Renders(t, kept) ==
  /\ thread' \in AndAsked(kept) /\ UNCHANGED docs
  /\ \E page \in ChatPages \cup {[kind |-> "form", doc |-> fdr]} : Show(t, page)

Passes(t, kept) ==
  /\ thread' = kept
  /\ ~ HasOpenQuestion(kept)
  /\ IF RoundsUsed(kept) >= MaxRounds THEN HandsOff(t, kept)
     ELSE Goes(t, "assess") /\ UNCHANGED docs

LEMMA ChatPageDoes ==
  ASSUME NEW t \in Tabs, NEW turns \in Seq(Turn), NEW start \in BOOLEAN,
         ChatPage(t, turns, start)
  PROVE  \E kept : Kept(turns, kept) /\ (Renders(t, kept) \/ Passes(t, kept))
<1> DEFINE fresh == Pairs(turns) = {} /\ fdr # NoDoc
           kept == IF ~ fresh THEN turns
                   ELSE IF questions /\ ~ start THEN <<Asked("clarify")>> ELSE <<>>
           offered == fresh /\ ~ questions /\ ~ start
           asked == ~ offered /\ HasOpenQuestion(kept)
           guess == IF offered \/ asked THEN {} ELSE PendingGuess(kept)
           next == IF offered \/ asked \/ guess # {} THEN {} ELSE NextQuestionSlot(kept)
<1>1. Kept(turns, kept)
  <2>1. <<Asked("clarify")>> \in Seq(Turn) /\ <<>> \in Seq(Turn)
    BY NothingPut
  <2> QED
    BY <2>1 DEF Kept
<1>2. \/ /\ offered
         /\ thread' = kept /\ Show(t, [kind |-> "form", doc |-> fdr]) /\ UNCHANGED docs
      \/ /\ asked
         /\ thread' = kept /\ Show(t, [kind |-> "question"]) /\ UNCHANGED docs
      \/ \E g \in guess :
            thread' = kept /\ Show(t, [kind |-> "guess", guess |-> g]) /\ UNCHANGED docs
      \/ \E slot \in next :
            /\ thread' = Append(kept, Asked(slot))
            /\ Show(t, [kind |-> "question"]) /\ UNCHANGED docs
      \/ /\ ~ offered /\ ~ asked /\ guess = {} /\ next = {}
         /\ thread' = kept
         /\ IF RoundsUsed(kept) >= MaxRounds THEN HandsOff(t, kept)
            ELSE Goes(t, "assess") /\ UNCHANGED docs
  BY DEF ChatPage
<1>3. \A g \in guess : g \in Turn
  <2>1. \A g \in PendingGuess(kept) : g \in Turn
    <3> HIDE DEF kept
    <3>1. kept \in Seq(Turn) /\ DOMAIN kept = 1 .. Len(kept)
      BY <1>1 DEF Kept
    <3> QED
      BY <3>1 DEF PendingGuess
  <2> QED
    BY <2>1
<1>4. next \subseteq Slots \cup {"open"}
  <2>1. NextQuestionSlot(kept) \subseteq Slots \cup {"open"}
    BY FormOrder DEF NextQuestionSlot, NextIntakeSlot
  <2> QED
    BY <2>1
<1>5. asked \/ offered \/ ~ HasOpenQuestion(kept)
  OBVIOUS
<1> HIDE DEF kept, offered, asked, guess, next
<1>6. CASE offered /\ thread' = kept /\ Show(t, [kind |-> "form", doc |-> fdr]) /\ UNCHANGED docs
  BY <1>1, <1>6 DEF Renders, AndAsked
<1>7. CASE asked /\ thread' = kept /\ Show(t, [kind |-> "question"]) /\ UNCHANGED docs
  <2>1. [kind |-> "question"] \in ChatPages
    BY DEF ChatPages
  <2> QED
    BY <1>1, <1>7, <2>1 DEF Renders, AndAsked
<1>8. ASSUME NEW g \in guess, thread' = kept, Show(t, [kind |-> "guess", guess |-> g]),
             UNCHANGED docs
      PROVE  Renders(t, kept)
  <2>1. [kind |-> "guess", guess |-> g] \in ChatPages
    BY <1>3 DEF ChatPages
  <2> QED
    BY <1>8, <2>1 DEF Renders, AndAsked
<1>9. ASSUME NEW slot \in next, thread' = Append(kept, Asked(slot)),
             Show(t, [kind |-> "question"]), UNCHANGED docs
      PROVE  Renders(t, kept)
  <2>1. [kind |-> "question"] \in ChatPages
    BY DEF ChatPages
  <2> QED
    BY <1>4, <1>9, <2>1 DEF Renders, AndAsked
<1>10. CASE /\ ~ offered /\ ~ asked /\ guess = {} /\ next = {}
            /\ thread' = kept
            /\ IF RoundsUsed(kept) >= MaxRounds THEN HandsOff(t, kept)
               ELSE Goes(t, "assess") /\ UNCHANGED docs
  BY <1>1, <1>5, <1>10 DEF Passes
<1> QED
  BY <1>1, <1>2, <1>6, <1>7, <1>8, <1>9, <1>10

LEMMA HandsOffDoes ==
  ASSUME DocTypes, NEW t \in Tabs, NEW turns \in Seq(Turn), HandsOff(t, turns)
  PROVE  /\ fdr' = Composed(turns, fdr) /\ fdr' \in Doc /\ backup' \in {backup, fdr}
         /\ backup' # backup => fdr # NoDoc
         /\ Show(t, [kind |-> "handoff", doc |-> fdr'])
         /\ DocTypes'
BY ComposedFrom DEF HandsOff, DocTypes

\* The thread that is left is a thread, with no more follow-ups put and no more
\* proposals accepted than the one the page was about.
LEMMA AndAskedIsHarmless ==
  ASSUME NEW kept \in Seq(Turn), NEW left \in AndAsked(kept)
  PROVE  /\ left \in Seq(Turn)
         /\ FollowUpsPut(left) <= FollowUpsPut(kept)
         /\ Accepted(left) \subseteq Accepted(kept)
<1>1. CASE left = kept
  <2>1. FollowUpsPut(kept) \in Nat
    BY FollowUpsType
  <2> QED
    BY <1>1, <2>1
<1>2. ASSUME NEW s \in Slots \cup {"open"}, left = Append(kept, Asked(s))
      PROVE  /\ left \in Seq(Turn)
             /\ FollowUpsPut(left) <= FollowUpsPut(kept)
             /\ Accepted(left) \subseteq Accepted(kept)
  <2> DEFINE x == Asked(s)
             tail == <<x>>
  <2>1. x \in Turn /\ x.role = "assistant" /\ x.slot = s /\ s # "clarify"
    BY TurnShapes, SlotNames DEF Asked
  <2> HIDE DEF x
  <2>2. left = kept \o tail /\ tail \in Seq(Turn) /\ Len(tail) = 1 /\ tail[1] = x /\ tail # <<>>
    BY <1>2, <2>1, OneTurn DEF x
  <2> HIDE DEF tail
  <2>3. left \in Seq(Turn)
    BY <2>2, ConcatProperties
  <2>4. 1 .. Len(tail) - 1 = {} /\ \A j \in 1 .. Len(tail) : j = 1
    BY <2>2
  <2>5. FollowUpsPut(left) <= FollowUpsPut(kept)
    BY <2>1, <2>2, <2>4, NoFollowUpPut
  <2>6. Accepted(left) \subseteq Accepted(kept) \cup {}
    <3>1. \A j \in 1 .. Len(tail) : tail[j].role # "user"
      BY <2>1, <2>2, <2>4
    <3> QED
      BY <2>2, <3>1, AcceptedGrows
  <2> QED
    BY <2>3, <2>5, <2>6
<1> QED
  BY <1>1, <1>2 DEF AndAsked

LEMMA KeptIsHarmless ==
  ASSUME NEW turns \in Seq(Turn), NEW kept, Kept(turns, kept)
  PROVE  /\ kept \in Seq(Turn)
         /\ kept = turns \/ FollowUpsPut(kept) <= 1
         /\ Accepted(kept) \subseteq Accepted(turns)
BY NothingPut DEF Kept

-----------------------------------------------------------------------------
(* Every step keeps the types.                                             *)

LEMMA ReadyIdle ==
  ASSUME NEW page, NEW f
  PROVE  Ready([page |-> page, at |-> "idle", text |-> NoDoc], f)
BY DEF Ready

LEMMA ShowTyped ==
  ASSUME TabTypes, NEW t \in Tabs, NEW page \in Page, Show(t, page), FdrStays
  PROVE  TabTypes'
BY ShowTurns, ReadyIdle, TabTypesStep

\* A request goes on to a step that counts on nothing, or on what is there.
LEMMA GoesTyped ==
  ASSUME TabTypes, NEW t \in Tabs, NEW at \in Doing, Goes(t, at), FdrStays,
         at = "save" => tab[t].page.kind \in {"form", "handoff", "conflict"},
         at = "read" => fdr' \in Doc,
         at \in {"discover", "summary"} => tab[t].text \in Doc
  PROVE  TabTypes'
<1>1. Turns(t, [tab[t] EXCEPT !.at = at])
  BY GoesTurns
<1>2. Ready([tab[t] EXCEPT !.at = at], fdr')
  BY GoesFields DEF Ready
<1> QED
  BY <1>1, <1>2, TabTypesStep

LEMMA ChatPageTyped ==
  ASSUME Typed, NEW t \in Tabs, NEW turns \in Seq(Turn), NEW start \in BOOLEAN,
         ChatPage(t, turns, start)
  PROVE  ThreadType' /\ DocTypes' /\ TabTypes'
<1>1. PICK kept : Kept(turns, kept) /\ (Renders(t, kept) \/ Passes(t, kept))
  BY ChatPageDoes
<1>2. kept \in Seq(Turn)
  BY <1>1, KeptIsHarmless
<1>3. ThreadType'
  <2>1. kept \in AndAsked(kept)
    BY DEF AndAsked
  <2> QED
    BY <1>1, <1>2, <2>1, AndAskedIsHarmless DEF ThreadType, Renders, Passes
<1>4. DocTypes /\ TabTypes
  BY DEF Typed
<1>5. CASE Renders(t, kept)
  <2>1. PICK page \in ChatPages \cup {[kind |-> "form", doc |-> fdr]} : Show(t, page)
    BY <1>5 DEF Renders
  <2>2. page \in Page
    BY <1>4, PageShapes DEF ChatPages, Page, DocTypes
  <2>3. UNCHANGED <<fdr, backup, questions, confirmation>>
    BY <1>5 DEF Renders, docs
  <2> QED
    BY <1>3, <1>4, <2>1, <2>2, <2>3, ShowTyped DEF DocTypes, FdrStays
<1>6. CASE Passes(t, kept) /\ RoundsUsed(kept) >= MaxRounds
  <2>1. HandsOff(t, kept)
    BY <1>6 DEF Passes
  <2>2. fdr' \in Doc /\ Show(t, [kind |-> "handoff", doc |-> fdr']) /\ DocTypes'
    BY <1>2, <1>4, <2>1, HandsOffDoes
  <2> QED
    BY <1>3, <1>4, <2>2, PageShapes, ShowTyped DEF FdrStays
<1>7. CASE Passes(t, kept) /\ ~ (RoundsUsed(kept) >= MaxRounds)
  <2>1. Goes(t, "assess") /\ UNCHANGED <<fdr, backup, questions, confirmation>>
    BY <1>7 DEF Passes, docs
  <2> QED
    BY <1>3, <1>4, <2>1, GoesTyped DEF DocTypes, FdrStays, Doing
<1> QED
  BY <1>1, <1>5, <1>6, <1>7

\* Only one thing of the bounds and of the marks moves at a time.
LEMMA BoundsTyped ==
  ASSUME BoundTypes, Click \/ Fault \/ UNCHANGED bounds
  PROVE  BoundTypes'
BY StudioAssumption DEF BoundTypes, Click, Fault, bounds

LEMMA OverlapTyped ==
  ASSUME MarkTypes, NEW t \in Tabs, NotesOverlap(t)
  PROVE  MarkTypes'
BY DEF MarkTypes, NotesOverlap, others

LEMMA ChatTyped ==
  ASSUME Typed, NEW t \in Tabs, Chat(t) \/ Home(t) \/ Assess(t)
  PROVE  Typed'
<1> USE DEF Typed
<1>1. MarkTypes'
  BY OverlapTyped DEF Chat, Home, Assess
<1>2. BoundTypes'
  BY BoundsTyped DEF Chat, Home, Assess, Get
<1>3. PlanTypes' /\ RunTypes'
  BY DEF Chat, Home, Assess, planning, PlanTypes, RunTypes
<1>4. FlagTypes'
  BY DEF Chat, Home, Assess, FlagTypes
<1>5. ThreadType' /\ DocTypes' /\ TabTypes'
  <2>1. ASSUME NEW page \in Page, Show(t, page), UNCHANGED <<thread, docs>>
        PROVE  ThreadType' /\ DocTypes' /\ TabTypes'
    <3>1. UNCHANGED <<thread, fdr, backup, questions, confirmation>>
      BY <2>1 DEF docs
    <3>2. FdrStays
      BY <3>1 DEF FdrStays
    <3> QED
      BY <2>1, <3>1, <3>2, ShowTyped DEF ThreadType, DocTypes
  <2>2. thread \in Seq(Turn)
    BY DEF ThreadType
  <2>3. CASE Chat(t)
    <3>1. CASE thinking
      BY <2>1, <2>3, <3>1, PageShapes DEF Chat
    <3>2. CASE ~ thinking
      <4>1. PICK start \in BOOLEAN : ChatPage(t, thread, start)
        BY <2>3, <3>2 DEF Chat
      <4> QED
        BY <2>2, <4>1, ChatPageTyped
    <3> QED
      BY <3>1, <3>2
  <2>4. CASE Home(t)
    <3>1. \A page \in StatusPage : page \in Page
      BY PageShapes DEF StatusPage, DocTypes
    <3>2. [kind |-> "form", doc |-> fdr] \in Page
      BY PageShapes DEF DocTypes
    <3>3. CASE ChatPage(t, thread, FALSE)
      BY <2>2, <3>3, ChatPageTyped
    <3>4. CASE ~ ChatPage(t, thread, FALSE)
      <4>1. PICK page \in Page : Show(t, page) /\ UNCHANGED <<thread, docs>>
        BY <2>4, <3>1, <3>2, <3>4 DEF Home
      <4> QED
        BY <2>1, <4>1
    <3> QED
      BY <3>3, <3>4
  <2>5. CASE Assess(t)
    <3>1. CASE HandsOff(t, thread) /\ UNCHANGED thread
      <4>1. fdr' \in Doc /\ Show(t, [kind |-> "handoff", doc |-> fdr']) /\ DocTypes'
        BY <2>2, <3>1, HandsOffDoes
      <4> QED
        BY <3>1, <4>1, PageShapes, ShowTyped DEF FdrStays, ThreadType
    <3>2. CASE ChatPage(t, Append(thread, Asked("clarify")), FALSE)
      <4>1. Append(thread, Asked("clarify")) \in Seq(Turn)
        BY <2>2, OneFollowUpPut
      <4> QED
        BY <3>2, <4>1, ChatPageTyped
    <3> QED
      BY <2>5, <3>1, <3>2 DEF Assess
  <2> QED
    BY <2>3, <2>4, <2>5
<1> QED
  BY <1>1, <1>2, <1>3, <1>4, <1>5

\* The steps of a request that write no document.
LEMMA ConversationTyped ==
  ASSUME Typed, NEW t \in Tabs,
         \/ BeginAssess(t) \/ SubmitAnswer(t) \/ ChatAnswer(t) \/ Extract(t)
         \/ SubmitGuess(t) \/ ChatGuess(t) \/ ChatRestart(t) \/ SubmitFdr(t)
         \/ StartBuild(t) \/ Raises(t)
  PROVE  Typed'
<1> USE DEF Typed
<1>1. UNCHANGED <<planning, report, pid, build, docs, mixed, overlaps>>
  BY DEF BeginAssess, SubmitAnswer, ChatAnswer, Extract, SubmitGuess, ChatGuess, ChatRestart,
         SubmitFdr, StartBuild, Raises, Submits, marks, others
<1>2. UNCHANGED <<fdr, backup, questions, confirmation, brief, plan>> /\ FdrStays
  BY <1>1 DEF docs, planning, FdrStays
<1>3. DocTypes' /\ PlanTypes' /\ RunTypes'
  BY <1>1, <1>2 DEF DocTypes, PlanTypes, RunTypes
<1>4. thinking' \in BOOLEAN
  BY DEF BeginAssess, SubmitAnswer, ChatAnswer, Extract, SubmitGuess, ChatGuess, ChatRestart,
         SubmitFdr, StartBuild, Raises, Submits, FlagTypes
<1>5. FlagTypes'
  BY <1>1, <1>4 DEF FlagTypes
<1>6. BoundTypes'
  BY BoundsTyped DEF BeginAssess, SubmitAnswer, ChatAnswer, Extract, SubmitGuess, ChatGuess,
         ChatRestart, SubmitFdr, StartBuild, Raises, Submits, Post
<1>7. TabTypes'
  <2>1. Show(t, Blank) => TabTypes'
    BY <1>2, PageShapes, ShowTyped
  <2>2. \A at \in {"assessing", "answer", "extract", "chat", "guess", "home", "spawn"} :
          Goes(t, at) => TabTypes'
    BY <1>2, GoesTyped DEF Doing
  <2>3. SubmitFdr(t) => TabTypes'
    <3>1. SubmitFdr(t) => tab[t].page.kind \in {"form", "handoff", "conflict"}
      BY DEF SubmitFdr, Submits, Post
    <3>2. Goes(t, "save") /\ tab[t].page.kind \in {"form", "handoff", "conflict"} => TabTypes'
      BY <1>2, GoesTyped DEF Doing
    <3> QED
      BY <2>1, <3>1, <3>2 DEF SubmitFdr, Submits
  <2> QED
    BY <2>1, <2>2, <2>3 DEF BeginAssess, SubmitAnswer, ChatAnswer, Extract, SubmitGuess,
       ChatGuess, ChatRestart, StartBuild, Raises, Submits
<1>8. ThreadType' /\ MarkTypes'
  <2>1. thread \in Seq(Turn) /\ MarkTypes
    BY DEF ThreadType
  <2>2. CASE ChatAnswer(t)
    <3>1. MarkTypes'
      BY <2>2 DEF ChatAnswer, marks, others, MarkTypes
    <3>2. CASE HasOpenQuestion(thread)
      <4>1. PICK words \in {"typed", "skipped"} :
              thread' = Append(thread, Answer(Last(thread).slot, words))
        BY <2>2, <3>2 DEF ChatAnswer
      <4>2. Len(thread) \in 1 .. Len(thread)
        BY <2>1, <3>2, EmptySeq DEF HasOpenQuestion
      <4>3. Last(thread) \in Turn
        BY <2>1, <4>2 DEF Last
      <4>4. Answer(Last(thread).slot, words) \in Turn
        BY <4>3, TurnShapes, WordNames
      <4> QED
        BY <2>1, <3>1, <4>1, <4>4 DEF ThreadType
    <3>3. CASE ~ HasOpenQuestion(thread)
      BY <2>1, <2>2, <3>1, <3>3 DEF ChatAnswer, ThreadType
    <3> QED
      BY <3>2, <3>3
  <2>3. CASE Extract(t)
    <3>1. PICK reading \in Readings : thread' = Extracted(thread, reading)
      BY <2>3 DEF Extract
    <3>2. reading \in Reading
      BY StudioAssumption
    <3>3. UNCHANGED <<agreed, unseen, mixed, overlaps>>
      BY <2>3 DEF Extract, marks, others
    <3> QED
      BY <2>1, <3>1, <3>2, <3>3, ExtractedIsHarmless DEF ThreadType, MarkTypes
  <2>4. CASE ChatGuess(t)
    <3>1. CASE PendingGuess(thread) = {} /\ UNCHANGED <<thread, agreed, unseen>>
      BY <1>1, <2>1, <3>1 DEF ThreadType, MarkTypes
    <3>2. ASSUME NEW g \in PendingGuess(thread), NEW words \in {"typed", "skipped", g.words},
                 thread' = thread \o Said(g.slot, words),
                 agreed' = agreed \/ agreed' = agreed \cup {<<g.slot, g.words>>},
                 unseen' \in BOOLEAN
          PROVE  ThreadType' /\ MarkTypes'
      <4>1. g \in Turn /\ g.kind = "guess"
        BY <2>1 DEF PendingGuess
      <4>2. g.slot \in Slots /\ g.words \in Proposals
        BY <4>1, TurnShapes
      <4>3. Said(g.slot, words) \in Seq(Turn)
        BY <4>2, SaidShape, WordNames
      <4>4. thread' \in Seq(Turn)
        BY <2>1, <3>2, <4>3, ConcatProperties
      <4> QED
        BY <1>1, <3>2, <4>2, <4>4 DEF ThreadType, MarkTypes
    <3> QED
      BY <1>1, <2>1, <2>4, <3>1, <3>2 DEF ChatGuess, MarkTypes
  <2>5. CASE ChatRestart(t)
    BY <2>1, <2>5 DEF ChatRestart, ThreadType, MarkTypes, marks, others
  <2>6. CASE \/ BeginAssess(t) \/ SubmitAnswer(t) \/ SubmitGuess(t) \/ SubmitFdr(t)
             \/ StartBuild(t) \/ Raises(t)
    <3>1. UNCHANGED <<thread, agreed, unseen, mixed, overlaps>>
      BY <2>6 DEF BeginAssess, SubmitAnswer, SubmitGuess, SubmitFdr, StartBuild, Raises,
             Submits, marks, others
    <3> QED
      BY <2>1, <3>1 DEF ThreadType, MarkTypes
  <2> QED
    BY <2>2, <2>3, <2>4, <2>5, <2>6
<1> QED
  BY <1>3, <1>5, <1>6, <1>7, <1>8

\* What a form sends are documents: the one it was rendered with, or one by hand.
LEMMA SubmissionShape ==
  ASSUME NEW page \in Page, page.kind \in {"form", "handoff", "conflict"},
         NEW sent \in Submission(page)
  PROVE  /\ sent.text \in Doc
         /\ \/ sent.text \in {Handwritten(x) : x \in Texts}
            \/ sent.text = page.doc
            \/ page.kind = "conflict" /\ sent.text = page.mine
<1>1. CASE page.kind = "form"
  <2>1. Submission(page) = {[text |-> d, base |-> {page.doc}] :
            d \in ({page.doc} \cup {Handwritten(x) : x \in Texts}) \ {NoDoc}}
    BY <1>1 DEF Submission
  <2>2. PICK d \in ({page.doc} \cup {Handwritten(x) : x \in Texts}) \ {NoDoc} :
          sent = [text |-> d, base |-> {page.doc}]
    BY <2>1
  <2>3. d \in Doc
    BY <1>1, PageFields, HandwrittenShape
  <2> QED
    BY <2>2, <2>3
<1>2. CASE page.kind = "handoff"
  <2>1. sent = [text |-> page.doc, base |-> {}]
    BY <1>2 DEF Submission
  <2> QED
    BY <1>2, <2>1, PageFields
<1>3. CASE page.kind = "conflict"
  <2>1. sent = [text |-> page.doc, base |-> {page.doc}] \/ sent = [text |-> page.mine, base |-> {}]
    BY <1>3 DEF Submission
  <2> QED
    BY <1>3, <2>1, PageFields
<1> QED
  BY <1>1, <1>2, <1>3

LEMMA ReleasedShape ==
  ASSUME PlanTypes, NEW text
  PROVE  /\ Released(text) = plan \/ Released(text) \in Plan
         /\ plan = None => Released(text) = plan
         /\ plan # None => Released(text).of = plan.of /\ Released(text).from = plan.from
<1>1. plan # None => plan \in Plan
  BY DEF PlanTypes
<1>2. CASE Locked /\ plan.of # text
  <2>1. Released(text) = [plan EXCEPT !.status = "proposed"] /\ plan # None
    BY <1>2 DEF Released, Locked
  <2> QED
    BY <1>1, <2>1 DEF Plan
<1>3. CASE ~ (Locked /\ plan.of # text)
  BY <1>3 DEF Released, PlanTypes
<1> QED
  BY <1>2, <1>3

\* A brief that is replaced is a brief, a plan that is replaced a plan.
PlanningStays == /\ brief' = brief \/ brief' \in Brief
                 /\ plan' = plan \/ plan' \in Plan

LEMMA RunTypesStay ==
  ASSUME RunTypes, UNCHANGED build, PlanningStays
  PROVE  RunTypes'
BY DEF RunTypes, RunReady, PlanningStays

LEMMA SaveFdrTyped ==
  ASSUME Typed, NEW t \in Tabs, SaveFdr(t)
  PROVE  Typed'
<1> USE DEF Typed
<1>1. tab[t] \in Tab /\ Ready(tab[t], fdr) /\ tab[t].at = "save"
  BY DEF TabTypes, SaveFdr
<1>2. tab[t].page \in Page /\ tab[t].page.kind \in {"form", "handoff", "conflict"}
  BY <1>1 DEF Tab, Ready
<1>3. PICK sent \in Submission(tab[t].page) :
        IF Conflict(sent)
        THEN /\ Show(t, [kind |-> "conflict", doc |-> fdr, mine |-> sent.text])
             /\ UNCHANGED <<fdr, questions, plan, thinking>>
        ELSE /\ plan' = Released(sent.text)
             /\ fdr' = sent.text
             /\ questions' = FALSE
             /\ thinking' = TRUE
             /\ Goes(t, "read")
  BY DEF SaveFdr
<1>4. sent.text \in Doc
  BY <1>2, SubmissionShape
<1>5. UNCHANGED <<thread, backup, confirmation, brief, report, pid, build, clicks, faults,
                  agreed, unseen, mixed, overlaps>>
  BY DEF SaveFdr, bounds, marks, others
<1>6. CASE Conflict(sent)
  <2>1. UNCHANGED <<fdr, questions, plan, thinking>>
    BY <1>3, <1>6
  <2>2. fdr \in Doc
    BY <1>6 DEF Conflict, DocTypes
  <2>3. [kind |-> "conflict", doc |-> fdr, mine |-> sent.text] \in Page
    BY <1>4, <2>2, PageShapes
  <2>4. TabTypes'
    BY <1>3, <1>6, <2>1, <2>3, ShowTyped DEF FdrStays
  <2>5. RunTypes'
    BY <1>5, <2>1, RunTypesStay DEF PlanningStays
  <2> QED
    BY <1>5, <2>1, <2>4, <2>5 DEF ThreadType, DocTypes, PlanTypes, FlagTypes, BoundTypes,
       MarkTypes
<1>7. CASE ~ Conflict(sent)
  <2>1. /\ plan' = Released(sent.text) /\ fdr' = sent.text /\ questions' = FALSE
        /\ thinking' = TRUE /\ Goes(t, "read")
    BY <1>3, <1>7
  <2>2. TabTypes'
    BY <1>4, <2>1, GoesTyped DEF FdrStays, Doing
  <2>3. plan' \in Plan \cup {None} /\ (plan' = plan \/ plan' \in Plan)
    BY <2>1, ReleasedShape DEF PlanTypes
  <2>4. RunTypes'
    BY <1>5, <2>3, RunTypesStay DEF PlanningStays
  <2> QED
    BY <1>4, <1>5, <2>1, <2>2, <2>3, <2>4 DEF ThreadType, DocTypes, PlanTypes, FlagTypes,
       BoundTypes, MarkTypes
<1> QED
  BY <1>6, <1>7

LEMMA FdrRunTyped ==
  ASSUME Typed, NEW t \in Tabs, FdrReads(t) \/ FdrDiscovers(t) \/ FdrSummary(t)
  PROVE  Typed'
<1> USE DEF Typed
<1>1. UNCHANGED <<thread, fdr, backup, plan, report, pid, build, clicks, faults,
                  agreed, unseen, overlaps>>
  BY DEF FdrReads, FdrDiscovers, FdrSummary, docs, planning, bounds, marks, others
<1>2. tab[t] \in Tab /\ Ready(tab[t], fdr) /\ FdrStays
  BY <1>1 DEF TabTypes, FdrStays
<1>3. Goes(t, "home") => TabTypes'
  BY <1>2, GoesTyped DEF Doing
<1>4. mixed' \subseteq {"brief", "plan"}
  BY DEF FdrReads, FdrDiscovers, FdrSummary, marks, others, Mixes, MarkTypes
<1>5. thinking' \in BOOLEAN /\ questions' \in BOOLEAN
  BY DEF FdrReads, FdrDiscovers, FdrSummary, docs, FlagTypes, DocTypes
<1>6. brief' = brief \/ brief' \in Brief
  <2>1. FdrDiscovers(t) => tab[t].text \in Doc
    BY <1>2 DEF FdrDiscovers, Ready
  <2> QED
    BY <2>1 DEF FdrReads, FdrDiscovers, FdrSummary, planning, Brief
<1>7. confirmation' \in Doc \cup {NoDoc}
  BY <1>2 DEF FdrReads, FdrDiscovers, FdrSummary, docs, DocTypes, Tab
<1>8. TabTypes'
  <2>1. CASE FdrReads(t)
    <3>1. CASE Locked
      BY <1>3, <2>1, <3>1 DEF FdrReads
    <3>2. CASE ~ Locked
      <4> DEFINE r == [tab[t] EXCEPT !.at = "discover", !.text = fdr]
      <4>1. tab' = [tab EXCEPT ![t].at = "discover", ![t].text = fdr]
        BY <2>1, <3>2 DEF FdrReads
      <4>2. tab' = [tab EXCEPT ![t] = r]
        BY <4>1 DEF TabTypes, Tab
      <4>3. fdr \in Doc
        BY <1>2, <2>1 DEF FdrReads, Ready
      <4>4. r \in Tab /\ r.at = "discover" /\ r.text = fdr
        BY <1>2, <4>3 DEF Tab, Doing
      <4> HIDE DEF r
      <4>5. Turns(t, r)
        BY <4>2, <4>4 DEF Turns, TabTypes
      <4>6. Ready(r, fdr')
        BY <4>3, <4>4 DEF Ready
      <4> QED
        BY <1>2, <4>5, <4>6, TabTypesStep
    <3> QED
      BY <3>1, <3>2
  <2>2. CASE FdrDiscovers(t)
    <3>1. tab[t].text \in Doc
      BY <1>2, <2>2 DEF FdrDiscovers, Ready
    <3>2. Goes(t, "summary") => TabTypes'
      BY <1>2, <3>1, GoesTyped DEF Doing
    <3> QED
      BY <1>3, <2>2, <3>2 DEF FdrDiscovers
  <2>3. CASE FdrSummary(t)
    BY <1>3, <2>3 DEF FdrSummary
  <2> QED
    BY <2>1, <2>2, <2>3
<1>9. RunTypes'
  BY <1>1, <1>6, RunTypesStay DEF PlanningStays
<1> QED
  BY <1>1, <1>4, <1>5, <1>6, <1>7, <1>8, <1>9 DEF ThreadType, DocTypes, PlanTypes, FlagTypes,
     BoundTypes, MarkTypes

LEMMA OtherRequestsTyped ==
  ASSUME Typed, NEW t \in Tabs, ChatEnough(t) \/ Reset(t)
  PROVE  Typed'
<1> USE DEF Typed
<1>1. UNCHANGED <<thread, brief, plan, build, thinking, agreed, unseen, mixed, overlaps>>
  BY DEF ChatEnough, Reset, planning, marks, others
<1>2. BoundTypes'
  BY BoundsTyped DEF ChatEnough, Reset, Post
<1>3. RunTypes' /\ PlanTypes' /\ MarkTypes' /\ ThreadType'
  BY <1>1 DEF RunTypes, PlanTypes, MarkTypes, ThreadType
<1>4. FlagTypes'
  BY DEF ChatEnough, Reset, FlagTypes
<1>5. DocTypes' /\ TabTypes'
  <2>1. CASE ChatEnough(t)
    <3>1. HandsOff(t, thread) /\ thread \in Seq(Turn)
      BY <2>1 DEF ChatEnough, ThreadType
    <3>2. fdr' \in Doc /\ Show(t, [kind |-> "handoff", doc |-> fdr']) /\ DocTypes'
      BY <3>1, HandsOffDoes
    <3> QED
      BY <3>2, PageShapes, ShowTyped DEF FdrStays
  <2>2. CASE Reset(t)
    <3>1. FdrStays /\ Goes(t, "home") /\ DocTypes'
      BY <2>2 DEF Reset, FdrStays, DocTypes
    <3> QED
      BY <3>1, GoesTyped DEF Doing
  <2> QED
    BY <2>1, <2>2
<1> QED
  BY <1>2, <1>3, <1>4, <1>5

\* One build changes.
LEMMA OneRunTyped ==
  ASSUME RunTypes, NEW b \in Builds, NEW r \in Run \cup {Off}, build' = [build EXCEPT ![b] = r],
         RunReady(r, brief', plan'), PlanningStays
  PROVE  RunTypes' /\ build'[b] = r /\ \A c \in Builds \ {b} : build'[c] = build[c]
BY DEF RunTypes, RunReady, PlanningStays

LEMMA OffReady ==
  ASSUME NEW br, NEW p
  PROVE  Off \in Run \cup {Off} /\ RunReady(Off, br, p)
BY DEF Off, RunReady

LEMMA StopsTyped ==
  ASSUME RunTypes, NEW b \in Builds, Stops(b), PlanningStays
  PROVE  RunTypes'
BY OneRunTyped, OffReady DEF Stops

LEMMA AtRun ==
  ASSUME RunTypes, NEW b \in Builds, build[b].at # "off"
  PROVE  build[b] \in Run /\ b \in Live /\ RunReady(build[b], brief, plan)
BY DEF RunTypes, Off, Live

LEMMA StepsTo ==
  ASSUME RunTypes, NEW b \in Builds, build[b].at # "off", NEW at, NEW text, NEW made,
         Steps(b, at, text, made)
  PROVE  \E r : /\ build' = [build EXCEPT ![b] = r] /\ r.at = at /\ r.text = text
                /\ r.plan = made /\ r.shown = build[b].shown
                /\ (/\ at \in {"read", "discover", "confirm", "plan", "approve", "load", "build"}
                    /\ text \in Doc \cup {NoDoc} /\ made \in Plan \cup {None}) => r \in Run
<1> DEFINE r == [build[b] EXCEPT !.at = at, !.text = text, !.plan = made]
<1>1. build[b] \in Run
  BY AtRun
<1>2. build' = [build EXCEPT ![b] = r]
  BY DEF Steps
<1>3. r.at = at /\ r.text = text /\ r.plan = made /\ r.shown = build[b].shown
  BY <1>1 DEF Run
<1>4. (/\ at \in {"read", "discover", "confirm", "plan", "approve", "load", "build"}
       /\ text \in Doc \cup {NoDoc} /\ made \in Plan \cup {None}) => r \in Run
  BY <1>1 DEF Run
<1> HIDE DEF r
<1> QED
  BY <1>2, <1>3, <1>4

LEMMA StepsTyped ==
  ASSUME RunTypes, NEW b \in Builds, build[b].at # "off",
         NEW at \in {"discover", "confirm", "plan", "approve", "load", "build"},
         NEW text \in Doc, NEW made \in Plan \cup {None}, Steps(b, at, text, made),
         at \in {"plan", "build"} => made \in Plan, at = "confirm" => brief' \in Brief,
         at \in {"approve", "load"} => plan' \in Plan, PlanningStays
  PROVE  RunTypes'
<1>1. PICK r : /\ build' = [build EXCEPT ![b] = r] /\ r.at = at /\ r.text = text
               /\ r.plan = made /\ r \in Run
  BY StepsTo
<1>2. RunReady(r, brief', plan')
  BY <1>1 DEF RunReady
<1> QED
  BY <1>1, <1>2, OneRunTyped

\* A plan somebody may build is a plan.
LEMMA LockedIsPlan ==
  ASSUME PlanTypes, Locked
  PROVE  plan \in Plan
BY DEF PlanTypes, Locked

LEMMA BuildTyped ==
  ASSUME Typed, NEW b \in Builds, BuildStep(b)
  PROVE  Typed'
<1> USE DEF Typed
<1>1. UNCHANGED <<thread, fdr, backup, pid, thinking, tab, clicks, agreed, unseen, overlaps>>
  BY DEF BuildStep, BuildReads, BuildDiscovers, BuildConfirms, BuildPlans, BuildApproves,
         BuildLoads, BuildEnds, BuildDies, docs, planning, bounds, marks, others, Fault
<1>2. ThreadType' /\ TabTypes'
  BY <1>1 DEF ThreadType, TabTypes
<1>3. BoundTypes'
  BY BoundsTyped DEF BuildStep, BuildReads, BuildDiscovers, BuildConfirms, BuildPlans,
     BuildApproves, BuildLoads, BuildEnds, BuildDies
<1>4. CASE BuildReads(b)
  <2>1. UNCHANGED <<questions, confirmation, brief, plan, report, mixed>> /\ build[b].at = "read"
    BY <1>4 DEF BuildReads, docs, planning, marks, others
  <2>2. PlanningStays
    BY <2>1 DEF PlanningStays
  <2>3. RunTypes'
    <3>1. CASE (fdr = NoDoc \/ (Locked /\ ~ Reusable(fdr))) /\ Stops(b)
      BY <2>2, <3>1, StopsTyped
    <3>2. CASE fdr # NoDoc /\ Reusable(fdr) /\ Steps(b, "load", fdr, None)
      <4>1. fdr \in Doc /\ plan' \in Plan
        BY <2>1, <3>2, LockedIsPlan DEF Reusable, DocTypes
      <4> QED
        BY <2>1, <2>2, <3>2, <4>1, StepsTyped
    <3>3. CASE fdr # NoDoc /\ ~ Locked /\ Steps(b, "discover", fdr, None)
      <4>1. fdr \in Doc
        BY <3>3 DEF DocTypes
      <4> QED
        BY <2>1, <2>2, <3>3, <4>1, StepsTyped
    <3> QED
      BY <1>4, <3>1, <3>2, <3>3 DEF BuildReads
  <2> QED
    BY <1>1, <1>2, <1>3, <2>1, <2>3 DEF DocTypes, PlanTypes, FlagTypes, MarkTypes
<1>5. CASE BuildDiscovers(b)
  <2>1. UNCHANGED <<confirmation, plan, report>> /\ build[b].at = "discover"
    BY <1>5 DEF BuildDiscovers
  <2>2. build[b].text \in Doc
    BY <2>1, AtRun DEF RunReady
  <2>3. CASE questions' = TRUE /\ Stops(b) /\ UNCHANGED <<brief, mixed>>
    <3>1. RunTypes'
      BY <2>1, <2>3, StopsTyped DEF PlanningStays
    <3> QED
      BY <1>1, <1>2, <1>3, <2>1, <2>3, <3>1 DEF DocTypes, PlanTypes, FlagTypes, MarkTypes
  <2>4. CASE /\ brief' = [of |-> build[b].text, status |-> "proposed"]
             /\ Mixes(b, "brief", {"confirm"})
             /\ Steps(b, "confirm", build[b].text, None)
             /\ UNCHANGED questions
    <3>1. brief' \in Brief /\ mixed' \subseteq {"brief", "plan"}
      BY <2>2, <2>4 DEF Brief, Mixes, MarkTypes
    <3>2. RunTypes'
      BY <2>1, <2>2, <2>4, <3>1, StepsTyped DEF PlanningStays
    <3> QED
      BY <1>1, <1>2, <1>3, <2>1, <2>4, <3>1, <3>2 DEF DocTypes, PlanTypes, FlagTypes, MarkTypes
  <2> QED
    BY <1>5, <2>3, <2>4 DEF BuildDiscovers
<1>6. CASE BuildConfirms(b)
  <2>1. UNCHANGED <<questions, plan, report, mixed>> /\ build[b].at = "confirm"
    BY <1>6 DEF BuildConfirms, marks, others
  <2>2. build[b].text \in Doc /\ brief \in Brief
    BY <2>1, AtRun DEF RunReady
  <2>3. brief' \in Brief /\ confirmation' \in Doc
    BY <1>6, <2>2 DEF BuildConfirms, Brief
  <2>4. PlanningStays
    BY <2>1, <2>3 DEF PlanningStays
  <2>5. RunTypes'
    <3>1. CASE Reusable(build[b].text)
      <4>1. Steps(b, "approve", build[b].text, None) /\ plan' \in Plan
        BY <1>6, <2>1, <3>1, LockedIsPlan DEF BuildConfirms, Reusable
      <4> QED
        BY <2>1, <2>2, <2>4, <4>1, StepsTyped
    <3>2. CASE Locked /\ ~ Reusable(build[b].text)
      BY <1>6, <2>4, <3>2, StopsTyped DEF BuildConfirms
    <3>3. CASE ~ Locked /\ ~ Reusable(build[b].text)
      <4> DEFINE made == [of |-> build[b].text, from |-> brief.of, status |-> "proposed"]
      <4>1. Steps(b, "plan", build[b].text, made)
        BY <1>6, <3>3 DEF BuildConfirms
      <4>2. made \in Plan
        BY <2>2 DEF Plan, Brief
      <4> HIDE DEF made
      <4> QED
        BY <2>1, <2>2, <2>4, <4>1, <4>2, StepsTyped
    <3> QED
      BY <3>1, <3>2, <3>3
  <2> QED
    BY <1>1, <1>2, <1>3, <2>1, <2>3, <2>5 DEF DocTypes, PlanTypes, FlagTypes, MarkTypes
<1>7. CASE BuildPlans(b)
  <2>1. UNCHANGED <<questions, confirmation, brief, report>> /\ build[b].at = "plan"
    BY <1>7 DEF BuildPlans, docs
  <2>2. build[b].text \in Doc /\ build[b].plan \in Plan
    BY <2>1, AtRun DEF RunReady
  <2>3. mixed' \subseteq {"brief", "plan"}
    BY <1>7 DEF BuildPlans, Mixes, MarkTypes
  <2>4. CASE plan' = build[b].plan /\ Steps(b, "approve", build[b].text, None)
    <3>1. PlanningStays
      BY <2>1, <2>2, <2>4 DEF PlanningStays
    <3>2. RunTypes'
      BY <2>1, <2>2, <2>4, <3>1, StepsTyped
    <3> QED
      BY <1>1, <1>2, <1>3, <2>1, <2>2, <2>3, <2>4, <3>2 DEF DocTypes, PlanTypes, FlagTypes,
         MarkTypes
  <2>5. CASE plan' = [build[b].plan EXCEPT !.status = "blocked"] /\ Stops(b)
    <3>1. plan' \in Plan
      BY <2>2, <2>5 DEF Plan
    <3>2. RunTypes'
      BY <2>1, <2>5, <3>1, StopsTyped DEF PlanningStays
    <3> QED
      BY <1>1, <1>2, <1>3, <2>1, <2>3, <3>1, <3>2 DEF DocTypes, PlanTypes, FlagTypes, MarkTypes
  <2> QED
    BY <1>7, <2>4, <2>5 DEF BuildPlans
<1>8. CASE BuildApproves(b)
  <2>1. UNCHANGED <<questions, confirmation, brief, report, mixed>> /\ build[b].at = "approve"
    BY <1>8 DEF BuildApproves, docs, marks, others
  <2>2. build[b].text \in Doc /\ plan \in Plan
    BY <2>1, AtRun DEF RunReady
  <2>3. plan' \in Plan
    BY <1>8, <2>2 DEF BuildApproves, Plan
  <2>4. PlanningStays
    BY <2>1, <2>3 DEF PlanningStays
  <2>5. RunTypes'
    <3>1. Stops(b) \/ Steps(b, "load", build[b].text, None)
      BY <1>8 DEF BuildApproves
    <3> QED
      BY <2>1, <2>2, <2>3, <2>4, <3>1, StopsTyped, StepsTyped
  <2> QED
    BY <1>1, <1>2, <1>3, <2>1, <2>3, <2>5 DEF DocTypes, PlanTypes, FlagTypes, MarkTypes
<1>9. CASE BuildLoads(b)
  <2>1. /\ UNCHANGED <<questions, confirmation, brief, plan, report, mixed>>
        /\ build[b].at = "load" /\ Steps(b, "build", build[b].text, plan)
    BY <1>9 DEF BuildLoads, docs, planning, marks, others
  <2>2. build[b].text \in Doc /\ plan \in Plan
    BY <2>1, AtRun DEF RunReady
  <2>3. RunTypes'
    BY <2>1, <2>2, StepsTyped DEF PlanningStays
  <2> QED
    BY <1>1, <1>2, <1>3, <2>1, <2>3 DEF DocTypes, PlanTypes, FlagTypes, MarkTypes
<1>10. CASE BuildEnds(b) \/ BuildDies(b)
  <2>1. /\ UNCHANGED <<questions, confirmation, brief, plan, mixed>> /\ Stops(b)
        /\ report' = report \/ report' = TRUE
    BY <1>10 DEF BuildEnds, BuildDies, docs, planning, marks, others
  <2>2. RunTypes'
    BY <2>1, StopsTyped DEF PlanningStays
  <2> QED
    BY <1>1, <1>2, <1>3, <2>1, <2>2 DEF DocTypes, PlanTypes, FlagTypes, MarkTypes
<1> QED
  BY <1>4, <1>5, <1>6, <1>7, <1>8, <1>9, <1>10 DEF BuildStep

LEMMA SpawnTyped ==
  ASSUME Typed, NEW t \in Tabs, SpawnBuild(t)
  PROVE  Typed'
<1> USE DEF Typed
<1>1. UNCHANGED <<thread, fdr, backup, questions, confirmation, brief, plan, report, thinking,
                  clicks, faults, agreed, unseen, mixed, overlaps>> /\ Goes(t, "home")
  BY DEF SpawnBuild, docs, planning, bounds, marks, others
<1>2. TabTypes'
  BY <1>1, GoesTyped DEF FdrStays, Doing
<1>3. PICK b \in Builds \ Live :
        /\ build' = [build EXCEPT ![b] =
                      [at |-> "read", text |-> NoDoc, plan |-> None,
                       shown |-> IF tab[t].page.kind = "confirm" THEN tab[t].page.doc ELSE NoDoc]]
        /\ pid' = b
  BY DEF SpawnBuild
<1> DEFINE r == [at |-> "read", text |-> NoDoc, plan |-> None,
                 shown |-> IF tab[t].page.kind = "confirm" THEN tab[t].page.doc ELSE NoDoc]
<1>4. r \in Run
  <2>1. tab[t].page \in Page
    BY DEF TabTypes, Tab
  <2>2. tab[t].page.kind = "confirm" => tab[t].page.doc \in Doc
    BY <2>1, PageFields
  <2> QED
    BY <2>2 DEF Run
<1>5. RunReady(r, brief', plan')
  BY DEF RunReady
<1> HIDE DEF r
<1>6. RunTypes'
  BY <1>1, <1>3, <1>4, <1>5, OneRunTyped DEF r, PlanningStays
<1> QED
  BY <1>1, <1>2, <1>3, <1>6 DEF ThreadType, DocTypes, PlanTypes, FlagTypes, BoundTypes, MarkTypes

LEMMA OutsideTyped ==
  ASSUME Typed, EditFdr \/ StudioRestarts
  PROVE  Typed'
<1> USE DEF Typed
<1>1. UNCHANGED <<thread, backup, questions, confirmation, brief, plan, report, pid, build,
                  agreed, unseen, mixed, overlaps>> /\ thinking' \in BOOLEAN
  BY DEF EditFdr, StudioRestarts, docs, planning, marks, others, FlagTypes
<1>2. FdrStays /\ fdr' \in Doc \cup {NoDoc}
  BY HandwrittenShape DEF EditFdr, StudioRestarts, docs, FdrStays, DocTypes
<1>3. BoundTypes'
  BY BoundsTyped DEF EditFdr, StudioRestarts
<1>4. TabTypes'
  <2>1. CASE EditFdr
    <3>1. UNCHANGED tab
      BY <2>1 DEF EditFdr
    <3> QED
      BY <1>2, <3>1 DEF TabTypes, Ready, FdrStays
  <2>2. CASE StudioRestarts
    <3>1. tab' = [t \in Tabs |-> [tab[t] EXCEPT !.at = "idle", !.text = NoDoc]]
      BY <2>2 DEF StudioRestarts
    <3>2. ASSUME NEW t \in Tabs
          PROVE  tab'[t] \in Tab /\ tab'[t].at = "idle"
      BY <3>1 DEF TabTypes, Tab, Doing
    <3>3. tab' \in [Tabs -> Tab]
      BY <3>1, <3>2
    <3> QED
      BY <3>2, <3>3 DEF TabTypes, Ready
  <2> QED
    BY <2>1, <2>2
<1> QED
  BY <1>1, <1>2, <1>3, <1>4 DEF ThreadType, DocTypes, PlanTypes, FlagTypes, MarkTypes, RunTypes

LEMMA NextTyped == Typed /\ [Next]_vars => Typed'
<1> SUFFICES ASSUME Typed, [Next]_vars PROVE Typed'
  OBVIOUS
<1>1. ASSUME NEW t \in Tabs, Request(t) PROVE Typed'
  BY <1>1, ChatTyped, ConversationTyped, SaveFdrTyped, FdrRunTyped, OtherRequestsTyped, SpawnTyped
     DEF Request
<1>2. ASSUME NEW b \in Builds, BuildStep(b) PROVE Typed'
  BY <1>2, BuildTyped
<1>3. CASE EditFdr \/ StudioRestarts
  BY <1>3, OutsideTyped
<1>4. CASE UNCHANGED vars
  BY <1>4 DEF vars, docs, planning, bounds, marks, others, Typed, ThreadType, DocTypes,
     PlanTypes, FlagTypes, BoundTypes, MarkTypes, TabTypes, RunTypes
<1> QED
  BY <1>1, <1>2, <1>3, <1>4 DEF Next

LEMMA InitTyped == Init => Typed
<1> SUFFICES ASSUME Init PROVE Typed
  OBVIOUS
<1>1. ThreadType
  <2>1. <<>> \in Seq(Turn)
    OBVIOUS
  <2> QED
    BY <2>1, StudioAssumption DEF Init, ThreadType
<1>2. DocTypes
  BY HandwrittenShape DEF Init, DocTypes
<1>3. PlanTypes /\ FlagTypes /\ BoundTypes
  <2>1. 0 \in 0 .. MaxClicks /\ 0 \in 0 .. MaxFaults
    BY StudioAssumption
  <2>2. BoundTypes
    BY <2>1 DEF Init, BoundTypes
  <2> QED
    BY <2>2 DEF Init, PlanTypes, FlagTypes
<1>4. MarkTypes
  BY DEF Init, MarkTypes, Accepted
<1>5. TabTypes
  <2>1. [page |-> Blank, at |-> "idle", text |-> NoDoc] \in Tab
    BY PageShapes DEF Tab, Doing
  <2> QED
    BY <2>1 DEF Init, TabTypes, Ready
<1>6. RunTypes
  BY OffReady DEF Init, RunTypes
<1> QED
  BY <1>1, <1>2, <1>3, <1>4, <1>5, <1>6 DEF Typed

LEMMA AlwaysTyped == Spec => []Typed
BY InitTyped, NextTyped, PTL DEF Spec

\* The type invariant: threads, documents, pages, plans and runs are such; and,
\* beyond types, that a request which reads FDR.md finds one.
THEOREM StudioTypeCorrect == Spec => []TypeOK
BY AlwaysTyped, TypedIsTypeOK, PTL

-----------------------------------------------------------------------------
(* What is built was planned from its words.                               *)

\* A run that has yet to read its brief finds its own words in it, and one that
\* has yet to load its plan finds a plan for them, up to the first file of the kind
\* that is replaced under a run; and a plan is from the words it is for.
FromItsWords(r, p, br, m) ==
  /\ r.at = "confirm" => "brief" \in m \/ br.of = r.text
  /\ r.at = "plan" => r.plan.of = r.text
  /\ r.at \in {"approve", "load"} => "plan" \in m \/ p.of = r.text
  /\ r.at = "build" => "plan" \in m \/ r.plan.of = r.text
  /\ r.at \in {"plan", "build"} => "brief" \in m \/ r.plan.from = r.plan.of

\* So is the plan on disk.
PlanOfItsBrief(p, m) == p # None => "brief" \in m \/ p.from = p.of

WordsKept == /\ PlanOfItsBrief(plan, mixed)
             /\ \A b \in Builds : FromItsWords(build[b], plan, brief, mixed)

\* What a step of b, or of a tab, leaves to the other runs.
OthersFind(b) ==
  /\ mixed \subseteq mixed'
  /\ PlanOfItsBrief(plan', mixed')
  /\ \A c \in Builds \ {b} :
       /\ build[c].at = "confirm" => "brief" \in mixed' \/ brief'.of = brief.of
       /\ build[c].at \in {"approve", "load"} => "plan" \in mixed' \/ plan'.of = plan.of

LEMMA OthersKeep ==
  ASSUME WordsKept, NEW b, OthersFind(b), NEW c \in Builds \ {b}, build'[c] = build[c]
  PROVE  FromItsWords(build'[c], plan', brief', mixed')
BY DEF WordsKept, OthersFind, FromItsWords

LEMMA NothingReplaced ==
  ASSUME WordsKept, NEW b, UNCHANGED <<plan, mixed>>, brief'.of = brief.of
  PROVE  OthersFind(b)
BY DEF WordsKept, OthersFind, PlanOfItsBrief

\* A file is replaced, and the runs it is replaced under are noted.
LEMMA MixesNotes ==
  ASSUME RunTypes, NEW b, NEW file, NEW until, "off" \notin until, Mixes(b, file, until)
  PROVE  /\ mixed \subseteq mixed'
         /\ \A c \in Builds \ {b} : build[c].at \in until => file \in mixed'
<1>1. ASSUME NEW c \in Builds \ {b}, build[c].at \in until PROVE file \in mixed'
  <2>1. c \in Live \ {b}
    BY <1>1, AtRun
  <2> QED
    BY <1>1, <2>1 DEF Mixes
<1>2. mixed \subseteq mixed'
  BY DEF Mixes
<1> QED
  BY <1>1, <1>2

LEMMA OffFromItsWords == \A p, br, m : FromItsWords(Off, p, br, m)
BY DEF FromItsWords, Off

LEMMA WordsStop ==
  ASSUME Typed, WordsKept, NEW b \in Builds, Stops(b), OthersFind(b)
  PROVE  WordsKept'
<1>1. build \in [Builds -> Run \cup {Off}]
  BY DEF Typed, RunTypes
<1>2. ASSUME NEW c \in Builds PROVE FromItsWords(build'[c], plan', brief', mixed')
  <2>1. CASE c = b
    BY <1>1, <2>1, OffFromItsWords DEF Stops
  <2>2. CASE c # b
    <3>1. build'[c] = build[c]
      BY <1>1, <2>2 DEF Stops
    <3> QED
      BY <2>2, <3>1, OthersKeep
  <2> QED
    BY <2>1, <2>2
<1> QED
  BY <1>2 DEF WordsKept, OthersFind

\* A run goes on, the others find what they found.
LEMMA WordsStep ==
  ASSUME Typed, WordsKept, NEW b \in Builds, build[b].at # "off",
         NEW at, NEW text, NEW made, Steps(b, at, text, made), OthersFind(b),
         at = "confirm" => "brief" \in mixed' \/ brief'.of = text,
         at = "plan" => made.of = text,
         at \in {"approve", "load"} => "plan" \in mixed' \/ plan'.of = text,
         at = "build" => "plan" \in mixed' \/ made.of = text,
         at \in {"plan", "build"} => "brief" \in mixed' \/ made.from = made.of
  PROVE  WordsKept'
<1>1. RunTypes
  BY DEF Typed
<1>2. PICK r : /\ build' = [build EXCEPT ![b] = r]
               /\ r.at = at /\ r.text = text /\ r.plan = made
  BY <1>1, StepsTo
<1>3. build'[b] = r /\ \A c \in Builds \ {b} : build'[c] = build[c]
  BY <1>1, <1>2 DEF RunTypes
<1>4. FromItsWords(build'[b], plan', brief', mixed')
  BY <1>2, <1>3 DEF FromItsWords
<1>5. \A c \in Builds \ {b} : FromItsWords(build'[c], plan', brief', mixed')
  BY <1>3, OthersKeep
<1> QED
  BY <1>4, <1>5 DEF WordsKept, OthersFind

LEMMA WordsRequest ==
  ASSUME Typed, WordsKept, NEW t \in Tabs, Request(t)
  PROVE  WordsKept'
<1>1. RunTypes /\ PlanTypes /\ build \in [Builds -> Run \cup {Off}]
  BY DEF Typed, RunTypes
<1> DEFINE Found == UNCHANGED build /\ OthersFind(NoBuild)
<1>2. Found => WordsKept'
  <2>1. Builds \ {NoBuild} = Builds
    BY StudioAssumption
  <2> QED
    BY <2>1, OthersKeep DEF WordsKept, OthersFind
<1>3. CASE SaveFdr(t)
  <2>1. UNCHANGED <<brief, build, mixed>>
    BY <1>3 DEF SaveFdr, marks, others
  <2>2. plan' = plan \/ \E text : plan' = Released(text)
    BY <1>3 DEF SaveFdr
  <2>3. plan' = plan \/ (plan # None /\ plan'.of = plan.of /\ plan'.from = plan.from)
    BY <1>1, <2>2, ReleasedShape
  <2>4. plan'.of = plan.of /\ PlanOfItsBrief(plan', mixed')
    BY <2>1, <2>3 DEF WordsKept, PlanOfItsBrief
  <2> QED
    BY <1>2, <2>1, <2>4 DEF OthersFind
<1>4. CASE FdrDiscovers(t)
  <2>1. UNCHANGED <<plan, build>>
    BY <1>4 DEF FdrDiscovers
  <2>2. CASE UNCHANGED <<brief, mixed>>
    BY <1>2, <2>1, <2>2, NothingReplaced
  <2>3. CASE Mixes(NoBuild, "brief", {"confirm"})
    <3>1. /\ mixed \subseteq mixed'
          /\ \A c \in Builds \ {NoBuild} : build[c].at = "confirm" => "brief" \in mixed'
      BY <1>1, <2>3, MixesNotes
    <3> QED
      BY <1>2, <2>1, <3>1 DEF OthersFind, WordsKept, PlanOfItsBrief
  <2> QED
    BY <1>4, <2>2, <2>3 DEF FdrDiscovers
<1>5. CASE SpawnBuild(t)
  <2>1. UNCHANGED <<brief, plan, mixed>>
    BY <1>5 DEF SpawnBuild, planning, marks, others
  <2>2. PICK b \in Builds : \E shown :
          build' = [build EXCEPT ![b] =
                     [at |-> "read", text |-> NoDoc, plan |-> None, shown |-> shown]]
    BY <1>5 DEF SpawnBuild
  <2>3. \A c \in Builds : build'[c] = build[c] \/ build'[c].at = "read"
    BY <1>1, <2>2
  <2> QED
    BY <2>1, <2>3 DEF WordsKept, FromItsWords
<1>6. CASE ~ (SaveFdr(t) \/ FdrDiscovers(t) \/ SpawnBuild(t))
  <2>1. UNCHANGED <<brief, plan, build, mixed>>
    BY <1>6 DEF Request, Home, Chat, SubmitAnswer, ChatAnswer, Extract, SubmitGuess, ChatGuess,
       BeginAssess, Assess, ChatEnough, ChatRestart, SubmitFdr, FdrReads, FdrSummary, StartBuild,
       Reset, Raises, Submits, NotesOverlap, planning, marks, others
  <2> QED
    BY <2>1 DEF WordsKept
<1> QED
  BY <1>3, <1>4, <1>5, <1>6

LEMMA WordsBuild ==
  ASSUME Typed, WordsKept, NEW b \in Builds, BuildStep(b)
  PROVE  WordsKept'
<1>1. RunTypes /\ PlanTypes /\ DocTypes
  BY DEF Typed
<1>2. CASE BuildReads(b)
  <2>1. UNCHANGED <<brief, plan, mixed>> /\ build[b].at = "read"
    BY <1>2 DEF BuildReads, planning, marks, others
  <2>2. OthersFind(b)
    BY <2>1, NothingReplaced
  <2>3. CASE Stops(b)
    BY <2>2, <2>3, WordsStop
  <2>4. CASE Reusable(fdr) /\ Steps(b, "load", fdr, None)
    <3>1. plan'.of = fdr
      BY <2>1, <2>4 DEF Reusable
    <3> QED
      BY <2>1, <2>2, <2>4, <3>1, WordsStep
  <2>5. CASE Steps(b, "discover", fdr, None)
    BY <2>1, <2>2, <2>5, WordsStep
  <2> QED
    BY <1>2, <2>3, <2>4, <2>5 DEF BuildReads
<1>3. CASE BuildDiscovers(b)
  <2>1. UNCHANGED plan /\ build[b].at = "discover"
    BY <1>3 DEF BuildDiscovers
  <2>2. CASE Stops(b) /\ UNCHANGED <<brief, mixed>>
    <3>1. OthersFind(b)
      BY <2>1, <2>2, NothingReplaced
    <3> QED
      BY <2>2, <3>1, WordsStop
  <2>3. CASE /\ brief' = [of |-> build[b].text, status |-> "proposed"]
             /\ Mixes(b, "brief", {"confirm"})
             /\ Steps(b, "confirm", build[b].text, None)
    <3>1. /\ mixed \subseteq mixed'
          /\ \A c \in Builds \ {b} : build[c].at = "confirm" => "brief" \in mixed'
      BY <1>1, <2>3, MixesNotes
    <3>2. OthersFind(b)
      BY <2>1, <3>1 DEF OthersFind, WordsKept, PlanOfItsBrief
    <3>3. brief'.of = build[b].text
      BY <2>3
    <3> QED
      BY <2>1, <2>3, <3>2, <3>3, WordsStep
  <2> QED
    BY <1>3, <2>2, <2>3 DEF BuildDiscovers
<1>4. CASE BuildConfirms(b)
  <2> DEFINE text == build[b].text
  <2>1. UNCHANGED <<plan, mixed>> /\ build[b].at = "confirm"
    BY <1>4 DEF BuildConfirms, marks, others
  <2>2. brief \in Brief
    BY <1>1, <2>1, AtRun DEF RunReady
  <2>3. brief'.of = brief.of
    BY <1>4, <2>2 DEF BuildConfirms, Brief
  <2>4. OthersFind(b)
    BY <2>1, <2>3, NothingReplaced
  <2>5. "brief" \in mixed' \/ brief.of = text
    BY <2>1 DEF WordsKept, FromItsWords
  <2>6. CASE Reusable(text)
    <3>1. Steps(b, "approve", text, None) /\ plan'.of = text
      BY <1>4, <2>1, <2>6 DEF BuildConfirms, Reusable
    <3> HIDE DEF text
    <3> QED
      BY <2>1, <2>4, <3>1, WordsStep
  <2>7. CASE Locked /\ ~ Reusable(text)
    <3>1. Stops(b)
      BY <1>4, <2>7 DEF BuildConfirms
    <3> QED
      BY <2>4, <3>1, WordsStop
  <2>8. CASE ~ Locked /\ ~ Reusable(text)
    <3> DEFINE made == [of |-> text, from |-> brief.of, status |-> "proposed"]
    <3>1. Steps(b, "plan", text, made)
      BY <1>4, <2>8 DEF BuildConfirms
    <3>2. made.of = text /\ made.from = brief.of
      OBVIOUS
    <3> HIDE DEF text, made
    <3> QED
      BY <2>1, <2>4, <2>5, <3>1, <3>2, WordsStep
  <2> QED
    BY <2>6, <2>7, <2>8
<1>5. CASE BuildPlans(b)
  <2>1. UNCHANGED brief /\ build[b].at = "plan"
    BY <1>5 DEF BuildPlans
  <2>2. build[b].plan \in Plan
    BY <1>1, <2>1, AtRun DEF RunReady
  <2>3. /\ build[b].plan.of = build[b].text
        /\ "brief" \in mixed \/ build[b].plan.from = build[b].plan.of
    BY <2>1 DEF WordsKept, FromItsWords
  <2>4. /\ mixed \subseteq mixed'
        /\ \A c \in Builds \ {b} : build[c].at \in {"approve", "load"} => "plan" \in mixed'
    BY <1>1, <1>5, MixesNotes DEF BuildPlans
  <2>5. plan'.of = build[b].plan.of /\ plan'.from = build[b].plan.from
    BY <1>5, <2>2 DEF BuildPlans, Plan
  <2>6. OthersFind(b)
    <3>1. PlanOfItsBrief(plan', mixed')
      BY <2>3, <2>4, <2>5 DEF PlanOfItsBrief
    <3> QED
      BY <2>1, <2>4, <3>1 DEF OthersFind
  <2>7. CASE Steps(b, "approve", build[b].text, None)
    BY <2>1, <2>3, <2>5, <2>6, <2>7, WordsStep
  <2>8. CASE Stops(b)
    BY <2>6, <2>8, WordsStop
  <2> QED
    BY <1>5, <2>7, <2>8 DEF BuildPlans
<1>6. CASE BuildApproves(b)
  <2>1. UNCHANGED <<brief, mixed>> /\ build[b].at = "approve"
    BY <1>6 DEF BuildApproves, marks, others
  <2>2. plan \in Plan
    BY <1>1, <2>1, AtRun DEF RunReady
  <2>3. plan # None /\ plan'.of = plan.of /\ plan'.from = plan.from
    BY <1>6, <2>2, NoPlanAssumption DEF BuildApproves, Plan
  <2>4. OthersFind(b)
    BY <2>1, <2>3 DEF OthersFind, WordsKept, PlanOfItsBrief
  <2>5. "plan" \in mixed \/ plan.of = build[b].text
    BY <2>1 DEF WordsKept, FromItsWords
  <2>6. CASE Steps(b, "load", build[b].text, None)
    BY <2>1, <2>3, <2>4, <2>5, <2>6, WordsStep
  <2>7. CASE Stops(b)
    BY <2>4, <2>7, WordsStop
  <2> QED
    BY <1>6, <2>6, <2>7 DEF BuildApproves
<1>7. CASE BuildLoads(b)
  <2>1. /\ UNCHANGED <<brief, plan, mixed>> /\ build[b].at = "load"
        /\ Steps(b, "build", build[b].text, plan)
    BY <1>7 DEF BuildLoads, planning, marks, others
  <2>2. plan \in Plan
    BY <1>1, <2>1, AtRun DEF RunReady
  <2>3. OthersFind(b)
    BY <2>1, NothingReplaced
  <2>4. "plan" \in mixed' \/ plan.of = build[b].text
    BY <2>1 DEF WordsKept, FromItsWords
  <2>5. "brief" \in mixed' \/ plan.from = plan.of
    BY <2>1, <2>2, NoPlanAssumption DEF WordsKept, PlanOfItsBrief
  <2> QED
    BY <2>1, <2>3, <2>4, <2>5, WordsStep
<1>8. CASE BuildEnds(b) \/ BuildDies(b)
  <2>1. UNCHANGED <<brief, plan, mixed>> /\ Stops(b)
    BY <1>8 DEF BuildEnds, BuildDies, planning, marks, others
  <2> QED
    BY <2>1, WordsStop, NothingReplaced
<1> QED
  BY <1>2, <1>3, <1>4, <1>5, <1>6, <1>7, <1>8 DEF BuildStep

LEMMA NextKeepsWords == Typed /\ WordsKept /\ [Next]_vars => WordsKept'
<1> SUFFICES ASSUME Typed, WordsKept, [Next]_vars PROVE WordsKept'
  OBVIOUS
<1>1. CASE EditFdr \/ StudioRestarts \/ UNCHANGED vars
  BY <1>1 DEF EditFdr, StudioRestarts, vars, planning, marks, others, WordsKept
<1> QED
  BY <1>1, WordsRequest, WordsBuild DEF Next

LEMMA WordsKeptAtStart == Init => WordsKept
BY OffFromItsWords DEF Init, WordsKept, PlanOfItsBrief

LEMMA WordsKeptIsBuilt == WordsKept => BuiltFromItsWords
BY DEF WordsKept, FromItsWords, BuiltFromItsWords, Live

\* A build makes the words it read into a plan, or takes the plan that is theirs,
\* however many requests and builds write FDR.md, the brief and the plan meanwhile:
\* up to the first brief or plan that another run replaced before its run had read it
\* for the last time.
THEOREM StudioBuildsItsWords == Spec => []BuiltFromItsWords
BY InitTyped, NextTyped, WordsKeptAtStart, NextKeepsWords, WordsKeptIsBuilt, PTL DEF Spec
-----------------------------------------------------------------------------
(* Proposals need a yes.                                                   *)

\* No words of a model's in a document but those the founder agreed to.
Clean(d, yes) ==
  d # NoDoc => \A s \in Slots : d.says[s] \in Proposals => <<s, d.says[s]>> \in yes

\* Nor in what an open page may send.
PageClean(page, yes) ==
  /\ page.kind \in {"form", "handoff", "conflict"} => Clean(page.doc, yes)
  /\ page.kind = "conflict" => Clean(page.mine, yes)

DocsClean == Clean(fdr, agreed) /\ Clean(backup, agreed)
PagesClean == \A t \in Tabs : PageClean(tab[t].page, agreed)
AllClean == Accepted(thread) \subseteq agreed /\ DocsClean /\ PagesClean

\* The inductive invariant: the proposals a thread, a document or an open page
\* holds were agreed to, until a yes was taken for one that was not shown.
ProposalsAgreed == unseen \/ AllClean

\* Agreeing to more takes nothing back.
LEMMA CleanGrows ==
  ASSUME NEW yes, NEW more, yes \subseteq more
  PROVE  /\ \A d : Clean(d, yes) => Clean(d, more)
         /\ \A page : PageClean(page, yes) => PageClean(page, more)
BY DEF Clean, PageClean

LEMMA PageTurnsClean ==
  ASSUME PagesClean, agreed \subseteq agreed', NEW t \in Tabs, NEW r, Turns(t, r),
         PageClean(r.page, agreed')
  PROVE  PagesClean'
BY CleanGrows DEF PagesClean, Turns

LEMMA ShowClean ==
  ASSUME Typed, PagesClean, agreed \subseteq agreed', NEW t \in Tabs, NEW page \in Page,
         Show(t, page), PageClean(page, agreed')
  PROVE  PagesClean'
<1> DEFINE r == [page |-> page, at |-> "idle", text |-> NoDoc]
<1>1. Turns(t, r) /\ r.page = page
  BY ShowTurns DEF Typed
<1> HIDE DEF r
<1> QED
  BY <1>1, PageTurnsClean

LEMMA GoesClean ==
  ASSUME Typed, PagesClean, agreed \subseteq agreed', NEW t \in Tabs, NEW at \in Doing,
         Goes(t, at)
  PROVE  PagesClean'
<1> DEFINE r == [tab[t] EXCEPT !.at = at]
<1>1. Turns(t, r) /\ r.page = tab[t].page
  BY GoesTurns, GoesFields DEF Typed
<1> HIDE DEF r
<1>2. PageClean(r.page, agreed')
  BY <1>1, CleanGrows DEF PagesClean
<1> QED
  BY <1>1, <1>2, PageTurnsClean

\* A page that holds no document has none to send.
LEMMA BareIsClean ==
  ASSUME NEW page, page.kind \in {"blank", "question", "guess", "interrupted", "product", "confirm"},
         NEW yes
  PROVE  PageClean(page, yes)
BY DEF PageClean

\* A handoff writes what the document held, and what the thread accepted.
LEMMA HandsOffClean ==
  ASSUME Typed, DocsClean, PagesClean, NEW t \in Tabs, NEW turns \in Seq(Turn),
         HandsOff(t, turns), Accepted(turns) \subseteq agreed, agreed' = agreed
  PROVE  DocsClean' /\ PagesClean'
<1>1. /\ fdr' = Composed(turns, fdr) /\ fdr' \in Doc /\ backup' \in {backup, fdr}
      /\ Show(t, [kind |-> "handoff", doc |-> fdr'])
  BY HandsOffDoes DEF Typed
<1>2. Clean(fdr', agreed)
  <2>1. ASSUME NEW s \in Slots, fdr'.says[s] \in Proposals
        PROVE  <<s, fdr'.says[s]>> \in agreed
    <3>1. fdr \in Doc \cup {NoDoc}
      BY DEF Typed, DocTypes
    <3>2. \/ fdr # NoDoc /\ fdr'.says[s] = fdr.says[s]
          \/ <<s, fdr'.says[s]>> \in Accepted(turns)
      BY <1>1, <2>1, <3>1, ComposedFrom
    <3> QED
      BY <2>1, <3>2 DEF DocsClean, Clean
  <2> QED
    BY <2>1 DEF Clean
<1>3. DocsClean'
  BY <1>1, <1>2 DEF DocsClean
<1>4. PagesClean'
  <2> DEFINE page == [kind |-> "handoff", doc |-> fdr']
  <2>1. page \in Page /\ PageClean(page, agreed')
    BY <1>1, <1>2, PageShapes DEF PageClean
  <2> HIDE DEF page
  <2> QED
    BY <1>1, <2>1, ShowClean DEF page
<1> QED
  BY <1>3, <1>4

LEMMA ChatPageClean ==
  ASSUME Typed, DocsClean, PagesClean, NEW t \in Tabs, NEW turns \in Seq(Turn),
         NEW start \in BOOLEAN, ChatPage(t, turns, start),
         Accepted(turns) \subseteq agreed, agreed' = agreed
  PROVE  AllClean'
<1>1. PICK kept : Kept(turns, kept) /\ (Renders(t, kept) \/ Passes(t, kept))
  BY ChatPageDoes
<1>2. kept \in Seq(Turn) /\ Accepted(kept) \subseteq agreed
  BY <1>1, KeptIsHarmless
<1>3. CASE Renders(t, kept)
  <2>1. PICK page \in ChatPages \cup {[kind |-> "form", doc |-> fdr]} : Show(t, page)
    BY <1>3 DEF Renders
  <2>2. page \in Page
    BY PageShapes DEF ChatPages, Page, Typed, DocTypes
  <2>3. PageClean(page, agreed)
    BY DEF ChatPages, PageClean, DocsClean
  <2>4. PagesClean'
    BY <2>1, <2>2, <2>3, ShowClean
  <2>5. DocsClean'
    BY <1>3 DEF Renders, docs, DocsClean
  <2>6. Accepted(thread') \subseteq agreed
    BY <1>2, <1>3, AndAskedIsHarmless DEF Renders
  <2> QED
    BY <2>4, <2>5, <2>6 DEF AllClean
<1>4. CASE Passes(t, kept) /\ RoundsUsed(kept) >= MaxRounds
  BY <1>2, <1>4, HandsOffClean DEF Passes, AllClean
<1>5. CASE Passes(t, kept) /\ ~ (RoundsUsed(kept) >= MaxRounds)
  <2>1. Goes(t, "assess") /\ UNCHANGED docs /\ thread' = kept
    BY <1>5 DEF Passes
  <2>2. PagesClean'
    BY <2>1, GoesClean DEF Doing
  <2> QED
    BY <1>2, <2>1, <2>2 DEF AllClean, DocsClean, docs
<1> QED
  BY <1>1, <1>3, <1>4, <1>5

LEMMA ChatClean ==
  ASSUME Typed, AllClean, NEW t \in Tabs, Chat(t) \/ Home(t) \/ Assess(t)
  PROVE  AllClean'
<1>1. agreed' = agreed /\ DocsClean /\ PagesClean /\ Accepted(thread) \subseteq agreed
  BY DEF Chat, Home, Assess, NotesOverlap, others, AllClean
<1>2. thread \in Seq(Turn)
  BY DEF Typed, ThreadType
<1>3. ASSUME NEW page \in Page, Show(t, page), PageClean(page, agreed), UNCHANGED <<thread, docs>>
      PROVE  AllClean'
  <2>1. PagesClean'
    BY <1>1, <1>3, ShowClean
  <2> QED
    BY <1>1, <1>3, <2>1 DEF AllClean, DocsClean, docs
<1>4. CASE Chat(t)
  <2>1. CASE thinking
    BY <1>3, <1>4, <2>1, PageShapes, BareIsClean DEF Chat, Blank
  <2>2. CASE ~ thinking
    <3>1. PICK start \in BOOLEAN : ChatPage(t, thread, start)
      BY <1>4, <2>2 DEF Chat
    <3> QED
      BY <1>1, <1>2, <3>1, ChatPageClean
  <2> QED
    BY <2>1, <2>2
<1>5. CASE Home(t)
  <2>1. \A page \in StatusPage : page \in Page /\ PageClean(page, agreed)
    <3>1. ASSUME NEW page \in StatusPage
          PROVE  \/ page \in {Blank, [kind |-> "interrupted"], [kind |-> "product"]}
                 \/ \E d \in Doc : page = [kind |-> "confirm", doc |-> d]
      BY <3>1 DEF StatusPage, Typed, DocTypes
    <3>2. \A page \in {Blank, [kind |-> "interrupted"], [kind |-> "product"]} :
            page \in Page /\ PageClean(page, agreed)
      BY PageShapes, BareIsClean DEF Blank
    <3>3. ASSUME NEW d \in Doc, NEW page, page = [kind |-> "confirm", doc |-> d]
          PROVE  page \in Page /\ PageClean(page, agreed)
      <4>1. page.kind = "confirm" /\ page \in Page
        BY <3>3, PageShapes
      <4> QED
        BY <4>1, BareIsClean
    <3> QED
      BY <3>1, <3>2, <3>3
  <2>2. [kind |-> "form", doc |-> fdr] \in Page /\ PageClean([kind |-> "form", doc |-> fdr], agreed)
    BY <1>1, PageShapes DEF PageClean, DocsClean, Typed, DocTypes
  <2>3. CASE ChatPage(t, thread, FALSE)
    BY <1>1, <1>2, <2>3, ChatPageClean
  <2>4. CASE ~ ChatPage(t, thread, FALSE)
    <3>1. PICK page \in Page :
            Show(t, page) /\ PageClean(page, agreed) /\ UNCHANGED <<thread, docs>>
      BY <1>5, <2>1, <2>2, <2>4 DEF Home
    <3> QED
      BY <1>3, <3>1
  <2> QED
    BY <2>3, <2>4
<1>6. CASE Assess(t)
  <2>1. CASE HandsOff(t, thread) /\ UNCHANGED thread
    BY <1>1, <1>2, <2>1, HandsOffClean DEF AllClean
  <2>2. CASE ChatPage(t, Append(thread, Asked("clarify")), FALSE)
    <3>1. /\ Append(thread, Asked("clarify")) \in Seq(Turn)
          /\ Accepted(Append(thread, Asked("clarify"))) \subseteq agreed
      <4> DEFINE x == Asked("clarify")
      <4>1. x \in Turn /\ x.role # "user"
        BY TurnShapes DEF Asked
      <4> HIDE DEF x
      <4>2. Append(thread, x) = thread \o <<x>> /\ <<x>> \in Seq(Turn)
            /\ \A j \in 1 .. Len(<<x>>) : <<x>>[j] = x
        BY <1>2, <4>1, OneTurn
      <4>3. Accepted(thread \o <<x>>) \subseteq Accepted(thread) \cup {}
        BY <1>2, <4>1, <4>2, AcceptedGrows
      <4> QED
        BY <1>1, <1>2, <4>2, <4>3, OneFollowUpPut DEF x
    <3> QED
      BY <1>1, <2>2, <3>1, ChatPageClean
  <2> QED
    BY <1>6, <2>1, <2>2 DEF Assess
<1> QED
  BY <1>4, <1>5, <1>6

\* An answer the founder typed, or skipped, is no proposal.
LEMMA AnswerClean ==
  ASSUME Typed, AllClean, NEW t \in Tabs, ChatAnswer(t)
  PROVE  Accepted(thread') \subseteq agreed
<1>1. thread \in Seq(Turn)
  BY DEF Typed, ThreadType
<1>2. CASE ~ HasOpenQuestion(thread)
  BY <1>2 DEF ChatAnswer, AllClean
<1>3. CASE HasOpenQuestion(thread)
  <2>1. PICK words \in {"typed", "skipped"} :
          thread' = Append(thread, Answer(Last(thread).slot, words))
    BY <1>3 DEF ChatAnswer
  <2> DEFINE x == Answer(Last(thread).slot, words)
  <2>2. Len(thread) \in 1 .. Len(thread)
    BY <1>1, <1>3, EmptySeq DEF HasOpenQuestion
  <2>3. Last(thread) \in Turn
    BY <1>1, <2>2 DEF Last
  <2>4. x \in Turn /\ x.words \notin Proposals
    BY <2>3, TurnShapes, WordNames DEF Answer
  <2> HIDE DEF x
  <2>5. thread' = thread \o <<x>> /\ <<x>> \in Seq(Turn) /\ \A j \in 1 .. Len(<<x>>) : <<x>>[j] = x
    BY <1>1, <2>1, <2>4, OneTurn DEF x
  <2>6. Accepted(thread \o <<x>>) \subseteq Accepted(thread) \cup {}
    BY <1>1, <2>4, <2>5, AcceptedGrows
  <2> QED
    BY <2>5, <2>6 DEF AllClean
<1> QED
  BY <1>2, <1>3

\* An answer to a proposal: yes, to the one the page showed; or not, in words
\* that are not a model's.
LEMMA GuessClean ==
  ASSUME Typed, AllClean, NEW t \in Tabs, ChatGuess(t)
  PROVE  unseen' \/ (Accepted(thread') \subseteq agreed' /\ agreed \subseteq agreed')
<1>1. thread \in Seq(Turn) /\ Accepted(thread) \subseteq agreed
  BY DEF Typed, ThreadType, AllClean
<1>2. ASSUME NEW g \in PendingGuess(thread), NEW words \in {"typed", "skipped", g.words},
             thread' = thread \o Said(g.slot, words)
      PROVE  Accepted(thread') \subseteq
               agreed \cup (IF words = g.words THEN {<<g.slot, g.words>>} ELSE {})
  <2> DEFINE X == IF words = g.words THEN {<<g.slot, g.words>>} ELSE {}
             tail == Said(g.slot, words)
  <2>1. g \in Turn /\ g.kind = "guess"
    BY <1>1 DEF PendingGuess
  <2>2. g.slot \in Slots /\ g.words \in Proposals
    BY <2>1, TurnShapes
  <2>3. /\ tail \in Seq(Turn) /\ Len(tail) = 2
        /\ tail[1].role = "assistant" /\ tail[2].role = "user"
        /\ tail[1].slot = g.slot /\ tail[2].words = words
    BY <2>2, SaidShape, WordNames
  <2>4. words \in Proposals => words = g.words
    BY WordNames
  <2> HIDE DEF tail
  <2>5. ASSUME NEW j \in 1 .. Len(tail), tail[j].role = "user", tail[j].words \in Proposals
        PROVE  j # 1 /\ <<tail[j - 1].slot, tail[j].words>> \in X
    <3>1. j = 2
      BY <2>3, <2>5
    <3>2. tail[j - 1] = tail[1]
      BY <3>1
    <3> QED
      BY <2>3, <2>4, <2>5, <3>1, <3>2
  <2> HIDE DEF X
  <2>6. Accepted(thread \o tail) \subseteq Accepted(thread) \cup X
    BY <1>1, <2>3, <2>5, AcceptedGrows
  <2> QED
    BY <1>1, <1>2, <2>6 DEF X, tail
<1>3. CASE PendingGuess(thread) = {} /\ UNCHANGED <<thread, agreed, unseen>>
  BY <1>1, <1>3
<1>4. ASSUME NEW g \in PendingGuess(thread), NEW words \in {"typed", "skipped"},
             thread' = thread \o Said(g.slot, words), UNCHANGED <<agreed, unseen>>
      PROVE  Accepted(thread') \subseteq agreed' /\ agreed \subseteq agreed'
  <2>1. g.words # words
    <3>1. g \in Turn /\ g.kind = "guess"
      BY <1>1 DEF PendingGuess
    <3> QED
      BY <3>1, TurnShapes, WordNames
  <2>2. words \in {"typed", "skipped", g.words} /\ thread' = thread \o Said(g.slot, words)
    BY <1>4
  <2>3. Accepted(thread') \subseteq agreed
    BY <1>2, <2>1, <2>2
  <2> QED
    BY <1>4, <2>3
<1>5. ASSUME NEW g \in PendingGuess(thread), thread' = thread \o Said(g.slot, g.words),
             agreed' = agreed \cup {<<g.slot, g.words>>}
      PROVE  Accepted(thread') \subseteq agreed' /\ agreed \subseteq agreed'
  BY <1>2, <1>5
<1> QED
  BY <1>3, <1>4, <1>5 DEF ChatGuess

\* The steps that write no document.
LEMMA ConversationClean ==
  ASSUME Typed, AllClean, NEW t \in Tabs,
         \/ BeginAssess(t) \/ SubmitAnswer(t) \/ ChatAnswer(t) \/ Extract(t)
         \/ SubmitGuess(t) \/ ChatGuess(t) \/ ChatRestart(t) \/ SubmitFdr(t)
         \/ FdrReads(t) \/ FdrDiscovers(t) \/ FdrSummary(t)
         \/ StartBuild(t) \/ SpawnBuild(t) \/ Reset(t) \/ Raises(t)
  PROVE  ProposalsAgreed'
<1>1. UNCHANGED <<fdr, backup>> /\ thread \in Seq(Turn) /\ Accepted(thread) \subseteq agreed
  BY DEF BeginAssess, SubmitAnswer, ChatAnswer, Extract, SubmitGuess, ChatGuess, ChatRestart,
         SubmitFdr, FdrReads, FdrDiscovers, FdrSummary, StartBuild, SpawnBuild, Reset, Raises,
         Submits, docs, Typed, ThreadType, AllClean
<1>2. unseen' \/ (Accepted(thread') \subseteq agreed' /\ agreed \subseteq agreed')
  <2>1. CASE ChatGuess(t)
    BY <2>1, GuessClean
  <2>2. CASE ~ ChatGuess(t)
    <3>1. agreed' = agreed
      BY <2>2 DEF BeginAssess, SubmitAnswer, ChatAnswer, Extract, SubmitGuess, ChatRestart,
         SubmitFdr, FdrReads, FdrDiscovers, FdrSummary, StartBuild, SpawnBuild, Reset, Raises,
         Submits, marks, others
    <3>2. Accepted(thread') \subseteq agreed
      <4>1. CASE ChatAnswer(t)
        BY <4>1, AnswerClean
      <4>2. CASE Extract(t)
        BY <1>1, <4>2, ExtractedIsHarmless, StudioAssumption DEF Extract
      <4>3. CASE ChatRestart(t)
        BY <4>3, NothingPut DEF ChatRestart
      <4>4. CASE ~ (ChatAnswer(t) \/ Extract(t) \/ ChatRestart(t))
        <5>1. thread' = thread
          BY <2>2, <4>4 DEF BeginAssess, SubmitAnswer, SubmitGuess, SubmitFdr, FdrReads,
             FdrDiscovers, FdrSummary, StartBuild, SpawnBuild, Reset, Raises, Submits
        <5> QED
          BY <1>1, <5>1
      <4> QED
        BY <4>1, <4>2, <4>3, <4>4
    <3> QED
      BY <3>1, <3>2
  <2> QED
    BY <2>1, <2>2
<1>3. ASSUME agreed \subseteq agreed' PROVE PagesClean'
  <2>1. PagesClean
    BY DEF AllClean
  <2>2. Show(t, Blank) => PagesClean'
    BY <1>3, <2>1, PageShapes, BareIsClean, ShowClean DEF Blank
  <2>3. \A at \in Doing : Goes(t, at) => PagesClean'
    BY <1>3, <2>1, GoesClean
  <2>4. CASE FdrReads(t) /\ ~ Locked
    <3>1. tab' = [tab EXCEPT ![t].at = "discover", ![t].text = fdr]
      BY <2>4 DEF FdrReads
    <3>2. \A u \in Tabs : tab'[u].page = tab[u].page
      BY <3>1 DEF Typed, TabTypes, Tab
    <3> QED
      BY <1>3, <2>1, <3>2, CleanGrows DEF PagesClean
  <2>5. CASE ~ (FdrReads(t) /\ ~ Locked)
    <3>1. \/ Show(t, Blank)
          \/ \E at \in Doing : Goes(t, at)
      BY <2>5 DEF BeginAssess, SubmitAnswer, ChatAnswer, Extract, SubmitGuess, ChatGuess,
         ChatRestart, SubmitFdr, FdrReads, FdrDiscovers, FdrSummary, StartBuild, SpawnBuild,
         Reset, Raises, Submits, Doing
    <3> QED
      BY <2>2, <2>3, <3>1
  <2> QED
    BY <2>4, <2>5
<1>4. ASSUME agreed \subseteq agreed' PROVE DocsClean'
  BY <1>1, <1>4, CleanGrows DEF AllClean, DocsClean
<1> QED
  BY <1>2, <1>3, <1>4 DEF ProposalsAgreed, AllClean

\* A form sends what it was rendered with, or words the founder wrote by hand.
LEMMA SaveClean ==
  ASSUME Typed, AllClean, NEW t \in Tabs, SaveFdr(t)
  PROVE  AllClean'
<1>1. UNCHANGED <<thread, backup, agreed>> /\ DocsClean /\ PagesClean
  BY DEF SaveFdr, marks, others, AllClean
<1>2. tab[t] \in Tab /\ Ready(tab[t], fdr) /\ tab[t].at = "save"
  BY DEF Typed, TabTypes, SaveFdr
<1>3. tab[t].page \in Page /\ tab[t].page.kind \in {"form", "handoff", "conflict"}
  BY <1>2 DEF Tab, Ready
<1>4. PICK sent \in Submission(tab[t].page) :
        IF Conflict(sent)
        THEN /\ Show(t, [kind |-> "conflict", doc |-> fdr, mine |-> sent.text])
             /\ UNCHANGED <<fdr, questions, plan, thinking>>
        ELSE /\ plan' = Released(sent.text)
             /\ fdr' = sent.text
             /\ questions' = FALSE
             /\ thinking' = TRUE
             /\ Goes(t, "read")
  BY DEF SaveFdr
<1>5. Clean(sent.text, agreed) /\ sent.text \in Doc
  <2>1. /\ sent.text \in Doc
        /\ \/ sent.text \in {Handwritten(x) : x \in Texts}
           \/ sent.text = tab[t].page.doc
           \/ tab[t].page.kind = "conflict" /\ sent.text = tab[t].page.mine
    BY <1>3, SubmissionShape
  <2>2. PageClean(tab[t].page, agreed)
    BY <1>1 DEF PagesClean
  <2>3. sent.text \in {Handwritten(x) : x \in Texts} => Clean(sent.text, agreed)
    BY HandwrittenShape DEF Clean
  <2> QED
    BY <1>3, <2>1, <2>2, <2>3 DEF PageClean
<1>6. CASE Conflict(sent)
  <2> DEFINE page == [kind |-> "conflict", doc |-> fdr, mine |-> sent.text]
  <2>1. Show(t, page) /\ fdr' = fdr
    BY <1>4, <1>6
  <2>2. fdr \in Doc
    BY <1>6 DEF Conflict, Typed, DocTypes
  <2>3. page \in Page /\ PageClean(page, agreed)
    BY <1>1, <1>5, <2>2, PageShapes DEF PageClean, DocsClean
  <2> HIDE DEF page
  <2>4. PagesClean'
    BY <1>1, <2>1, <2>3, ShowClean
  <2> QED
    BY <1>1, <2>1, <2>4 DEF AllClean, DocsClean
<1>7. CASE ~ Conflict(sent)
  <2>1. fdr' = sent.text /\ Goes(t, "read")
    BY <1>4, <1>7
  <2>2. PagesClean'
    BY <1>1, <2>1, GoesClean DEF Doing
  <2> QED
    BY <1>1, <1>5, <2>1, <2>2 DEF AllClean, DocsClean
<1> QED
  BY <1>6, <1>7

LEMMA RequestClean ==
  ASSUME Typed, ProposalsAgreed, NEW t \in Tabs, Request(t)
  PROVE  ProposalsAgreed'
<1>1. CASE unseen
  <2>1. CASE ChatGuess(t)
    BY <1>1, <2>1 DEF ChatGuess, ProposalsAgreed
  <2>2. CASE ~ ChatGuess(t)
    BY <1>1, <2>2 DEF Request, Home, Chat, SubmitAnswer, ChatAnswer, Extract, SubmitGuess,
       BeginAssess, Assess, ChatEnough, ChatRestart, SubmitFdr, SaveFdr, FdrReads, FdrDiscovers,
       FdrSummary, StartBuild, SpawnBuild, Reset, Raises, Submits, NotesOverlap, marks, others,
       ProposalsAgreed
  <2> QED
    BY <2>1, <2>2
<1>2. CASE AllClean
  <2>1. CASE ChatEnough(t)
    <3>1. HandsOff(t, thread) /\ thread \in Seq(Turn) /\ UNCHANGED <<thread, agreed>>
      BY <2>1 DEF ChatEnough, Typed, ThreadType, marks, others
    <3> QED
      BY <1>2, <3>1, HandsOffClean DEF AllClean, ProposalsAgreed
  <2>2. CASE Chat(t) \/ Home(t) \/ Assess(t)
    BY <1>2, <2>2, ChatClean DEF ProposalsAgreed
  <2>3. CASE SaveFdr(t)
    BY <1>2, <2>3, SaveClean DEF ProposalsAgreed
  <2> QED
    BY <1>2, <2>1, <2>2, <2>3, ConversationClean DEF Request
<1> QED
  BY <1>1, <1>2 DEF ProposalsAgreed

LEMMA NextClean == Typed /\ ProposalsAgreed /\ [Next]_vars => ProposalsAgreed'
<1> SUFFICES ASSUME Typed, ProposalsAgreed, [Next]_vars PROVE ProposalsAgreed'
  OBVIOUS
<1>1. ASSUME UNCHANGED <<thread, backup, agreed, unseen>>,
             fdr' = fdr \/ \E x \in Texts : fdr' = Handwritten(x),
             \A t \in Tabs : tab'[t].page = tab[t].page
      PROVE  ProposalsAgreed'
  <2>1. Clean(fdr, agreed) => Clean(fdr', agreed)
    BY <1>1, HandwrittenShape DEF Clean
  <2> QED
    BY <1>1, <2>1 DEF ProposalsAgreed, AllClean, DocsClean, PagesClean
<1>2. ASSUME NEW b \in Builds, BuildStep(b) PROVE ProposalsAgreed'
  <2>1. UNCHANGED <<thread, fdr, backup, agreed, unseen, tab>>
    BY <1>2 DEF BuildStep, BuildReads, BuildDiscovers, BuildConfirms, BuildPlans, BuildApproves,
       BuildLoads, BuildEnds,
       BuildDies, docs, marks, others
  <2> QED
    BY <1>1, <2>1
<1>3. CASE EditFdr
  BY <1>1, <1>3 DEF EditFdr, marks, others
<1>4. CASE StudioRestarts
  <2>1. tab' = [t \in Tabs |-> [tab[t] EXCEPT !.at = "idle", !.text = NoDoc]]
    BY <1>4 DEF StudioRestarts
  <2>2. \A t \in Tabs : tab'[t].page = tab[t].page
    BY <2>1 DEF Typed, TabTypes, Tab
  <2> QED
    BY <1>1, <1>4, <2>2 DEF StudioRestarts, docs, marks, others
<1>5. CASE UNCHANGED vars
  BY <1>1, <1>5 DEF vars, docs, marks, others
<1> QED
  BY <1>2, <1>3, <1>4, <1>5, RequestClean DEF Next

LEMMA AgreedAtStart == Init => ProposalsAgreed
<1> SUFFICES ASSUME Init PROVE ProposalsAgreed
  OBVIOUS
<1>1. DocsClean
  BY HandwrittenShape DEF Init, DocsClean, Clean
<1>2. PagesClean
  BY DEF Init, PagesClean, PageClean, Blank
<1> QED
  BY <1>1, <1>2 DEF Init, ProposalsAgreed, AllClean

LEMMA AgreedIsYes == Typed /\ ProposalsAgreed => ProposalsNeedAYes
BY DEF ProposalsAgreed, AllClean, DocsClean, Clean, ProposalsNeedAYes, Proposal

\* Words of a model's reach FDR.md, or the copy that was kept of it, by way of the
\* founder's yes: whatever was read into an answer, whichever page is sent late,
\* and whatever is handed off.
THEOREM StudioProposalsNeedAYes == Spec => []ProposalsNeedAYes
BY InitTyped, NextTyped, AgreedAtStart, NextClean, AgreedIsYes, PTL DEF Spec
-----------------------------------------------------------------------------
(* Follow-ups come to an end.                                              *)

\* The requests that are about to put a follow-up, or are having one thought up.
Waiting == {u \in Tabs : tab[u].at \in {"assess", "assessing"}}

\* The inductive invariant counts the follow-ups that were put, and one for each
\* request that may still put one; each of those but the first was noted.
RoomForFollowUps ==
  /\ Cardinality(Waiting) <= overlaps + 1
  /\ FollowUpsPut(thread) + Cardinality(Waiting) <= MostFollowUps + overlaps

LEMMA WaitingFinite ==
  /\ IsFiniteSet(Waiting) /\ Cardinality(Waiting) \in Nat
  /\ \A t : /\ IsFiniteSet(Waiting \ {t}) /\ Cardinality(Waiting \ {t}) \in Nat
            /\ Cardinality(Waiting \ {t}) <= Cardinality(Waiting)
            /\ t \in Waiting => Cardinality(Waiting) = Cardinality(Waiting \ {t}) + 1
<1>1. IsFiniteSet(Waiting)
  BY StudioAssumption, FS_Subset DEF Waiting
<1> HIDE DEF Waiting
<1>2. ASSUME NEW t
      PROVE  /\ IsFiniteSet(Waiting \ {t}) /\ Cardinality(Waiting \ {t}) \in Nat
             /\ Cardinality(Waiting \ {t}) <= Cardinality(Waiting)
             /\ t \in Waiting => Cardinality(Waiting) = Cardinality(Waiting \ {t}) + 1
  <2>1. IsFiniteSet(Waiting \ {t}) /\ Cardinality(Waiting \ {t}) <= Cardinality(Waiting)
    <3>1. Waiting \ {t} \subseteq Waiting
      OBVIOUS
    <3> QED
      BY <1>1, <3>1, FS_Subset
  <2>2. t \in Waiting => Cardinality(Waiting \ {t}) = Cardinality(Waiting) - 1
    BY <1>1, FS_RemoveElement
  <2> QED
    BY <1>1, <2>1, <2>2, FS_CardinalityType
<1> QED
  BY <1>1, <1>2, FS_CardinalityType

\* There is room for two in the rounds there are.
LEMMA RoundsHaveRoom ==
  /\ PerRound \in Nat \ {0} /\ MaxRounds \in Nat /\ PerRound * (MaxRounds - 1) \in Nat
  /\ MostFollowUps \in Nat /\ MostFollowUps >= 2
  /\ MostFollowUps = PerRound * (MaxRounds - 1) + 1
<1>1. PerRound \in Nat /\ PerRound >= 1 /\ MaxRounds \in Nat /\ MaxRounds >= 2
  BY ChatAssumption
<1> DEFINE m == MaxRounds - 1
<1>2. m \in Nat /\ m >= 1
  BY <1>1
<1> HIDE DEF m
<1>3. PerRound * m \in Nat /\ PerRound * m >= 1
  BY <1>1, <1>2
<1> QED
  BY <1>1, <1>3 DEF m, MostFollowUps

\* Rounds are counted up: while there is one left, it has not been begun.
LEMMA RoundLeft ==
  ASSUME NEW turns \in Seq(Turn), ~ (RoundsUsed(turns) >= MaxRounds), ~ HasOpenQuestion(turns)
  PROVE  FollowUpsPut(turns) + 1 <= MostFollowUps
<1> DEFINE F == FollowUps(turns)
           q == RoundsUsed(turns)
           m == MaxRounds - 1
<1>1. F \in Nat /\ PerRound \in Nat /\ PerRound >= 1 /\ MaxRounds \in Nat /\ MaxRounds >= 2
  <2>1. FollowUps(turns) \in Nat
    BY FollowUpsType
  <2>2. PerRound \in Nat /\ PerRound >= 1 /\ MaxRounds \in Nat /\ MaxRounds >= 2
    BY ChatAssumption
  <2> QED
    BY <2>1, <2>2
<1>2. q = (F + PerRound - 1) \div PerRound
  BY DEF RoundsUsed
<1> HIDE DEF F
<1>3. F + PerRound - 1 \in Nat /\ q \in Nat
  BY <1>1, <1>2
<1> HIDE DEF q
<1>4. F + PerRound - 1 < PerRound * q + PerRound
  BY <1>1, <1>2, <1>3
<1>5. q <= m /\ m \in Nat
  BY <1>1, <1>3 DEF q
<1> HIDE DEF m
<1>6. PerRound * q <= PerRound * m
  BY <1>1, <1>3, <1>5
<1>7. PerRound * q \in Nat /\ PerRound * m \in Nat
  BY <1>1, <1>3, <1>5
<1>8. F <= PerRound * m
  BY <1>1, <1>3, <1>4, <1>6, <1>7
<1>9. FollowUpsPut(turns) = F
  BY <1>1 DEF FollowUpsPut, Asking, F
<1>10. MostFollowUps = PerRound * m + 1
  BY DEF MostFollowUps, m
<1> QED
  BY <1>1, <1>7, <1>8, <1>9, <1>10

\* A request that no longer waits, or never did.
LEMMA NotWaiting ==
  ASSUME TabTypes, NEW t \in Tabs, NEW r, Turns(t, r), r.at \notin {"assess", "assessing"}
  PROVE  Waiting' = Waiting \ {t}
BY DEF Waiting, Turns

LEMMA NowWaiting ==
  ASSUME TabTypes, NEW t \in Tabs, NEW r, Turns(t, r), r.at \in {"assess", "assessing"}
  PROVE  Waiting' = Waiting \cup {t}
BY DEF Waiting, Turns

LEMMA ShowWaits ==
  ASSUME Typed, NEW t \in Tabs, NEW page \in Page, Show(t, page)
  PROVE  Waiting' = Waiting \ {t} /\ tab'[t].at = "idle"
<1> DEFINE r == [page |-> page, at |-> "idle", text |-> NoDoc]
<1>1. Turns(t, r) /\ r.at = "idle"
  BY ShowTurns DEF Typed
<1> HIDE DEF r
<1> QED
  BY <1>1, NotWaiting DEF Turns, Typed

LEMMA GoesWaits ==
  ASSUME Typed, NEW t \in Tabs, NEW at \in Doing, Goes(t, at)
  PROVE  /\ tab'[t].at = at
         /\ at \notin {"assess", "assessing"} => Waiting' = Waiting \ {t}
         /\ at \in {"assess", "assessing"} => Waiting' = Waiting \cup {t}
<1> DEFINE r == [tab[t] EXCEPT !.at = at]
<1>1. Turns(t, r) /\ r.at = at
  BY GoesTurns, GoesFields DEF Typed
<1> HIDE DEF r
<1> QED
  BY <1>1, NotWaiting, NowWaiting DEF Turns, Typed

\* A request that is not about to assess has nothing to note.
LEMMA NotLate ==
  ASSUME Typed, NEW t \in Tabs, NotesOverlap(t)
  PROVE  /\ overlaps' \in Nat /\ overlaps <= overlaps' /\ overlaps \in Nat
         /\ tab'[t].at # "assess" => overlaps' = overlaps
         /\ tab'[t].at = "assess" /\ Waiting \ {t} # {} => overlaps' = overlaps + 1
<1>1. overlaps \in Nat
  BY DEF Typed, MarkTypes
<1>2. Waiting \ {t} # {} => \E u \in Tabs \ {t} : tab[u].at \in {"assess", "assessing"}
  BY DEF Waiting
<1> QED
  BY <1>1, <1>2 DEF NotesOverlap

\* The chat page, when there is room for the thread it is about, and for one
\* question beside those who wait.
LEMMA ChatPageHasRoom ==
  ASSUME Typed, NEW t \in Tabs, NEW turns \in Seq(Turn), NEW start \in BOOLEAN,
         ChatPage(t, turns, start), NotesOverlap(t),
         Cardinality(Waiting \ {t}) <= overlaps + 1,
         FollowUpsPut(turns) + Cardinality(Waiting \ {t}) <= MostFollowUps + overlaps,
         Cardinality(Waiting \ {t}) + 1 <= MostFollowUps + overlaps
  PROVE  RoomForFollowUps'
<1> DEFINE n == Cardinality(Waiting \ {t})
<1>1. n \in Nat /\ overlaps \in Nat /\ MostFollowUps \in Nat
  BY WaitingFinite, RoundsHaveRoom DEF Typed, MarkTypes
<1>2. PICK kept : Kept(turns, kept) /\ (Renders(t, kept) \/ Passes(t, kept))
  BY ChatPageDoes
<1>3. kept \in Seq(Turn) /\ (kept = turns \/ FollowUpsPut(kept) <= 1)
  BY <1>2, KeptIsHarmless
<1>4. FollowUpsPut(kept) \in Nat /\ FollowUpsPut(kept) + n <= MostFollowUps + overlaps
  <2>1. FollowUpsPut(kept) \in Nat
    BY <1>3, FollowUpsType
  <2>2. FollowUpsPut(turns) + n <= MostFollowUps + overlaps
        /\ n + 1 <= MostFollowUps + overlaps
    OBVIOUS
  <2> HIDE DEF n
  <2> QED
    BY <1>1, <1>3, <2>1, <2>2
<1>5. CASE /\ Waiting' = Waiting \ {t} /\ tab'[t].at = "idle"
           /\ thread' \in Seq(Turn) /\ FollowUpsPut(thread') <= FollowUpsPut(kept)
  <2>1. overlaps' = overlaps
    BY <1>5, NotLate
  <2>2. FollowUpsPut(thread)' = FollowUpsPut(thread')
    BY DEF FollowUpsPut, FollowUps, Asking
  <2>3. FollowUpsPut(thread') \in Nat
    BY <1>5, FollowUpsType
  <2>4. Cardinality(Waiting') = n
    BY <1>5
  <2> HIDE DEF n
  <2>5. FollowUpsPut(thread') + n <= MostFollowUps + overlaps
    BY <1>1, <1>4, <1>5, <2>3
  <2>6. n <= overlaps + 1
    BY DEF n
  <2> QED
    BY <2>1, <2>2, <2>4, <2>5, <2>6 DEF RoomForFollowUps, MostFollowUps
<1>6. CASE Renders(t, kept)
  <2>1. PICK page \in ChatPages \cup {[kind |-> "form", doc |-> fdr]} : Show(t, page)
    BY <1>6 DEF Renders
  <2>2. page \in Page
    BY PageShapes DEF ChatPages, Page, Typed, DocTypes
  <2>3. Waiting' = Waiting \ {t} /\ tab'[t].at = "idle"
    BY <2>1, <2>2, ShowWaits
  <2>4. thread' \in Seq(Turn) /\ FollowUpsPut(thread') <= FollowUpsPut(kept)
    BY <1>3, <1>6, AndAskedIsHarmless DEF Renders
  <2> QED
    BY <1>5, <2>3, <2>4
<1>7. CASE Passes(t, kept) /\ RoundsUsed(kept) >= MaxRounds
  <2>1. HandsOff(t, kept) /\ thread' = kept
    BY <1>7 DEF Passes
  <2>2. fdr' \in Doc /\ Show(t, [kind |-> "handoff", doc |-> fdr'])
    BY <1>3, <2>1, HandsOffDoes DEF Typed
  <2>3. Waiting' = Waiting \ {t} /\ tab'[t].at = "idle"
    BY <2>2, PageShapes, ShowWaits
  <2> QED
    BY <1>3, <1>4, <1>5, <2>1, <2>3
<1>8. CASE Passes(t, kept) /\ ~ (RoundsUsed(kept) >= MaxRounds)
  <2>1. Goes(t, "assess") /\ thread' = kept /\ FollowUpsPut(kept) + 1 <= MostFollowUps
    BY <1>3, <1>8, RoundLeft DEF Passes
  <2>2. Waiting' = Waiting \cup {t} /\ tab'[t].at = "assess"
    BY <2>1, GoesWaits DEF Doing
  <2>3. Cardinality(Waiting') = n + 1
    <3>1. Waiting' = (Waiting \ {t}) \cup {t} /\ t \notin Waiting \ {t}
      BY <2>2
    <3> QED
      BY <3>1, WaitingFinite, FS_AddElement
  <2>4. n <= overlaps' /\ overlaps' \in Nat
    <3>1. CASE Waiting \ {t} = {}
      <4>1. n = 0
        BY <3>1, FS_EmptySet
      <4>2. overlaps' \in Nat
        BY NotLate
      <4> QED
        BY <4>1, <4>2
    <3>2. CASE Waiting \ {t} # {}
      BY <1>1, <2>2, <3>2, NotLate
    <3> QED
      BY <3>1, <3>2
  <2>5. FollowUpsPut(thread)' = FollowUpsPut(kept)
    BY <2>1 DEF FollowUpsPut, FollowUps, Asking
  <2> HIDE DEF n
  <2>6. n \in Nat /\ FollowUpsPut(kept) \in Nat
    BY <1>1, <1>4 DEF n
  <2>7. n + 1 <= overlaps' + 1 /\ FollowUpsPut(kept) + (n + 1) <= MostFollowUps + overlaps'
    <3> DEFINE f == FollowUpsPut(kept)
               o == overlaps'
    <3>1. f + 1 <= MostFollowUps /\ n <= o /\ o \in Nat /\ f \in Nat
      BY <2>1, <2>4, <2>6
    <3> HIDE DEF f, o
    <3>2. n + 1 <= o + 1 /\ f + (n + 1) <= MostFollowUps + o
      BY <1>1, <2>6, <3>1
    <3> QED
      BY <3>2 DEF f, o
  <2> QED
    BY <2>3, <2>5, <2>7 DEF RoomForFollowUps, MostFollowUps
<1> QED
  BY <1>2, <1>6, <1>7, <1>8

\* No more are put, and no more wait.
LEMMA RoomStays ==
  ASSUME Typed, RoomForFollowUps, overlaps' = overlaps, thread' \in Seq(Turn),
         FollowUpsPut(thread') <= FollowUpsPut(thread), Waiting' \subseteq Waiting
  PROVE  RoomForFollowUps'
<1>1. Cardinality(Waiting') \in Nat /\ Cardinality(Waiting') <= Cardinality(Waiting)
  BY WaitingFinite, FS_Subset, FS_CardinalityType
<1>2. FollowUpsPut(thread)' = FollowUpsPut(thread')
  BY DEF FollowUpsPut, FollowUps, Asking
<1>3. FollowUpsPut(thread') \in Nat /\ FollowUpsPut(thread) \in Nat
  BY FollowUpsType DEF Typed, ThreadType
<1>4. Cardinality(Waiting) \in Nat /\ overlaps \in Nat /\ MostFollowUps \in Nat
  BY WaitingFinite, RoundsHaveRoom DEF Typed, MarkTypes
<1>5. FollowUpsPut(thread') + Cardinality(Waiting') <= MostFollowUps + overlaps
  BY <1>1, <1>3, <1>4 DEF RoomForFollowUps
<1>6. Cardinality(Waiting') <= overlaps + 1
  BY <1>1, <1>4 DEF RoomForFollowUps
<1> QED
  BY <1>2, <1>5, <1>6 DEF RoomForFollowUps, MostFollowUps

LEMMA ChatRoom ==
  ASSUME Typed, RoomForFollowUps, NEW t \in Tabs, Chat(t) \/ Home(t) \/ Assess(t)
  PROVE  RoomForFollowUps'
<1> DEFINE n == Cardinality(Waiting \ {t})
<1>1. NotesOverlap(t) /\ thread \in Seq(Turn)
  BY DEF Chat, Home, Assess, Typed, ThreadType
<1>2. /\ n \in Nat /\ n <= Cardinality(Waiting) /\ Cardinality(Waiting) \in Nat
      /\ t \in Waiting => Cardinality(Waiting) = n + 1
      /\ overlaps \in Nat /\ MostFollowUps \in Nat /\ MostFollowUps >= 2
  BY WaitingFinite, RoundsHaveRoom DEF Typed, MarkTypes
<1>3. FollowUpsPut(thread) \in Nat
  BY <1>1, FollowUpsType
<1>4. n <= overlaps + 1 /\ n + 1 <= MostFollowUps + overlaps
      /\ FollowUpsPut(thread) + n <= MostFollowUps + overlaps
  BY <1>2, <1>3 DEF RoomForFollowUps
<1>5. ASSUME NEW page \in Page, Show(t, page), UNCHANGED thread
      PROVE  RoomForFollowUps'
  <2>1. Waiting' = Waiting \ {t} /\ tab'[t].at = "idle"
    BY <1>5, ShowWaits
  <2>2. overlaps' = overlaps
    BY <1>1, <2>1, NotLate
  <2> QED
    BY <1>1, <1>3, <1>5, <2>1, <2>2, RoomStays
<1>6. ASSUME NEW start \in BOOLEAN, ChatPage(t, thread, start)
      PROVE  RoomForFollowUps'
  BY <1>1, <1>4, <1>6, ChatPageHasRoom
<1>7. CASE Chat(t)
  <2>1. CASE thinking
    BY <1>5, <1>7, <2>1, PageShapes DEF Chat
  <2>2. CASE ~ thinking
    BY <1>6, <1>7, <2>2 DEF Chat
  <2> QED
    BY <2>1, <2>2
<1>8. CASE Home(t)
  <2>1. \A page \in StatusPage \cup {[kind |-> "form", doc |-> fdr]} : page \in Page
    BY PageShapes DEF StatusPage, Typed, DocTypes
  <2>2. CASE ChatPage(t, thread, FALSE)
    BY <1>6, <2>2
  <2>3. CASE ~ ChatPage(t, thread, FALSE)
    <3>1. PICK page \in Page : Show(t, page) /\ UNCHANGED thread
      BY <1>8, <2>1, <2>3 DEF Home
    <3> QED
      BY <1>5, <3>1
  <2> QED
    BY <2>2, <2>3
<1>9. CASE Assess(t)
  <2>1. CASE HandsOff(t, thread) /\ UNCHANGED thread
    <3>1. fdr' \in Doc /\ Show(t, [kind |-> "handoff", doc |-> fdr'])
      BY <1>1, <2>1, HandsOffDoes DEF Typed
    <3> QED
      BY <1>5, <2>1, <3>1, PageShapes
  <2>2. CASE ChatPage(t, Append(thread, Asked("clarify")), FALSE)
    <3> DEFINE more == Append(thread, Asked("clarify"))
    <3>1. t \in Waiting
      BY <1>9 DEF Assess, Waiting
    <3>2. more \in Seq(Turn) /\ FollowUpsPut(more) <= FollowUpsPut(thread) + 1
      BY <1>1, OneFollowUpPut
    <3> HIDE DEF more, n
    <3>3. FollowUpsPut(more) \in Nat
      BY <3>2, FollowUpsType
    <3>4. FollowUpsPut(more) + n <= MostFollowUps + overlaps
      BY <1>2, <1>3, <3>1, <3>2, <3>3 DEF RoomForFollowUps
    <3> QED
      BY <1>1, <1>4, <2>2, <3>2, <3>4, ChatPageHasRoom DEF more, n
  <2> QED
    BY <1>9, <2>1, <2>2 DEF Assess
<1> QED
  BY <1>7, <1>8, <1>9

\* What the founder answers, or leaves for another page, puts nothing.
LEMMA AnswersPutNothing ==
  ASSUME Typed, NEW t \in Tabs, ChatAnswer(t) \/ ChatGuess(t) \/ Extract(t) \/ ChatRestart(t)
  PROVE  FollowUpsPut(thread') <= FollowUpsPut(thread)
<1>1. thread \in Seq(Turn) /\ FollowUpsPut(thread) \in Nat
  BY FollowUpsType DEF Typed, ThreadType
<1>2. CASE thread' = thread
  BY <1>1, <1>2
<1>3. CASE ChatAnswer(t) /\ HasOpenQuestion(thread)
  <2>1. PICK words \in {"typed", "skipped"} :
          thread' = Append(thread, Answer(Last(thread).slot, words))
    BY <1>3 DEF ChatAnswer
  <2> DEFINE x == Answer(Last(thread).slot, words)
  <2>2. Len(thread) \in 1 .. Len(thread)
    BY <1>1, <1>3, EmptySeq DEF HasOpenQuestion
  <2>3. x \in Turn /\ x.role = "user"
    <3>1. Last(thread) \in Turn
      BY <1>1, <2>2 DEF Last
    <3> QED
      BY <3>1, TurnShapes, WordNames DEF Answer
  <2> HIDE DEF x
  <2>4. thread' = thread \o <<x>> /\ <<x>> \in Seq(Turn) /\ Len(<<x>>) = 1 /\ <<x>>[1] = x
    BY <1>1, <2>1, <2>3, OneTurn DEF x
  <2> DEFINE tail == <<x>>
  <2>5. tail \in Seq(Turn) /\ Len(tail) = 1 /\ tail[1].role = "user" /\ tail # <<>>
    BY <2>3, <2>4, OneTurn
  <2> HIDE DEF tail
  <2>6. 1 .. Len(tail) - 1 = {} /\ tail[Len(tail)].role = "user"
    BY <2>5
  <2> QED
    BY <1>1, <2>4, <2>5, <2>6, NoFollowUpPut DEF tail
<1>4. CASE Extract(t)
  BY <1>1, <1>4, ExtractedIsHarmless, StudioAssumption DEF Extract
<1>5. CASE ChatRestart(t)
  BY <1>1, <1>5, NothingPut DEF ChatRestart
<1>6. ASSUME NEW g \in PendingGuess(thread), NEW words \in {"typed", "skipped", g.words},
             thread' = thread \o Said(g.slot, words)
      PROVE  FollowUpsPut(thread') <= FollowUpsPut(thread)
  <2> DEFINE tail == Said(g.slot, words)
  <2>1. g \in Turn /\ g.kind = "guess"
    BY <1>1 DEF PendingGuess
  <2>2. g.slot \in Slots /\ g.words \in Proposals
    BY <2>1, TurnShapes
  <2>3. /\ tail \in Seq(Turn) /\ Len(tail) = 2 /\ tail[2].role = "user"
        /\ tail[1].slot # "clarify"
    BY <2>2, SaidShape, WordNames, SlotNames
  <2> HIDE DEF tail
  <2>4. tail # <<>> /\ \A j \in 1 .. Len(tail) - 1 : j = 1
    <3>1. tail # <<>>
      <4>1. Len(tail) = 2
        BY <2>3
      <4>2. Len(<< >>) = 0
        OBVIOUS
      <4> QED
        BY <4>1, <4>2
    <3>2. Len(tail) - 1 = 1
      BY <2>3
    <3>3. \A j \in 1 .. 1 : j = 1
      OBVIOUS
    <3> QED
      BY <3>1, <3>2, <3>3
  <2>5. \A j \in 1 .. Len(tail) - 1 : tail[j].slot # "clarify"
    BY <2>3, <2>4
  <2> QED
    BY <1>1, <1>6, <2>3, <2>4, <2>5, NoFollowUpPut DEF tail
<1> QED
  BY <1>2, <1>3, <1>4, <1>5, <1>6 DEF ChatAnswer, ChatGuess

LEMMA ConversationRoom ==
  ASSUME Typed, Typed', RoomForFollowUps, NEW t \in Tabs, Request(t),
         ~ (Chat(t) \/ Home(t) \/ Assess(t))
  PROVE  RoomForFollowUps'
<1>1. overlaps' = overlaps
  BY DEF Request, SubmitAnswer, ChatAnswer, Extract, SubmitGuess, ChatGuess, BeginAssess,
         ChatEnough, ChatRestart, SubmitFdr, SaveFdr, FdrReads, FdrDiscovers, FdrSummary,
         StartBuild, SpawnBuild, Reset, Raises, Submits, marks, others
<1>2. thread' \in Seq(Turn)
  BY DEF Typed, ThreadType
<1>3. FollowUpsPut(thread') <= FollowUpsPut(thread)
  <2>1. CASE ChatAnswer(t) \/ ChatGuess(t) \/ Extract(t) \/ ChatRestart(t)
    BY <2>1, AnswersPutNothing
  <2>2. CASE ~ (ChatAnswer(t) \/ ChatGuess(t) \/ Extract(t) \/ ChatRestart(t))
    <3>1. thread' = thread
      BY <2>2 DEF Request, SubmitAnswer, SubmitGuess, BeginAssess, ChatEnough, SubmitFdr,
         SaveFdr, FdrReads, FdrDiscovers, FdrSummary, StartBuild, SpawnBuild, Reset, Raises,
         Submits
    <3> QED
      <4>1. FollowUpsPut(thread) \in Nat
        BY FollowUpsType DEF Typed, ThreadType
      <4> QED
        BY <3>1, <4>1
  <2> QED
    BY <2>1, <2>2
<1>4. Waiting' \subseteq Waiting
  <2>1. \A page \in Page : Show(t, page) => Waiting' \subseteq Waiting
    BY ShowWaits
  <2>2. \A at \in Doing \ {"assess", "assessing"} : Goes(t, at) => Waiting' \subseteq Waiting
    BY GoesWaits
  <2>3. CASE BeginAssess(t)
    <3>1. t \in Waiting /\ Goes(t, "assessing")
      BY <2>3 DEF BeginAssess, Waiting
    <3> QED
      BY <3>1, GoesWaits DEF Doing
  <2>4. CASE FdrReads(t) /\ ~ Locked
    <3>1. tab' = [tab EXCEPT ![t].at = "discover", ![t].text = fdr]
      BY <2>4 DEF FdrReads
    <3>2. \A u \in Tabs : tab'[u].at = tab[u].at \/ tab'[u].at = "discover"
      BY <3>1 DEF Typed, TabTypes, Tab
    <3> QED
      BY <3>2 DEF Waiting
  <2>5. CASE SaveFdr(t) \/ ChatEnough(t)
    <3>1. tab' \in [Tabs -> Tab]
      BY DEF Typed, TabTypes
    <3>2. \E page : Show(t, page) \/ Goes(t, "read")
      BY <2>5 DEF SaveFdr, ChatEnough, HandsOff
    <3>3. \A page : Show(t, page) => page \in Page
      <4>1. ASSUME NEW page, Show(t, page) PROVE page \in Page
        <5>1. tab'[t].page = page
          BY <4>1 DEF Show, Typed, TabTypes
        <5> QED
          BY <3>1, <5>1 DEF Tab
      <4> QED
        BY <4>1
    <3> QED
      BY <2>1, <2>2, <3>2, <3>3 DEF Doing
  <2>6. CASE ~ (BeginAssess(t) \/ (FdrReads(t) /\ ~ Locked) \/ SaveFdr(t) \/ ChatEnough(t))
    <3>1. \/ Show(t, Blank)
          \/ \E at \in Doing \ {"assess", "assessing"} : Goes(t, at)
      BY <2>6 DEF Request, SubmitAnswer, ChatAnswer, Extract, SubmitGuess, ChatGuess,
         ChatRestart, SubmitFdr, FdrReads, FdrDiscovers, FdrSummary, StartBuild, SpawnBuild,
         Reset, Raises, Submits, Doing
    <3> QED
      BY <2>1, <2>2, <3>1, PageShapes
  <2> QED
    BY <2>3, <2>4, <2>5, <2>6
<1> QED
  BY <1>1, <1>2, <1>3, <1>4, RoomStays

LEMMA NextHasRoom == Typed /\ Typed' /\ RoomForFollowUps /\ [Next]_vars => RoomForFollowUps'
<1> SUFFICES ASSUME Typed, Typed', RoomForFollowUps, [Next]_vars PROVE RoomForFollowUps'
  OBVIOUS
<1>1. thread \in Seq(Turn) /\ FollowUpsPut(thread) \in Nat
  BY FollowUpsType DEF Typed, ThreadType
<1>2. ASSUME UNCHANGED <<thread, overlaps>>, Waiting' \subseteq Waiting
      PROVE  RoomForFollowUps'
  BY <1>1, <1>2, RoomStays
<1>3. ASSUME NEW b \in Builds, BuildStep(b) PROVE RoomForFollowUps'
  <2>1. UNCHANGED <<thread, overlaps, tab>>
    BY <1>3 DEF BuildStep, BuildReads, BuildDiscovers, BuildConfirms, BuildPlans, BuildApproves,
       BuildLoads, BuildEnds,
       BuildDies, marks
  <2> QED
    BY <1>2, <2>1 DEF Waiting
<1>4. CASE EditFdr
  BY <1>2, <1>4 DEF EditFdr, marks, Waiting
<1>5. CASE StudioRestarts
  <2>1. tab' = [t \in Tabs |-> [tab[t] EXCEPT !.at = "idle", !.text = NoDoc]]
    BY <1>5 DEF StudioRestarts
  <2>2. \A t \in Tabs : tab'[t].at = "idle"
    BY <2>1 DEF Typed, TabTypes, Tab
  <2> QED
    BY <1>2, <1>5, <2>2 DEF StudioRestarts, marks, Waiting
<1>6. CASE UNCHANGED vars
  BY <1>2, <1>6 DEF vars, marks, Waiting
<1> QED
  BY <1>3, <1>4, <1>5, <1>6, ChatRoom, ConversationRoom DEF Next

LEMMA RoomAtStart == Init => RoomForFollowUps
<1> SUFFICES ASSUME Init PROVE RoomForFollowUps
  OBVIOUS
<1>1. Waiting = {}
  BY DEF Init, Waiting
<1>2. FollowUpsPut(thread) \in Nat /\ FollowUpsPut(thread) <= MostFollowUps
  <2>1. CASE thread = <<>>
    <3>1. FollowUpsPut(thread) = 0 /\ MostFollowUps \in Nat
      BY <2>1, NothingPut, RoundsHaveRoom
    <3> QED
      BY <3>1
  <2>2. CASE thread \in Earlier
    <3>1. thread \in Seq(Turn) /\ FollowUpsPut(thread) <= MostFollowUps
      BY <2>2, StudioAssumption
    <3> QED
      BY <3>1, FollowUpsType
  <2> QED
    BY <2>1, <2>2 DEF Init
<1>3. Cardinality(Waiting) = 0 /\ overlaps = 0 /\ MostFollowUps \in Nat
  BY <1>1, FS_EmptySet, RoundsHaveRoom DEF Init
<1> QED
  BY <1>2, <1>3 DEF RoomForFollowUps

LEMMA RoomIsBound == Typed /\ RoomForFollowUps => FollowUpsAreBounded
<1> SUFFICES ASSUME Typed, RoomForFollowUps PROVE FollowUpsAreBounded
  OBVIOUS
<1>1. /\ FollowUps(thread) \in Nat /\ FollowUpsPut(thread) \in Nat
      /\ FollowUps(thread) <= FollowUpsPut(thread)
  BY FollowUpsType DEF Typed, ThreadType
<1>2. Cardinality(Waiting) \in Nat /\ overlaps \in Nat /\ MostFollowUps \in Nat
  BY WaitingFinite, RoundsHaveRoom DEF Typed, MarkTypes
<1> QED
  BY <1>1, <1>2 DEF RoomForFollowUps, FollowUpsAreBounded

\* The follow-ups of a conversation end where the last round does, whatever size
\* rounds have and however many there are: no tab is asked for ever, and no number
\* of tabs gets more out of it than one for each that assessed beside another.
THEOREM StudioFollowUpsAreBounded == Spec => []FollowUpsAreBounded
BY InitTyped, NextTyped, RoomAtStart, NextHasRoom, RoomIsBound, PTL DEF Spec
=============================================================================
