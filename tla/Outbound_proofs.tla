---------------------------- MODULE Outbound_proofs ----------------------------
(***************************************************************************)
(* What the circuit breaker, the bookkeeping of accepted messages, the      *)
(* service window and the cutting of a text keep for every life of the keys, *)
(* every text and every number of failures.                                *)
(*                                                                         *)
(* The argument for the breaker: a confirmation is written by a probe that *)
(* saw the account in service, and no tick passes between that answer and  *)
(* the write; from then on the confirmation loses a tick of life with each *)
(* tick that the account is down.  A send reads it once, and no tick       *)
(* passes before the send is over.                                         *)
(*                                                                         *)
(* The argument for the texts: what follows the first piece of a text is    *)
(* shorter than the text, so a shortest text that the split gets wrong      *)
(* would have a shorter one; and a send moves pieces one by one from what   *)
(* is left to what is out, so that together they stay the split of the body. *)
(***************************************************************************)
EXTENDS Outbound, SequenceTheorems, FiniteSetTheorems, WellFoundedInduction, TLAPS

-----------------------------------------------------------------------------
(* Numbers, and stretches of a text.                                       *)

\* the least-number principle: what an induction over lengths rests on
LEMMA LeastNumber ==
    ASSUME NEW T \in SUBSET Nat, T # {}
    PROVE  \E n \in T : \A m \in T : n <= m
<1> DEFINE Upto(n) == T \cap (0..n)
           F == {Upto(n) : n \in T}
           R == StrictSubsetOrdering(Nat)
           S == FiniteSubsetsOf(Nat)
<1>1. F \subseteq S /\ F # {}
  <2>1. ASSUME NEW n \in T PROVE IsFiniteSet(Upto(n))
    <3>1. 0 \in Int /\ n \in Int
      OBVIOUS
    <3>2. IsFiniteSet(0..n)
      BY <3>1, FS_Interval
    <3>3. Upto(n) \in SUBSET (0..n)
      OBVIOUS
    <3> HIDE DEF Upto
    <3> QED
      BY <3>2, <3>3, FS_Subset
  <2> QED
    BY <2>1 DEF FiniteSubsetsOf
<1>2. \A m, n \in T : m < n => <<Upto(m), Upto(n)>> \in R
  BY DEF StrictSubsetOrdering
<1>3. IsWellFoundedOn(R, S)
  BY FS_StrictSubsetOrderingWellFounded
<1>4. \E x \in F : \A y \in F : <<y, x>> \notin R
  <2> HIDE DEF F, R, S
  <2> QED
    BY <1>1, <1>3, WFMin
<1>5. PICK n \in T : \A m \in T : <<Upto(m), Upto(n)>> \notin R
  BY <1>4
<1>6. \A m \in T : ~(m < n)
  <2> HIDE DEF Upto, R
  <2> QED
    BY <1>2, <1>5, Zenon
<1> QED
  BY <1>6

LEMMA GreatestOf ==
    ASSUME NEW n \in Nat, NEW S \in SUBSET (1..n), S # {}
    PROVE  Max(S) \in S
<1> DEFINE T == {n - x : x \in S}
<1>1. T \in SUBSET Nat /\ T # {}
  <2>1. \A x \in S : x \in 1..n /\ n - x \in Nat
    OBVIOUS
  <2> QED
    BY <2>1
<1>2. PICK m \in T : \A k \in T : m <= k
  <2> HIDE DEF T
  <2> QED
    BY <1>1, LeastNumber
<1>3. PICK x \in S : m = n - x
  BY <1>2
<1>4. ASSUME NEW y \in S PROVE x >= y
  <2>1. n - y \in T
    OBVIOUS
  <2> QED
    BY <1>2, <1>3, <2>1
<1>5. \E z \in S : \A y \in S : z >= y
  BY <1>4
<1> QED
  BY <1>5 DEF Max

LEMMA LeastOf ==
    ASSUME NEW n \in Nat, NEW S \in SUBSET (1..n), S # {}
    PROVE  Min(S) \in S /\ \A y \in S : Min(S) <= y
<1>1. S \in SUBSET Nat
  OBVIOUS
<1>2. \E z \in S : \A y \in S : z <= y
  BY <1>1, LeastNumber
<1> QED
  BY <1>2 DEF Min

\* a piece is never empty and never too long
LEMMA CutInside ==
    ASSUME NEW text \in Text, Len(text) > TextLimit
    PROVE  Cut(text) \in 1..TextLimit
<1> DEFINE breaks == {i \in 1..(TextLimit - 1) : text[i + 1] = "n"}
<1>1. CASE breaks = {}
  BY <1>1, OutboundAssumption DEF Cut
<1>2. CASE breaks # {}
  <2>1. breaks \in SUBSET (1..(TextLimit - 1)) /\ TextLimit - 1 \in Nat
    BY OutboundAssumption
  <2>2. Max(breaks) \in breaks
    <3> HIDE DEF breaks
    <3> QED
      BY <1>2, <2>1, GreatestOf
  <2> QED
    BY <1>2, <2>2, OutboundAssumption DEF Cut
<1> QED
  BY <1>1, <1>2

\* stripping takes line breaks from the front, and nothing else
LEMMA StrippedText ==
    ASSUME NEW t \in Text
    PROVE  \E d \in 1..(Len(t) + 1) : /\ Stripped(t) = SubSeq(t, d, Len(t))
                                      /\ \A k \in 1..(d - 1) : t[k] = "n"
<1> DEFINE kept == {i \in DOMAIN t : t[i] # "n"}
<1>0. Len(t) \in Nat /\ DOMAIN t = 1..Len(t)
  BY DEF Text
<1>1. CASE kept = {}
  <2>1. Stripped(t) = SubSeq(t, Len(t) + 1, Len(t))
    BY <1>0, <1>1, SubSeqEmpty DEF Stripped
  <2>2. \A k \in 1..Len(t) : t[k] = "n"
    BY <1>0, <1>1
  <2> WITNESS Len(t) + 1 \in 1..(Len(t) + 1)
  <2> QED
    BY <1>0, <2>1, <2>2
<1>2. CASE kept # {}
  <2>1. kept \in SUBSET (1..Len(t))
    BY <1>0
  <2>2. Min(kept) \in kept /\ \A y \in kept : Min(kept) <= y
    <3> HIDE DEF kept
    <3> QED
      BY <1>0, <1>2, <2>1, LeastOf
  <2>3. Min(kept) \in 1..(Len(t) + 1)
    BY <1>0, <2>2
  <2>4. Stripped(t) = SubSeq(t, Min(kept), Len(t))
    BY <1>2 DEF Stripped
  <2>5. ASSUME NEW k \in 1..(Min(kept) - 1) PROVE t[k] = "n"
    <3>1. k \in 1..Len(t) /\ ~(Min(kept) <= k)
      <4> HIDE DEF kept
      <4> QED
        BY <1>0, <2>3
    <3>2. k \notin kept
      <4> HIDE DEF kept
      <4> QED
        BY <2>2, <3>1
    <3> QED
      BY <1>0, <3>1, <3>2
  <2> QED
    BY <2>3, <2>4, <2>5
<1> QED
  BY <1>1, <1>2

\* the end of a text, and a stretch of it
LEMMA EndOf ==
    ASSUME NEW s \in Text, NEW i \in 1..(Len(s) + 1), NEW u, u = SubSeq(s, i, Len(s))
    PROVE  u \in Text /\ Len(u) = Len(s) - i + 1 /\ \A k \in 1..Len(u) : u[k] = s[i + k - 1]
<1>1. Len(s) \in Nat /\ i \in Int /\ i >= 1 /\ i <= Len(s) + 1
  BY DEF Text
<1> QED
  BY <1>1, SubSeqProperties DEF Text

Stretch(s, a, b) == SubSeq(s, a, b)
IsEnd(t, s, i) == i \in 1..(Len(s) + 1) /\ t = SubSeq(s, i, Len(s))

LEMMA PartOfEnd ==
    ASSUME NEW s \in Text, NEW i, NEW t, IsEnd(t, s, i),
           NEW a \in 1..(Len(t) + 1), NEW b \in Int, a - 1 <= b, b <= Len(t)
    PROVE  Stretch(t, a, b) = Stretch(s, i + a - 1, i + b - 1)
<1>1. Len(s) \in Nat /\ i \in Int /\ i >= 1 /\ i <= Len(s) + 1
  BY DEF Text, IsEnd
<1>2. t \in Text /\ Len(t) = Len(s) - i + 1 /\ \A k \in 1..Len(t) : t[k] = s[i + k - 1]
  BY EndOf DEF IsEnd
<1>3. a \in Int /\ a >= 1 /\ a <= Len(s) - i + 2 /\ b \in Int /\ b >= a - 1 /\ b <= Len(t)
  BY <1>1, <1>2
<1>4. PICK u : u = SubSeq(t, a, b)
  OBVIOUS
<1>5. PICK v : v = SubSeq(s, i + a - 1, i + b - 1)
  OBVIOUS
<1>6. u \in Text /\ Len(u) = b - a + 1 /\ \A k \in 1..(b - a + 1) : u[k] = t[a + k - 1]
  <2>1. \A k \in a..b : t[k] \in {"x", "n"}
    BY <1>2, <1>3 DEF Text
  <2> QED
    BY <1>3, <1>4, <2>1, SubSeqProperties DEF Text
<1>7. v \in Text /\ Len(v) = b - a + 1 /\ \A k \in 1..(b - a + 1) : v[k] = s[i + a + k - 2]
  <2>1. i + a - 1 \in Int /\ i + b - 1 \in Int /\ i + b - 1 <= Len(s)
    BY <1>1, <1>2, <1>3
  <2>2. \A k \in (i + a - 1)..(i + b - 1) : s[k] \in {"x", "n"}
    BY <1>1, <1>3, <2>1 DEF Text
  <2>3. /\ v \in Text
        /\ Len(v) = IF i + a - 1 <= i + b - 1 THEN (i + b - 1) - (i + a - 1) + 1 ELSE 0
        /\ \A k \in 1..((i + b - 1) - (i + a - 1) + 1) : v[k] = s[(i + a - 1) + k - 1]
    BY <1>5, <2>1, <2>2, SubSeqProperties DEF Text
  <2> QED
    BY <1>1, <1>3, <2>3
<1>8. ASSUME NEW k \in 1..(b - a + 1) PROVE u[k] = v[k]
  <2>1. a + k - 1 \in 1..Len(t) /\ i + (a + k - 1) - 1 = i + a + k - 2
    BY <1>1, <1>2, <1>3
  <2> QED
    BY <1>2, <1>6, <1>7, <2>1
<1>9. u \in Seq({"x", "n"}) /\ v \in Seq({"x", "n"})
  BY <1>6, <1>7 DEF Text
<1>10. u = v
  BY <1>6, <1>7, <1>8, <1>9, SeqEqual
<1> QED
  BY <1>4, <1>5, <1>10 DEF Stretch

\* what is left after the first piece: the end of the text, less the line breaks
\* that follow the cut
LEMMA RestOfText ==
    ASSUME NEW text \in Text, Len(text) > TextLimit
    PROVE  \E d \in (Cut(text) + 1)..(Len(text) + 1) :
              /\ Rest(text) = SubSeq(text, d, Len(text))
              /\ \A k \in (Cut(text) + 1)..(d - 1) : text[k] = "n"
<1>0. PICK c : c = Cut(text)
  OBVIOUS
<1>t. PICK t : t = SubSeq(text, c + 1, Len(text))
  OBVIOUS
<1>1. c \in 1..TextLimit /\ c < Len(text) /\ Len(text) \in Nat /\ c \in Nat
  BY <1>0, CutInside, OutboundAssumption DEF Text
<1>2. t \in Text /\ Len(t) = Len(text) - c /\ \A k \in 1..Len(t) : t[k] = text[c + k]
  BY <1>t, <1>1, SubSeqProperties DEF Text
<1>3. PICK d \in 1..(Len(t) + 1) : /\ Stripped(t) = SubSeq(t, d, Len(t))
                                   /\ \A k \in 1..(d - 1) : t[k] = "n"
  BY <1>2, StrippedText
<1>4. Rest(text) = SubSeq(t, d, Len(t))
  BY <1>t, <1>0, <1>3 DEF Rest
<1>5. /\ d \in Int /\ 1 <= d /\ d <= Len(text) - c + 1
      /\ Len(t) = Len(text) - c /\ Len(text) \in Int /\ c \in Int /\ 1 <= c /\ c < Len(text)
  BY <1>1, <1>2, OutboundAssumption
<1>6. SubSeq(t, d, Len(t)) = SubSeq(text, c + d, Len(text))
  <2>1. PICK i : i = c + 1
    OBVIOUS
  <2>2. PICK b : b = Len(t)
    OBVIOUS
  <2>3. IsEnd(t, text, i)
    BY <1>t, <1>5, <2>1 DEF IsEnd
  <2>4. d \in 1..(Len(t) + 1) /\ b \in Int /\ d - 1 <= b /\ b <= Len(t)
    BY <1>5, <2>2
  <2>5. Stretch(t, d, b) = Stretch(text, i + d - 1, i + b - 1)
    BY <2>3, <2>4, PartOfEnd
  <2>6. i + d - 1 = c + d /\ i + b - 1 = Len(text)
    BY <1>5, <2>1, <2>2
  <2> QED
    BY <2>2, <2>5, <2>6 DEF Stretch
<1>7. ASSUME NEW k \in (c + 1)..(c + d - 1) PROVE text[k] = "n"
  <2>1. k - c \in 1..(d - 1) /\ k - c \in 1..Len(t) /\ c + (k - c) = k
    BY <1>1, <1>2, <1>5
  <2> QED
    BY <1>2, <1>3, <2>1
<1>8. PICK e : e = c + d
  OBVIOUS
<1>9. e \in (c + 1)..(Len(text) + 1)
  BY <1>1, <1>5, <1>8
<1>10. /\ Rest(text) = SubSeq(text, e, Len(text))
       /\ \A k \in (c + 1)..(e - 1) : text[k] = "n"
  <2>1. Rest(text) = SubSeq(text, e, Len(text))
    BY <1>4, <1>6, <1>8
  <2>2. ASSUME NEW k \in (c + 1)..(e - 1) PROVE text[k] = "n"
    <3>1. k \in (c + 1)..(c + d - 1)
      BY <1>5, <1>8, <2>2
    <3> QED
      BY <1>7, <3>1
  <2> QED
    BY <2>1, <2>2
<1> QED
  BY <1>0, <1>9, <1>10, Zenon

LEMMA RestIsShorter ==
    ASSUME NEW text \in Text, Len(text) > TextLimit
    PROVE  Rest(text) \in Text /\ Len(Rest(text)) < Len(text)
<1>1. Cut(text) \in Nat /\ Cut(text) >= 1 /\ Len(text) \in Nat
  BY CutInside, OutboundAssumption DEF Text
<1>2. PICK d \in (Cut(text) + 1)..(Len(text) + 1) : Rest(text) = SubSeq(text, d, Len(text))
  BY RestOfText
<1>3. d \in 1..(Len(text) + 1) /\ d >= 2
  BY <1>1
<1>4. Rest(text) \in Text /\ Len(Rest(text)) = Len(text) - d + 1
  BY <1>2, <1>3, EndOf
<1> QED
  BY <1>1, <1>3, <1>4

-----------------------------------------------------------------------------
(* SplitText is what its definition says: the recursion ends.              *)

\* the body of the definition, of a function that knows the shorter texts
SplitStep(g, text) ==
    IF Len(text) <= TextLimit THEN <<text>>
    ELSE <<SubSeq(text, 1, Cut(text))>> \o
         (IF Rest(text) = <<>> THEN <<>> ELSE g[Rest(text)])

Short(n) == {text \in Text : Len(text) < n}
Solves(g, n) == g = [text \in Short(n) |-> SplitStep(g, text)]

LEMMA SameStep ==
    ASSUME NEW g, NEW h, NEW text \in Text,
           \A r \in Text : Len(r) < Len(text) => g[r] = h[r]
    PROVE  SplitStep(g, text) = SplitStep(h, text)
<1>0. Len(text) \in Nat /\ TextLimit \in Nat
  BY OutboundAssumption DEF Text
<1>1. CASE Len(text) <= TextLimit
  BY <1>1 DEF SplitStep
<1>2. CASE Len(text) > TextLimit
  <2>1. g[Rest(text)] = h[Rest(text)]
    BY <1>2, RestIsShorter
  <2> QED
    BY <2>1 DEF SplitStep
<1> QED
  BY <1>0, <1>1, <1>2

LEMMA SolutionsAgree ==
    ASSUME NEW m \in Nat, NEW n \in Nat, NEW g, NEW h, Solves(g, m), Solves(h, n),
           NEW text \in Text, Len(text) < m, Len(text) < n
    PROVE  g[text] = h[text]
<1> DEFINE Bad == {k \in Nat : k < m /\ k < n /\
                     \E t \in Text : Len(t) = k /\ g[t] # h[t]}
<1>1. Bad = {}
  <2> SUFFICES ASSUME Bad # {} PROVE FALSE
    OBVIOUS
  <2>1. Bad \in SUBSET Nat
    OBVIOUS
  <2>2. PICK k \in Bad : \A j \in Bad : k <= j
    <3> HIDE DEF Bad
    <3> QED
      BY <2>1, LeastNumber
  <2>3. PICK t \in Text : Len(t) = k /\ g[t] # h[t]
    BY <2>2
  <2>4. k \in Nat /\ k < m /\ k < n
    BY <2>2
  <2>5. ASSUME NEW r \in Text, Len(r) < Len(t) PROVE g[r] = h[r]
    <3>1. Len(r) \in Nat /\ Len(r) < m /\ Len(r) < n
      BY <2>3, <2>4, <2>5 DEF Text
    <3>2. Len(r) \notin Bad
      <4> HIDE DEF Bad
      <4> QED
        BY <2>2, <2>3, <2>4, <2>5, <3>1
    <3> QED
      BY <3>1, <3>2
  <2>6. SplitStep(g, t) = SplitStep(h, t)
    BY <2>5, SameStep
  <2>7. t \in Short(m) /\ t \in Short(n)
    BY <2>3, <2>4 DEF Short
  <2>8. g[t] = SplitStep(g, t) /\ h[t] = SplitStep(h, t)
    BY <2>7 DEF Solves
  <2> QED
    BY <2>3, <2>6, <2>8
<1>2. Len(text) \in Nat
  BY DEF Text
<1> QED
  BY <1>1, <1>2

LEMMA SolutionsExist == \A n \in Nat : \E g : Solves(g, n)
<1> DEFINE Bad == {n \in Nat : ~ \E g : Solves(g, n)}
<1> SUFFICES ASSUME Bad # {} PROVE FALSE
  OBVIOUS
<1>1. Bad \in SUBSET Nat
  OBVIOUS
<1>2. PICK n \in Bad : \A j \in Bad : n <= j
  <2> HIDE DEF Bad
  <2> QED
    BY <1>1, LeastNumber
<1>3. n \in Nat /\ ~ \E g : Solves(g, n)
  BY <1>2
<1>4. CASE n = 0
  <2> DEFINE e == [text \in {} |-> text]
  <2>1. Short(0) = {}
    BY DEF Short, Text
  <2>2. Solves(e, 0)
    BY <2>1 DEF Solves
  <2> QED
    BY <1>3, <1>4, <2>2
<1>5. CASE n # 0
  <2>1. n - 1 \in Nat /\ n - 1 \notin Bad
    <3> HIDE DEF Bad
    <3> QED
      BY <1>2, <1>3, <1>5
  <2>2. PICK g : Solves(g, n - 1)
    BY <2>1
  <2> DEFINE h == [text \in Short(n) |-> SplitStep(g, text)]
  <2>3. ASSUME NEW text \in Short(n) PROVE h[text] = SplitStep(h, text)
    <3>1. text \in Text /\ Len(text) \in Nat /\ Len(text) < n
      BY DEF Short, Text
    <3>2. ASSUME NEW r \in Text, Len(r) < Len(text) PROVE g[r] = h[r]
      <4>1. r \in Short(n) /\ r \in Short(n - 1)
        BY <1>3, <3>1, <3>2 DEF Short, Text
      <4> QED
        BY <2>2, <4>1 DEF Solves
    <3>3. SplitStep(g, text) = SplitStep(h, text)
      <4> HIDE DEF h
      <4> QED
        BY <3>1, <3>2, SameStep
    <3> QED
      BY <3>3
  <2>4. h = [text \in Short(n) |-> h[text]]
    OBVIOUS
  <2> HIDE DEF h
  <2>5. Solves(h, n)
    BY <2>3, <2>4 DEF Solves
  <2> QED
    BY <1>3, <2>5
<1> QED
  BY <1>4, <1>5

\* what SplitText says of a text is what its definition says
LEMMA SplitOfText == \A text \in Text : SplitText[text] = SplitStep(SplitText, text)
<1> DEFINE Sol(n) == CHOOSE g : Solves(g, n)
           G == [text \in Text |-> Sol(Len(text) + 1)[text]]
<1>1. \A n \in Nat : Solves(Sol(n), n)
  BY SolutionsExist
<1>2. ASSUME NEW text \in Text PROVE G[text] = SplitStep(G, text)
  <2>1. PICK n \in Nat : n = Len(text) + 1
    BY DEF Text
  <2>2. PICK g : g = Sol(n)
    OBVIOUS
  <2>3. Solves(g, n)
    BY <1>1, <2>2
  <2>4. ASSUME NEW r \in Text, Len(r) < Len(text) PROVE g[r] = G[r]
    <3>1. Len(r) \in Nat /\ Len(r) + 1 \in Nat /\ Len(r) < n /\ Len(r) < Len(r) + 1
      BY <2>1, <2>4 DEF Text
    <3>2. PICK h : h = Sol(Len(r) + 1)
      OBVIOUS
    <3>3. Solves(h, Len(r) + 1) /\ G[r] = h[r]
      BY <1>1, <3>1, <3>2
    <3> HIDE DEF G
    <3> QED
      BY <2>3, <3>1, <3>3, SolutionsAgree
  <2>5. SplitStep(g, text) = SplitStep(G, text)
    <3> HIDE DEF G
    <3> QED
      BY <2>4, SameStep
  <2>6. text \in Short(n)
    BY <2>1 DEF Short, Text
  <2>7. g[text] = SplitStep(g, text)
    BY <2>3, <2>6 DEF Solves
  <2>8. G[text] = g[text]
    BY <2>1, <2>2
  <2> QED
    BY <2>5, <2>7, <2>8
<1>3. G = [text \in Text |-> G[text]]
  OBVIOUS
<1> HIDE DEF G
<1>4. \E g : g = [text \in Text |-> SplitStep(g, text)]
  BY <1>2, <1>3
<1>5. SplitText = [text \in Text |-> SplitStep(SplitText, text)]
  BY <1>4 DEF SplitText, SplitStep
<1> QED
  BY <1>5

-----------------------------------------------------------------------------
(* What SplitText makes of any text.                                       *)

\* pieces that Meta takes and that together are the text
Whole(pieces, text) ==
    /\ pieces \in Seq(Text) /\ Len(pieces) >= 1
    /\ \A i \in DOMAIN pieces : Len(pieces[i]) \in 1..TextLimit
    /\ Tells(pieces, text)

\* the body of Tells
Laid(pieces, text, from) ==
    /\ from \in [DOMAIN pieces -> DOMAIN text]
    /\ \A i \in DOMAIN pieces :
          /\ from[i] + Len(pieces[i]) - 1 <= Len(text)
          /\ pieces[i] = Stretch(text, from[i], from[i] + Len(pieces[i]) - 1)
    /\ \A i, j \in DOMAIN pieces : i < j => from[i] + Len(pieces[i]) - 1 < from[j]
    /\ \A k \in DOMAIN text :
          text[k] = "n" \/ \E i \in DOMAIN pieces : k \in from[i]..(from[i] + Len(pieces[i]) - 1)

LEMMA TellsIsLaid ==
    ASSUME NEW pieces, NEW text
    PROVE  Tells(pieces, text) <=> \E from : Laid(pieces, text, from)
<1>1. ASSUME NEW from \in [DOMAIN pieces -> DOMAIN text]
      PROVE  Laid(pieces, text, from) <=>
               LET to == [i \in DOMAIN pieces |-> from[i] + Len(pieces[i]) - 1]
               IN  /\ \A i \in DOMAIN pieces :
                         to[i] <= Len(text) /\ pieces[i] = SubSeq(text, from[i], to[i])
                   /\ \A i, j \in DOMAIN pieces : i < j => to[i] < from[j]
                   /\ \A k \in DOMAIN text :
                         text[k] = "n" \/ \E i \in DOMAIN pieces : k \in from[i]..to[i]
  BY DEF Laid, Stretch
<1>2. ASSUME NEW from, Laid(pieces, text, from)
      PROVE  from \in [DOMAIN pieces -> DOMAIN text]
  BY <1>2 DEF Laid
<1> QED
  BY <1>1, <1>2 DEF Tells

LEMMA Single == \A x : DOMAIN <<x>> = {1} /\ Len(<<x>>) = 1 /\ <<x>>[1] = x
  OBVIOUS

LEMMA Behind ==
    ASSUME NEW S, NEW x \in S, NEW s \in Seq(S), NEW m, m = Len(s)
    PROVE  LET all == <<x>> \o s
           IN  /\ all \in Seq(S) /\ Len(all) = m + 1 /\ DOMAIN all = 1..(m + 1) /\ all[1] = x
               /\ \A i \in 2..(m + 1) : all[i] = s[i - 1]
  OBVIOUS

\* a text that need not be cut
LEMMA ShortWhole ==
    ASSUME NEW text \in Text, Len(text) \in 1..TextLimit
    PROVE  Whole(<<text>>, text)
<1> DEFINE from == [i \in {1} |-> 1]
<1>1. DOMAIN <<text>> = {1} /\ Len(<<text>>) = 1 /\ <<text>>[1] = text /\ <<text>> \in Seq(Text)
  OBVIOUS
<1>2. Len(text) \in Nat /\ DOMAIN text = 1..Len(text) /\ Len(text) >= 1
  BY DEF Text
<1>3. Stretch(text, 1, 1 + Len(text) - 1) = text
  BY <1>2, SubSeqFull DEF Stretch, Text
<1>4. Laid(<<text>>, text, from)
  BY <1>1, <1>2, <1>3 DEF Laid
<1> QED
  BY <1>1, <1>4, TellsIsLaid DEF Whole

\* the first piece
IsFirst(first, text, c) == c = Cut(text) /\ first = SubSeq(text, 1, c)

LEMMA FirstPiece ==
    ASSUME NEW text \in Text, Len(text) > TextLimit,
           NEW c, NEW first, IsFirst(first, text, c)
    PROVE  /\ first \in Text /\ Len(first) = c /\ c \in 1..TextLimit /\ c < Len(text)
           /\ first = Stretch(text, 1, c)
<1>1. c \in 1..TextLimit /\ c \in Int /\ Len(text) \in Nat /\ TextLimit \in Nat
  BY CutInside, OutboundAssumption DEF Text, IsFirst
<1>2. c < Len(text) /\ \A k \in 1..c : text[k] \in {"x", "n"}
  BY <1>1 DEF Text
<1>3. first \in Text /\ Len(first) = c
  BY <1>1, <1>2, SubSeqProperties DEF Text, IsFirst
<1> QED
  BY <1>1, <1>2, <1>3 DEF Stretch, IsFirst

\* nothing but line breaks is left after the first piece
LEMMA OnePieceWhole ==
    ASSUME NEW text \in Text, Len(text) > TextLimit,
           NEW c, NEW first, IsFirst(first, text, c),
           \A k \in (c + 1)..Len(text) : text[k] = "n"
    PROVE  Whole(<<first>>, text)
<1> DEFINE from == [i \in {1} |-> 1]
<1>1. /\ first \in Text /\ Len(first) = c /\ c \in 1..TextLimit /\ c < Len(text)
      /\ first = Stretch(text, 1, c)
  BY FirstPiece
<1>2. PICK p : p = <<first>>
  OBVIOUS
<1>3. Len(text) \in Nat /\ DOMAIN text = 1..Len(text) /\ TextLimit \in Nat /\ c \in Int
  BY <1>1, OutboundAssumption DEF Text
<1>4. DOMAIN p = {1} /\ Len(p) = 1 /\ p[1] = first
  BY <1>2, Single, Zenon
<1>5. <<first>> \in Seq(Text)
  BY <1>1
<1>6. from \in [{1} -> 1..Len(text)] /\ from[1] = 1 /\ 1 + c - 1 = c
  BY <1>1, <1>3
<1> HIDE DEF from
<1>7. \A k \in 1..Len(text) : text[k] = "n" \/ k \in 1..c
  BY <1>3
<1>8. Laid(p, text, from)
  BY <1>1, <1>3, <1>4, <1>6, <1>7 DEF Laid
<1> QED
  BY <1>1, <1>2, <1>4, <1>5, <1>8, TellsIsLaid DEF Whole

\* the pieces of the rest, behind the first piece
LEMMA MorePiecesWhole ==
    ASSUME NEW text \in Text, Len(text) > TextLimit,
           NEW c, NEW first, IsFirst(first, text, c),
           NEW d \in (c + 1)..(Len(text) + 1),
           \A k \in (c + 1)..(d - 1) : text[k] = "n",
           NEW rest, IsEnd(rest, text, d),
           NEW more, Whole(more, rest)
    PROVE  Whole(<<first>> \o more, text)
<1>1. /\ first \in Text /\ Len(first) = c /\ c \in 1..TextLimit /\ c < Len(text)
      /\ first = Stretch(text, 1, c)
  BY FirstPiece
<1>2. Len(text) \in Nat /\ DOMAIN text = 1..Len(text) /\ TextLimit \in Nat /\ c \in Int
  BY <1>1, OutboundAssumption DEF Text
<1>3. d \in Int /\ d >= c + 1 /\ d <= Len(text) + 1 /\ d \in 1..(Len(text) + 1) /\ c >= 1
  BY <1>1, <1>2
<1>4. IsEnd(rest, text, d)
  OBVIOUS
<1>5. /\ rest \in Text /\ Len(rest) = Len(text) - d + 1
      /\ \A k \in 1..Len(rest) : rest[k] = text[d + k - 1]
  BY <1>3, EndOf DEF IsEnd
<1>6. DOMAIN rest = 1..Len(rest) /\ Len(rest) \in Nat
  BY <1>5 DEF Text
<1>7. PICK m : m = Len(more)
  OBVIOUS
<1>8. m \in Nat /\ m >= 1 /\ DOMAIN more = 1..m /\ more \in Seq(Text)
  BY <1>7 DEF Whole
<1>9. PICK f : Laid(more, rest, f)
  BY TellsIsLaid DEF Whole
<1>10. PICK all : all = <<first>> \o more
  OBVIOUS
<1>11. /\ all \in Seq(Text) /\ Len(all) = m + 1 /\ DOMAIN all = 1..(m + 1) /\ all[1] = first
       /\ \A i \in 2..(m + 1) : all[i] = more[i - 1]
  <2>1. \A i \in 2..(m + 1) : (<<first>> \o more)[i] = more[i - 1]
    BY <1>1, <1>7, <1>8, Behind
  <2>2. /\ (<<first>> \o more) \in Seq(Text) /\ Len(<<first>> \o more) = m + 1
        /\ DOMAIN (<<first>> \o more) = 1..(m + 1) /\ (<<first>> \o more)[1] = first
    BY <1>1, <1>7, <1>8, Behind
  <2> QED
    BY <1>10, <2>1, <2>2, Zenon
<1> DEFINE from == [i \in 1..(m + 1) |-> IF i = 1 THEN 1 ELSE f[i - 1] + d - 1]
<1>12. ASSUME NEW i \in 1..m
       PROVE  /\ f[i] \in Int /\ f[i] >= 1 /\ Len(more[i]) \in Int /\ Len(more[i]) >= 1
              /\ f[i] + Len(more[i]) - 1 <= Len(rest)
              /\ more[i] = Stretch(rest, f[i], f[i] + Len(more[i]) - 1)
              /\ more[i] \in Text /\ Len(more[i]) \in 1..TextLimit
  <2>1. f[i] \in 1..Len(rest)
    BY <1>6, <1>8, <1>9 DEF Laid
  <2>2. more[i] \in Text /\ Len(more[i]) \in 1..TextLimit
    BY <1>8 DEF Whole
  <2>3. /\ f[i] + Len(more[i]) - 1 <= Len(rest)
        /\ more[i] = Stretch(rest, f[i], f[i] + Len(more[i]) - 1)
    BY <1>8, <1>9 DEF Laid
  <2>4. f[i] \in Int /\ f[i] >= 1
    BY <1>6, <2>1
  <2>5. Len(more[i]) \in Int /\ Len(more[i]) >= 1
    BY <1>2, <2>2
  <2> QED
    BY <2>2, <2>3, <2>4, <2>5
<1>13. from[1] = 1 /\ \A i \in 1..m : from[i + 1] = f[i] + d - 1 /\ all[i + 1] = more[i]
  BY <1>8, <1>11
<1>14. DOMAIN from = 1..(m + 1)
  OBVIOUS
<1>15. PICK g : g = from
  OBVIOUS
<1> HIDE DEF from
<1>16. ASSUME NEW i \in 1..(m + 1), i # 1
       PROVE  i - 1 \in 1..m /\ (i - 1) + 1 = i
  BY <1>8, <1>16
<1>17. ASSUME NEW i \in 1..m
       PROVE  /\ f[i] + d - 1 + Len(more[i]) - 1 <= Len(text)
              /\ more[i] = Stretch(text, f[i] + d - 1, f[i] + d - 1 + Len(more[i]) - 1)
  <2>1. PICK b : b = f[i] + Len(more[i]) - 1
    OBVIOUS
  <2>2. b \in Int /\ f[i] - 1 <= b /\ b <= Len(rest) /\ f[i] \in 1..(Len(rest) + 1)
    <3>1. /\ f[i] \in Int /\ f[i] >= 1 /\ Len(more[i]) \in Int /\ Len(more[i]) >= 1
          /\ f[i] + Len(more[i]) - 1 <= Len(rest)
      BY <1>12
    <3> QED
      BY <1>6, <2>1, <3>1
  <2>3. Stretch(rest, f[i], b) = Stretch(text, d + f[i] - 1, d + b - 1)
    <3>1. PICK a : a = f[i]
      OBVIOUS
    <3>2. a \in 1..(Len(rest) + 1) /\ a - 1 <= b
      BY <2>2, <3>1
    <3>3. Stretch(rest, a, b) = Stretch(text, d + a - 1, d + b - 1)
      BY <1>4, <2>2, <3>2, PartOfEnd
    <3> QED
      BY <3>1, <3>3
  <2>4. d + f[i] - 1 = f[i] + d - 1 /\ d + b - 1 = f[i] + d - 1 + Len(more[i]) - 1
    BY <1>3, <1>12, <2>1
  <2>5. more[i] = Stretch(rest, f[i], b)
    BY <1>12, <2>1
  <2>6. f[i] + d - 1 + Len(more[i]) - 1 <= Len(text)
    BY <1>2, <1>3, <1>5, <1>12
  <2> QED
    BY <2>3, <2>4, <2>5, <2>6
<1>18. ASSUME NEW i \in 1..(m + 1)
       PROVE  /\ from[i] \in 1..Len(text)
              /\ from[i] + Len(all[i]) - 1 <= Len(text)
              /\ all[i] = Stretch(text, from[i], from[i] + Len(all[i]) - 1)
              /\ Len(all[i]) \in 1..TextLimit
  <2>1. CASE i = 1
    <3>1. from[i] = 1 /\ all[i] = first
      BY <1>11, <1>13, <2>1
    <3>2. 1 + c - 1 = c
      BY <1>2
    <3> QED
      BY <1>1, <1>2, <3>1, <3>2
  <2>2. CASE i # 1
    <3>1. PICK j \in 1..m : i = j + 1
      BY <1>16, <2>2
    <3>2. from[i] = f[j] + d - 1 /\ all[i] = more[j]
      BY <1>13, <3>1
    <3>3. f[j] + d - 1 \in 1..Len(text)
      <4>1. f[j] \in Int /\ f[j] >= 1 /\ Len(more[j]) \in Int /\ Len(more[j]) >= 1
        BY <1>12
      <4>2. f[j] + d - 1 + Len(more[j]) - 1 <= Len(text)
        BY <1>17
      <4> QED
        BY <1>2, <1>3, <4>1, <4>2
    <3> QED
      BY <1>12, <1>17, <3>2, <3>3
  <2> QED
    BY <2>1, <2>2
<1>19. ASSUME NEW i \in 1..(m + 1), NEW j \in 1..(m + 1), i < j
       PROVE  from[i] + Len(all[i]) - 1 < from[j]
  <2>1. j # 1
    BY <1>19
  <2>2. PICK y \in 1..m : j = y + 1
    BY <1>16, <2>1
  <2>3. from[j] = f[y] + d - 1
    BY <1>13, <2>2
  <2>4. CASE i = 1
    <3>1. from[i] = 1 /\ Len(all[i]) = c
      BY <1>1, <1>11, <1>13, <2>4
    <3> QED
      BY <1>2, <1>3, <1>12, <2>3, <3>1
  <2>5. CASE i # 1
    <3>1. PICK x \in 1..m : i = x + 1
      BY <1>16, <2>5
    <3>2. x < y
      BY <1>19, <2>2, <3>1
    <3>3. f[x] + Len(more[x]) - 1 < f[y]
      BY <1>8, <1>9, <3>2 DEF Laid
    <3>4. from[i] = f[x] + d - 1 /\ all[i] = more[x]
      BY <1>13, <3>1
    <3> QED
      BY <1>3, <1>12, <2>3, <3>3, <3>4
  <2> QED
    BY <2>4, <2>5
<1>20. ASSUME NEW k \in 1..Len(text), text[k] # "n"
       PROVE  \E i \in 1..(m + 1) : k \in from[i]..(from[i] + Len(all[i]) - 1)
  <2>1. CASE k <= c
    <3>1. from[1] = 1 /\ Len(all[1]) = c /\ 1 \in 1..(m + 1)
      BY <1>1, <1>8, <1>11, <1>13
    <3>2. k \in from[1]..(from[1] + Len(all[1]) - 1)
      BY <1>2, <2>1, <3>1
    <3> QED
      BY <3>1, <3>2
  <2>2. CASE k > c
    <3>1. k >= d
      BY <1>2, <1>3, <1>20, <2>2
    <3>2. PICK e : e = k - d + 1
      OBVIOUS
    <3>3. e \in 1..Len(rest) /\ d + e - 1 = k
      BY <1>2, <1>3, <1>5, <3>1, <3>2
    <3>4. rest[e] # "n"
      BY <1>5, <1>20, <3>3
    <3>5. PICK j \in 1..m : e \in f[j]..(f[j] + Len(more[j]) - 1)
      BY <1>6, <1>8, <1>9, <3>3, <3>4 DEF Laid
    <3>6. from[j + 1] = f[j] + d - 1 /\ all[j + 1] = more[j] /\ j + 1 \in 1..(m + 1)
      BY <1>8, <1>13
    <3>7. k \in (f[j] + d - 1)..(f[j] + d - 1 + Len(more[j]) - 1)
      BY <1>3, <1>12, <3>2, <3>5
    <3>8. k \in from[j + 1]..(from[j + 1] + Len(all[j + 1]) - 1)
      BY <3>6, <3>7
    <3> QED
      BY <3>6, <3>8
  <2> QED
    BY <1>2, <2>1, <2>2
<1>21. from \in [1..(m + 1) -> 1..Len(text)]
  <2>1. from = [i \in 1..(m + 1) |-> from[i]]
    BY DEF from
  <2> QED
    BY <1>18, <2>1
<1>22. Laid(all, text, from)
  BY <1>2, <1>11, <1>18, <1>19, <1>20, <1>21 DEF Laid
<1>23. Whole(all, text)
  BY <1>8, <1>11, <1>18, <1>22, TellsIsLaid DEF Whole
<1> QED
  BY <1>10, <1>23

\* SplitText makes of any text pieces that Meta takes and that together are the text
LEMMA SplitWhole == \A text \in Text \ {<<>>} : Whole(SplitText[text], text)
<1> DEFINE Bad == {n \in Nat : \E t \in Text \ {<<>>} : Len(t) = n /\ ~Whole(SplitText[t], t)}
<1>1. Bad = {}
  <2> SUFFICES ASSUME Bad # {} PROVE FALSE
    OBVIOUS
  <2>1. Bad \in SUBSET Nat
    OBVIOUS
  <2>2. PICK n \in Bad : \A k \in Bad : n <= k
    <3> HIDE DEF Bad
    <3> QED
      BY <2>1, LeastNumber
  <2>3. PICK text \in Text \ {<<>>} : Len(text) = n /\ ~Whole(SplitText[text], text)
    BY <2>2
  <2>4. text \in Text /\ Len(text) \in Nat /\ Len(text) >= 1 /\ TextLimit \in Nat
    BY <2>3, OutboundAssumption DEF Text
  <2>5. SplitText[text] = SplitStep(SplitText, text)
    BY <2>4, SplitOfText
  <2>6. CASE Len(text) <= TextLimit
    <3>1. SplitText[text] = <<text>>
      BY <2>5, <2>6 DEF SplitStep
    <3>2. Len(text) \in 1..TextLimit
      BY <2>4, <2>6
    <3>3. Whole(<<text>>, text)
      BY <2>4, <3>2, ShortWhole
    <3> QED
      BY <2>3, <3>1, <3>3
  <2>7. CASE Len(text) > TextLimit
    <3>1. PICK c : c = Cut(text)
      OBVIOUS
    <3>2. PICK first : first = SubSeq(text, 1, c)
      OBVIOUS
    <3>3. IsFirst(first, text, c)
      BY <3>1, <3>2 DEF IsFirst
    <3>4. PICK rest : rest = Rest(text)
      OBVIOUS
    <3>5. PICK d \in (c + 1)..(Len(text) + 1) :
              /\ rest = SubSeq(text, d, Len(text))
              /\ \A k \in (c + 1)..(d - 1) : text[k] = "n"
      BY <2>4, <2>7, <3>1, <3>4, RestOfText
    <3>6. c \in Int /\ c >= 1 /\ d \in 1..(Len(text) + 1)
      BY <2>4, <2>7, <3>1, CutInside
    <3>7. /\ IsEnd(rest, text, d)
          /\ rest \in Text /\ Len(rest) = Len(text) - d + 1 /\ Len(rest) < Len(text)
      BY <2>4, <2>7, <3>4, <3>5, <3>6, EndOf, RestIsShorter DEF IsEnd
    <3>8. SplitText[text] = <<first>> \o (IF rest = <<>> THEN <<>> ELSE SplitText[rest])
      BY <2>4, <2>5, <2>7, <3>1, <3>2, <3>4 DEF SplitStep
    <3>9. CASE rest = <<>>
      <4>1. d = Len(text) + 1
        BY <2>4, <3>6, <3>7, <3>9
      <4>2. \A k \in (c + 1)..Len(text) : text[k] = "n"
        BY <2>4, <3>5, <4>1
      <4>3. Whole(<<first>>, text)
        BY <2>4, <2>7, <3>3, <4>2, OnePieceWhole
      <4>4. SplitText[text] = <<first>>
        BY <3>8, <3>9
      <4> QED
        BY <2>3, <4>3, <4>4
    <3>10. CASE rest # <<>>
      <4>1. Len(rest) \in Nat /\ Len(rest) \notin Bad
        <5>1. Len(rest) \in Nat /\ Len(rest) < n
          BY <2>3, <3>7 DEF Text
        <5> HIDE DEF Bad
        <5> QED
          BY <2>1, <2>2, <5>1
      <4>2. PICK more : more = SplitText[rest]
        OBVIOUS
      <4>3. Whole(more, rest)
        BY <3>7, <3>10, <4>1, <4>2
      <4>4. Whole(<<first>> \o more, text)
        BY <2>4, <2>7, <3>3, <3>5, <3>7, <4>3, MorePiecesWhole
      <4>5. SplitText[text] = <<first>> \o more
        BY <3>8, <3>10, <4>2
      <4> QED
        BY <2>3, <4>4, <4>5
    <3> QED
      BY <3>9, <3>10
  <2> QED
    BY <2>4, <2>6, <2>7
<1>2. ASSUME NEW text \in Text \ {<<>>} PROVE Whole(SplitText[text], text)
  <2>1. Len(text) \in Nat
    BY DEF Text
  <2> QED
    BY <1>1, <2>1
<1> QED
  BY <1>2

-----------------------------------------------------------------------------
(* The watchdog and its keys.                                              *)

\* BreakerTypeOK, the numbers and the flags apart
NumbersOK ==
    /\ bad \in 0..(ConfirmTtl + 1) /\ paused \in 0..PauseTtl /\ confirmed \in 0..ConfirmTtl
    /\ downFor \in 0..NoClock /\ lastAlert \in 0..Realert
    /\ faults \in 0..MaxFaults /\ deploys \in 0..MaxDeploys
FlagsOK ==
    /\ account \in {"authorized", "other"} /\ monitor \in Watch
    /\ manual \in BOOLEAN /\ alerted \in BOOLEAN /\ due \in BOOLEAN /\ up \in BOOLEAN
    /\ mute \in BOOLEAN /\ paged \in BOOLEAN
    /\ notices \subseteq {"after_page", "without_page"}

\* what the watchdog believes is never staler than the tick it looked in
ProbeIsFresh ==
    /\ account = "authorized" => bad = 0
    /\ monitor.at = "record" /\ monitor.saw = "authorized" => bad = 0

\* a confirmation and the outage together are no longer than the confirmation's life
ConfirmationIsYoung == confirmed > 0 => bad + confirmed <= ConfirmTtl

\* the mark for the recovery notice is set by the page itself
MarkedByPage == alerted => paged

BreakerInv ==
    /\ NumbersOK /\ FlagsOK
    /\ ProbeIsFresh /\ ConfirmationIsYoung /\ MarkedByPage /\ NoticeAfterPage

USE DEF NoClock, Cap, Less, Fault, watchVars, breakerVars

LEMMA RestingRun == Resting \in Watch /\ Resting.at = "idle"
  BY DEF Resting, Watch

LEMMA ProbedRun ==
    ASSUME NEW saw \in {"authorized", "other"},
           monitor' = [at |-> "record", saw |-> saw]
    PROVE  monitor' \in Watch /\ monitor'.saw = saw
  BY DEF Watch

LEMMA NextStepOfRun ==
    ASSUME monitor \in Watch, NEW step \in {"decide", "clock", "page"},
           monitor' = [monitor EXCEPT !.at = step]
    PROVE  monitor' \in Watch /\ monitor'.at = step
  BY DEF Watch

LEMMA BreakerStarts == BreakerInit => BreakerInv
<1> SUFFICES ASSUME BreakerInit PROVE BreakerInv
  OBVIOUS
<1>1. NumbersOK
  BY BreakerAssumption DEF BreakerInit, NumbersOK
<1>2. FlagsOK
  BY RestingRun DEF BreakerInit, FlagsOK
<1>3. ProbeIsFresh /\ ConfirmationIsYoung
  BY DEF BreakerInit, ProbeIsFresh, ConfirmationIsYoung
<1>4. MarkedByPage /\ NoticeAfterPage
  BY DEF BreakerInit, MarkedByPage, NoticeAfterPage
<1> QED
  BY <1>1, <1>2, <1>3, <1>4 DEF BreakerInv

LEMMA BreakerTyped == BreakerInv => BreakerTypeOK
  BY DEF BreakerInv, NumbersOK, FlagsOK, BreakerTypeOK

\* a failure elsewhere uses up one of the failures and changes nothing here
LEMMA FaultElsewhere ==
    BreakerInv /\ UNCHANGED watchVars /\ (Fault \/ UNCHANGED faults) => BreakerInv'
<1> SUFFICES ASSUME BreakerInv, UNCHANGED watchVars, Fault \/ UNCHANGED faults
             PROVE  BreakerInv'
  OBVIOUS
<1>1. NumbersOK'
  BY BreakerAssumption DEF BreakerInv, NumbersOK
<1>2. FlagsOK' /\ ProbeIsFresh' /\ ConfirmationIsYoung' /\ MarkedByPage' /\ NoticeAfterPage'
  BY DEF BreakerInv, FlagsOK, ProbeIsFresh, ConfirmationIsYoung, MarkedByPage, NoticeAfterPage
<1> QED
  BY <1>1, <1>2 DEF BreakerInv

LEMMA WorldStep == BreakerInv /\ World => BreakerInv'
<1> SUFFICES ASSUME BreakerInv, World PROVE BreakerInv'
  OBVIOUS
<1> USE DEF BreakerInv
<1>1. CASE AccountChanges
  <2>1. NumbersOK'
    BY <1>1, BreakerAssumption DEF NumbersOK, AccountChanges
  <2>2. FlagsOK' /\ MarkedByPage' /\ NoticeAfterPage'
    BY <1>1 DEF FlagsOK, MarkedByPage, NoticeAfterPage, AccountChanges
  <2>3. ProbeIsFresh' /\ ConfirmationIsYoung'
    BY <1>1, BreakerAssumption
    DEF NumbersOK, FlagsOK, ProbeIsFresh, ConfirmationIsYoung, AccountChanges
  <2> QED
    BY <2>1, <2>2, <2>3
<1>2. CASE KillSwitch
  <2>1. NumbersOK'
    BY <1>2, BreakerAssumption DEF NumbersOK, KillSwitch
  <2>2. FlagsOK' /\ MarkedByPage' /\ NoticeAfterPage'
    BY <1>2 DEF FlagsOK, MarkedByPage, NoticeAfterPage, KillSwitch
  <2>3. ProbeIsFresh' /\ ConfirmationIsYoung'
    BY <1>2, BreakerAssumption
    DEF NumbersOK, FlagsOK, ProbeIsFresh, ConfirmationIsYoung, KillSwitch
  <2> QED
    BY <2>1, <2>2, <2>3
<1>3. CASE WorkerStops
  <2>1. NumbersOK'
    BY <1>3, BreakerAssumption DEF NumbersOK, WorkerStops
  <2>2. FlagsOK' /\ MarkedByPage' /\ NoticeAfterPage'
    BY <1>3, RestingRun DEF FlagsOK, MarkedByPage, NoticeAfterPage, WorkerStops
  <2>3. ProbeIsFresh' /\ ConfirmationIsYoung'
    BY <1>3, RestingRun, BreakerAssumption
    DEF NumbersOK, FlagsOK, ProbeIsFresh, ConfirmationIsYoung, WorkerStops
  <2> QED
    BY <2>1, <2>2, <2>3
<1>4. CASE Deploy
  <2>1. NumbersOK'
    BY <1>4, BreakerAssumption DEF NumbersOK, Deploy
  <2>2. FlagsOK' /\ MarkedByPage' /\ NoticeAfterPage'
    BY <1>4 DEF FlagsOK, MarkedByPage, NoticeAfterPage, Deploy
  <2>3. ProbeIsFresh' /\ ConfirmationIsYoung'
    BY <1>4, BreakerAssumption
    DEF NumbersOK, FlagsOK, ProbeIsFresh, ConfirmationIsYoung, Deploy
  <2> QED
    BY <2>1, <2>2, <2>3
<1>5. CASE MonitorFails
  <2>1. NumbersOK'
    BY <1>5, BreakerAssumption DEF NumbersOK, MonitorFails
  <2>2. FlagsOK' /\ MarkedByPage' /\ NoticeAfterPage'
    BY <1>5, RestingRun DEF FlagsOK, MarkedByPage, NoticeAfterPage, MonitorFails
  <2>3. ProbeIsFresh' /\ ConfirmationIsYoung'
    BY <1>5, RestingRun, BreakerAssumption
    DEF NumbersOK, FlagsOK, ProbeIsFresh, ConfirmationIsYoung, MonitorFails
  <2> QED
    BY <2>1, <2>2, <2>3
<1> QED
  BY <1>1, <1>2, <1>3, <1>4, <1>5 DEF World

LEMMA WatchdogStep == BreakerInv /\ Watchdog => BreakerInv'
<1> SUFFICES ASSUME BreakerInv, Watchdog PROVE BreakerInv'
  OBVIOUS
<1> USE DEF BreakerInv
<1>1. CASE Skip
  <2>1. NumbersOK'
    BY <1>1, BreakerAssumption DEF NumbersOK, Skip
  <2>2. FlagsOK' /\ MarkedByPage' /\ NoticeAfterPage'
    BY <1>1 DEF FlagsOK, MarkedByPage, NoticeAfterPage, Skip
  <2>3. ProbeIsFresh' /\ ConfirmationIsYoung'
    BY <1>1, BreakerAssumption
    DEF NumbersOK, FlagsOK, ProbeIsFresh, ConfirmationIsYoung, Skip
  <2> QED
    BY <2>1, <2>2, <2>3
<1>2. CASE Probe
  <2>1. NumbersOK'
    BY <1>2, BreakerAssumption DEF NumbersOK, Probe
  <2>2. FlagsOK' /\ MarkedByPage' /\ NoticeAfterPage'
    BY <1>2, ProbedRun DEF FlagsOK, MarkedByPage, NoticeAfterPage, Probe
  <2>3. ProbeIsFresh' /\ ConfirmationIsYoung'
    BY <1>2, ProbedRun, BreakerAssumption
    DEF NumbersOK, FlagsOK, ProbeIsFresh, ConfirmationIsYoung, Probe
  <2> QED
    BY <2>1, <2>2, <2>3
<1>3. CASE Record
  <2>1. NumbersOK'
    BY <1>3, BreakerAssumption DEF NumbersOK, Record
  <2>2. FlagsOK' /\ MarkedByPage' /\ NoticeAfterPage'
    BY <1>3, NextStepOfRun DEF FlagsOK, MarkedByPage, NoticeAfterPage, Record
  <2>3. ProbeIsFresh' /\ ConfirmationIsYoung'
    BY <1>3, NextStepOfRun, BreakerAssumption
    DEF NumbersOK, FlagsOK, ProbeIsFresh, ConfirmationIsYoung, Record
  <2> QED
    BY <2>1, <2>2, <2>3
<1>4. CASE Recover
  <2>1. NumbersOK'
    BY <1>4, BreakerAssumption DEF NumbersOK, Recover
  <2>2. FlagsOK' /\ MarkedByPage' /\ NoticeAfterPage'
    BY <1>4, RestingRun DEF FlagsOK, MarkedByPage, NoticeAfterPage, Recover
  <2>3. ProbeIsFresh' /\ ConfirmationIsYoung'
    BY <1>4, RestingRun, BreakerAssumption
    DEF NumbersOK, FlagsOK, ProbeIsFresh, ConfirmationIsYoung, Recover
  <2> QED
    BY <2>1, <2>2, <2>3
<1>5. CASE Halt
  <2>1. NumbersOK'
    BY <1>5, BreakerAssumption DEF NumbersOK, Halt
  <2>2. FlagsOK' /\ MarkedByPage' /\ NoticeAfterPage'
    BY <1>5, NextStepOfRun DEF FlagsOK, MarkedByPage, NoticeAfterPage, Halt
  <2>3. ProbeIsFresh' /\ ConfirmationIsYoung'
    BY <1>5, NextStepOfRun, BreakerAssumption
    DEF NumbersOK, FlagsOK, ProbeIsFresh, ConfirmationIsYoung, Halt
  <2> QED
    BY <2>1, <2>2, <2>3
<1>6. CASE TimeOutage
  <2>1. NumbersOK'
    BY <1>6, BreakerAssumption DEF NumbersOK, TimeOutage
  <2>2. FlagsOK' /\ MarkedByPage' /\ NoticeAfterPage'
    BY <1>6, NextStepOfRun, RestingRun DEF FlagsOK, MarkedByPage, NoticeAfterPage, TimeOutage
  <2>3. ProbeIsFresh' /\ ConfirmationIsYoung'
    BY <1>6, NextStepOfRun, RestingRun, BreakerAssumption
    DEF NumbersOK, FlagsOK, ProbeIsFresh, ConfirmationIsYoung, TimeOutage
  <2> QED
    BY <2>1, <2>2, <2>3
<1>7. CASE Page
  <2>1. NumbersOK'
    BY <1>7, BreakerAssumption DEF NumbersOK, Page
  <2>2. FlagsOK' /\ MarkedByPage' /\ NoticeAfterPage'
    BY <1>7, RestingRun DEF FlagsOK, MarkedByPage, NoticeAfterPage, Page
  <2>3. ProbeIsFresh' /\ ConfirmationIsYoung'
    BY <1>7, RestingRun, BreakerAssumption
    DEF NumbersOK, FlagsOK, ProbeIsFresh, ConfirmationIsYoung, Page
  <2> QED
    BY <2>1, <2>2, <2>3
<1> QED
  BY <1>1, <1>2, <1>3, <1>4, <1>5, <1>6, <1>7 DEF Watchdog

\* a tick takes from the life of a confirmation what it adds to the outage
LEMMA TickStep == BreakerInv /\ Tick => BreakerInv'
<1> SUFFICES ASSUME BreakerInv, Tick PROVE BreakerInv'
  OBVIOUS
<1> USE DEF BreakerInv
<1>1. NumbersOK'
  BY BreakerAssumption DEF NumbersOK, Tick
<1>2. FlagsOK' /\ MarkedByPage' /\ NoticeAfterPage'
  BY DEF FlagsOK, MarkedByPage, NoticeAfterPage, Tick
<1>3. ProbeIsFresh'
  BY RestingRun DEF ProbeIsFresh, Tick
<1>4. ConfirmationIsYoung'
  BY BreakerAssumption DEF NumbersOK, ConfirmationIsYoung, Tick
<1> QED
  BY <1>1, <1>2, <1>3, <1>4

-----------------------------------------------------------------------------
(* One send, and the messages Meta accepted.                               *)

\* a send, with its fields
SendIsRecord ==
    send = [at |-> send.at, by |-> send.by, kind |-> send.kind, body |-> send.body,
            left |-> send.left, out |-> send.out, unread |-> send.unread]

\* a send that found the confirmation, or could not read it, is not yet over
SendIsYoung ==
    send.at \in {"window", "post", "record"} => send.unread \/ bad < ConfirmTtl

MailOK == mail \in Seq(Message)

IInv == BreakerInv /\ SendIsRecord /\ SendIsYoung /\ MailOK /\ StatusStands

LEMMA IdleSend == SendIsRecord /\ send = NoSend => SendIsYoung
  BY DEF NoSend, SendIsYoung

\* a coroutine that stops leaves no send behind
LEMMA Returned ==
    ASSUME NEW answer, Return(answer)
    PROVE  SendIsRecord' /\ SendIsYoung'
  BY DEF Return, NoSend, SendIsRecord, SendIsYoung

\* within a send, the piece that follows is as young as the one before
LEMMA NextPiece ==
    ASSUME SendIsRecord, send.at = "record", SendIsYoung, AfterPiece, bad' = bad
    PROVE  SendIsRecord' /\ SendIsYoung'
<1>1. CASE Len(send.left) > 1
  BY <1>1 DEF AfterPiece, SendIsRecord, SendIsYoung
<1>2. CASE ~(Len(send.left) > 1) /\ send.kind = "audio" /\ send.body # <<>>
  BY <1>2 DEF AfterPiece, SendIsRecord, SendIsYoung
<1>3. CASE ~(Len(send.left) > 1) /\ ~(send.kind = "audio" /\ send.body # <<>>)
  BY <1>3, Returned DEF AfterPiece
<1> QED
  BY <1>1, <1>2, <1>3

\* what Meta accepts is a message of which nothing is known yet
LEMMA AcceptedMail ==
    ASSUME MailOK, StatusStands, mail' = Accepted
    PROVE  MailOK' /\ StatusStands'
<1> DEFINE new == [row |-> "absent", seen |-> "none", paged |-> FALSE,
                   report |-> IF window.meta THEN "delivered" ELSE "failed"]
<1>1. new \in Message /\ new.seen = "none"
  BY DEF Message
<1> HIDE DEF new
<1>2. mail' = Append(mail, new)
  BY DEF Accepted, new
<1>3. MailOK'
  BY <1>1, <1>2 DEF MailOK
<1>4. ASSUME NEW i \in DOMAIN mail', mail'[i].seen # "none"
      PROVE  mail'[i].row = mail'[i].seen
  <2>1. i \in DOMAIN mail /\ mail'[i] = mail[i]
    BY <1>1, <1>2, <1>4 DEF MailOK
  <2> QED
    BY <1>4, <2>1 DEF StatusStands
<1> QED
  BY <1>3, <1>4 DEF StatusStands

\* a row of wa_delivery replaced by one that tells what was reported of it
LEMMA ReplacedMail ==
    ASSUME MailOK, StatusStands, NEW i \in DOMAIN mail, NEW m \in Message,
           m.seen # "none" => m.row = m.seen, mail' = [mail EXCEPT ![i] = m]
    PROVE  MailOK' /\ StatusStands' /\ Len(mail') = Len(mail)
<1>1. MailOK' /\ Len(mail') = Len(mail) /\ DOMAIN mail' = DOMAIN mail
  BY DEF MailOK
<1>2. ASSUME NEW j \in DOMAIN mail', mail'[j].seen # "none"
      PROVE  mail'[j].row = mail'[j].seen
  <2>1. CASE j = i
    BY <1>1, <1>2, <2>1 DEF MailOK
  <2>2. CASE j # i
    BY <1>1, <1>2, <2>2 DEF MailOK, StatusStands
  <2> QED
    BY <2>1, <2>2
<1> QED
  BY <1>1, <1>2 DEF StatusStands

\* record_outbound never writes over a status that came first
LEMMA RecordedMail ==
    ASSUME MailOK, StatusStands,
           mail' = [mail EXCEPT ![Len(mail)].row = IF @ = "absent" THEN "accepted" ELSE @]
    PROVE  MailOK' /\ StatusStands' /\ Len(mail') = Len(mail)
<1> DEFINE i == Len(mail)
           m == [mail[i] EXCEPT !.row = IF @ = "absent" THEN "accepted" ELSE @]
<1>1. CASE mail = <<>>
  <2>1. mail' = [j \in {} |-> mail[j]]
    BY <1>1
  <2>2. mail = [j \in {} |-> mail[j]]
    BY <1>1
  <2> QED
    BY <1>1, <2>1, <2>2 DEF MailOK, StatusStands
<1>2. CASE mail # <<>>
  <2>1. i \in DOMAIN mail /\ mail[i] \in Message
    BY <1>2 DEF MailOK
  <2>2. m \in Message /\ m.seen = mail[i].seen
        /\ (mail[i].row # "absent" => m.row = mail[i].row)
    BY <2>1 DEF Message
  <2>3. m.seen # "none" => m.row = m.seen
    BY <2>1, <2>2 DEF StatusStands, Message
  <2>4. mail' = [mail EXCEPT ![i] = m]
    OBVIOUS
  <2> HIDE DEF i, m
  <2> QED
    BY <2>1, <2>2, <2>3, <2>4, ReplacedMail
<1> QED
  BY <1>1, <1>2

LEMMA ReportedMail ==
    ASSUME MailOK, StatusStands, NEW i \in DOMAIN mail, ApplyStatus(i)
    PROVE  MailOK' /\ StatusStands' /\ Len(mail') = Len(mail)
<1>1. mail[i] \in Message /\ mail[i].report # "none"
  BY DEF MailOK, ApplyStatus
<1> DEFINE handled == [mail[i] EXCEPT !.row = mail[i].report, !.report = "none",
                          !.seen = mail[i].report, !.paged = mail[i].report = "failed"]
           failing == [mail[i] EXCEPT !.row = mail[i].report, !.seen = mail[i].report]
<1>2. handled \in Message /\ handled.row = handled.seen
  BY <1>1 DEF Message
<1>3. failing \in Message /\ failing.row = failing.seen
  BY <1>1 DEF Message
<1>4. mail' = [mail EXCEPT ![i] = handled] \/ mail' = [mail EXCEPT ![i] = failing]
  BY DEF ApplyStatus
<1> HIDE DEF handled, failing
<1> QED
  BY <1>2, <1>3, <1>4, ReplacedMail

LEMMA MailStands ==
    MailOK /\ StatusStands /\ mail' = mail => MailOK' /\ StatusStands' /\ Len(mail') = Len(mail)
  BY DEF MailOK, StatusStands

LEMMA SendStands ==
    SendIsRecord /\ SendIsYoung /\ send' = send /\ bad' \in {0, bad}
      => SendIsRecord' /\ SendIsYoung'
<1> SUFFICES ASSUME SendIsRecord, SendIsYoung, send' = send, bad' \in {0, bad}
             PROVE  SendIsRecord' /\ SendIsYoung'
  OBVIOUS
<1> QED
  BY BreakerAssumption DEF SendIsRecord, SendIsYoung


-----------------------------------------------------------------------------
(* The steps.                                                              *)

\* what a step may hand to Meta, the body of SparesDownAccount
Fresh == Len(mail') > Len(mail) => bad < ConfirmTtl \/ send.unread

LEMMA Starts == Init => IInv
<1> SUFFICES ASSUME Init PROVE IInv
  OBVIOUS
<1>1. BreakerInv
  BY BreakerStarts DEF Init
<1>2. SendIsRecord /\ SendIsYoung
  BY DEF Init, NoSend, SendIsRecord, SendIsYoung
<1>3. MailOK /\ StatusStands
  BY DEF Init, MailOK, StatusStands
<1> QED
  BY <1>1, <1>2, <1>3 DEF IInv

\* an accepted piece is fresh: the send was let pass in this tick
LEMMA AcceptedFresh ==
    IInv /\ send.at = "post" => bad < ConfirmTtl \/ send.unread
  BY DEF IInv, SendIsYoung

LEMMA SendingStep ==
    ASSUME IInv, Sending
    PROVE  IInv' /\ Fresh
<1>1. CASE ReadPause
  <2>1. BreakerInv'
    BY <1>1, FaultElsewhere DEF IInv, ReadPause
  <2>2. SendIsRecord' /\ SendIsYoung'
    BY <1>1, Returned DEF IInv, ReadPause, Goto, SendIsRecord, SendIsYoung, Suppress
  <2>3. MailOK' /\ StatusStands' /\ Fresh
    BY <1>1, MailStands DEF IInv, ReadPause, Queues, MailOK, Fresh
  <2> QED
    BY <2>1, <2>2, <2>3 DEF IInv
<1>2. CASE ReadState
  <2>1. BreakerInv'
    BY <1>2, FaultElsewhere DEF IInv, ReadState
  <2>2. SendIsRecord' /\ SendIsYoung'
    <3>1. CASE confirmed > 0
      <4>1. bad < ConfirmTtl /\ bad' = bad
        BY <1>2, <3>1, BreakerAssumption
        DEF IInv, BreakerInv, NumbersOK, ConfirmationIsYoung, ReadState
      <4> QED
        BY <1>2, <3>1, <4>1 DEF IInv, ReadState, Goto, SendIsRecord, SendIsYoung
    <3>2. CASE ~(confirmed > 0)
      BY <1>2, <3>2, Returned DEF ReadState, Suppress
    <3> QED
      BY <3>1, <3>2
  <2>3. MailOK' /\ StatusStands' /\ Fresh
    BY <1>2, MailStands DEF IInv, ReadState, Queues, MailOK, Fresh
  <2> QED
    BY <2>1, <2>2, <2>3 DEF IInv
<1>3. CASE GuardFailsOpen
  <2>1. BreakerInv'
    BY <1>3, FaultElsewhere DEF IInv, GuardFailsOpen, Watching
  <2>2. SendIsRecord' /\ SendIsYoung'
    BY <1>3 DEF IInv, GuardFailsOpen, SendIsRecord, SendIsYoung
  <2>3. MailOK' /\ StatusStands' /\ Fresh
    BY <1>3, MailStands DEF IInv, GuardFailsOpen, Queues, MailOK, Fresh
  <2> QED
    BY <2>1, <2>2, <2>3 DEF IInv
<1>4. CASE WindowOpen
  <2>1. BreakerInv'
    BY <1>4, FaultElsewhere DEF IInv, WindowOpen, Watching
  <2>2. SendIsRecord' /\ SendIsYoung'
    BY <1>4 DEF IInv, WindowOpen, Goto, SendIsRecord, SendIsYoung, Watching
  <2>3. MailOK' /\ StatusStands' /\ Fresh
    BY <1>4, MailStands DEF IInv, WindowOpen, Queues, MailOK, Fresh
  <2> QED
    BY <2>1, <2>2, <2>3 DEF IInv
<1>5. CASE WindowClosed
  <2>1. BreakerInv'
    BY <1>5, FaultElsewhere DEF IInv, WindowClosed
  <2>2. SendIsRecord' /\ SendIsYoung'
    BY <1>5, Returned DEF IInv, WindowClosed
  <2>3. MailOK' /\ StatusStands' /\ Fresh
    BY <1>5, MailStands DEF IInv, WindowClosed, Queues, MailOK, Fresh
  <2> QED
    BY <2>1, <2>2, <2>3 DEF IInv
<1>6. CASE Post
  <2>1. BreakerInv'
    BY <1>6, FaultElsewhere DEF IInv, Post
  <2>2. SendIsRecord' /\ SendIsYoung'
    BY <1>6 DEF IInv, Post, SendIsRecord, SendIsYoung
  <2>3. MailOK' /\ StatusStands' /\ Fresh
    BY <1>6, AcceptedMail, AcceptedFresh DEF IInv, Post, Fresh
  <2> QED
    BY <2>1, <2>2, <2>3 DEF IInv
<1>7. CASE PostFails
  <2>1. BreakerInv'
    BY <1>7, FaultElsewhere DEF IInv, PostFails, Watching
  <2>2. SendIsRecord' /\ SendIsYoung'
    BY <1>7, Returned DEF IInv, PostFails
  <2>3. MailOK' /\ StatusStands' /\ Fresh
    BY <1>7, AcceptedMail, AcceptedFresh, MailStands DEF IInv, PostFails, MailOK, Fresh
  <2> QED
    BY <2>1, <2>2, <2>3 DEF IInv
<1>8. CASE RecordOutbound
  <2>1. BreakerInv'
    BY <1>8, FaultElsewhere DEF IInv, RecordOutbound, Watching
  <2>2. SendIsRecord' /\ SendIsYoung'
    BY <1>8, NextPiece DEF IInv, RecordOutbound, Watching
  <2>3. MailOK' /\ StatusStands' /\ Fresh
    BY <1>8, RecordedMail, MailStands DEF IInv, RecordOutbound, MailOK, Fresh
  <2> QED
    BY <2>1, <2>2, <2>3 DEF IInv
<1>9. CASE PanelGivesUp
  <2>1. BreakerInv'
    BY <1>9, FaultElsewhere DEF IInv, PanelGivesUp
  <2>2. SendIsRecord' /\ SendIsYoung'
    BY <1>9, SendStands DEF IInv, PanelGivesUp
  <2>3. MailOK' /\ StatusStands' /\ Fresh
    BY <1>9, MailStands DEF IInv, PanelGivesUp, Queues, MailOK, Fresh
  <2> QED
    BY <2>1, <2>2, <2>3 DEF IInv
<1> QED
  BY <1>1, <1>2, <1>3, <1>4, <1>5, <1>6, <1>7, <1>8, <1>9 DEF Sending

\* the recipient, Meta and the webhook
LEMMA OutsideStep ==
    ASSUME IInv,
           \/ \E sort \in {"text", "sticker"} : CustomerWrites(sort)
           \/ OpenWindow \/ WindowEnds \/ KeyExpires \/ Reporting
    PROVE  IInv' /\ Fresh
<1>1. BreakerInv'
  BY FaultElsewhere
  DEF IInv, CustomerWrites, OpenWindow, WindowEnds, KeyExpires, Reporting, ApplyStatus, Watching
<1>2. send' = send /\ bad' = bad
  BY DEF CustomerWrites, OpenWindow, WindowEnds, KeyExpires, Reporting, ApplyStatus,
         Elsewhere, Watching
<1>3. SendIsRecord' /\ SendIsYoung'
  BY <1>2, SendStands DEF IInv
<1>4. MailOK' /\ StatusStands' /\ Fresh
  <2>1. CASE Reporting
    BY <2>1, ReportedMail DEF IInv, Reporting, MailOK, Fresh
  <2>2. CASE mail' = mail
    BY <2>2, MailStands DEF IInv, MailOK, Fresh
  <2> QED
    BY <2>1, <2>2 DEF CustomerWrites, OpenWindow, WindowEnds, KeyExpires
<1> QED
  BY <1>1, <1>3, <1>4 DEF IInv

LEMMA AskStep ==
    ASSUME IInv, NEW by, NEW kind, NEW body, Ask(by, kind, body)
    PROVE  IInv' /\ Fresh
<1>1. BreakerInv' /\ bad' = bad
  BY FaultElsewhere DEF IInv, Ask
<1>2. SendIsRecord' /\ SendIsYoung'
  BY DEF Ask, SendIsRecord, SendIsYoung
<1>3. MailOK' /\ StatusStands' /\ Fresh
  BY MailStands DEF IInv, Ask, MailOK, Fresh
<1> QED
  BY <1>1, <1>2, <1>3 DEF IInv

\* a dry run leaves everything but two counters alone
LEMMA DryRunStep == IInv /\ DryRun => IInv' /\ Fresh
<1> SUFFICES ASSUME IInv, DryRun PROVE IInv' /\ Fresh
  OBVIOUS
<1>1. BreakerInv' /\ bad' = bad
  BY FaultElsewhere DEF IInv, DryRun
<1>2. SendIsRecord' /\ SendIsYoung'
  BY <1>1, SendStands DEF IInv, DryRun
<1>3. MailOK' /\ StatusStands' /\ Fresh
  BY MailStands DEF IInv, DryRun, MailOK, Fresh
<1> QED
  BY <1>1, <1>2, <1>3 DEF IInv

\* the watchdog, the world and the clock send nothing, and the clock waits for a send
LEMMA BreakerSteps ==
    ASSUME IInv, (Watchdog /\ UNCHANGED sendVars) \/ Time \/ Breaking
    PROVE  IInv' /\ Fresh
<1>1. CASE Watchdog /\ UNCHANGED sendVars
  <2>1. BreakerInv' /\ bad' = bad
    BY <1>1, WatchdogStep
    DEF IInv, Watchdog, Skip, Probe, Record, Recover, Halt, TimeOutage, Page
  <2> QED
    BY <1>1, <2>1, SendStands, MailStands DEF IInv, sendVars, MailOK, Fresh
<1>2. CASE Time
  <2>1. BreakerInv' /\ SendIsRecord'
    BY <1>2, TickStep DEF IInv, Time, sendVars, SendIsRecord
  <2>2. SendIsYoung'
    BY <1>2 DEF Time, sendVars, NoSend, SendIsYoung
  <2> QED
    BY <1>2, <2>1, <2>2, MailStands DEF IInv, Time, sendVars, MailOK, Fresh
<1>3. CASE Breaking
  <2>1. BreakerInv' /\ bad' \in {0, bad}
    BY <1>3, WorldStep
    DEF IInv, Breaking, World, AccountChanges, KillSwitch, Deploy, MonitorFails, WorkerStops
  <2>2. SendIsRecord' /\ SendIsYoung'
    <3>1. CASE send' = send
      BY <2>1, <3>1, SendStands DEF IInv
    <3>2. CASE send' = NoSend
      BY <3>2 DEF NoSend, SendIsRecord, SendIsYoung
    <3> QED
      BY <1>3, <3>1, <3>2 DEF Breaking
  <2> QED
    BY <1>3, <2>1, <2>2, MailStands DEF IInv, Breaking, MailOK, Fresh
<1> QED
  BY <1>1, <1>2, <1>3

LEMMA Stutter == IInv /\ UNCHANGED vars => IInv' /\ Fresh
<1> SUFFICES ASSUME IInv, UNCHANGED vars PROVE IInv' /\ Fresh
  OBVIOUS
<1>1. BreakerInv' /\ bad' = bad /\ send' = send /\ mail' = mail
  BY FaultElsewhere DEF IInv, vars, sendVars
<1> QED
  BY <1>1, SendStands, MailStands DEF IInv, MailOK, Fresh

LEMMA Step == IInv /\ [Next]_vars => IInv' /\ Fresh
  BY SendingStep, OutsideStep, AskStep, DryRunStep, BreakerSteps, Stutter DEF Next

-----------------------------------------------------------------------------
(* The theorems.                                                           *)

\* the invariant on which the four theorems below rest
THEOREM Invariant == Spec => []IInv
  BY Starts, Step, PTL DEF Spec

\* The watchdog's keys and clocks keep their ranges, above all the time to live of
\* the pause and of the confirmation, however probes, writes and processes fail.
THEOREM WatchdogTypes == Spec => []BreakerTypeOK
<1>1. IInv => BreakerTypeOK
  BY BreakerTyped DEF IInv
<1> QED
  BY <1>1, Invariant, PTL

\* The breaker fails closed for every life of the keys and every length of the
\* text: a send that read Redis hands nothing to Meta once the account has been down
\* for a confirmation's life, though the worker died, was muted or could not write.
THEOREM FailsClosed == Spec => SparesDownAccount
<1>1. IInv /\ [Next]_vars => [Len(mail') > Len(mail) => bad < ConfirmTtl \/ send.unread]_vars
  BY Step DEF Fresh
<1> QED
  BY <1>1, Invariant, PTL DEF Spec, SparesDownAccount

\* The recovery notice is never sent for an outage that nobody was told of.
THEOREM NoticesFollowPages == Spec => []NoticeAfterPage
<1>1. IInv => NoticeAfterPage
  BY DEF IInv, BreakerInv
<1> QED
  BY <1>1, Invariant, PTL

\* A status that came before the sender recorded its message is never written over,
\* for any number of pieces, reports and repeated reports.
THEOREM StatusesStand == Spec => []StatusStands
<1>1. IInv => StatusStands
  BY DEF IInv
<1> QED
  BY <1>1, Invariant, PTL

-----------------------------------------------------------------------------
(* The service window.                                                     *)

\* while Meta's window is open, its key is there, unless the message that opened the
\* window is not handled yet, or its opening could not be recorded
WindowIsKnown ==
    /\ window \in Window
    /\ window.meta /\ window.pending = "none" /\ ~window.missed => window.key

LEMMA WindowStarts == Init => WindowIsKnown
  BY DEF Init, WindowIsKnown, Window

\* what the steps on the window write, field by field
LEMMA WindowWritten ==
    ASSUME window \in Window, NEW e \in BOOLEAN, NEW sort \in {"none", "text", "sticker"}
    PROVE  /\ LET w == [window EXCEPT !.meta = e, !.pending = sort]
              IN  /\ w \in Window /\ w.meta = e /\ w.pending = sort
                  /\ w.key = window.key /\ w.missed = window.missed
           /\ LET w == [window EXCEPT !.meta = e]
              IN  /\ w \in Window /\ w.meta = e /\ w.pending = window.pending
                  /\ w.key = window.key /\ w.missed = window.missed
           /\ LET w == [window EXCEPT !.key = e]
              IN  /\ w \in Window /\ w.key = e /\ w.pending = window.pending
                  /\ w.meta = window.meta /\ w.missed = window.missed
           /\ LET w == [window EXCEPT !.missed = e, !.pending = sort]
              IN  /\ w \in Window /\ w.missed = e /\ w.pending = sort
                  /\ w.meta = window.meta /\ w.key = window.key
           /\ \A f \in BOOLEAN :
                LET w == [window EXCEPT !.key = e, !.pending = sort, !.missed = f]
                IN  /\ w \in Window /\ w.key = e /\ w.pending = sort /\ w.missed = f
                    /\ w.meta = window.meta
  BY DEF Window

LEMMA WindowStep == WindowIsKnown /\ [Next]_vars => WindowIsKnown'
<1> SUFFICES ASSUME WindowIsKnown, [Next]_vars PROVE WindowIsKnown'
  OBVIOUS
<1>1. window \in Window
  BY DEF WindowIsKnown
<1>2. ASSUME NEW sort \in {"text", "sticker"}, CustomerWrites(sort) PROVE WindowIsKnown'
  <2>1. window' \in Window /\ window'.pending # "none"
    BY <1>1, <1>2, WindowWritten, Zenon DEF CustomerWrites
  <2> QED
    BY <2>1 DEF WindowIsKnown
<1>3. ASSUME OpenWindow PROVE WindowIsKnown'
  <2>1. CASE window' = [window EXCEPT !.key = TRUE, !.pending = "none", !.missed = FALSE]
    <3>1. window' \in Window /\ window'.key
      BY <1>1, <2>1, WindowWritten, Zenon
    <3> QED
      BY <3>1 DEF WindowIsKnown
  <2>2. CASE window' = [window EXCEPT !.missed = TRUE, !.pending = "none"]
    <3>1. window' \in Window /\ window'.missed
      BY <1>1, <2>2, WindowWritten, Zenon
    <3> QED
      BY <3>1 DEF WindowIsKnown
  <2>3. CASE window' = [window EXCEPT !.key = TRUE]
    <3>1. window' \in Window /\ window'.key
      BY <1>1, <2>3, WindowWritten, Zenon
    <3> QED
      BY <3>1 DEF WindowIsKnown
  <2> QED
    BY <1>3, <2>1, <2>2, <2>3 DEF OpenWindow
<1>4. ASSUME WindowEnds PROVE WindowIsKnown'
  <2>1. window' \in Window /\ ~window'.meta
    BY <1>1, <1>4, WindowWritten, Zenon DEF WindowEnds
  <2> QED
    BY <2>1 DEF WindowIsKnown
<1>5. ASSUME KeyExpires PROVE WindowIsKnown'
  <2>1. /\ window' \in Window /\ window'.meta = window.meta
        /\ window'.pending = window.pending /\ window'.missed = window.missed
    BY <1>1, <1>5, WindowWritten, Zenon DEF KeyExpires
  <2> QED
    BY <1>5, <2>1 DEF WindowIsKnown, KeyExpires
<1>6. ASSUME window' = window PROVE WindowIsKnown'
  BY <1>6 DEF WindowIsKnown
<1>7. Sending \/ Reporting \/ DryRun => window' = window
  BY DEF Sending, ReadPause, ReadState, GuardFailsOpen, WindowOpen, WindowClosed, Post,
         PostFails, RecordOutbound, PanelGivesUp, Queues, Reporting, ApplyStatus, DryRun
<1>8. (Watchdog /\ UNCHANGED sendVars) \/ Time \/ Breaking \/ UNCHANGED vars
        => window' = window
  BY DEF Time, Breaking, vars, sendVars
<1>9. ASSUME NEW by, NEW kind, NEW body, Ask(by, kind, body) PROVE window' = window
  BY <1>9 DEF Ask
<1> QED
  BY <1>2, <1>3, <1>4, <1>5, <1>6, <1>7, <1>8, <1>9 DEF Next

\* A message is held back for a closed window only when Meta would not take it, or
\* nobody has told Redis of the window yet, for any number of messages both ways.
THEOREM WindowRespected == Spec => BlockedOnlyIfClosed
<1>1. WindowIsKnown /\ [Next]_vars
        => [WindowClosed => ~window.meta \/ window.pending # "none" \/ window.missed]_vars
  BY DEF WindowIsKnown, WindowClosed
<1> QED
  BY <1>1, WindowStarts, WindowStep, PTL DEF Spec, BlockedOnlyIfClosed

-----------------------------------------------------------------------------
(* What has been sent of a text, and what is left of it.                   *)

Send == [at: Steps, by: {"worker", "panel"}, kind: Kinds, body: Bodies \cup {<<>>},
         left: Seq(Text), out: Seq(Text), unread: BOOLEAN]

SendTyped ==
    /\ send \in Send
    /\ send.at # "idle" => send.body \in Bodies /\ Len(send.left) >= 1

\* a text of the panel: what went out and what is left are its pieces, in order
PiecesInOrder ==
    send.by = "panel" /\ send.at # "idle" =>
      /\ send.kind = "text" /\ send.body # <<>>
      /\ send.at = "record" => send.out \o Tail(send.left) = SplitText[send.body]
      /\ send.at # "record" => send.out \o send.left = SplitText[send.body]

Pieced == SendTyped /\ PiecesInOrder

CountsOK ==
    /\ told \in {"nothing", "sent", "not_sent"}
    /\ sends \in 0..MaxSends /\ writes \in 0..MaxWrites

LEMMA SplitTyped ==
    ASSUME NEW body \in Bodies
    PROVE  SplitText[body] \in Seq(Text) /\ Len(SplitText[body]) >= 1
<1>1. CASE body # <<>>
  <2>1. body \in Text \ {<<>>}
    BY <1>1, OutboundAssumption
  <2> QED
    BY <2>1, SplitWhole DEF Whole
<1>2. CASE body = <<>>
  <2>1. <<>> \in Text /\ Len(<<>>) <= TextLimit
    BY OutboundAssumption DEF Text
  <2>2. SplitText[<<>>] = SplitStep(SplitText, <<>>)
    BY <2>1, SplitOfText
  <2>3. SplitText[<<>>] = <<<<>>>>
    BY <2>1, <2>2 DEF SplitStep
  <2>4. <<<<>>>> \in Seq(Text) /\ Len(<<<<>>>>) = 1
    BY <2>1, Single
  <2> QED
    BY <1>2, <2>3, <2>4
<1> QED
  BY <1>1, <1>2

\* w is the send s at another step, with other text left and gone
Moved(w, s, step, left, out) ==
    /\ w \in Send /\ w.at = step /\ w.left = left /\ w.out = out
    /\ w.by = s.by /\ w.kind = s.kind /\ w.body = s.body

\* w is the caption that follows the voice note s
Captioned(w, s, left) ==
    /\ w \in Send /\ w.at = "window" /\ w.left = left /\ w.by = s.by /\ w.body = s.body

\* what the steps of a send write
LEMMA SendMoves ==
    ASSUME NEW s \in Send, NEW step \in Steps
    PROVE  Moved([s EXCEPT !.at = step], s, step, s.left, s.out)
  BY DEF Send, Moved

LEMMA SendMovesUnread ==
    ASSUME NEW s \in Send, NEW step \in Steps, NEW e \in BOOLEAN
    PROVE  Moved([s EXCEPT !.at = step, !.unread = e], s, step, s.left, s.out)
  BY DEF Send, Moved

LEMMA SendMovesOut ==
    ASSUME NEW s \in Send, NEW step \in Steps, NEW out \in Seq(Text)
    PROVE  Moved([s EXCEPT !.at = step, !.out = out], s, step, s.left, out)
  BY DEF Send, Moved

LEMMA SendMovesLeft ==
    ASSUME NEW s \in Send, NEW step \in Steps, NEW left \in Seq(Text)
    PROVE  Moved([s EXCEPT !.left = left, !.at = step], s, step, left, s.out)
  BY DEF Send, Moved

LEMMA SendMovesCaption ==
    ASSUME NEW s \in Send, NEW left \in Seq(Text)
    PROVE  Captioned([s EXCEPT !.at = "window", !.kind = "caption", !.left = left], s, left)
  BY DEF Send, Kinds, Steps, Captioned

LEMMA AskedSend ==
    ASSUME NEW by \in {"worker", "panel"}, NEW kind \in Kinds, NEW body \in Bodies,
           NEW left \in Seq(Text), NEW e \in BOOLEAN
    PROVE  LET w == [at |-> "guard", by |-> by, kind |-> kind, body |-> body, out |-> <<>>,
                     unread |-> e, left |-> left]
           IN  /\ w \in Send /\ w.at = "guard" /\ w.by = by /\ w.kind = kind
               /\ w.body = body /\ w.left = left /\ w.out = <<>>
  BY DEF Send, Steps

LEMMA NoSendTyped == \A e \in BOOLEAN :
    LET w == [at |-> "idle", by |-> "worker", kind |-> "text", body |-> <<>>, left |-> <<>>,
              out |-> <<>>, unread |-> e]
    IN  w \in Send /\ w.at = "idle" /\ w.by = "worker"
  BY DEF Send, Steps, Kinds

LEMMA NoSendPieced ==
    ASSUME send' = NoSend
    PROVE  Pieced'
<1>1. send' \in Send /\ send'.at = "idle"
  BY NoSendTyped, Zenon DEF NoSend
<1> QED
  BY <1>1 DEF Pieced, SendTyped, PiecesInOrder

LEMMA SameSendPieced ==
    ASSUME Pieced, send' = send
    PROVE  Pieced'
  BY DEF Pieced, SendTyped, PiecesInOrder

\* a step between the guards changes nothing of the pieces
LEMMA MovedPieced ==
    ASSUME Pieced, send.at \notin {"idle", "record"},
           NEW step \in Steps \ {"idle", "record"},
           Moved(send', send, step, send.left, send.out)
    PROVE  Pieced'
  BY DEF Moved, Pieced, SendTyped, PiecesInOrder

LEMMA OneMoreOut ==
    ASSUME NEW gone \in Seq(Text), NEW left \in Seq(Text), Len(left) >= 1
    PROVE  /\ Append(gone, left[1]) \in Seq(Text)
           /\ Append(gone, left[1]) \o Tail(left) = gone \o left
<1>1. left[1] \in Text
  BY ElementOfSeq
<1>2. PICK out : out = Append(gone, left[1])
  OBVIOUS
<1>3. /\ out \in Seq(Text) /\ Len(out) = Len(gone) + 1
      /\ \A i \in 1..Len(gone) : out[i] = gone[i]
      /\ out[Len(gone) + 1] = left[1]
  BY <1>1, <1>2, AppendProperties
<1>4. PICK rest : rest = Tail(left)
  OBVIOUS
<1>5. /\ rest \in Seq(Text) /\ Len(rest) = Len(left) - 1
      /\ \A i \in 1..Len(rest) : rest[i] = left[i + 1]
  BY <1>4
<1>6. out \o rest \in Seq(Text) /\ gone \o left \in Seq(Text)
  BY <1>3, <1>5, ConcatProperties
<1>7. Len(out \o rest) = Len(gone \o left)
  <2>1. Len(out \o rest) = Len(out) + Len(rest)
    BY <1>3, <1>5, ConcatProperties
  <2>2. Len(gone \o left) = Len(gone) + Len(left)
    BY ConcatProperties
  <2>3. Len(gone) \in Nat /\ Len(left) \in Nat
    OBVIOUS
  <2> QED
    BY <1>3, <1>5, <2>1, <2>2, <2>3
<1>8. \A i \in 1..Len(gone \o left) : (out \o rest)[i] = (gone \o left)[i]
  BY <1>3, <1>5
<1>9. out \o rest = gone \o left
  BY <1>6, <1>7, <1>8, SeqEqual
<1> QED
  BY <1>2, <1>3, <1>4, <1>9

LEMMA PostPieced ==
    ASSUME Pieced, Post
    PROVE  Pieced'
<1>1. PICK out : out = Append(send.out, send.left[1])
  OBVIOUS
<1>2. /\ send \in Send /\ send.body \in Bodies
      /\ send.left \in Seq(Text) /\ Len(send.left) >= 1 /\ send.out \in Seq(Text)
  BY DEF Pieced, SendTyped, Post, Send
<1>3. out \in Seq(Text) /\ out \o Tail(send.left) = send.out \o send.left
  <2>1. PICK left : left = send.left
    OBVIOUS
  <2>2. PICK gone : gone = send.out
    OBVIOUS
  <2>3. left \in Seq(Text) /\ gone \in Seq(Text) /\ Len(left) >= 1 /\ out = Append(gone, left[1])
    BY <1>1, <1>2, <2>1, <2>2
  <2>4. out \in Seq(Text) /\ out \o Tail(left) = gone \o left
    BY <2>3, OneMoreOut
  <2> QED
    BY <2>1, <2>2, <2>4
<1>4. send' = [send EXCEPT !.at = "record", !.out = out] /\ "record" \in Steps
  BY <1>1 DEF Post, Steps
<1>5. Moved(send', send, "record", send.left, out)
  BY <1>2, <1>3, <1>4, SendMovesOut, Zenon
<1>6. send.at = "post"
  BY DEF Post
<1> QED
  BY <1>2, <1>3, <1>5, <1>6 DEF Moved, Pieced, SendTyped, PiecesInOrder

LEMMA AfterPiecePieced ==
    ASSUME Pieced, RecordOutbound
    PROVE  Pieced'
<1>1. /\ send \in Send /\ send.body \in Bodies
      /\ send.left \in Seq(Text) /\ Len(send.left) >= 1
  BY DEF Pieced, SendTyped, Send, RecordOutbound
<1>2. send.at = "record" /\ AfterPiece
  BY DEF RecordOutbound
<1>3. CASE Len(send.left) > 1
  <2>1. PICK left : left = Tail(send.left)
    OBVIOUS
  <2>2. left \in Seq(Text) /\ Len(left) >= 1
    BY <1>1, <1>3, <2>1
  <2>3. send' = [send EXCEPT !.left = left, !.at = "post"] /\ "post" \in Steps
    BY <1>2, <1>3, <2>1 DEF AfterPiece, Steps
  <2>4. Moved(send', send, "post", left, send.out)
    BY <1>1, <2>2, <2>3, SendMovesLeft, Zenon
  <2> QED
    BY <1>1, <1>2, <2>1, <2>2, <2>4 DEF Moved, Pieced, SendTyped, PiecesInOrder
<1>4. CASE ~(Len(send.left) > 1) /\ send.kind = "audio" /\ send.body # <<>>
  <2>1. PICK left : left = SplitText[send.body]
    OBVIOUS
  <2>2. left \in Seq(Text) /\ Len(left) >= 1
    BY <1>1, <2>1, SplitTyped
  <2>3. send' = [send EXCEPT !.at = "window", !.kind = "caption", !.left = left]
    BY <1>2, <1>4, <2>1 DEF AfterPiece
  <2>4. Captioned(send', send, left)
    BY <1>1, <2>2, <2>3, SendMovesCaption, Zenon
  <2>5. send.by # "panel"
    BY <1>2, <1>4 DEF Pieced, PiecesInOrder
  <2> QED
    BY <1>1, <2>2, <2>4, <2>5 DEF Captioned, Pieced, SendTyped, PiecesInOrder
<1>5. CASE ~(Len(send.left) > 1) /\ ~(send.kind = "audio" /\ send.body # <<>>)
  BY <1>2, <1>5, NoSendPieced DEF AfterPiece, Return
<1> QED
  BY <1>3, <1>4, <1>5

LEMMA AskPieced ==
    ASSUME NEW by \in {"worker", "panel"}, NEW kind \in Kinds, NEW body \in Bodies,
           Ask(by, kind, body)
    PROVE  Pieced'
<1>1. PICK left : left = CASE kind = "text" -> SplitText[body]
                           [] kind = "file" -> <<body>>
                           [] OTHER -> <<<<>>>>
  OBVIOUS
<1>2. left \in Seq(Text) /\ Len(left) >= 1
  <2>1. body \in Text /\ <<>> \in Text
    BY OutboundAssumption DEF Text
  <2>2. <<body>> \in Seq(Text) /\ <<<<>>>> \in Seq(Text)
    BY <2>1
  <2>3. Len(<<body>>) = 1 /\ Len(<<<<>>>>) = 1
    BY Single
  <2> QED
    BY <1>1, <2>2, <2>3, SplitTyped
<1>3. /\ send' \in Send /\ send'.at = "guard" /\ send'.by = by /\ send'.kind = kind
      /\ send'.body = body /\ send'.left = left /\ send'.out = <<>>
  BY <1>1, <1>2, AskedSend, Zenon DEF Ask
<1>4. <<>> \o left = left
  BY <1>2
<1>5. by = "panel" => left = SplitText[body] /\ kind = "text" /\ body # <<>>
  BY <1>1 DEF Ask
<1> QED
  BY <1>2, <1>3, <1>4, <1>5 DEF Pieced, SendTyped, PiecesInOrder

LEMMA GuardPieced ==
    ASSUME Pieced, ReadPause \/ ReadState \/ GuardFailsOpen \/ WindowOpen
    PROVE  Pieced'
<1>1. send \in Send
  BY DEF Pieced, SendTyped
<1>2. CASE send' = NoSend
  BY <1>2, NoSendPieced
<1>3. ASSUME NEW step \in {"confirm", "window", "post"}, Goto(step),
             send.at \in {"guard", "confirm", "window"}
      PROVE  Pieced'
  <2>1. step \in Steps /\ step \notin {"idle", "record"}
    BY DEF Steps
  <2>2. Moved(send', send, step, send.left, send.out)
    BY <1>1, <1>3, <2>1, SendMoves, Zenon DEF Goto
  <2> QED
    BY <1>3, <2>1, <2>2, MovedPieced
<1>4. CASE GuardFailsOpen
  <2>1. "window" \in Steps /\ send.at \in {"guard", "confirm"}
    BY <1>4 DEF Steps, GuardFailsOpen
  <2>2. send' = [send EXCEPT !.at = "window", !.unread = TRUE] /\ TRUE \in BOOLEAN
    BY <1>4 DEF GuardFailsOpen
  <2>3. Moved(send', send, "window", send.left, send.out)
    BY <1>1, <2>1, <2>2, SendMovesUnread, Zenon
  <2> QED
    BY <2>1, <2>3, MovedPieced
<1> QED
  BY <1>2, <1>3, <1>4 DEF ReadPause, ReadState, WindowOpen, Suppress, Return

LEMMA PiecedStep == Pieced /\ [Next]_vars => Pieced'
<1> SUFFICES ASSUME Pieced, [Next]_vars PROVE Pieced'
  OBVIOUS
<1>1. ASSUME Sending PROVE Pieced'
  <2>1. CASE ReadPause \/ ReadState \/ GuardFailsOpen \/ WindowOpen
    BY <2>1, GuardPieced
  <2>2. CASE WindowClosed \/ PostFails
    BY <2>2, NoSendPieced DEF WindowClosed, PostFails, Return
  <2>3. CASE Post
    BY <2>3, PostPieced
  <2>4. CASE RecordOutbound
    BY <2>4, AfterPiecePieced
  <2>5. CASE PanelGivesUp
    BY <2>5, SameSendPieced DEF PanelGivesUp
  <2> QED
    BY <1>1, <2>1, <2>2, <2>3, <2>4, <2>5 DEF Sending
<1>2. ASSUME NEW by \in {"worker", "panel"}, NEW kind \in Kinds \ {"caption"}, NEW body \in Bodies,
             Ask(by, kind, body)
      PROVE  Pieced'
  BY <1>2, AskPieced
<1>3. ASSUME Breaking PROVE Pieced'
  BY <1>3, NoSendPieced, SameSendPieced DEF Breaking
<1>4. ASSUME \/ (Watchdog /\ UNCHANGED sendVars) \/ Time \/ Reporting \/ DryRun
             \/ \E sort \in {"text", "sticker"} : CustomerWrites(sort)
             \/ OpenWindow \/ WindowEnds \/ KeyExpires \/ UNCHANGED vars
      PROVE  send' = send
  BY <1>4 DEF Time, Reporting, ApplyStatus, DryRun, CustomerWrites, OpenWindow, WindowEnds,
              KeyExpires, Elsewhere, vars, sendVars
<1> QED
  BY <1>1, <1>2, <1>3, <1>4, SameSendPieced DEF Next

LEMMA PiecedStarts == Init => Pieced
<1> SUFFICES ASSUME Init PROVE Pieced
  OBVIOUS
<1>1. send \in Send /\ send.at = "idle"
  BY NoSendTyped, Zenon DEF NoSend, Init
<1> QED
  BY <1>1 DEF Pieced, SendTyped, PiecesInOrder

LEMMA CountsStep == CountsOK /\ [Next]_vars => CountsOK'
<1> SUFFICES ASSUME CountsOK, [Next]_vars PROVE CountsOK'
  OBVIOUS
<1> USE DEF CountsOK
<1>1. ASSUME Sending PROVE CountsOK'
  BY <1>1 DEF Sending, ReadPause, ReadState, GuardFailsOpen, WindowOpen, WindowClosed, Post,
              PostFails, RecordOutbound, PanelGivesUp, Queues, Suppress, Return, AfterPiece
<1>2. ASSUME NEW by, NEW kind, NEW body, Ask(by, kind, body) PROVE CountsOK'
  BY <1>2, OutboundAssumption DEF Ask
<1>3. ASSUME DryRun PROVE CountsOK'
  BY <1>3, OutboundAssumption DEF DryRun
<1>4. ASSUME NEW sort, CustomerWrites(sort) PROVE CountsOK'
  BY <1>4, OutboundAssumption DEF CustomerWrites, Elsewhere
<1>5. ASSUME \/ (Watchdog /\ UNCHANGED sendVars) \/ Time \/ Reporting \/ Breaking
             \/ OpenWindow \/ WindowEnds \/ KeyExpires \/ UNCHANGED vars
      PROVE  CountsOK'
  BY <1>5 DEF Time, Reporting, ApplyStatus, Breaking, OpenWindow, WindowEnds,
              KeyExpires, Elsewhere, vars, sendVars
<1> QED
  BY <1>1, <1>2, <1>3, <1>4, <1>5 DEF Next

\* Every variable keeps its type: above all, what is left of a text is never used up
\* before the send is over, and only messages of the program's own texts are sent.
THEOREM TypeCorrect == Spec => []TypeOK
<1>1. Init => CountsOK
  BY OutboundAssumption DEF Init, CountsOK
<1>2. Spec => []CountsOK
  BY <1>1, CountsStep, PTL DEF Spec
<1>3. Spec => []Pieced
  BY PiecedStarts, PiecedStep, PTL DEF Spec
<1>4. Spec => []WindowIsKnown
  BY WindowStarts, WindowStep, PTL DEF Spec
<1>5. IInv /\ CountsOK /\ Pieced /\ WindowIsKnown => TypeOK
  BY BreakerTyped
  DEF IInv, MailOK, CountsOK, Pieced, SendTyped, Send, WindowIsKnown, TypeOK
<1> QED
  BY <1>2, <1>3, <1>4, <1>5, Invariant, PTL

\* When the panel is told "sent", what was handed over is what the split made of the
\* text, piece by piece; and of any text the split makes pieces that Meta accepts and
\* that leave out nothing but line breaks between them.
THEOREM PanelToldTheTruth == Spec => PanelTruth
<1>1. ASSUME Pieced, [Next]_vars, send.by = "panel", told # "sent", told' = "sent"
      PROVE  send.body \in Bodies \ {<<>>} /\ send.out = SplitText[send.body]
  <2>1. send \in Send /\ send # NoSend
    <3>1. NoSend.by = "worker"
      BY NoSendTyped, Zenon DEF NoSend
    <3> QED
      BY <1>1, <3>1 DEF Pieced, SendTyped
  <2>2. ASSUME Sending PROVE RecordOutbound /\ Return("sent")
    <3>1. ~ReadPause /\ ~ReadState /\ ~GuardFailsOpen /\ ~WindowOpen /\ ~Post /\ ~PanelGivesUp
      BY <1>1 DEF ReadPause, ReadState, GuardFailsOpen, WindowOpen, Post, PanelGivesUp,
                  Suppress, Return
    <3>2. send.kind # "caption" \/ send.at = "idle"
      BY <1>1 DEF Pieced, PiecesInOrder
    <3>3. ~WindowClosed /\ ~PostFails
      BY <1>1, <3>2 DEF WindowClosed, PostFails, Return
    <3>4. RecordOutbound
      BY <2>2, <3>1, <3>3 DEF Sending
    <3> QED
      BY <1>1, <3>4 DEF RecordOutbound, AfterPiece
  <2>3. Sending
    <3>1. ~(\E by, kind, body : Ask(by, kind, body)) /\ ~DryRun
      BY <2>1 DEF Ask, DryRun
    <3>2. ASSUME \/ (Watchdog /\ UNCHANGED sendVars) \/ Time \/ Reporting \/ Breaking
                 \/ \E sort \in {"text", "sticker"} : CustomerWrites(sort)
                 \/ OpenWindow \/ WindowEnds \/ KeyExpires \/ UNCHANGED vars
          PROVE  told' = told
      BY <3>2 DEF Time, Reporting, ApplyStatus, Breaking, CustomerWrites, OpenWindow, WindowEnds,
                  KeyExpires, Elsewhere, vars, sendVars
    <3> QED
      BY <1>1, <3>1, <3>2 DEF Next
  <2>4. send.at = "record" /\ ~(Len(send.left) > 1)
    <3>1. send' = NoSend /\ send.at = "record" /\ AfterPiece
      BY <2>2, <2>3 DEF RecordOutbound, Return
    <3>2. ASSUME Len(send.left) > 1 PROVE FALSE
      <4>1. PICK left : left = Tail(send.left)
        OBVIOUS
      <4>2. left \in Seq(Text) /\ "post" \in Steps /\ send \in Send
        BY <2>1, <3>2, <4>1 DEF Send, Steps
      <4>3. Moved(send', send, "post", left, send.out)
        <5>1. send' = [send EXCEPT !.left = left, !.at = "post"]
          BY <3>1, <3>2, <4>1 DEF AfterPiece
        <5> QED
          BY <4>2, <5>1, SendMovesLeft, Zenon
      <4>4. send'.at = "idle"
        BY <3>1, NoSendTyped, Zenon DEF NoSend
      <4> QED
        BY <4>3, <4>4 DEF Moved
    <3> QED
      BY <3>1, <3>2
  <2>5. /\ send.body \in Bodies \ {<<>>} /\ send.left \in Seq(Text) /\ Len(send.left) = 1
        /\ send.out \in Seq(Text) /\ send.out \o Tail(send.left) = SplitText[send.body]
    <3>1. send.at # "idle"
      BY <2>4
    <3> QED
      <4>1. /\ send.body \in Bodies \ {<<>>} /\ send.left \in Seq(Text) /\ Len(send.left) >= 1
            /\ send.out \in Seq(Text)
        BY <1>1, <3>1 DEF Pieced, SendTyped, PiecesInOrder, Send
      <4>2. Len(send.left) = 1
        <5>1. PICK n : n = Len(send.left)
          OBVIOUS
        <5>2. n \in Nat /\ n >= 1 /\ ~(n > 1)
          BY <2>4, <4>1, <5>1, LenProperties
        <5>3. n = 1
          BY <5>2
        <5> QED
          BY <5>1, <5>3
      <4>3. send.out \o Tail(send.left) = SplitText[send.body]
        BY <1>1, <2>4, <3>1 DEF Pieced, PiecesInOrder
      <4> QED
        BY <4>1, <4>2, <4>3
  <2>6. PICK left : left = send.left
    OBVIOUS
  <2>7. PICK out : out = send.out
    OBVIOUS
  <2>8. Tail(left) = <<>>
    <3>1. left \in Seq(Text) /\ Len(left) = 1
      BY <2>5, <2>6
    <3>2. left # <<>>
      BY <3>1
    <3>3. Tail(left) \in Seq(Text) /\ Len(Tail(left)) = 0
      BY <3>1, <3>2, HeadTailProperties
    <3> QED
      BY <3>3, EmptySeq
  <2>9. out \o <<>> = out
    BY <2>5, <2>7, ConcatEmptySeq
  <2> QED
    BY <2>5, <2>6, <2>7, <2>8, <2>9
<1>2. ASSUME NEW body \in Bodies \ {<<>>}
      PROVE  /\ Tells(SplitText[body], body)
             /\ \A i \in DOMAIN SplitText[body] : Len(SplitText[body][i]) \in 1..TextLimit
  <2>1. body \in Text \ {<<>>}
    BY OutboundAssumption
  <2> QED
    BY <2>1, SplitWhole DEF Whole
<1>3. Pieced /\ [Next]_vars =>
        [send.by = "panel" /\ told # "sent" /\ told' = "sent" =>
           /\ Tells(send.out, send.body)
           /\ \A i \in DOMAIN send.out : Len(send.out[i]) \in 1..TextLimit]_vars
  BY <1>1, <1>2
<1> QED
  BY <1>3, PiecedStarts, PiecedStep, PTL DEF Spec, PanelTruth

=============================================================================
